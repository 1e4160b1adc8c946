-------------------------- MODULE LoadSetupProofs --------------------------
(***************************************************************************)
(* Several clients set up a load, for every number of clients, any of the  *)
(* systems and any flags.  What a client will still do is known from the   *)
(* statements left in its script, so the invariants speak of these:        *)
(* whatever its place, executing the first leaves the others.              *)
(***************************************************************************)
EXTENDS LoadSetup, FiniteSetTheorems, TLAPS

-----------------------------------------------------------------------------
(* The invariants. *)

PcStates == {"start", "exists", "remove", "create", "post", "load", "loading", "done", "failed"}

DropsOfTables == {"drop table", "drop table if there"}
CreationsOfTables == {"create table", "create table if not there"}
Creations == {"create database", "create database if not there"}

Statements ==
    [do : DropsOfTables \cup CreationsOfTables \cup {"learn"}, table : Tables]
    \cup [do : Creations \cup {"drop database", "list", "refuse", "join", "connect"}, table : {""}]

TypeOK ==
    /\ system \in AllSystems
    /\ flags \in [Clients -> [load : BOOLEAN, create : BOOLEAN, abort : BOOLEAN, tables : BOOLEAN]]
    /\ base \in BOOLEAN
    /\ tables \in [DOMAIN tables -> SUBSET (Clients \cup {Old})]
    /\ DOMAIN tables \subseteq Tables
    /\ refused \in BOOLEAN
    /\ pc \in [Clients -> PcStates]
    /\ script \in [Clients -> Seq(Statements)]
    /\ header \in [Clients -> BOOLEAN]
    /\ known \in [Clients -> SUBSET Tables]
    /\ session \in [Clients -> BOOLEAN]

\* What the statements of a method are.
InRemoval(s) ==
    /\ s.do \in DropsOfTables \cup {"drop database", "list", "refuse"}
    /\ s.do = "drop database" => system # "mongo"
InCreation(s) == s.do \in CreationsOfTables \cup Creations \cup {"learn", "join"}
InPost(c, s) ==
    \/ s.do \in {"drop table if there", "create table"}
       /\ system = "timescaledb" /\ flags[c].tables
    \/ s.do = "learn" /\ system = "timescaledb"
    \/ s.do = "connect" /\ system = "cassandra"

\* Each method is called with the flags that ask for it, and sends statements of its own.
MethodOf(c) ==
    /\ pc[c] \in {"exists", "remove", "create", "post", "loading"} => flags[c].load
    /\ pc[c] = "remove" =>
           /\ flags[c].create /\ ~flags[c].abort
           /\ \A s \in Range(script[c]) : InRemoval(s)
    /\ pc[c] = "create" =>
           /\ flags[c].create
           /\ \A s \in Range(script[c]) : InCreation(s)
           /\ system = "timescaledb" => \A s \in Range(script[c]) : s.do = "create database"
    /\ pc[c] = "post" => \A s \in Range(script[c]) : InPost(c, s)
    /\ pc[c] \notin {"remove", "create", "post"} => script[c] = <<>>

Methods == \A c \in Clients : MethodOf(c)

\* Tables are in the database.
TablesNeedBase == ~base => DOMAIN tables = {}

IInv == TypeOK /\ Methods /\ TablesNeedBase
-----------------------------------------------------------------------------
(* Scripts. *)

\* Taking the first statement of a script leaves the others.
LEMMA Parts ==
    ASSUME NEW S, NEW s \in Seq(S), s # <<>>
    PROVE  /\ Head(s) \in S
           /\ Tail(s) \in Seq(S)
           /\ Range(s) = {Head(s)} \cup Range(Tail(s))
           /\ Len(s) \in Nat \ {0}
           /\ \A i \in DOMAIN Tail(s) :
                  i \in Nat \ {0} /\ i + 1 \in DOMAIN s /\ Tail(s)[i] = s[i + 1]
           /\ \A i \in DOMAIN s :
                  i \in Nat /\ (i # 1 => i - 1 \in DOMAIN Tail(s) /\ s[i] = Tail(s)[i - 1])
<1>1. Len(s) \in Nat \ {0} /\ DOMAIN s = 1..Len(s) /\ Head(s) = s[1]
  OBVIOUS
<1>2. Tail(s) \in Seq(S) /\ DOMAIN Tail(s) = 1..(Len(s) - 1)
  OBVIOUS
<1>3. \A i \in 1..(Len(s) - 1) : Tail(s)[i] = s[i + 1]
  OBVIOUS
<1>4. ASSUME NEW i \in DOMAIN s, i # 1
      PROVE  i - 1 \in DOMAIN Tail(s) /\ s[i] = Tail(s)[i - 1]
  <2>1. i - 1 \in 1..(Len(s) - 1) /\ (i - 1) + 1 = i
    BY <1>1, <1>4
  <2> QED
    BY <1>2, <1>3, <2>1
<1>5. ASSUME NEW i \in DOMAIN Tail(s)
      PROVE  i \in Nat \ {0} /\ i + 1 \in DOMAIN s /\ Tail(s)[i] = s[i + 1]
  BY <1>1, <1>2, <1>3
<1>6. Range(s) = {Head(s)} \cup Range(Tail(s))
  <2>1. ASSUME NEW x \in Range(s) PROVE x \in {Head(s)} \cup Range(Tail(s))
    BY <1>1, <1>4, <2>1 DEF Range
  <2>2. ASSUME NEW x \in {Head(s)} \cup Range(Tail(s)) PROVE x \in Range(s)
    BY <1>1, <1>5, <2>2 DEF Range
  <2> QED
    BY <2>1, <2>2
<1> QED
  BY <1>1, <1>2, <1>4, <1>5, <1>6

\* One method after another.
LEMMA Joined ==
    ASSUME NEW S, NEW s \in Seq(S), NEW t \in Seq(S)
    PROVE  s \o t \in Seq(S) /\ Range(s \o t) = Range(s) \cup Range(t)
<1>1. s \o t \in Seq(S) /\ DOMAIN (s \o t) = 1..(Len(s) + Len(t))
  OBVIOUS
<1>2. \A i \in 1..(Len(s) + Len(t)) : (s \o t)[i] = IF i <= Len(s) THEN s[i] ELSE t[i - Len(s)]
  OBVIOUS
<1>3. DOMAIN s = 1..Len(s) /\ DOMAIN t = 1..Len(t) /\ Len(s) \in Nat /\ Len(t) \in Nat
  OBVIOUS
<1>4. ASSUME NEW x \in Range(s \o t) PROVE x \in Range(s) \cup Range(t)
  <2>1. PICK i \in 1..(Len(s) + Len(t)) : x = (s \o t)[i]
    BY <1>1, <1>4 DEF Range
  <2>2. CASE i <= Len(s)
    BY <1>2, <1>3, <2>1, <2>2 DEF Range
  <2>3. CASE i > Len(s)
    <3>1. i - Len(s) \in DOMAIN t /\ x = t[i - Len(s)]
      BY <1>2, <1>3, <2>1, <2>3
    <3> QED
      BY <3>1 DEF Range
  <2> QED
    BY <1>3, <2>2, <2>3
<1>5. ASSUME NEW i \in DOMAIN s PROVE s[i] \in Range(s \o t)
  <2>1. i \in DOMAIN (s \o t) /\ (s \o t)[i] = s[i]
    BY <1>1, <1>2, <1>3
  <2> QED
    BY <2>1 DEF Range
<1>6. ASSUME NEW i \in DOMAIN t PROVE t[i] \in Range(s \o t)
  <2>1. Len(s) + i \in DOMAIN (s \o t) /\ (s \o t)[Len(s) + i] = t[i]
    BY <1>1, <1>2, <1>3
  <2> QED
    BY <2>1 DEF Range
<1> QED
  BY <1>1, <1>4, <1>5, <1>6 DEF Range

\* Methods of one or two statements, or none.
LEMMA None ==
    ASSUME NEW S
    PROVE  <<>> \in Seq(S) /\ Range(<<>>) = {}
BY DEF Range

LEMMA Single ==
    ASSUME NEW S, NEW a \in S
    PROVE  <<a>> \in Seq(S) /\ Range(<<a>>) = {a}
BY DEF Range

LEMMA Pair ==
    ASSUME NEW S, NEW a \in S, NEW b \in S
    PROVE  <<a, b>> \in Seq(S) /\ Range(<<a, b>>) = {a, b}
<1>1. DOMAIN <<a, b>> = {1, 2} /\ <<a, b>>[1] = a /\ <<a, b>>[2] = b
  OBVIOUS
<1> QED
  BY <1>1 DEF Range

\* SetToSeq lists the elements of a finite set.
LEMMA Listing ==
    ASSUME NEW S, IsFiniteSet(S)
    PROVE  /\ SetToSeq(S) \in Seq(S) /\ Range(SetToSeq(S)) = S
           /\ IsInjective(SetToSeq(S))
<1> DEFINE n == Cardinality(S)
<1>1. n \in Nat /\ ExistsBijection(1..n, S)
  BY FS_CardinalityType
<1>2. \E f \in [1..n -> S] : IsInjective(f)
  BY <1>1 DEF ExistsBijection, Bijection, Injection
<1>3. SetToSeq(S) \in [1..n -> S] /\ IsInjective(SetToSeq(S))
  BY <1>2 DEF SetToSeq
<1>4. SetToSeq(S) \in Injection(1..n, S)
  BY <1>3 DEF Injection
<1>5. Cardinality(1..n) = n
  BY <1>1, FS_Interval
<1>6. SetToSeq(S) \in Surjection(1..n, S)
  BY <1>4, <1>5, FS_Injection
<1>7. Range(SetToSeq(S)) = S
  BY <1>3, <1>6 DEF Surjection, Range
<1>8. SetToSeq(S) \in Seq(S)
  BY <1>1, <1>3
<1> QED
  BY <1>3, <1>7, <1>8
-----------------------------------------------------------------------------
(* The methods. *)

\* The tables of each system.
LEMMA TablesAre ==
    /\ IsFiniteSet(Tables)
    /\ system = "timescaledb" => Tables = {"tags", "metrics"}
    /\ system = "clickhouse" => Tables = {"tags", "metrics"}
    /\ system = "cassandra" => Tables = {"series"}
<1>1. IsFiniteSet({"tags", "metrics"})
  BY FS_Singleton, FS_AddElement, IsFiniteSet({"tags"}), {"tags", "metrics"} = {"tags"} \cup {"metrics"}
<1> QED
  BY <1>1, FS_Singleton DEF Tables

\* A statement that is about no table, alone.
LEMMA GeneralStatement ==
    ASSUME NEW do \in Creations \cup {"drop database", "list", "refuse", "join", "connect"}
    PROVE  /\ Statement(do, "") \in Statements
           /\ Statement(do, "").do = do
           /\ <<Statement(do, "")>> \in Seq(Statements)
           /\ Range(<<Statement(do, "")>>) = {Statement(do, "")}
<1>1. Statement(do, "") \in Statements /\ Statement(do, "").do = do
  BY DEF Statements, Statement
<1> QED
  BY <1>1, Single

\* A statement about a table.
LEMMA TableStatement ==
    ASSUME NEW do \in DropsOfTables \cup CreationsOfTables \cup {"learn"}, NEW t \in Tables
    PROVE  /\ Statement(do, t) \in Statements
           /\ Statement(do, t).do = do
           /\ Statement(do, t).table = t
BY DEF Statements, Statement

\* A statement on each of some tables.
LEMMA EachSays ==
    ASSUME NEW do \in DropsOfTables \cup CreationsOfTables, NEW ts \in SUBSET Tables
    PROVE  /\ Each(do, ts) \in Seq(Statements)
           /\ Range(Each(do, ts)) = {Statement(do, t) : t \in ts}
           /\ IsInjective(Each(do, ts))
<1> DEFINE T == {Statement(do, t) : t \in ts}
<1>1. IsFiniteSet(ts)
  BY TablesAre, FS_Subset
<1>2. IsFiniteSet(T)
  <2> DEFINE f == [t \in ts |-> Statement(do, t)]
  <2>1. f \in Surjection(ts, T)
    BY DEF Surjection
  <2> QED
    BY <1>1, <2>1, FS_Surjection
<1>3. Each(do, ts) \in Seq(T) /\ Range(Each(do, ts)) = T /\ IsInjective(Each(do, ts))
  BY <1>2, Listing DEF Each
<1>4. T \subseteq Statements
  BY TableStatement
<1> QED
  BY <1>3, <1>4

\* What a removal says: all that is there will go.
Removes(s, t) ==
    \/ s.do \in {"drop database", "list", "refuse"}
    \/ s.do \in DropsOfTables /\ s.table = t

LEMMA RemovalSays ==
    ASSUME TypeOK
    PROVE  /\ RemoveOldDB \in Seq(Statements)
           /\ \A s \in Range(RemoveOldDB) : InRemoval(s)
           /\ system # "redistimeseries" =>
                  \A t \in Tables : \E s \in Range(RemoveOldDB) : Removes(s, t)
<1>1. ASSUME NEW do \in {"list", "refuse", "drop database"}, RemoveOldDB = <<Statement(do, "")>>,
             do = "drop database" => system # "mongo"
      PROVE  /\ RemoveOldDB \in Seq(Statements)
             /\ \A s \in Range(RemoveOldDB) : InRemoval(s)
             /\ \A t \in Tables : \E s \in Range(RemoveOldDB) : Removes(s, t)
  <2>1. /\ RemoveOldDB \in Seq(Statements)
        /\ Range(RemoveOldDB) = {Statement(do, "")}
        /\ Statement(do, "").do = do
    BY <1>1, GeneralStatement
  <2> QED
    BY <1>1, <2>1 DEF InRemoval, Removes
<1>2. CASE system \in {"cratedb", "mongo"}
  BY <1>1, <1>2 DEF RemoveOldDB
<1>3. CASE system = "siridb"
  BY <1>1, <1>3 DEF RemoveOldDB
<1>4. CASE system = "redistimeseries"
  <2>1. RemoveOldDB = <<>>
    BY <1>4 DEF RemoveOldDB
  <2> QED
    BY <1>4, <2>1, None
<1>5. CASE system \notin {"cratedb", "mongo", "siridb", "redistimeseries"}
  BY <1>1, <1>5 DEF RemoveOldDB, DropDatabase
<1> QED
  BY <1>2, <1>3, <1>4, <1>5

\* The drops that follow a list.
LEMMA DropsSay ==
    ASSUME TypeOK, NEW drops \in {DropListed, DropCollections}
    PROVE  /\ drops \in Seq(Statements)
           /\ \A s \in Range(drops) : InRemoval(s)
           /\ \A t \in DOMAIN tables : \E s \in Range(drops) : Removes(s, t)
<1>1. PICK do \in DropsOfTables : drops = Each(do, DOMAIN tables)
  BY DEF DropListed, DropCollections, DropsOfTables
<1>2. drops \in Seq(Statements) /\ Range(drops) = {Statement(do, t) : t \in DOMAIN tables}
  BY <1>1, EachSays DEF TypeOK
<1>3. \A t \in DOMAIN tables : Statement(do, t).do = do /\ Statement(do, t).table = t
  BY TableStatement DEF TypeOK
<1> QED
  BY <1>2, <1>3 DEF InRemoval, Removes, DropsOfTables

\* What a creation says.
LEMMA CreationSays ==
    ASSUME TypeOK
    PROVE  /\ CreateDB \in Seq(Statements)
           /\ \A s \in Range(CreateDB) : InCreation(s)
           /\ system = "timescaledb" =>
                  Range(CreateDB) = {Statement("create database", "")}
           /\ system \in {"cassandra", "siridb"} =>
                  Statement("create database", "") \in Range(CreateDB)
           /\ system = "clickhouse" =>
                  \A t \in Tables : Statement("learn", t) \in Range(CreateDB)
<1>1. /\ CreateDatabase \in Seq(Statements)
      /\ Range(CreateDatabase) = {Statement("create database", "")}
      /\ InCreation(Statement("create database", ""))
  BY GeneralStatement DEF CreateDatabase, Creations, InCreation
<1>2. ASSUME NEW do \in CreationsOfTables
      PROVE  /\ Each(do, Tables) \in Seq(Statements)
             /\ \A s \in Range(Each(do, Tables)) : InCreation(s)
  <2>1. \A t \in Tables : InCreation(Statement(do, t))
    BY TableStatement DEF InCreation
  <2> QED
    BY <2>1, EachSays
<1>3. CASE system = "clickhouse"
  <2>1. ASSUME NEW t \in Tables
        PROVE  /\ Statement("create table", t) \in Statements
               /\ Statement("learn", t) \in Statements
               /\ InCreation(Statement("create table", t))
               /\ InCreation(Statement("learn", t))
    BY TableStatement DEF InCreation, CreationsOfTables
  <2>2. "tags" \in Tables /\ "metrics" \in Tables
    BY <1>3, TablesAre
  <2>3. ClickHouseTags \in Seq(Statements)
        /\ Range(ClickHouseTags) = {Statement("create table", "tags"), Statement("learn", "tags")}
    BY <2>1, <2>2, Pair DEF ClickHouseTags
  <2>4. ClickHouseMetrics \in Seq(Statements)
        /\ Range(ClickHouseMetrics)
               = {Statement("learn", "metrics"), Statement("create table", "metrics")}
    BY <2>1, <2>2, Pair DEF ClickHouseMetrics
  <2> DEFINE first == CreateDatabase \o ClickHouseTags
  <2>5. first \in Seq(Statements) /\ Range(first) = Range(CreateDatabase) \cup Range(ClickHouseTags)
    BY <1>1, <2>3, Joined
  <2>6. CreateDB = first \o ClickHouseMetrics
    BY <1>3 DEF CreateDB, CreateClickHouse
  <2> HIDE DEF first
  <2>7. CreateDB \in Seq(Statements) /\ Range(CreateDB) = Range(first) \cup Range(ClickHouseMetrics)
    <3>1. first \in Seq(Statements) /\ ClickHouseMetrics \in Seq(Statements)
      BY <2>4, <2>5
    <3> QED
      BY <2>6, <3>1, Joined
  <2>8. Range(CreateDB) = Range(CreateDatabase) \cup Range(ClickHouseTags) \cup Range(ClickHouseMetrics)
    BY <2>5, <2>7
  <2>9. \A s \in Range(CreateDB) : InCreation(s)
    BY <1>1, <2>1, <2>2, <2>3, <2>4, <2>8
  <2>10. \A t \in Tables : Statement("learn", t) \in Range(CreateDB)
    BY <1>3, <2>3, <2>4, <2>8, TablesAre
  <2> QED
    BY <1>3, <2>7, <2>9, <2>10
<1>4. CASE system = "cassandra"
  <2> DEFINE families == Each("create table", Tables)
  <2>1. CreateDB = CreateDatabase \o families
    BY <1>4 DEF CreateDB, CreateCassandra
  <2>2. families \in Seq(Statements) /\ \A s \in Range(families) : InCreation(s)
    BY <1>2 DEF CreationsOfTables
  <2> HIDE DEF families
  <2>3. CreateDB \in Seq(Statements) /\ Range(CreateDB) = Range(CreateDatabase) \cup Range(families)
    <3>1. CreateDatabase \in Seq(Statements) /\ families \in Seq(Statements)
      BY <1>1, <2>2
    <3> QED
      BY <2>1, <3>1, Joined
  <2> QED
    BY <1>1, <1>4, <2>2, <2>3
<1>5. CASE system = "cratedb"
  <2>1. CreateDB = Each("create table", Tables)
    BY <1>5 DEF CreateDB, CreateCrate
  <2> QED
    BY <1>2, <1>5, <2>1 DEF CreationsOfTables
<1>6. CASE system = "mongo"
  <2>1. CreateDB = Each("create table if not there", Tables)
    BY <1>6 DEF CreateDB, CreateMongo
  <2> QED
    BY <1>2, <1>6, <2>1 DEF CreationsOfTables
<1>7. CASE system = "influx"
  <2>1. CreateDB = <<Statement("create database if not there", "")>>
    BY <1>7 DEF CreateDB, CreateInflux
  <2>2. /\ CreateDB \in Seq(Statements)
        /\ Range(CreateDB) = {Statement("create database if not there", "")}
        /\ InCreation(Statement("create database if not there", ""))
    BY <2>1, GeneralStatement DEF InCreation, Creations
  <2> QED
    BY <1>7, <2>2
<1>8. CASE system = "siridb"
  <2> DEFINE join == <<Statement("join", "")>>
  <2>1. CreateDB = CreateDatabase \o join
    BY <1>8 DEF CreateDB, CreateSiri
  <2>2. /\ join \in Seq(Statements)
        /\ Range(join) = {Statement("join", "")}
        /\ InCreation(Statement("join", ""))
    BY GeneralStatement DEF InCreation
  <2> HIDE DEF join
  <2>3. CreateDB \in Seq(Statements) /\ Range(CreateDB) = Range(CreateDatabase) \cup Range(join)
    <3>1. CreateDatabase \in Seq(Statements) /\ join \in Seq(Statements)
      BY <1>1, <2>2
    <3> QED
      BY <2>1, <3>1, Joined
  <2> QED
    BY <1>1, <1>8, <2>2, <2>3
<1>9. CASE system = "redistimeseries"
  <2>1. CreateDB = <<>>
    BY <1>9 DEF CreateDB
  <2> QED
    BY <1>9, <2>1, None
<1>10. CASE system = "timescaledb"
  <2>1. CreateDB = CreateDatabase
    BY <1>10 DEF CreateDB
  <2> QED
    BY <1>1, <1>10, <2>1
<1> QED
  BY <1>3, <1>4, <1>5, <1>6, <1>7, <1>8, <1>9, <1>10 DEF TypeOK, AllSystems

\* Of the statements of a script, the table of metrics is made after the last drop.
MetricsLast(s) ==
    \A i, j \in DOMAIN s :
        s[i] = Statement("create table", "metrics") /\ s[j].do = "drop table if there" => j < i

\* What PostCreateDB says.
LEMMA PostSays ==
    ASSUME TypeOK, NEW c \in Clients
    PROVE  /\ PostCreateDB(c) \in Seq(Statements)
           /\ \A s \in Range(PostCreateDB(c)) : InPost(c, s)
           /\ system = "timescaledb" =>
                  \A t \in Tables : Statement("learn", t) \in Range(PostCreateDB(c))
           /\ system = "cassandra" => Statement("connect", "") \in Range(PostCreateDB(c))
           /\ MetricsLast(PostCreateDB(c))
<1> DEFINE learn == <<Statement("learn", "tags"), Statement("learn", "metrics")>>
<1>1. CASE system = "timescaledb" /\ flags[c].tables
  <2> DEFINE f == Statement("drop table if there", "metrics")
             g == Statement("create table", "metrics")
             x == Recreate("tags") \o learn
  <2>1. PostCreateDB(c) = x \o <<f, g>>
    BY <1>1 DEF PostCreateDB, PostTimescale, Recreate
  <2>2. Tables = {"tags", "metrics"}
    BY <1>1, TablesAre
  <2>3. ASSUME NEW t \in Tables
        PROVE  /\ Statement("drop table if there", t) \in Statements
               /\ Statement("drop table if there", t).do = "drop table if there"
               /\ Statement("create table", t) \in Statements
               /\ Statement("create table", t).do = "create table"
               /\ Statement("create table", t).table = t
               /\ Statement("learn", t) \in Statements
               /\ Statement("learn", t).do = "learn"
    BY TableStatement DEF DropsOfTables, CreationsOfTables
  <2>4. Recreate("tags") \in Seq(Statements)
        /\ Range(Recreate("tags"))
               = {Statement("drop table if there", "tags"), Statement("create table", "tags")}
    <3>1. /\ Statement("drop table if there", "tags") \in Statements
          /\ Statement("create table", "tags") \in Statements
      BY <2>2, <2>3
    <3> QED
      BY <3>1, Pair DEF Recreate
  <2>5. learn \in Seq(Statements)
        /\ Range(learn) = {Statement("learn", "tags"), Statement("learn", "metrics")}
    <3>1. Statement("learn", "tags") \in Statements /\ Statement("learn", "metrics") \in Statements
      BY <2>2, <2>3
    <3> QED
      BY <3>1, Pair
  <2> HIDE DEF learn
  <2>6. x \in Seq(Statements) /\ Range(x) = Range(Recreate("tags")) \cup Range(learn)
    BY <2>4, <2>5, Joined
  <2>7. /\ f \in Statements /\ f.do = "drop table if there"
        /\ g \in Statements /\ g.do = "create table"
    BY <2>2, <2>3
  <2>8. g \notin Range(x)
    BY <2>2, <2>3, <2>4, <2>5, <2>6
  <2> HIDE DEF f, g, x
  <2> DEFINE y == <<f, g>>
  <2>9. y \in Seq(Statements) /\ Range(y) = {f, g}
    BY <2>7, Pair
  <2>10. PostCreateDB(c) = x \o y
    BY <2>1
  <2>11. MetricsLast(PostCreateDB(c))
    <3> DEFINE s == PostCreateDB(c)
    <3>1. Len(x) \in Nat /\ DOMAIN x = 1..Len(x) /\ DOMAIN s = 1..(Len(x) + 2)
      BY <2>6, <2>10
    <3>2. s[Len(x) + 2] = g /\ s[Len(x) + 1] = f
      BY <2>6, <2>10
    <3>3. \A k \in 1..Len(x) : s[k] = x[k]
      BY <2>6, <2>10
    <3>4. \A k \in 1..Len(x) : s[k] # g
      BY <2>8, <3>1, <3>3 DEF Range
    <3> HIDE DEF s
    <3> SUFFICES ASSUME NEW i \in DOMAIN s, NEW j \in DOMAIN s,
                        s[i] = g, s[j].do = "drop table if there"
                 PROVE  j < i
      BY DEF MetricsLast, s, g
    <3>5. s[j] # g /\ s[i] # f
      BY <2>7
    <3>6. i = Len(x) + 2
      <4>1. i \in 1..(Len(x) + 2)
        BY <3>1
      <4>2. i \notin 1..Len(x)
        BY <3>4
      <4>3. i # Len(x) + 1
        BY <3>2, <3>5
      <4> QED
        BY ONLY <3>1, <4>1, <4>2, <4>3
    <3>7. j # Len(x) + 2 /\ j \in 1..(Len(x) + 2)
      BY <3>1, <3>2, <3>5
    <3> QED
      BY ONLY <3>1, <3>6, <3>7
  <2> HIDE DEF y
  <2>12. PostCreateDB(c) \in Seq(Statements) /\ Range(PostCreateDB(c)) = Range(x) \cup {f, g}
    <3>1. x \in Seq(Statements) /\ y \in Seq(Statements)
      BY <2>6, <2>9
    <3> QED
      BY <2>9, <2>10, <3>1, Joined
  <2>13. Range(PostCreateDB(c)) = Range(Recreate("tags")) \cup Range(learn) \cup {f, g}
    BY <2>6, <2>12
  <2>14. \A s \in Range(PostCreateDB(c)) : InPost(c, s)
    BY <1>1, <2>2, <2>3, <2>4, <2>5, <2>7, <2>13 DEF InPost
  <2>15. \A t \in Tables : Statement("learn", t) \in Range(PostCreateDB(c))
    BY <2>2, <2>5, <2>13
  <2> QED
    BY <1>1, <2>11, <2>12, <2>14, <2>15
<1>2. CASE system = "timescaledb" /\ ~flags[c].tables
  <2>1. PostCreateDB(c) = <<>> \o learn \o <<>>
    BY <1>2 DEF PostCreateDB, PostTimescale
  <2>2. Tables = {"tags", "metrics"}
    BY <1>2, TablesAre
  <2>3. \A t \in Tables : Statement("learn", t) \in Statements /\ Statement("learn", t).do = "learn"
    BY TableStatement
  <2>4. learn \in Seq(Statements)
        /\ Range(learn) = {Statement("learn", "tags"), Statement("learn", "metrics")}
    BY <2>2, <2>3, Pair
  <2> HIDE DEF learn
  <2>5. PostCreateDB(c) = learn
    BY <2>1, <2>4
  <2>6. \A s \in Range(learn) : s.do = "learn"
    BY <2>2, <2>3, <2>4
  <2>7. \A j \in DOMAIN learn : learn[j].do = "learn"
    BY <2>6 DEF Range
  <2> QED
    BY <1>2, <2>2, <2>4, <2>5, <2>6, <2>7 DEF InPost, MetricsLast
<1>3. CASE system = "cassandra"
  <2>1. PostCreateDB(c) = <<Statement("connect", "")>>
    BY <1>3 DEF PostCreateDB, PostCassandra
  <2>2. /\ PostCreateDB(c) \in Seq(Statements)
        /\ Range(PostCreateDB(c)) = {Statement("connect", "")}
        /\ Statement("connect", "").do = "connect"
    BY <2>1, GeneralStatement
  <2>3. \A j \in DOMAIN PostCreateDB(c) : PostCreateDB(c)[j].do = "connect"
    BY <2>2 DEF Range
  <2> QED
    BY <1>3, <2>2, <2>3 DEF InPost, MetricsLast
<1>4. CASE system \notin {"timescaledb", "cassandra"}
  <2>1. PostCreateDB(c) = <<>>
    BY <1>4 DEF PostCreateDB
  <2>2. DOMAIN PostCreateDB(c) = {}
    BY <2>1
  <2>3. MetricsLast(PostCreateDB(c))
    BY <2>2 DEF MetricsLast
  <2> QED
    BY <1>4, <2>1, <2>3, None
<1> QED
  BY <1>1, <1>2, <1>3, <1>4 DEF TypeOK
-----------------------------------------------------------------------------
(* Types and methods are kept. *)

LEMMA Starts == Init => IInv
<1> SUFFICES ASSUME Init PROVE IInv
  OBVIOUS
<1> USE SetupAssumption
<1>1. system \in AllSystems /\ flags \in [Clients -> Flags]
  BY DEF Init
<1>2. flags \in [Clients -> [load : BOOLEAN, create : BOOLEAN, abort : BOOLEAN, tables : BOOLEAN]]
  BY <1>1
<1>3. base \in BOOLEAN /\ refused \in BOOLEAN
  BY DEF Init, AlwaysThere
<1>4. /\ tables \in [DOMAIN tables -> SUBSET (Clients \cup {Old})]
      /\ DOMAIN tables \subseteq Tables
      /\ TablesNeedBase
  <2>1. PICK before \in BOOLEAN :
            /\ base = (before \/ AlwaysThere)
            /\ tables = IF before THEN [t \in Tables |-> {Old}]
                        ELSE IF system = "redistimeseries" THEN Empty(Tables) ELSE <<>>
    BY DEF Init
  <2>2. CASE before
    BY <2>1, <2>2 DEF TablesNeedBase
  <2>3. CASE ~before /\ system = "redistimeseries"
    BY <2>1, <2>3 DEF TablesNeedBase, AlwaysThere, Empty
  <2>4. CASE ~before /\ system # "redistimeseries"
    <3>1. tables = <<>> /\ DOMAIN tables = {}
      BY <2>1, <2>4
    <3> QED
      BY <3>1 DEF TablesNeedBase
  <2> QED
    BY <2>2, <2>3, <2>4
<1>5. \A c \in Clients : pc[c] = "start" /\ script[c] = <<>>
  BY DEF Init
<1>6. pc \in [Clients -> PcStates] /\ header \in [Clients -> BOOLEAN]
      /\ known \in [Clients -> SUBSET Tables] /\ session \in [Clients -> BOOLEAN]
  BY DEF Init, PcStates
<1>7. script \in [Clients -> Seq(Statements)]
  BY None DEF Init
<1>8. TypeOK
  BY <1>1, <1>2, <1>3, <1>4, <1>6, <1>7 DEF TypeOK
<1>9. Methods
  BY <1>5 DEF Methods, MethodOf
<1> QED
  BY <1>4, <1>8, <1>9 DEF IInv

\* The system and the flags stay what they are.
LEMMA FixedStays ==
    ASSUME [Next]_vars
    PROVE  /\ system' = system /\ flags' = flags /\ inTurn' = inTurn
           /\ Tables' = Tables /\ Statements' = Statements
<1>1. system' = system /\ flags' = flags /\ inTurn' = inTurn
  <2>1. ASSUME NEW c \in Clients, Client(c)
        PROVE  system' = system /\ flags' = flags /\ inTurn' = inTurn
    <3>1. CASE Start(c) \/ Unanswered(c) \/ TakenForNone(c) \/ Check(c)
      BY <3>1 DEF Start, Unanswered, TakenForNone, Check, fixed
    <3>2. CASE Execute(c) \/ Fail(c) \/ Return(c)
      BY <3>2 DEF Execute, Fail, Return, fixed
    <3>3. CASE Write(c) \/ WriteFails(c) \/ ReadOnly(c) \/ End(c)
      BY <3>3 DEF Write, WriteFails, ReadOnly, End, fixed
    <3> QED
      BY <2>1, <3>1, <3>2, <3>3 DEF Client
  <2>2. CASE Stopped \/ UNCHANGED vars
    <3>1. 1 \in Clients
      BY SetupAssumption DEF Clients
    <3> QED
      BY <2>2, <3>1 DEF Stopped, vars, fixed
  <2> QED
    BY <2>1, <2>2 DEF Next
<1> QED
  BY <1>1 DEF Tables, Statements

\* What a client does is its own.
LEMMA OthersStay ==
    ASSUME IInv, NEW c \in Clients, Client(c), NEW d \in Clients, d # c
    PROVE  /\ pc'[d] = pc[d] /\ script'[d] = script[d] /\ header'[d] = header[d]
           /\ known'[d] = known[d] /\ session'[d] = session[d]
<1> USE DEF IInv, TypeOK, localVars, Become
<1>1. CASE Start(c)
  BY <1>1 DEF Start, InitCreator
<1>2. CASE Unanswered(c)
  BY <1>2 DEF Unanswered
<1>3. CASE Check(c)
  BY <1>3 DEF Check, AfterCheck
<1>4. CASE Execute(c)
  BY <1>4 DEF Execute
<1>5. CASE Fail(c)
  BY <1>5 DEF Fail
<1>6. CASE Return(c)
  BY <1>6 DEF Return
<1>7. CASE Write(c)
  BY <1>7 DEF Write
<1>8. CASE WriteFails(c)
  BY <1>8 DEF WriteFails
<1>9. CASE ReadOnly(c)
  BY <1>9 DEF ReadOnly
<1>10. CASE End(c)
  BY <1>10 DEF End
<1>11. CASE TakenForNone(c)
  BY <1>11 DEF TakenForNone, AfterCheck
<1> QED
  BY <1>1, <1>2, <1>3, <1>4, <1>5, <1>6, <1>7, <1>8, <1>9, <1>10, <1>11 DEF Client

\* The types of the locals, from those of the one client that moves.
LEMMA LocalTypes ==
    ASSUME IInv, NEW c \in Clients, Client(c),
           pc'[c] \in PcStates, script'[c] \in Seq(Statements)
    PROVE  /\ pc' \in [Clients -> PcStates]
           /\ script' \in [Clients -> Seq(Statements)]
<1>1. \A d \in Clients : pc'[d] \in PcStates /\ script'[d] \in Seq(Statements)
  BY OthersStay DEF IInv, TypeOK
<1>2. DOMAIN pc' = Clients /\ DOMAIN script' = Clients
      /\ pc' = [d \in Clients |-> pc'[d]] /\ script' = [d \in Clients |-> script'[d]]
  BY DEF IInv, TypeOK, Client, Start, Unanswered, TakenForNone, Check, AfterCheck, Execute, Fail,
         Return, Write, WriteFails, ReadOnly, End, Become
<1> QED
  BY <1>1, <1>2

\* What becomes of the method of the client that moves.
MovesTo(c, p, s) == pc'[c] = p /\ script'[c] = s

LEMMA Becoming ==
    ASSUME IInv, NEW c \in Clients, NEW p, NEW s, Become(c, p, s)
    PROVE  MovesTo(c, p, s)
BY DEF IInv, TypeOK, Become, MovesTo

\* A step keeps the invariant if the client that moves and the server do.
LEMMA MovesKeep ==
    ASSUME IInv, NEW c \in Clients, Client(c), [Next]_vars,
           pc'[c] \in PcStates, script'[c] \in Seq(Statements), MethodOf(c)',
           base' \in BOOLEAN, refused' \in BOOLEAN, DOMAIN tables' \subseteq Tables,
           tables' \in [DOMAIN tables' -> SUBSET (Clients \cup {Old})], TablesNeedBase',
           header' \in [Clients -> BOOLEAN], known' \in [Clients -> SUBSET Tables],
           session' \in [Clients -> BOOLEAN]
    PROVE  IInv'
<1>1. TypeOK'
  BY FixedStays, LocalTypes DEF IInv, TypeOK
<1>2. ASSUME NEW d \in Clients, d # c
      PROVE  MethodOf(d)'
  <2>1. pc'[d] = pc[d] /\ script'[d] = script[d] /\ system' = system /\ flags' = flags
    BY <1>2, OthersStay, FixedStays
  <2>2. \A x : (InPost(d, x)' <=> InPost(d, x)) /\ (InRemoval(x)' <=> InRemoval(x))
    BY <2>1 DEF InPost, InRemoval
  <2>3. MethodOf(d)
    BY DEF IInv, Methods
  <2> QED
    BY <2>1, <2>2, <2>3 DEF MethodOf
<1>3. Methods'
  BY <1>2 DEF Methods
<1> QED
  BY <1>1, <1>3 DEF IInv

\* A step that sets nothing up but its own control.
LEMMA MovesAlone ==
    ASSUME IInv, NEW c \in Clients, Client(c), [Next]_vars,
           pc'[c] \in PcStates, script'[c] \in Seq(Statements), MethodOf(c)',
           base' = base, tables' = tables, refused' \in BOOLEAN,
           header' \in [Clients -> BOOLEAN], known' = known, session' = session
    PROVE  IInv'
BY MovesKeep DEF IInv, TypeOK, TablesNeedBase

\* Places in which no method is executed.
LEMMA Idle ==
    ASSUME NEW c \in Clients, NEW p \in {"start", "exists", "load", "loading", "done", "failed"},
           MovesTo(c, p, <<>>), p \in {"exists", "loading"} => flags'[c].load
    PROVE  /\ pc'[c] \in PcStates /\ script'[c] \in Seq(Statements)
           /\ MethodOf(c)'
<1>1. <<>> \in Seq(Statements)
  BY None
<1> QED
  BY <1>1 DEF MovesTo, MethodOf, PcStates

\* A method is called.
LEMMA Calls ==
    ASSUME IInv, NEW c \in Clients, flags[c].load, system' = system, flags' = flags,
           \/ flags[c].create /\ ~flags[c].abort /\ MovesTo(c, "remove", RemoveOldDB)
           \/ flags[c].create /\ MovesTo(c, "create", CreateDB)
           \/ MovesTo(c, "post", PostCreateDB(c))
    PROVE  /\ pc'[c] \in PcStates /\ script'[c] \in Seq(Statements)
           /\ MethodOf(c)'
<1>1. TypeOK
  BY DEF IInv
<1>2. CASE flags[c].create /\ ~flags[c].abort /\ MovesTo(c, "remove", RemoveOldDB)
  <2>1. \A x : InRemoval(x)' <=> InRemoval(x)
    BY DEF InRemoval
  <2> QED
    BY <1>1, <1>2, <2>1, RemovalSays DEF MovesTo, MethodOf, PcStates
<1>3. CASE flags[c].create /\ MovesTo(c, "create", CreateDB)
  <2>1. system = "timescaledb" => \A x \in Range(CreateDB) : x.do = "create database"
    BY <1>1, CreationSays, GeneralStatement DEF Creations
  <2> QED
    BY <1>1, <1>3, <2>1, CreationSays DEF MovesTo, MethodOf, PcStates
<1>4. CASE MovesTo(c, "post", PostCreateDB(c))
  <2>1. \A x : InPost(c, x)' <=> InPost(c, x)
    BY DEF InPost
  <2> QED
    BY <1>1, <1>4, <2>1, PostSays DEF MovesTo, MethodOf, PcStates
<1> QED
  BY <1>2, <1>3, <1>4

LEMMA StartKeeps ==
    ASSUME IInv, NEW c \in Clients, Start(c), [Next]_vars
    PROVE  IInv'
<1>1. MovesTo(c, IF flags[c].load THEN "exists" ELSE "load", <<>>)
  BY Becoming DEF Start
<1>2. header' \in [Clients -> BOOLEAN]
  <2>1. HasHeader \in BOOLEAN
    BY DEF HasHeader
  <2> QED
    BY <2>1 DEF Start, InitCreator, IInv, TypeOK
<1>3. base' = base /\ tables' = tables /\ refused' = refused /\ known' = known /\ session' = session
  BY DEF Start, serverVars
<1>4. pc'[c] \in PcStates /\ script'[c] \in Seq(Statements) /\ MethodOf(c)'
  BY <1>1, FixedStays, Idle
<1>5. refused' \in BOOLEAN
  BY <1>3 DEF IInv, TypeOK
<1> QED
  BY <1>2, <1>3, <1>4, <1>5, MovesAlone DEF Client

LEMMA UnansweredKeeps ==
    ASSUME IInv, NEW c \in Clients, Unanswered(c), [Next]_vars
    PROVE  IInv'
<1>1. MovesTo(c, "failed", <<>>)
  BY Becoming DEF Unanswered
<1>2. /\ base' = base /\ tables' = tables /\ refused' \in BOOLEAN
      /\ header' \in [Clients -> BOOLEAN] /\ known' = known /\ session' = session
  BY DEF Unanswered, localVars, IInv, TypeOK
<1>3. pc'[c] \in PcStates /\ script'[c] \in Seq(Statements) /\ MethodOf(c)'
  BY <1>1, FixedStays, Idle
<1> QED
  BY <1>2, <1>3, MovesAlone DEF Client

\* What the check decides.
LEMMA CheckDecides ==
    ASSUME IInv, NEW c \in Clients, Check(c)
    PROVE  /\ flags[c].load
           /\ \/ DBExists /\ flags[c].abort /\ MovesTo(c, "failed", <<>>)
              \/ ~flags[c].create /\ MovesTo(c, "post", PostCreateDB(c))
              \/ DBExists /\ flags[c].create /\ ~flags[c].abort /\ MovesTo(c, "remove", RemoveOldDB)
              \/ ~DBExists /\ flags[c].create /\ MovesTo(c, "create", CreateDB)
<1>1. flags[c].load
  BY DEF Check, IInv, Methods, MethodOf
<1>2. AfterCheck(c, DBExists)
  BY DEF Check
<1>3. CASE DBExists /\ Aborts(c)
  BY <1>1, <1>2, <1>3, Becoming DEF AfterCheck, Aborts
<1>4. CASE ~(DBExists /\ Aborts(c)) /\ ~flags[c].create
  BY <1>1, <1>2, <1>4, Becoming DEF AfterCheck
<1>5. CASE ~(DBExists /\ Aborts(c)) /\ flags[c].create /\ DBExists
  BY <1>1, <1>2, <1>5, Becoming DEF AfterCheck, Aborts
<1>6. CASE flags[c].create /\ ~DBExists
  BY <1>1, <1>2, <1>6, Becoming DEF AfterCheck
<1> QED
  BY <1>3, <1>4, <1>5, <1>6

\* An unanswered check decides as one that finds nothing.
LEMMA TakenDecides ==
    ASSUME IInv, NEW c \in Clients, TakenForNone(c)
    PROVE  /\ flags[c].load /\ pc[c] = "exists" /\ system \in {"cassandra", "siridb"}
           /\ base' = base /\ tables' = tables /\ refused'
           /\ header' = header /\ known' = known /\ session' = session
           /\ IF flags[c].create THEN MovesTo(c, "create", CreateDB)
              ELSE MovesTo(c, "post", PostCreateDB(c))
<1>1. flags[c].load
  BY DEF TakenForNone, IInv, Methods, MethodOf
<1>2. AfterCheck(c, FALSE)
  BY DEF TakenForNone
<1>3. IF flags[c].create THEN MovesTo(c, "create", CreateDB) ELSE MovesTo(c, "post", PostCreateDB(c))
  BY <1>2, Becoming DEF AfterCheck
<1> QED
  BY <1>1, <1>3 DEF TakenForNone, localVars

LEMMA TakenKeeps ==
    ASSUME IInv, NEW c \in Clients, TakenForNone(c), [Next]_vars
    PROVE  IInv'
<1>1. /\ base' = base /\ tables' = tables /\ refused' \in BOOLEAN
      /\ header' \in [Clients -> BOOLEAN] /\ known' = known /\ session' = session
  <2>1. refused' = TRUE
    BY DEF TakenForNone
  <2> QED
    BY <2>1, TakenDecides DEF IInv, TypeOK
<1>2. pc'[c] \in PcStates /\ script'[c] \in Seq(Statements) /\ MethodOf(c)'
  BY TakenDecides, FixedStays, Calls
<1> QED
  BY <1>1, <1>2, MovesAlone DEF Client

LEMMA CheckKeeps ==
    ASSUME IInv, NEW c \in Clients, Check(c), [Next]_vars
    PROVE  IInv'
<1>1. /\ base' = base /\ tables' = tables /\ refused' \in BOOLEAN
      /\ header' \in [Clients -> BOOLEAN] /\ known' = known /\ session' = session
  BY DEF Check, localVars, serverVars, IInv, TypeOK
<1>2. pc'[c] \in PcStates /\ script'[c] \in Seq(Statements) /\ MethodOf(c)'
  <2>1. CASE MovesTo(c, "failed", <<>>)
    BY <2>1, Idle
  <2>2. CASE ~MovesTo(c, "failed", <<>>)
    BY <2>2, CheckDecides, FixedStays, Calls
  <2> QED
    BY <2>1, <2>2
<1> QED
  BY <1>1, <1>2, MovesAlone DEF Client

\* What executing a statement does to the tables.
LEMMA ServerDoes ==
    ASSUME IInv, NEW s \in Statements, Possible(s), Done(s)
    PROVE  /\ base' \in BOOLEAN
           /\ DOMAIN tables' \subseteq Tables
           /\ tables' \in [DOMAIN tables' -> SUBSET (Clients \cup {Old})]
           /\ ~base' => DOMAIN tables' = {}
           /\ \A t \in DOMAIN tables' : IF t \in DOMAIN tables THEN tables'[t] = tables[t]
                                        ELSE tables'[t] = {}
<1> USE DEF IInv, TypeOK, TablesNeedBase
<1>1. CASE s.do = "drop database"
  <2>1. base' = FALSE /\ tables' = <<>>
    BY <1>1 DEF Done
  <2>2. DOMAIN tables' = {}
    BY <2>1
  <2>3. tables' \in [DOMAIN tables' -> SUBSET (Clients \cup {Old})]
    <3>1. <<>> \in [{} -> SUBSET (Clients \cup {Old})]
      OBVIOUS
    <3> QED
      BY <2>1, <3>1
  <2> QED
    BY <2>1, <2>2, <2>3
<1>2. CASE s.do \in Creations
  <2>1. base' = TRUE /\ tables' \in {With(Tables), tables}
    BY <1>2 DEF Done, Creations
  <2>2. CASE tables' = tables
    BY <2>1, <2>2
  <2>3. CASE tables' = With(Tables)
    BY <2>1, <2>3 DEF With
  <2> QED
    BY <2>1, <2>2, <2>3
<1>3. CASE s.do \in CreationsOfTables
  <2>1. base' = base /\ base /\ tables' = With({s.table})
    BY <1>3 DEF Done, Possible, CreationsOfTables
  <2>2. s.table \in Tables
    BY <1>3 DEF Statements, CreationsOfTables, Creations
  <2> QED
    BY <2>1, <2>2 DEF With
<1>4. CASE s.do \in DropsOfTables
  <2>1. base' = base /\ tables' = [u \in DOMAIN tables \ {s.table} |-> tables[u]]
    BY <1>4 DEF Done, DropsOfTables, Without
  <2> QED
    BY <2>1
<1>5. CASE s.do \in {"learn", "list", "refuse", "join", "connect"}
  <2>1. base' = base /\ tables' = tables
    BY <1>5 DEF Done
  <2> QED
    BY <2>1
<1> QED
  BY <1>1, <1>2, <1>3, <1>4, <1>5 DEF Statements

\* Where a script is left, it is that of a method.
LEMMA InMethod ==
    ASSUME IInv, NEW c \in Clients, script[c] # <<>>
    PROVE  /\ Head(script[c]) \in Statements
           /\ Tail(script[c]) \in Seq(Statements)
           /\ Range(script[c]) = {Head(script[c])} \cup Range(Tail(script[c]))
           /\ pc[c] \in {"remove", "create", "post"} /\ flags[c].load
           /\ pc[c] = "remove" => flags[c].create /\ ~flags[c].abort /\ InRemoval(Head(script[c]))
           /\ pc[c] = "create" => flags[c].create /\ InCreation(Head(script[c]))
           /\ pc[c] = "post" => InPost(c, Head(script[c]))
<1>1. script[c] \in Seq(Statements) /\ MethodOf(c)
  BY DEF IInv, TypeOK, Methods
<1>2. /\ Head(script[c]) \in Statements
      /\ Tail(script[c]) \in Seq(Statements)
      /\ Range(script[c]) = {Head(script[c])} \cup Range(Tail(script[c]))
  BY <1>1, Parts
<1> QED
  BY <1>1, <1>2 DEF MethodOf

LEMMA ExecuteKeeps ==
    ASSUME IInv, NEW c \in Clients, Execute(c), [Next]_vars
    PROVE  IInv'
<1> DEFINE s == Head(script[c])
<1>1. /\ script[c] # <<>> /\ Possible(s) /\ Done(s) /\ pc' = pc /\ header' = header
      /\ refused' = refused
      /\ known' = [known EXCEPT ![c] = IF s.do = "learn" THEN @ \cup {s.table} ELSE @]
      /\ session' = [session EXCEPT ![c] = @ \/ s.do = "connect"]
      /\ script' = [script EXCEPT ![c] = IF s.do # "list" THEN Tail(@)
                                         ELSE IF system = "mongo" THEN DropCollections
                                         ELSE DropListed]
  BY DEF Execute
<1>2. s \in Statements /\ Tail(script[c]) \in Seq(Statements)
      /\ Range(script[c]) = {s} \cup Range(Tail(script[c]))
  BY <1>1, InMethod
<1> HIDE DEF s
<1>3. known' \in [Clients -> SUBSET Tables] /\ header' \in [Clients -> BOOLEAN] /\ refused' \in BOOLEAN
  <2>1. s.do = "learn" => s.table \in Tables
    BY <1>2 DEF Statements, Creations
  <2> QED
    BY <1>1, <2>1 DEF IInv, TypeOK
<1>4. session' \in [Clients -> BOOLEAN]
  <2>1. session \in [Clients -> BOOLEAN]
    BY DEF IInv, TypeOK
  <2>2. (session[c] \/ s.do = "connect") \in BOOLEAN
    OBVIOUS
  <2> QED
    BY <1>1, <2>1, <2>2
<1>5. /\ base' \in BOOLEAN /\ DOMAIN tables' \subseteq Tables /\ TablesNeedBase'
      /\ tables' \in [DOMAIN tables' -> SUBSET (Clients \cup {Old})]
  BY <1>1, <1>2, ServerDoes DEF TablesNeedBase
<1>6. pc'[c] = pc[c] /\ pc'[c] \in PcStates /\ system' = system /\ flags' = flags
  BY <1>1, FixedStays DEF IInv, TypeOK
<1>7. script'[c] \in Seq(Statements) /\ MethodOf(c)'
  <2>1. MethodOf(c)
    BY DEF IInv, Methods
  <2>2. \A x : (InPost(c, x)' <=> InPost(c, x)) /\ (InRemoval(x)' <=> InRemoval(x))
    BY <1>6 DEF InPost, InRemoval
  <2>3. CASE s.do # "list"
    <3>1. script'[c] = Tail(script[c])
      BY <1>1, <2>3 DEF IInv, TypeOK
    <3>2. Range(script'[c]) \subseteq Range(script[c])
      BY <1>2, <3>1
    <3>3. pc[c] \in {"remove", "create", "post"}
      BY <1>1, InMethod
    <3> QED
      BY <1>2, <1>6, <2>1, <2>2, <3>1, <3>2, <3>3 DEF MethodOf
  <2>4. CASE s.do = "list"
    <3>1. pc[c] = "remove"
      BY <1>1, <2>4, InMethod
         DEF s, InCreation, InPost, Creations, CreationsOfTables
    <3>2. script'[c] \in {DropListed, DropCollections}
      BY <1>1, <2>4 DEF IInv, TypeOK
    <3>3. script'[c] \in Seq(Statements) /\ \A x \in Range(script'[c]) : InRemoval(x)
      BY <3>2, DropsSay DEF IInv
    <3> QED
      BY <1>6, <2>1, <2>2, <3>1, <3>3 DEF MethodOf
  <2> QED
    BY <2>3, <2>4
<1> QED
  BY <1>3, <1>4, <1>5, <1>6, <1>7, MovesKeep DEF Client

\* What a failure decides: MongoDB goes on after that of a drop.
LEMMA FailDecides ==
    ASSUME IInv, NEW c \in Clients, Fail(c)
    PROVE  /\ script[c] # <<>> /\ Head(script[c]).do # "learn"
           /\ refused' = (refused \/ Possible(Head(script[c])))
           /\ base' = base /\ tables' = tables
           /\ header' = header /\ known' = known /\ session' = session
           /\ \/ /\ Head(script[c]).do = "drop table if there" /\ pc[c] = "remove"
                 /\ system = "mongo" /\ MovesTo(c, pc[c], Tail(script[c]))
              \/ Head(script[c]).do = "connect" /\ MovesTo(c, "load", <<>>)
              \/ Head(script[c]).do # "connect" /\ MovesTo(c, "failed", <<>>)
<1> DEFINE s == Head(script[c])
<1>1. /\ script[c] # <<>> /\ s.do # "learn" /\ refused' = (refused \/ Possible(s))
      /\ base' = base /\ tables' = tables
      /\ header' = header /\ known' = known /\ session' = session
  BY DEF Fail, localVars
<1>2. CASE Ignored(s)
  <2>1. s.do = "drop table if there" /\ system = "mongo"
    BY <1>2 DEF Ignored
  <2>2. pc[c] = "remove"
    BY <1>1, <2>1, InMethod DEF InCreation, InPost, Creations, CreationsOfTables
  <2>3. MovesTo(c, pc[c], Tail(script[c]))
    BY <1>2, Becoming DEF Fail
  <2> QED
    BY <1>1, <2>1, <2>2, <2>3
<1>3. CASE ~Ignored(s)
  BY <1>1, <1>3, Becoming DEF Fail
<1> QED
  BY <1>2, <1>3

LEMMA FailKeeps ==
    ASSUME IInv, NEW c \in Clients, Fail(c), [Next]_vars
    PROVE  IInv'
<1>1. /\ base' = base /\ tables' = tables
      /\ header' \in [Clients -> BOOLEAN] /\ known' = known /\ session' = session
  BY FailDecides DEF IInv, TypeOK
<1>2. refused' \in BOOLEAN
  BY DEF Fail, IInv, TypeOK
<1>3. pc'[c] \in PcStates /\ script'[c] \in Seq(Statements) /\ MethodOf(c)'
  <2>1. CASE pc[c] = "remove" /\ MovesTo(c, "remove", Tail(script[c]))
    <3>1. \A x : InRemoval(x)' <=> InRemoval(x)
      BY FixedStays DEF InRemoval
    <3>2. MethodOf(c) /\ Range(Tail(script[c])) \subseteq Range(script[c])
          /\ Tail(script[c]) \in Seq(Statements)
      BY FailDecides, InMethod DEF IInv, Methods
    <3> QED
      BY <2>1, <3>1, <3>2, FixedStays DEF MethodOf, MovesTo, PcStates
  <2>2. CASE \E p \in {"load", "failed"} : MovesTo(c, p, <<>>)
    BY <2>2, Idle
  <2> QED
    BY <2>1, <2>2, FailDecides
<1> QED
  BY <1>1, <1>2, <1>3, MovesAlone DEF Client

LEMMA ReturnKeeps ==
    ASSUME IInv, NEW c \in Clients, Return(c), [Next]_vars
    PROVE  IInv'
<1>1. /\ base' = base /\ tables' = tables /\ refused' \in BOOLEAN
      /\ header' \in [Clients -> BOOLEAN] /\ known' = known /\ session' = session
  BY DEF Return, localVars, serverVars, IInv, TypeOK
<1>2. flags[c].load /\ (pc[c] \in {"remove", "create"} => flags[c].create)
  BY DEF Return, IInv, Methods, MethodOf
<1>3. pc'[c] \in PcStates /\ script'[c] \in Seq(Statements) /\ MethodOf(c)'
  <2>1. CASE pc[c] = "remove"
    BY <1>2, <2>1, Becoming, FixedStays, Calls DEF Return
  <2>2. CASE pc[c] = "create"
    BY <1>2, <2>2, Becoming, FixedStays, Calls DEF Return
  <2>3. CASE pc[c] = "post"
    <3>1. MovesTo(c, "load", <<>>)
      BY <2>3, Becoming DEF Return
    <3> QED
      BY <3>1, Idle
  <2> QED
    BY <2>1, <2>2, <2>3 DEF Return
<1> QED
  BY <1>1, <1>3, MovesAlone DEF Client

LEMMA WriteKeeps ==
    ASSUME IInv, NEW c \in Clients, Write(c), [Next]_vars
    PROVE  IInv'
<1>1. MovesTo(c, "loading", <<>>) /\ flags'[c].load
  BY Becoming, FixedStays DEF Write
<1>2. /\ base' = base /\ base /\ refused' = refused
      /\ header' = header /\ known' = known /\ session' = session
      /\ tables' = [t \in Tables |-> {c} \cup IF t \in DOMAIN tables THEN tables[t] ELSE {}]
  BY DEF Write, CanWrite, localVars
<1>3. /\ base' \in BOOLEAN /\ refused' \in BOOLEAN /\ DOMAIN tables' \subseteq Tables
      /\ header' \in [Clients -> BOOLEAN] /\ known' \in [Clients -> SUBSET Tables]
      /\ session' \in [Clients -> BOOLEAN] /\ TablesNeedBase'
  BY <1>2 DEF IInv, TypeOK, TablesNeedBase
<1>4. tables' \in [DOMAIN tables' -> SUBSET (Clients \cup {Old})]
  BY <1>2 DEF IInv, TypeOK
<1>5. pc'[c] \in PcStates /\ script'[c] \in Seq(Statements) /\ MethodOf(c)'
  BY <1>1, Idle
<1> QED
  BY <1>3, <1>4, <1>5, MovesKeep DEF Client

LEMMA EndingKeeps ==
    ASSUME IInv, NEW c \in Clients, WriteFails(c) \/ ReadOnly(c) \/ End(c), [Next]_vars
    PROVE  IInv'
<1>1. PICK p \in {"failed", "done"} : MovesTo(c, p, <<>>)
  BY Becoming DEF WriteFails, ReadOnly, End
<1>2. /\ base' = base /\ tables' = tables
      /\ header' \in [Clients -> BOOLEAN] /\ known' = known /\ session' = session
  BY DEF WriteFails, ReadOnly, End, localVars, serverVars, IInv, TypeOK
<1>3. refused' \in BOOLEAN
  BY DEF WriteFails, ReadOnly, End, serverVars, IInv, TypeOK
<1>4. pc'[c] \in PcStates /\ script'[c] \in Seq(Statements) /\ MethodOf(c)'
  BY <1>1, Idle
<1> QED
  BY <1>2, <1>3, <1>4, MovesAlone DEF Client

\* Steps in which no client moves.
LEMMA NoClient ==
    ASSUME Stopped \/ UNCHANGED vars
    PROVE  UNCHANGED vars
<1>1. 1 \in Clients
  BY SetupAssumption DEF Clients
<1> QED
  BY <1>1 DEF Stopped

LEMMA StepsKeep == IInv /\ [Next]_vars => IInv'
<1> SUFFICES ASSUME IInv, [Next]_vars PROVE IInv'
  OBVIOUS
<1>1. ASSUME NEW c \in Clients, Client(c) PROVE IInv'
  BY <1>1, StartKeeps, UnansweredKeeps, TakenKeeps, CheckKeeps, ExecuteKeeps, FailKeeps, ReturnKeeps,
     WriteKeeps, EndingKeeps DEF Client
<1>2. CASE UNCHANGED vars
  BY <1>2 DEF vars, fixed, serverVars, localVars, IInv, TypeOK, Methods, MethodOf, InPost, InRemoval,
              TablesNeedBase, Statements, Tables
<1> QED
  BY <1>1, <1>2, NoClient DEF Next

LEMMA Invariance == Spec => []IInv
BY Starts, StepsKeep, PTL DEF Spec
-----------------------------------------------------------------------------
(* Older rows. *)

\* A failure of the server is not forgotten.
LEMMA RefusedStays ==
    ASSUME IInv, [Next]_vars, refused
    PROVE  refused'
<1>1. ASSUME NEW c \in Clients, Client(c) PROVE refused'
  BY <1>1 DEF Client, Start, Unanswered, TakenForNone, Check, Execute, Fail, Return, Write,
              WriteFails, ReadOnly, End, serverVars
<1>2. CASE UNCHANGED vars
  BY <1>2 DEF vars, serverVars
<1> QED
  BY <1>1, <1>2, NoClient DEF Next

\* Only a client that is told to create the database drops it.
LEMMA BaseStays ==
    ASSUME IInv, [Next]_vars, base, ~base'
    PROVE  /\ system # "mongo"
           /\ \E d \in Clients : Execute(d) /\ pc[d] = "remove" /\ flags[d].load /\ flags[d].create
<1>1. ASSUME NEW d \in Clients, Execute(d)
      PROVE  system # "mongo" /\ pc[d] = "remove" /\ flags[d].load /\ flags[d].create
  <2>1. Done(Head(script[d])) /\ script[d] # <<>>
    BY <1>1 DEF Execute
  <2>2. Head(script[d]).do = "drop database"
    BY <2>1 DEF Done
  <2> QED
    BY <2>1, <2>2, InMethod DEF InRemoval, InCreation, InPost, Creations, CreationsOfTables
<1>2. ASSUME NEW d \in Clients, Client(d), ~Execute(d) PROVE base' = base
  BY <1>2 DEF Client, Start, Unanswered, TakenForNone, Check, Fail, Return, Write, WriteFails, ReadOnly, End,
              serverVars
<1>3. CASE UNCHANGED vars
  BY <1>3 DEF vars, serverVars
<1> QED
  BY <1>1, <1>2, <1>3, NoClient DEF Next

NoOld == \A t \in DOMAIN tables : Old \notin tables[t]

\* A client that creates the database has still to remove what old rows there are, or is
\* past their removal; where it took an unanswered check for no database, CREATE DATABASE is
\* still to tell it.
StartsAfresh(c) ==
    flags[c].load /\ flags[c].create /\ ~KeepsOlder =>
        /\ pc[c] \in {"post", "load", "loading", "done"} => NoOld
        /\ pc[c] = "create" => NoOld \/ \E s \in Range(script[c]) : s.do = "create database"
        /\ pc[c] = "remove" =>
               \A t \in DOMAIN tables : Old \in tables[t] => \E s \in Range(script[c]) : Removes(s, t)

\* MongoDB is always there.
OldRows == (system = "mongo" => base) /\ \A c \in Clients : StartsAfresh(c)

\* No step brings old rows.
LEMMA OldOnlyLeave ==
    ASSUME IInv, [Next]_vars, NEW t \in DOMAIN tables', Old \in tables'[t]
    PROVE  t \in DOMAIN tables /\ Old \in tables[t]
<1>1. ASSUME NEW c \in Clients, Execute(c) PROVE t \in DOMAIN tables /\ Old \in tables[t]
  <2>1. Head(script[c]) \in Statements /\ Possible(Head(script[c])) /\ Done(Head(script[c]))
    BY <1>1, InMethod DEF Execute
  <2>2. IF t \in DOMAIN tables THEN tables'[t] = tables[t] ELSE tables'[t] = {}
    BY <2>1, ServerDoes
  <2> QED
    BY <2>2
<1>2. ASSUME NEW c \in Clients, Write(c) PROVE t \in DOMAIN tables /\ Old \in tables[t]
  <2>1. tables' = [u \in Tables |-> {c} \cup IF u \in DOMAIN tables THEN tables[u] ELSE {}]
    BY <1>2 DEF Write
  <2> QED
    BY <2>1, SetupAssumption
<1>3. ASSUME NEW c \in Clients, Client(c), ~Execute(c), ~Write(c) PROVE tables' = tables
  BY <1>3 DEF Client, Start, Unanswered, TakenForNone, Check, Fail, Return, WriteFails, ReadOnly, End, serverVars
<1>4. CASE UNCHANGED vars
  BY <1>4 DEF vars, serverVars
<1> QED
  BY <1>1, <1>2, <1>3, <1>4, NoClient DEF Next

LEMMA NoOldStays ==
    ASSUME IInv, [Next]_vars, NoOld
    PROVE  NoOld'
BY OldOnlyLeave DEF NoOld

\* Where older rows stay they do so from then on.
LEMMA OlderStay ==
    ASSUME IInv, [Next]_vars, KeepsOlder
    PROVE  KeepsOlder'
BY FixedStays, RefusedStays DEF KeepsOlder

\* A removal goes on as the script says, and so does a creation.
LEMMA RemovalGoesOn ==
    ASSUME IInv, NEW c \in Clients, StartsAfresh(c), Execute(c), [Next]_vars
    PROVE  StartsAfresh(c)'
<1> DEFINE s == Head(script[c])
<1>1. /\ script[c] # <<>> /\ Possible(s) /\ Done(s) /\ pc' = pc
      /\ script' = [script EXCEPT ![c] = IF s.do # "list" THEN Tail(@)
                                         ELSE IF system = "mongo" THEN DropCollections
                                         ELSE DropListed]
  BY DEF Execute
<1>2. s \in Statements /\ Range(script[c]) = {s} \cup Range(Tail(script[c]))
  BY <1>1, InMethod
<1>3. pc[c] = "remove" => InRemoval(s)
  BY <1>1, InMethod
<1> HIDE DEF s
<1>4. system' = system /\ flags' = flags
  BY FixedStays
<1>5. CASE ~(flags[c].load /\ flags[c].create /\ ~KeepsOlder)
  BY <1>4, <1>5, OlderStay DEF StartsAfresh
<1>6. CASE pc[c] # "remove" /\ flags[c].load /\ flags[c].create /\ ~KeepsOlder
  <2>1. CASE NoOld
    BY <1>1, <1>6, <2>1, NoOldStays DEF StartsAfresh
  <2>2. CASE ~NoOld /\ s.do = "create database"
    <3>1. DOMAIN tables = {}
      BY <1>1, <2>2 DEF Possible, IInv, TablesNeedBase
    <3> QED
      BY <2>2, <3>1 DEF NoOld
  <2>3. CASE ~NoOld /\ s.do # "create database"
    <3>1. pc[c] = "create" /\ \E x \in Range(script[c]) : x.do = "create database"
      BY <1>1, <1>6, <2>3, InMethod DEF StartsAfresh
    <3>2. s.do # "list"
      BY <1>1, <3>1, InMethod DEF s, InCreation, Creations, CreationsOfTables
    <3>3. script'[c] = Tail(script[c])
      BY <1>1, <3>2 DEF IInv, TypeOK
    <3> QED
      BY <1>1, <1>2, <2>3, <3>1, <3>3 DEF StartsAfresh
  <2> QED
    BY <2>1, <2>2, <2>3
<1>7. CASE pc[c] = "remove" /\ flags[c].load /\ flags[c].create /\ ~KeepsOlder
  <2> SUFFICES ASSUME NEW t \in DOMAIN tables', Old \in tables'[t]
               PROVE  \E x \in Range(script'[c]) : Removes(x, t)
    BY <1>1, <1>7 DEF StartsAfresh
  <2>1. t \in DOMAIN tables /\ Old \in tables[t]
    BY OldOnlyLeave
  <2>2. PICK x \in Range(script[c]) : Removes(x, t)
    BY <1>7, <2>1 DEF StartsAfresh
  <2>3. CASE s.do = "list"
    <3>1. script'[c] \in {DropListed, DropCollections}
      BY <1>1, <2>3 DEF IInv, TypeOK
    <3> QED
      BY <2>1, <3>1, DropsSay DEF IInv
  <2>4. CASE s.do = "drop database"
    <3>1. tables' = <<>>
      BY <1>1, <2>4 DEF Done
    <3>2. DOMAIN tables' = {}
      BY <3>1
    <3> QED
      BY <3>2
  <2>5. CASE s.do \in DropsOfTables
    <3>1. tables' = [u \in DOMAIN tables \ {s.table} |-> tables[u]]
      BY <1>1, <2>5 DEF Done, DropsOfTables, Without
    <3>2. t # s.table
      BY <3>1
    <3>3. ~Removes(s, t)
      BY <2>5, <3>2 DEF Removes, DropsOfTables
    <3>4. script'[c] = Tail(script[c])
      BY <1>1, <2>5 DEF IInv, TypeOK, DropsOfTables
    <3> QED
      BY <1>2, <2>2, <3>3, <3>4
  <2>6. s.do # "refuse"
    BY <1>1 DEF Possible
  <2> QED
    BY <1>3, <1>7, <2>3, <2>4, <2>5, <2>6 DEF InRemoval
<1> QED
  BY <1>5, <1>6, <1>7

\* Steps that leave a client on its side of the removal.
LEMMA SameSide ==
    ASSUME IInv, NEW c \in Clients, StartsAfresh(c), [Next]_vars,
           \/ pc'[c] \in {"start", "exists", "failed"}
           \/ pc'[c] # "remove" /\ pc[c] \in {"post", "load", "loading"}
    PROVE  StartsAfresh(c)'
BY FixedStays, NoOldStays, OlderStay DEF StartsAfresh

LEMMA ClientStartsAfresh ==
    ASSUME IInv, system = "mongo" => base, NEW c \in Clients, StartsAfresh(c), Client(c),
           [Next]_vars
    PROVE  StartsAfresh(c)'
<1>1. CASE Start(c)
  <2>1. MovesTo(c, IF flags[c].load THEN "exists" ELSE "load", <<>>)
    BY <1>1, Becoming DEF Start
  <2> QED
    BY <2>1, FixedStays DEF StartsAfresh, MovesTo
<1>2. CASE Unanswered(c)
  BY <1>2, Becoming, SameSide DEF Unanswered, MovesTo
<1>3. CASE Check(c)
  <2>1. base' = base /\ tables' = tables /\ system' = system /\ flags' = flags
    BY <1>3, FixedStays DEF Check, serverVars
  <2>2. CASE ~flags[c].create \/ MovesTo(c, "failed", <<>>)
    BY <2>1, <2>2 DEF StartsAfresh, MovesTo
  <2>3. CASE MovesTo(c, "remove", RemoveOldDB)
    BY <2>1, <2>3, RemovalSays, OlderStay DEF StartsAfresh, MovesTo, IInv, TypeOK, KeepsOlder
  <2>4. CASE MovesTo(c, "create", CreateDB) /\ ~DBExists
    <3>1. system # "redistimeseries" => DOMAIN tables = {}
      BY <2>4 DEF DBExists, HasTables, Listed, IInv, TablesNeedBase
    <3> QED
      BY <2>1, <2>4, <3>1 DEF StartsAfresh, MovesTo, NoOld, KeepsOlder
  <2> QED
    BY <1>3, <2>2, <2>3, <2>4, CheckDecides
<1>4. CASE Execute(c)
  BY <1>4, RemovalGoesOn
<1>5. CASE Fail(c)
  <2>1. CASE Head(script[c]).do = "connect" /\ MovesTo(c, "load", <<>>)
    <3>1. pc[c] = "post"
      BY <1>5, <2>1, FailDecides, InMethod
         DEF InRemoval, InCreation, Creations, DropsOfTables, CreationsOfTables
    <3> QED
      BY <2>1, <3>1, SameSide DEF MovesTo
  <2>2. CASE MovesTo(c, "failed", <<>>)
    BY <2>2, SameSide DEF MovesTo
  <2>3. CASE Head(script[c]).do = "drop table if there" /\ system = "mongo"
    <3>1. refused'
      BY <1>5, <2>3, FailDecides DEF Possible
    <3> QED
      BY <2>3, <3>1, FixedStays DEF StartsAfresh, KeepsOlder
  <2> QED
    BY <1>5, <2>1, <2>2, <2>3, FailDecides
<1>6. CASE Return(c)
  <2>1. CASE pc[c] = "remove"
    <3>1. Range(script[c]) = {}
      BY <1>6, None DEF Return
    <3>2. flags[c].load /\ flags[c].create /\ ~KeepsOlder => NoOld
      BY <2>1, <3>1 DEF StartsAfresh, NoOld
    <3>3. pc'[c] = "create"
      BY <1>6, <2>1, Becoming DEF Return, MovesTo
    <3> QED
      BY <3>2, <3>3, FixedStays, NoOldStays, OlderStay DEF StartsAfresh
  <2>2. CASE pc[c] = "create"
    <3>1. Range(script[c]) = {}
      BY <1>6, None DEF Return
    <3>2. flags[c].load /\ flags[c].create /\ ~KeepsOlder => NoOld
      BY <2>2, <3>1 DEF StartsAfresh
    <3>3. pc'[c] = "post"
      BY <1>6, <2>2, Becoming DEF Return, MovesTo
    <3> QED
      BY <3>2, <3>3, FixedStays, NoOldStays, OlderStay DEF StartsAfresh
  <2>3. CASE pc[c] = "post"
    BY <1>6, <2>3, Becoming, SameSide DEF Return, MovesTo
  <2> QED
    BY <1>6, <2>1, <2>2, <2>3 DEF Return
<1>7. CASE Write(c)
  BY <1>7, Becoming, SameSide DEF Write, MovesTo
<1>8. CASE WriteFails(c)
  BY <1>8, Becoming, SameSide DEF WriteFails, MovesTo
<1>9. CASE ReadOnly(c)
  BY <1>9, FixedStays DEF ReadOnly, StartsAfresh
<1>10. CASE End(c)
  BY <1>10, Becoming, SameSide DEF End, MovesTo
<1>11. CASE TakenForNone(c)
  <2>1. CASE flags[c].create
    <3>1. pc'[c] = "create" /\ script'[c] = CreateDB
      BY <1>11, <2>1, TakenDecides DEF MovesTo
    <3>2. \E s \in Range(CreateDB) : s.do = "create database"
      BY <1>11, TakenDecides, CreationSays, GeneralStatement DEF IInv, Creations
    <3> QED
      BY <3>1, <3>2 DEF StartsAfresh
  <2>2. CASE ~flags[c].create
    BY <2>2, FixedStays DEF StartsAfresh
  <2> QED
    BY <2>1, <2>2
<1> QED
  BY <1>1, <1>2, <1>3, <1>4, <1>5, <1>6, <1>7, <1>8, <1>9, <1>10, <1>11 DEF Client

LEMMA OldRowsKept == IInv /\ OldRows /\ [Next]_vars => OldRows'
<1> SUFFICES ASSUME IInv, OldRows, [Next]_vars PROVE OldRows'
  OBVIOUS
<1>1. ASSUME NEW c \in Clients, Client(c), NEW d \in Clients PROVE StartsAfresh(d)'
  <2>1. CASE d = c
    BY <1>1, <2>1, ClientStartsAfresh DEF OldRows
  <2>2. CASE d # c
    <3>1. pc'[d] = pc[d] /\ script'[d] = script[d] /\ system' = system /\ flags' = flags
      BY <1>1, <2>2, OthersStay, FixedStays
    <3>2. StartsAfresh(d)
      BY DEF OldRows
    <3> QED
      BY <3>1, <3>2, OldOnlyLeave, OlderStay DEF StartsAfresh, NoOld
  <2> QED
    BY <2>1, <2>2
<1>2. CASE UNCHANGED vars
  BY <1>2 DEF vars, fixed, serverVars, OldRows, StartsAfresh, NoOld, KeepsOlder
<1>3. (system = "mongo" => base)'
  BY FixedStays, BaseStays DEF OldRows
<1> QED
  BY <1>1, <1>2, <1>3, NoClient DEF Next, OldRows

\* A client that makes the database (loader.go:219) loads into one without the rows it found,
\* whatever the other clients do between its statements and whichever of them fail.  Older
\* rows stay only in RedisTimeSeries, and in MongoDB after a failure of the server
\* (mongo/creator.go:44).
THEOREM CreatorsStartAfresh == Spec => []CreatorStartsAfresh
<1>1. OldRows => CreatorStartsAfresh
  BY DEF OldRows, StartsAfresh, NoOld, CreatorStartsAfresh, Loading
<1>2. Init => OldRows
  BY DEF Init, OldRows, StartsAfresh, AlwaysThere
<1> QED
  BY <1>1, <1>2, Invariance, OldRowsKept, PTL DEF Spec
-----------------------------------------------------------------------------
(* What a client finds out and opens. *)

\* The columns of every table are known or will be.
WillKnow(c) ==
    \A t \in Tables : t \in known[c] \/ \E s \in Range(script[c]) : s.do = "learn" /\ s.table = t

\* A creator of a keyspace is still to create it, has it, or someone else may drop it.
Keyspace(c) ==
    system = "cassandra" /\ flags[c].load /\ flags[c].create /\ ~Disturbed(c) =>
        /\ pc[c] = "create" => base \/ \E s \in Range(script[c]) : s.do = "create database"
        /\ pc[c] = "post" => base

\* The session is open or will be, unless the keyspace could not be reached.
Session(c) ==
    system = "cassandra" /\ flags[c].load =>
        /\ pc[c] = "post" => session[c] \/ \E s \in Range(script[c]) : s.do = "connect"
        /\ pc[c] \in {"load", "loading"} =>
               session[c] \/ ~flags[c].create \/ refused \/ Disturbed(c)

Preparing(c) ==
    /\ pc[c] \notin {"start", "failed"} /\ flags[c].load /\ HasHeader => header[c]
    /\ system = "timescaledb" /\ flags[c].load /\ pc[c] \in {"post", "load", "loading"} => WillKnow(c)
    /\ system = "clickhouse" /\ flags[c].load /\ flags[c].create
           /\ pc[c] \in {"create", "post", "load", "loading"} => WillKnow(c)
    /\ Keyspace(c)
    /\ Session(c)

Preparation == \A c \in Clients : Preparing(c)

LEMMA SameDisturbance ==
    ASSUME [Next]_vars, NEW c \in Clients
    PROVE  Disturbed(c)' <=> Disturbed(c)
BY FixedStays DEF Disturbed

\* A client prepares itself, whatever others do.
LEMMA PreparesOnly ==
    ASSUME IInv, NEW c \in Clients, Preparing(c), [Next]_vars,
           pc'[c] = pc[c], script'[c] = script[c], header'[c] = header[c],
           known'[c] = known[c], session'[c] = session[c], ~Execute(c)
    PROVE  Preparing(c)'
<1>1. system' = system /\ flags' = flags /\ Tables' = Tables
  BY FixedStays
<1>2. HasHeader' <=> HasHeader
  BY <1>1 DEF HasHeader
<1>3. WillKnow(c)' <=> WillKnow(c)
  BY <1>1 DEF WillKnow
<1>4. base /\ ~Disturbed(c) => base'
  BY BaseStays DEF Disturbed
<1>5. Keyspace(c)'
  BY <1>1, <1>4, SameDisturbance DEF Preparing, Keyspace
<1>6. Session(c)'
  BY <1>1, RefusedStays, SameDisturbance DEF Preparing, Session
<1> QED
  BY <1>1, <1>2, <1>3, <1>5, <1>6 DEF Preparing

\* The next statement brings a client nearer to its load.
LEMMA ExecutePrepares ==
    ASSUME IInv, NEW c \in Clients, Preparing(c), Execute(c), [Next]_vars
    PROVE  Preparing(c)'
<1> DEFINE s == Head(script[c])
<1>1. /\ script[c] # <<>> /\ Possible(s) /\ Done(s) /\ pc' = pc /\ header' = header
      /\ known' = [known EXCEPT ![c] = IF s.do = "learn" THEN @ \cup {s.table} ELSE @]
      /\ session' = [session EXCEPT ![c] = @ \/ s.do = "connect"]
      /\ script' = [script EXCEPT ![c] = IF s.do # "list" THEN Tail(@)
                                         ELSE IF system = "mongo" THEN DropCollections
                                         ELSE DropListed]
  BY DEF Execute
<1>2. Range(script[c]) = {s} \cup Range(Tail(script[c]))
      /\ pc[c] \in {"remove", "create", "post"}
  BY <1>1, InMethod
<1>3. s.do = "list" => pc[c] = "remove"
  BY <1>1, InMethod DEF InCreation, InPost, Creations, CreationsOfTables
<1> HIDE DEF s
<1>4. system' = system /\ flags' = flags /\ Tables' = Tables
  BY FixedStays
<1>5. HasHeader' <=> HasHeader
  BY <1>4 DEF HasHeader
<1>6. ASSUME pc[c] # "remove" PROVE script'[c] = Tail(script[c])
  BY <1>1, <1>3, <1>6 DEF IInv, TypeOK
<1>7. ASSUME pc[c] # "remove", WillKnow(c) PROVE WillKnow(c)'
  <2>1. known'[c] = IF s.do = "learn" THEN known[c] \cup {s.table} ELSE known[c]
    BY <1>1 DEF IInv, TypeOK
  <2>2. script'[c] = Tail(script[c])
    BY <1>6, <1>7
  <2>3. ASSUME NEW t \in Tables
        PROVE  t \in known'[c] \/ \E x \in Range(script'[c]) : x.do = "learn" /\ x.table = t
    <3>1. CASE t \in known[c]
      BY <2>1, <3>1
    <3>2. CASE \E x \in Range(script[c]) : x.do = "learn" /\ x.table = t
      BY <1>2, <2>1, <2>2, <3>2
    <3> QED
      BY <1>7, <3>1, <3>2 DEF WillKnow
  <2> QED
    BY <1>4, <2>3 DEF WillKnow
<1>8. base /\ pc[c] # "remove" /\ ~Disturbed(c) => base'
  BY BaseStays DEF Disturbed
<1>9. Keyspace(c)'
  <2> SUFFICES ASSUME system = "cassandra", flags[c].load, flags[c].create, ~Disturbed(c)
               PROVE  /\ pc[c] = "create" =>
                             base' \/ \E x \in Range(script'[c]) : x.do = "create database"
                      /\ pc[c] = "post" => base'
    BY <1>1, <1>4, SameDisturbance DEF Keyspace
  <2>1. pc[c] = "post" => base'
    BY <1>8 DEF Preparing, Keyspace
  <2>2. ASSUME pc[c] = "create", ~base'
        PROVE  \E x \in Range(script'[c]) : x.do = "create database"
    <3>1. PICK x \in Range(script[c]) : x.do = "create database"
      BY <1>8, <2>2 DEF Preparing, Keyspace
    <3>2. s.do # "create database"
      BY <1>1, <2>2 DEF Done
    <3> QED
      BY <1>2, <1>6, <2>2, <3>1, <3>2
  <2> QED
    BY <2>1, <2>2
<1>10. Session(c)'
  <2> SUFFICES ASSUME system = "cassandra", flags[c].load, pc[c] = "post"
               PROVE  session'[c] \/ \E x \in Range(script'[c]) : x.do = "connect"
    BY <1>1, <1>2, <1>4 DEF Session
  <2>1. session'[c] <=> (session[c] \/ s.do = "connect")
    BY <1>1 DEF IInv, TypeOK
  <2> QED
    BY <1>2, <1>6, <2>1 DEF Preparing, Session
<1> QED
  BY <1>1, <1>2, <1>4, <1>5, <1>7, <1>9, <1>10 DEF Preparing

\* A client that has ended, or not begun, has nothing to prepare.
LEMMA NothingToPrepare ==
    ASSUME [Next]_vars, NEW c \in Clients,
           pc'[c] = "failed" \/ ~flags[c].load
    PROVE  Preparing(c)'
BY FixedStays DEF Preparing, Keyspace, Session

\* Calling PostCreateDB.
LEMMA PostPrepares ==
    ASSUME IInv, NEW c \in Clients, [Next]_vars, MovesTo(c, "post", PostCreateDB(c)),
           HasHeader => header'[c], known'[c] = known[c],
           system = "clickhouse" /\ flags[c].create => Tables \subseteq known[c],
           system = "cassandra" /\ flags[c].create /\ ~Disturbed(c) => base'
    PROVE  Preparing(c)'
<1>1. system' = system /\ flags' = flags /\ Tables' = Tables
  BY FixedStays
<1>2. HasHeader' <=> HasHeader
  BY <1>1 DEF HasHeader
<1>3. pc'[c] = "post" /\ script'[c] = PostCreateDB(c)
  BY DEF MovesTo
<1>4. system = "timescaledb" => WillKnow(c)'
  <2>1. \A t \in Tables : Statement("learn", t).do = "learn" /\ Statement("learn", t).table = t
    BY TableStatement
  <2>2. system = "timescaledb" => \A t \in Tables : Statement("learn", t) \in Range(PostCreateDB(c))
    BY PostSays DEF IInv
  <2> QED
    BY <1>1, <1>3, <2>1, <2>2 DEF WillKnow
<1>5. system = "clickhouse" /\ flags[c].create => WillKnow(c)'
  BY <1>1 DEF WillKnow
<1>6. Keyspace(c)'
  BY <1>1, <1>3, SameDisturbance DEF Keyspace
<1>7. Session(c)'
  <2>1. Statement("connect", "").do = "connect"
    BY GeneralStatement
  <2>2. system = "cassandra" => Statement("connect", "") \in Range(PostCreateDB(c))
    BY PostSays DEF IInv
  <2> QED
    BY <1>1, <1>3, <2>1, <2>2 DEF Session
<1> QED
  BY <1>1, <1>2, <1>3, <1>4, <1>5, <1>6, <1>7 DEF Preparing

\* Calling CreateDB.
LEMMA CreatePrepares ==
    ASSUME IInv, NEW c \in Clients, [Next]_vars, MovesTo(c, "create", CreateDB),
           HasHeader => header'[c]
    PROVE  Preparing(c)'
<1>1. system' = system /\ flags' = flags /\ Tables' = Tables
  BY FixedStays
<1>2. HasHeader' <=> HasHeader
  BY <1>1 DEF HasHeader
<1>3. pc'[c] = "create" /\ script'[c] = CreateDB
  BY DEF MovesTo
<1>4. system = "clickhouse" => WillKnow(c)'
  <2>1. \A t \in Tables : Statement("learn", t).do = "learn" /\ Statement("learn", t).table = t
    BY TableStatement
  <2>2. system = "clickhouse" => \A t \in Tables : Statement("learn", t) \in Range(CreateDB)
    BY CreationSays DEF IInv
  <2> QED
    BY <1>1, <1>3, <2>1, <2>2 DEF WillKnow
<1>5. Keyspace(c)'
  <2>1. Statement("create database", "").do = "create database"
    BY GeneralStatement DEF Creations
  <2>2. system = "cassandra" => Statement("create database", "") \in Range(CreateDB)
    BY CreationSays DEF IInv
  <2> QED
    BY <1>1, <1>3, <2>1, <2>2 DEF Keyspace
<1> QED
  BY <1>1, <1>2, <1>3, <1>4, <1>5 DEF Preparing, Session

\* A method returns when its script is empty.
LEMMA ReturnPrepares ==
    ASSUME IInv, NEW c \in Clients, Preparing(c), Return(c), [Next]_vars
    PROVE  Preparing(c)'
<1>1. /\ base' = base /\ header' = header /\ known' = known /\ session' = session
      /\ script[c] = <<>>
  BY DEF Return, serverVars, localVars
<1>2. system' = system /\ flags' = flags /\ Tables' = Tables
  BY FixedStays
<1>3. flags[c].load /\ (HasHeader => header[c])
  BY DEF Return, IInv, Methods, MethodOf, Preparing
<1>4. Range(script[c]) = {}
  BY <1>1, None
<1>5. WillKnow(c) => Tables \subseteq known[c]
  BY <1>4 DEF WillKnow
<1>6. CASE pc[c] = "remove"
  BY <1>1, <1>3, <1>6, Becoming, CreatePrepares DEF Return
<1>7. CASE pc[c] = "create"
  <2>1. MovesTo(c, "post", PostCreateDB(c))
    BY <1>7, Becoming DEF Return
  <2>2. system = "clickhouse" /\ flags[c].create => Tables \subseteq known[c]
    BY <1>3, <1>5, <1>7 DEF Preparing
  <2>3. system = "cassandra" /\ flags[c].create /\ ~Disturbed(c) => base'
    BY <1>1, <1>3, <1>4, <1>7 DEF Preparing, Keyspace
  <2> QED
    BY <1>1, <1>3, <2>1, <2>2, <2>3, PostPrepares
<1>8. CASE pc[c] = "post"
  <2>1. pc'[c] = "load" /\ script'[c] = <<>>
    BY <1>8, Becoming DEF Return, MovesTo
  <2>2. HasHeader' <=> HasHeader
    BY <1>2 DEF HasHeader
  <2>3. WillKnow(c) => WillKnow(c)'
    BY <1>1, <1>2, <1>5 DEF WillKnow
  <2>4. Session(c)'
    BY <1>1, <1>2, <1>3, <1>4, <1>8, <2>1 DEF Preparing, Session
  <2> QED
    BY <1>1, <1>2, <1>3, <1>8, <2>1, <2>2, <2>3, <2>4 DEF Preparing, Keyspace
<1> QED
  BY <1>6, <1>7, <1>8 DEF Return

\* Without its session a client of Cassandra goes on.
LEMMA FailPrepares ==
    ASSUME IInv, NEW c \in Clients, Preparing(c), Fail(c), [Next]_vars
    PROVE  Preparing(c)'
<1> DEFINE s == Head(script[c])
<1>1. CASE s.do = "connect" /\ MovesTo(c, "load", <<>>)
  <2>1. script[c] # <<>> /\ header' = header /\ session' = session
        /\ refused' = (refused \/ Possible(s))
    BY DEF Fail, localVars
  <2>2. pc[c] = "post" /\ system = "cassandra" /\ flags[c].load
    BY <1>1, <2>1, InMethod
       DEF InRemoval, InCreation, InPost, Creations, DropsOfTables, CreationsOfTables
  <2>3. pc'[c] = "load"
    BY <1>1 DEF MovesTo
  <2>4. system' = system /\ flags' = flags
    BY FixedStays
  <2>5. Possible(s) <=> base
    BY <1>1 DEF Possible
  <2>6. Session(c)'
    BY <2>1, <2>2, <2>3, <2>4, <2>5, SameDisturbance DEF Preparing, Keyspace, Session
  <2>7. HasHeader' <=> HasHeader
    BY <2>4 DEF HasHeader
  <2> QED
    BY <2>1, <2>2, <2>3, <2>4, <2>6, <2>7 DEF Preparing, Keyspace
<1>2. CASE MovesTo(c, "failed", <<>>)
  BY <1>2, NothingToPrepare DEF MovesTo
<1>3. CASE system = "mongo"
  BY <1>3, FixedStays, HasHeader' <=> HasHeader DEF Preparing, Keyspace, Session, HasHeader
<1> QED
  BY <1>1, <1>2, <1>3, FailDecides

LEMMA ClientPrepares ==
    ASSUME IInv, NEW c \in Clients, Preparing(c), Client(c), [Next]_vars
    PROVE  Preparing(c)'
<1>1. system' = system /\ flags' = flags /\ Tables' = Tables
  BY FixedStays
<1>2. HasHeader' <=> HasHeader
  BY <1>1 DEF HasHeader
<1>3. CASE Start(c)
  <2>1. CASE flags[c].load
    <3>1. pc'[c] = "exists"
      BY <1>3, <2>1, Becoming DEF Start, MovesTo
    <3>2. header'[c] = HasHeader
      BY <1>3, <2>1 DEF Start, InitCreator, IInv, TypeOK
    <3> QED
      BY <1>2, <3>1, <3>2 DEF Preparing, Keyspace, Session
  <2> QED
    BY <2>1, NothingToPrepare
<1>4. CASE Unanswered(c) \/ WriteFails(c)
  BY <1>4, Becoming, NothingToPrepare DEF Unanswered, WriteFails, MovesTo
<1>5. CASE Check(c)
  <2>1. header' = header /\ known' = known /\ (HasHeader => header[c])
    <3>1. flags[c].load /\ pc[c] = "exists"
      BY <1>5, CheckDecides DEF Check
    <3> QED
      BY <1>5, <3>1 DEF Check, localVars, Preparing
  <2>2. CASE MovesTo(c, "failed", <<>>)
    BY <2>2, NothingToPrepare DEF MovesTo
  <2>3. CASE ~flags[c].create /\ MovesTo(c, "post", PostCreateDB(c))
    BY <2>1, <2>3, PostPrepares
  <2>4. CASE MovesTo(c, "remove", RemoveOldDB)
    BY <1>1, <1>2, <2>1, <2>4 DEF MovesTo, Preparing, Keyspace, Session
  <2>5. CASE MovesTo(c, "create", CreateDB)
    BY <2>1, <2>5, CreatePrepares
  <2> QED
    BY <1>5, <2>2, <2>3, <2>4, <2>5, CheckDecides
<1>6. CASE Execute(c)
  BY <1>6, ExecutePrepares
<1>7. CASE Fail(c)
  BY <1>7, FailPrepares
<1>8. CASE Return(c)
  BY <1>8, ReturnPrepares
<1>9. CASE Write(c)
  <2>1. /\ pc'[c] = "loading" /\ script'[c] = <<>> /\ pc[c] \in {"load", "loading"} /\ script[c] = <<>>
        /\ header' = header /\ known' = known /\ session' = session /\ refused' = refused
    BY <1>9, Becoming DEF Write, MovesTo, localVars, IInv, Methods, MethodOf
  <2>2. WillKnow(c) => WillKnow(c)'
    BY <1>1, <2>1 DEF WillKnow
  <2>3. Session(c)'
    BY <1>1, <2>1, SameDisturbance DEF Preparing, Session
  <2> QED
    BY <1>1, <1>2, <2>1, <2>2, <2>3 DEF Preparing, Keyspace
<1>10. CASE ReadOnly(c)
  BY <1>10, NothingToPrepare DEF ReadOnly
<1>12. CASE TakenForNone(c)
  <2>1. /\ header' = header /\ known' = known /\ session' = session
        /\ system = "cassandra" \/ system = "siridb"
    BY <1>12, TakenDecides
  <2>2. ~HasHeader
    BY <2>1 DEF HasHeader
  <2>3. CASE flags[c].create
    BY <1>12, <2>2, <2>3, TakenDecides, CreatePrepares
  <2>4. CASE ~flags[c].create
    BY <1>12, <2>1, <2>2, <2>4, TakenDecides, PostPrepares
  <2> QED
    BY <2>3, <2>4
<1>11. CASE End(c)
  <2>1. pc'[c] = "done" /\ header' = header /\ pc[c] = "loading"
    BY <1>11, Becoming DEF End, MovesTo, localVars
  <2> QED
    BY <1>1, <1>2, <2>1 DEF Preparing, Keyspace, Session
<1> QED
  BY <1>3, <1>4, <1>5, <1>6, <1>7, <1>8, <1>9, <1>10, <1>11, <1>12 DEF Client

\* At first there is nothing to prepare.
LEMMA PreparationStarts == Init => Preparation
BY DEF Init, Preparation, Preparing, Keyspace, Session

LEMMA PreparationKept == IInv /\ Preparation /\ [Next]_vars => Preparation'
<1> SUFFICES ASSUME IInv, Preparation, [Next]_vars, NEW d \in Clients PROVE Preparing(d)'
  BY DEF Preparation
<1>1. Preparing(d)
  BY DEF Preparation
<1>2. ASSUME Client(d) PROVE Preparing(d)'
  BY <1>1, <1>2, ClientPrepares
<1>3. ASSUME NEW c \in Clients, Client(c), c # d, ~Client(d) PROVE Preparing(d)'
  BY <1>1, <1>3, OthersStay, PreparesOnly DEF Client
<1>4. CASE UNCHANGED vars
  <2>1. ~Client(d) => Preparing(d)'
    BY <1>1, <1>4, PreparesOnly DEF Client, vars, localVars
  <2> QED
    BY <1>2, <2>1
<1> QED
  BY <1>2, <1>3, <1>4, NoClient DEF Next

\* A client that is prepared can run.
LEMMA PreparedRuns == IInv /\ Preparation => SetUpToRun
<1> SUFFICES ASSUME IInv, Preparation, NEW c \in Clients, pc[c] \in {"load", "loading"},
                    flags[c].load
             PROVE  /\ \/ Prepared(c)
                       \/ system = "clickhouse" /\ ~flags[c].create
                       \/ system = "cassandra" /\ (~flags[c].create \/ refused \/ Disturbed(c))
                    /\ HasHeader => header[c]
  BY DEF SetUpToRun
<1>1. Preparing(c) /\ script[c] = <<>> /\ known[c] \subseteq Tables
  BY DEF Preparation, IInv, Methods, MethodOf, TypeOK
<1>2. WillKnow(c) => known[c] = Tables
  BY <1>1, None DEF WillKnow
<1> QED
  BY <1>1, <1>2 DEF Preparing, Session, Prepared

\* A client that gets to its load knows the columns or has the session its processors write
\* with, and has left the header behind, unless the keyspace was not reached or taken away
\* (loader.go:233), or ClickHouse told another client the columns (loader.go:78).
THEOREM ClientsAreSetUp == Spec => []SetUpToRun
<1>1. IInv /\ Preparation => SetUpToRun
  BY PreparedRuns
<1>2. Init => Preparation
  BY PreparationStarts
<1> QED
  BY <1>1, <1>2, Invariance, PreparationKept, PTL DEF Spec
-----------------------------------------------------------------------------
(* Rows that are to be kept. *)

AllKeep == \A c \in Clients : Keeps(c)

\* It has created the database.
HasMade(c) ==
    /\ flags[c].load /\ flags[c].create
    /\ \/ pc[c] = "create" /\ script[c] = <<>>
       \/ pc[c] \in {"post", "load", "loading", "done"}

\* It may still drop tables.
Remaking(c) ==
    \/ pc[c] = "create"
    \/ pc[c] = "post" /\ \E s \in Range(script[c]) : s.do = "drop table if there"

\* Only TimescaleDB tables are dropped by clients that keep rows, and by one at most: who
\* was told to abort and has created the database.  Until its last drop no one can write,
\* as there is no table of metrics yet.
OneMaker == \A c, d \in Clients : HasMade(c) /\ HasMade(d) => c = d
MakerHasBase == \A c \in Clients : HasMade(c) => base
NoMetricsYet == \A c \in Clients : HasMade(c) /\ Remaking(c) => "metrics" \notin DOMAIN tables
NoRowsYet == "metrics" \notin DOMAIN tables => \A t \in DOMAIN tables : tables[t] = {}

Kept ==
    AllKeep /\ system = "timescaledb" => OneMaker /\ MakerHasBase /\ NoMetricsYet /\ NoRowsYet

Order == \A c \in Clients : pc[c] = "post" => MetricsLast(script[c])

LEMMA OrderStays ==
    ASSUME IInv, Order, [Next]_vars
    PROVE  Order'
<1>1. ASSUME NEW c \in Clients, Client(c), pc'[c] = "post"
      PROVE  MetricsLast(script'[c])
  <2>1. CASE Check(c)
    <3>1. script'[c] = PostCreateDB(c)
      BY <1>1, <2>1, CheckDecides DEF MovesTo
    <3> QED
      BY <3>1, PostSays DEF IInv
  <2>2. CASE Return(c)
    <3>1. pc[c] = "create"
      <4>1. pc[c] = "remove" => pc'[c] = "create"
        BY <2>2, Becoming DEF Return, MovesTo
      <4>2. pc[c] = "post" => pc'[c] = "load"
        BY <2>2, Becoming DEF Return, MovesTo
      <4> QED
        BY <1>1, <2>2, <4>1, <4>2 DEF Return
    <3>2. script'[c] = PostCreateDB(c)
      BY <2>2, <3>1, Becoming DEF Return, MovesTo
    <3> QED
      BY <3>2, PostSays DEF IInv
  <2>3. CASE Execute(c)
    <3>1. pc[c] = "post" /\ script[c] # <<>>
          /\ script' = [script EXCEPT ![c] = IF Head(script[c]).do # "list" THEN Tail(@)
                                             ELSE IF system = "mongo" THEN DropCollections
                                             ELSE DropListed]
      BY <1>1, <2>3 DEF Execute
    <3>2. Head(script[c]).do # "list"
      BY <3>1, InMethod DEF InPost
    <3>3. script'[c] = Tail(script[c]) /\ script[c] \in Seq(Statements)
      BY <3>1, <3>2 DEF IInv, TypeOK
    <3>4. \A i \in DOMAIN Tail(script[c]) :
              i + 1 \in DOMAIN script[c] /\ Tail(script[c])[i] = script[c][i + 1]
      BY <3>1, <3>3, Parts
    <3>5. \A i \in DOMAIN Tail(script[c]) : i \in Int
      <4>1. Tail(script[c]) \in Seq(Statements)
        BY <3>1, InMethod
      <4> QED
        BY <4>1
    <3>6. MetricsLast(script[c])
      BY <3>1 DEF Order
    <3> SUFFICES ASSUME NEW i \in DOMAIN Tail(script[c]), NEW j \in DOMAIN Tail(script[c]),
                        Tail(script[c])[i] = Statement("create table", "metrics"),
                        Tail(script[c])[j].do = "drop table if there"
                 PROVE  j < i
      BY <3>3 DEF MetricsLast
    <3>7. j + 1 < i + 1
      BY <3>4, <3>6 DEF MetricsLast
    <3>8. i \in Int /\ j \in Int
      BY <3>5
    <3> QED
      BY ONLY <3>7, <3>8
  <2>4. CASE TakenForNone(c)
    <3>1. script'[c] = PostCreateDB(c)
      BY <1>1, <2>4, TakenDecides DEF MovesTo
    <3> QED
      BY <3>1, PostSays DEF IInv
  <2>5. CASE Fail(c)
    BY <1>1, <2>5, FailDecides DEF MovesTo
  <2>6. CASE ~(TakenForNone(c) \/ Check(c) \/ Fail(c) \/ Return(c) \/ Execute(c))
    <3>1. PICK p \in {"exists", "load", "loading", "done", "failed"} : MovesTo(c, p, <<>>)
      BY <1>1, <2>6, Becoming
         DEF Client, Start, Unanswered, Write, WriteFails, ReadOnly, End
    <3> QED
      BY <1>1, <3>1 DEF MovesTo
  <2> QED
    BY <2>1, <2>2, <2>3, <2>4, <2>5, <2>6
<1>2. ASSUME NEW c \in Clients, Client(c), NEW d \in Clients, pc'[d] = "post"
      PROVE  MetricsLast(script'[d])
  BY <1>1, <1>2, OthersStay DEF Order
<1>3. CASE UNCHANGED vars
  BY <1>3 DEF vars, Order
<1> QED
  BY <1>2, <1>3, NoClient DEF Next, Order

\* Clients that keep rows and their systems stay what they are.
LEMMA KeepersStay ==
    ASSUME [Next]_vars
    PROVE  /\ AllKeep' <=> AllKeep
           /\ \A c \in Clients : Keeps(c)' <=> Keeps(c)
BY FixedStays DEF AllKeep, Keeps

\* What a client that keeps rows executes.
LEMMA KeepersSay ==
    ASSUME IInv, AllKeep, NEW c \in Clients, script[c] # <<>>
    PROVE  \/ pc[c] = "create" /\ flags[c].create /\ InCreation(Head(script[c]))
           \/ pc[c] = "post" /\ Head(script[c]).do \in {"learn", "connect"}
           \/ /\ pc[c] = "post" /\ system = "timescaledb" /\ HasMade(c)
              /\ Head(script[c]).do \in {"drop table if there", "create table"}
<1>1. Keeps(c)
  BY DEF AllKeep
<1>2. pc[c] # "remove"
  BY <1>1, InMethod DEF Keeps
<1>3. CASE pc[c] = "create"
  BY <1>3, InMethod
<1>4. CASE pc[c] = "post"
  BY <1>1, <1>4, InMethod DEF InPost, Keeps, HasMade
<1> QED
  BY <1>2, <1>3, <1>4, InMethod

\* Steps that make no database and neither drop nor create tables.
LEMMA SameMakers ==
    ASSUME IInv, Kept, [Next]_vars, base' = base, DOMAIN tables' = DOMAIN tables,
           "metrics" \notin DOMAIN tables => tables' = tables,
           \A d \in Clients : HasMade(d)' => HasMade(d) /\ (Remaking(d)' => Remaking(d))
    PROVE  Kept'
<1> SUFFICES ASSUME AllKeep, system = "timescaledb"
             PROVE  OneMaker' /\ MakerHasBase' /\ NoMetricsYet' /\ NoRowsYet'
  BY KeepersStay, FixedStays DEF Kept
<1>1. OneMaker /\ MakerHasBase /\ NoMetricsYet /\ NoRowsYet
  BY DEF Kept
<1>2. OneMaker'
  BY <1>1 DEF OneMaker
<1>3. MakerHasBase'
  BY <1>1 DEF MakerHasBase
<1>4. NoMetricsYet'
  BY <1>1 DEF NoMetricsYet
<1>5. NoRowsYet'
  BY <1>1 DEF NoRowsYet
<1> QED
  BY <1>2, <1>3, <1>4, <1>5

\* A client whose place does not change.
LEMMA OthersMake ==
    ASSUME [Next]_vars, NEW d \in Clients, pc'[d] = pc[d], script'[d] = script[d]
    PROVE  /\ HasMade(d)' <=> HasMade(d)
           /\ Remaking(d)' <=> Remaking(d)
BY FixedStays DEF HasMade, Remaking

\* A client creates the database, the first there is.
LEMMA MakingKeeps ==
    ASSUME IInv, Kept, NEW c \in Clients, Execute(c), [Next]_vars, AllKeep,
           system = "timescaledb", pc[c] = "create"
    PROVE  Kept'
<1> DEFINE s == Head(script[c])
<1>1. script[c] # <<>> /\ Possible(s) /\ Done(s) /\ pc' = pc
  BY DEF Execute
<1>2. s.do = "create database"
  BY <1>1, InMethod DEF IInv, Methods, MethodOf
<1> HIDE DEF s
<1>3. ~base /\ base' = TRUE /\ tables' = tables /\ DOMAIN tables = {}
  BY <1>1, <1>2 DEF Possible, Done, IInv, TablesNeedBase
<1>4. \A d \in Clients : ~HasMade(d)
  BY <1>3 DEF Kept, MakerHasBase
<1>5. \A d \in Clients : d # c => ~HasMade(d)'
  BY <1>4, OthersStay, OthersMake DEF Client
<1> QED
  BY <1>3, <1>5 DEF Kept, OneMaker, MakerHasBase, NoMetricsYet, NoRowsYet

\* Who made the database makes its tables, first of all without one of metrics.
LEMMA RemakingKeeps ==
    ASSUME IInv, Order, Kept, NEW c \in Clients, Execute(c), [Next]_vars, AllKeep,
           system = "timescaledb", pc[c] = "post", HasMade(c)
    PROVE  Kept'
<1> DEFINE s == Head(script[c])
<1>1. /\ script[c] # <<>> /\ Possible(s) /\ Done(s) /\ pc' = pc
      /\ script' = [script EXCEPT ![c] = IF s.do # "list" THEN Tail(@)
                                         ELSE IF system = "mongo" THEN DropCollections
                                         ELSE DropListed]
  BY DEF Execute
<1>2. s \in Statements /\ Range(script[c]) = {s} \cup Range(Tail(script[c]))
      /\ s.do \in {"learn", "connect", "drop table if there", "create table"}
  BY <1>1, KeepersSay, InMethod
<1>3. script'[c] = Tail(script[c])
  BY <1>1, <1>2 DEF IInv, TypeOK
<1>4. HasMade(c)' /\ (Remaking(c)' => Remaking(c))
  BY <1>1, <1>2, <1>3, FixedStays DEF HasMade, Remaking
<1>5. \A d \in Clients : d # c => (HasMade(d)' <=> HasMade(d)) /\ (Remaking(d)' <=> Remaking(d))
  BY OthersStay, OthersMake DEF Client
<1>6. OneMaker /\ MakerHasBase /\ NoMetricsYet /\ NoRowsYet
  BY DEF Kept
<1>7. \A d \in Clients : HasMade(d)' => d = c
  BY <1>5, <1>6 DEF OneMaker
<1>8. OneMaker'
  BY <1>7 DEF OneMaker
<1>9. base' = base /\ base
  BY <1>1, <1>2, <1>6 DEF Done, MakerHasBase
<1>10. MakerHasBase'
  BY <1>9 DEF MakerHasBase
<1>11. SUFFICES /\ Remaking(c)' => "metrics" \notin DOMAIN tables'
                /\ NoRowsYet'
  BY <1>7, <1>8, <1>10 DEF Kept, NoMetricsYet
<1>12. Remaking(c) => "metrics" \notin DOMAIN tables
  BY <1>6 DEF NoMetricsYet
<1>13. CASE s.do \in {"learn", "connect"}
  <2>1. tables' = tables
    BY <1>1, <1>13 DEF Done
  <2> QED
    BY <1>4, <1>6, <1>12, <2>1 DEF NoRowsYet
<1>14. CASE s.do = "drop table if there"
  <2>1. tables' = [u \in DOMAIN tables \ {s.table} |-> tables[u]]
    BY <1>1, <1>14 DEF Done, Without
  <2>2. Remaking(c)
    BY <1>2, <1>14 DEF Remaking
  <2> QED
    BY <1>6, <1>12, <2>1, <2>2 DEF NoRowsYet
<1>15. CASE s.do = "create table"
  <2>1. tables' = With({s.table})
    BY <1>1, <1>15 DEF Done
  <2>2. DOMAIN tables' = DOMAIN tables \cup {s.table}
        /\ \A t \in DOMAIN tables' :
               tables'[t] = IF t \in DOMAIN tables THEN tables[t] ELSE {}
    BY <2>1 DEF With
  <2>3. NoRowsYet'
    BY <1>6, <2>2 DEF NoRowsYet
  <2>4. CASE s.table # "metrics"
    BY <1>4, <1>12, <2>2, <2>3, <2>4
  <2>5. CASE s.table = "metrics"
    <3>1. s = Statement("create table", "metrics")
      BY <1>2, <1>15, <2>5 DEF Statements, Statement
    <3>2. MetricsLast(script[c]) /\ script[c] \in Seq(Statements)
      BY DEF Order, IInv, TypeOK
    <3>3. 1 \in DOMAIN script[c] /\ script[c][1] = s
      BY <1>1, <3>2
    <3>4. ASSUME NEW x \in Range(Tail(script[c])), x.do = "drop table if there" PROVE FALSE
      <4>1. PICK j \in DOMAIN script[c] : script[c][j] = x
        BY <1>2, <3>4 DEF Range
      <4>2. j < 1
        BY <3>1, <3>2, <3>3, <3>4, <4>1 DEF MetricsLast
      <4>3. j \in 1..Len(script[c])
        BY <3>2, <4>1
      <4> QED
        BY <4>2, <4>3
    <3>5. ~Remaking(c)'
      BY <1>1, <1>3, <3>4 DEF Remaking
    <3> QED
      BY <2>3, <3>5
  <2> QED
    BY <2>4, <2>5
<1> QED
  BY <1>2, <1>13, <1>14, <1>15

\* Where the place of a client takes it.
LEMMA MakersGoOn ==
    ASSUME IInv, NEW c \in Clients, Client(c), ~Execute(c), [Next]_vars,
           system = "timescaledb"
    PROVE  HasMade(c)' => HasMade(c) /\ (Remaking(c)' => Remaking(c))
<1>1. system' = system /\ flags' = flags
  BY FixedStays
<1>2. CASE Start(c)
  BY <1>1, <1>2, Becoming DEF Start, MovesTo, HasMade
<1>3. CASE Unanswered(c) \/ WriteFails(c) \/ ReadOnly(c)
  BY <1>1, <1>3, Becoming DEF Unanswered, WriteFails, ReadOnly, MovesTo, HasMade
<1>4. CASE Check(c)
  <2>1. CreateDB # <<>>
    BY CreationSays, None DEF IInv
  <2> QED
    BY <1>1, <1>4, <2>1, CheckDecides DEF MovesTo, HasMade
<1>5. CASE Fail(c)
  <2>1. Head(script[c]).do # "connect"
    BY <1>5, FailDecides, InMethod
       DEF InRemoval, InCreation, InPost, Creations, DropsOfTables, CreationsOfTables
  <2> QED
    BY <1>5, <2>1, FailDecides DEF MovesTo, HasMade
<1>6. CASE Return(c)
  <2>1. CASE pc[c] = "remove"
    <3>1. CreateDB # <<>>
      BY CreationSays, None DEF IInv
    <3> QED
      BY <1>6, <2>1, <3>1, Becoming DEF Return, MovesTo, HasMade
  <2>2. CASE pc[c] \in {"create", "post"}
    <3>1. pc'[c] = IF pc[c] = "create" THEN "post" ELSE "load"
      BY <1>6, <2>2, Becoming DEF Return, MovesTo
    <3> QED
      BY <1>1, <1>6, <2>2, <3>1 DEF Return, HasMade, Remaking
  <2> QED
    BY <1>6, <2>1, <2>2 DEF Return
<1>7. CASE Write(c)
  BY <1>1, <1>7, Becoming DEF Write, MovesTo, HasMade, Remaking
<1>8. CASE End(c)
  BY <1>1, <1>8, Becoming DEF End, MovesTo, HasMade, Remaking
<1> QED
  BY <1>2, <1>3, <1>4, <1>5, <1>6, <1>7, <1>8, TakenDecides DEF Client

LEMMA KeptStays ==
    ASSUME IInv, Order, Kept, [Next]_vars
    PROVE  Kept'
<1> SUFFICES ASSUME AllKeep, system = "timescaledb" PROVE Kept'
  BY KeepersStay, FixedStays DEF Kept
<1>1. ASSUME NEW c \in Clients, Execute(c) PROVE Kept'
  <2>1. script[c] # <<>>
    BY <1>1 DEF Execute
  <2>2. CASE pc[c] = "create"
    BY <1>1, <2>2, MakingKeeps
  <2>3. CASE pc[c] = "post" /\ HasMade(c)
    BY <1>1, <2>3, RemakingKeeps
  <2>4. CASE pc[c] = "post" /\ ~HasMade(c)
    <3>1. Head(script[c]).do \in {"learn", "connect"} /\ ~flags[c].create
      BY <2>1, <2>4, KeepersSay, InMethod DEF HasMade
    <3>2. base' = base /\ tables' = tables
      BY <1>1, <3>1 DEF Execute, Done
    <3>3. \A d \in Clients : HasMade(d)' => HasMade(d) /\ (Remaking(d)' => Remaking(d))
      BY <1>1, <3>1, OthersStay, OthersMake, FixedStays DEF Client, HasMade
    <3> QED
      BY <3>2, <3>3, SameMakers
  <2> QED
    BY <2>1, <2>2, <2>3, <2>4, KeepersSay
<1>2. ASSUME NEW c \in Clients, Client(c), ~Execute(c) PROVE Kept'
  <2>1. \A d \in Clients : HasMade(d)' => HasMade(d) /\ (Remaking(d)' => Remaking(d))
    BY <1>2, MakersGoOn, OthersStay, OthersMake
  <2>2. base' = base
    BY <1>2 DEF Client, Start, Unanswered, TakenForNone, Check, Fail, Return, Write, WriteFails, ReadOnly, End,
                serverVars
  <2>3. CASE Write(c)
    <3>1. "metrics" \in DOMAIN tables /\ DOMAIN tables = Tables
      BY <2>3, TablesAre DEF Write, CanWrite, IInv, TypeOK
    <3>2. DOMAIN tables' = Tables
      BY <2>3 DEF Write
    <3> QED
      BY <2>1, <2>2, <3>1, <3>2, SameMakers
  <2>4. CASE ~Write(c)
    <3>1. tables' = tables
      BY <1>2, <2>4
         DEF Client, Start, Unanswered, TakenForNone, Check, Fail, Return, WriteFails, ReadOnly, End, serverVars
    <3> QED
      BY <2>1, <2>2, <3>1, SameMakers
  <2> QED
    BY <2>3, <2>4
<1>3. CASE UNCHANGED vars
  BY <1>3, SameMakers, OthersMake DEF vars, serverVars
<1> QED
  BY <1>1, <1>2, <1>3, NoClient DEF Next

\* A statement of a client that keeps rows destroys none.
LEMMA KeepersDestroyNothing ==
    ASSUME IInv, Kept, [Next]_vars, AllKeep, NEW t \in DOMAIN tables, tables[t] # {}
    PROVE  t \in DOMAIN tables' /\ tables[t] \subseteq tables'[t]
<1>1. ASSUME NEW c \in Clients, Execute(c)
      PROVE  t \in DOMAIN tables' /\ tables[t] \subseteq tables'[t]
  <2> DEFINE s == Head(script[c])
  <2>1. script[c] # <<>> /\ Possible(s) /\ Done(s) /\ s \in Statements
    BY <1>1, InMethod DEF Execute
  <2>2. s.do # "drop table if there"
    <3> SUFFICES ASSUME s.do = "drop table if there" PROVE FALSE
      OBVIOUS
    <3>1. pc[c] = "post" /\ system = "timescaledb" /\ HasMade(c)
      BY <2>1, KeepersSay DEF InCreation, Creations, CreationsOfTables
    <3>2. Remaking(c)
      BY <2>1, <3>1, InMethod DEF Remaking
    <3> QED
      BY <3>1, <3>2 DEF Kept, NoMetricsYet, NoRowsYet
  <2>3. s.do \notin {"drop table", "drop database"}
    BY <2>1, KeepersSay DEF InCreation, Creations, CreationsOfTables
  <2>4. t \in DOMAIN tables'
    BY <2>1, <2>2, <2>3 DEF Done, With
  <2>5. tables'[t] = tables[t]
    BY <2>1, <2>4, ServerDoes
  <2> QED
    BY <2>4, <2>5
<1>2. ASSUME NEW c \in Clients, Write(c)
      PROVE  t \in DOMAIN tables' /\ tables[t] \subseteq tables'[t]
  <2>1. tables' = [u \in Tables |-> {c} \cup IF u \in DOMAIN tables THEN tables[u] ELSE {}]
        /\ t \in Tables
    BY <1>2 DEF Write, IInv, TypeOK
  <2> QED
    BY <2>1
<1>3. ASSUME NEW c \in Clients, Client(c), ~Execute(c), ~Write(c) PROVE tables' = tables
  BY <1>3 DEF Client, Start, Unanswered, TakenForNone, Check, Fail, Return, WriteFails, ReadOnly, End, serverVars
<1>4. CASE UNCHANGED vars
  BY <1>4 DEF vars, serverVars
<1> QED
  BY <1>1, <1>2, <1>3, <1>4, NoClient DEF Next

\* Clients that are all told to keep what is there (loader.go:212, 218) never destroy a row,
\* although one of them may drop tables (cmd/tsbs_load_timescaledb/creator.go:205).
THEOREM KeepersKeepRows == Spec => RowsAreKept
<1>1. Init => Order /\ Kept
  <2> SUFFICES ASSUME Init PROVE Order /\ Kept
    OBVIOUS
  <2>1. Order /\ OneMaker /\ MakerHasBase /\ NoMetricsYet
    BY DEF Init, Order, OneMaker, MakerHasBase, NoMetricsYet, HasMade
  <2>2. ASSUME system = "timescaledb" PROVE NoRowsYet
    <3>1. "metrics" \in Tables
      BY <2>2, TablesAre
    <3>2. tables \in {[t \in Tables |-> {Old}], <<>>}
      BY <2>2 DEF Init
    <3>3. DOMAIN <<>> = {}
      OBVIOUS
    <3> QED
      BY <3>1, <3>2, <3>3 DEF NoRowsYet
  <2> QED
    BY <2>1, <2>2 DEF Kept
<1>2. IInv /\ Kept /\ [Next]_vars =>
          [AllKeep => \A t \in DOMAIN tables : tables[t] # {} =>
                          t \in DOMAIN tables' /\ tables[t] \subseteq tables'[t]]_vars
  BY KeepersDestroyNothing
<1>3. IInv /\ Order /\ Kept /\ [Next]_vars => Order' /\ Kept'
  BY OrderStays, KeptStays
<1>4. RowsAreKept
          <=> [][AllKeep => \A t \in DOMAIN tables : tables[t] # {} =>
                                t \in DOMAIN tables' /\ tables[t] \subseteq tables'[t]]_vars
  BY PTL DEF RowsAreKept, AllKeep
<1> QED
  BY <1>1, <1>2, <1>3, <1>4, Invariance, PTL DEF Spec
-----------------------------------------------------------------------------
(* Clients that follow the procedure. *)

\* One client creates the database, the others start once it loads, no one is kept from what
\* it does but by the state of the database, and the procedure works on this system.
Course ==
    /\ OneCreates /\ ~refused
    /\ system = "timescaledb" => \A d \in Clients : flags[d].tables <=> flags[d].create
    /\ ~(system = "siridb" /\ pc[1] = "failed")

\* Which statements a system knows.
OfSystem(x) ==
    /\ x.do \in {"drop database", "create database"} => ~AlwaysThere
    /\ x.do = "list" => system \in {"cratedb", "mongo"}
    /\ x.do = "refuse" => system = "siridb"
    /\ x.do = "drop table" => system = "cratedb"
    /\ x.do = "drop table if there" => system \in {"mongo", "timescaledb"}
    /\ x.do = "create table if not there" => system = "mongo"
    /\ x.do = "create table" => system \in {"timescaledb", "clickhouse", "cassandra", "cratedb"}

NeedsBase == CreationsOfTables \cup {"drop table if there", "connect"}

Drops(x, t) == x.do = "drop table if there" /\ x.table = t

\* A statement is possible once those before it are done.
InItsTurn(s, i) ==
    /\ s[i].do = "create database" => i = 1 /\ ~base
    /\ s[i].do \in NeedsBase => base \/ s[1].do = "create database"
    /\ s[i].do = "create table" =>
           s[i].table \notin DOMAIN tables \/ \E j \in DOMAIN s : j < i /\ Drops(s[j], s[i].table)
    /\ s[i].do = "drop table" => s[i].table \in DOMAIN tables
    /\ s[i].do \in {"drop database", "list", "refuse"} => Len(s) = 1

CanRun(s) == IsInjective(s) /\ \A i \in DOMAIN s : OfSystem(s[i]) /\ InItsTurn(s, i)

\* Nothing will be left of an older database.
Clears(s) ==
    /\ base /\ ~AlwaysThere => \E x \in Range(s) : x.do \in {"drop database", "refuse"}
    /\ system # "redistimeseries" => \A t \in DOMAIN tables : \E x \in Range(s) : Removes(x, t)

\* There will be a database, and a table in it.
HasBase(s) == base \/ \E x \in Range(s) : x.do \in Creations

Makes(x, t) ==
    \/ x.do \in CreationsOfTables /\ x.table = t
    \/ x.do \in Creations /\ system \in {"influx", "siridb"}

HasTable(s, t) ==
    \/ t \in DOMAIN tables /\ \A j \in DOMAIN s : ~Drops(s[j], t)
    \/ \E i \in DOMAIN s : Makes(s[i], t) /\ \A j \in DOMAIN s : Drops(s[j], t) => j < i

Past == {"load", "loading", "done"}

\* The first client will find the server able to do what it says, and leave it with all the
\* others need; the tables of TimescaleDB are made by its PostCreateDB.
FirstLeads ==
    /\ pc[1] \in {"remove", "create", "post"} => CanRun(script[1])
    /\ pc[1] = "remove" => Clears(script[1])
    /\ pc[1] \in {"create", "post"} \cup Past => HasBase(script[1])
    /\ pc[1] \in {"create", "post"} \cup Past /\ ~(pc[1] = "create" /\ system = "timescaledb") =>
           \A t \in Tables : HasTable(script[1], t)

StoreIsThere ==
    /\ AlwaysThere => base
    /\ system = "redistimeseries" => DOMAIN tables = Tables

FollowsFirst(c) ==
    /\ pc[c] = "failed" => c # 1 /\ system = "clickhouse"
    /\ c # 1 /\ pc[c] # "start" => pc[1] \in Past
    /\ system = "cassandra" /\ pc[c] \in {"load", "loading"} => session[c]
    /\ pc[c] \in {"loading", "done"} => Holds(c)

Together == Course => FirstLeads /\ StoreIsThere /\ \A c \in Clients : FollowsFirst(c)

\* A statement is what it does, to which table.
LEMMA SameStatement ==
    ASSUME NEW x \in Statements, NEW y \in Statements, x.do = y.do, x.table = y.table
    PROVE  x = y
<1>1. x = [do |-> x.do, table |-> x.table] /\ y = [do |-> y.do, table |-> y.table]
  BY DEF Statements
<1> QED
  BY <1>1

\* The method of one statement, or none.
LEMMA NoneRuns == CanRun(<<>>)
<1>1. DOMAIN <<>> = {}
  OBVIOUS
<1> QED
  BY <1>1 DEF CanRun, IsInjective

\* The places of short scripts.
LEMMA One ==
    ASSUME NEW a
    PROVE  DOMAIN <<a>> = {1} /\ <<a>>[1] = a /\ Len(<<a>>) = 1
OBVIOUS

LEMMA Two ==
    ASSUME NEW S, NEW a \in S, NEW b \in S
    PROVE  LET s == <<a>> \o <<b>>
           IN  s \in Seq(S) /\ DOMAIN s = 1..2 /\ s[1] = a /\ s[2] = b
OBVIOUS

LEMMA Five ==
    ASSUME NEW S, NEW a \in S, NEW b \in S, NEW c \in S, NEW d \in S, NEW e \in S
    PROVE  LET s == <<a>> \o <<b, c>> \o <<d, e>>
           IN  s \in Seq(S) /\ DOMAIN s = 1..5 /\ s[1] = a /\ s[2] = b /\ s[3] = c /\ s[4] = d /\ s[5] = e
OBVIOUS

LEMMA Six ==
    ASSUME NEW S, NEW a \in S, NEW b \in S, NEW c \in S, NEW d \in S, NEW e \in S, NEW f \in S
    PROVE  LET s == <<a, b>> \o <<c, d>> \o <<e, f>>
           IN  /\ s \in Seq(S) /\ DOMAIN s = 1..6
               /\ s[1] = a /\ s[2] = b /\ s[3] = c /\ s[4] = d /\ s[5] = e /\ s[6] = f
OBVIOUS

LEMMA OneRuns ==
    ASSUME NEW a \in Statements, OfSystem(a), a.do # "create table",
           a.do \in NeedsBase => base, a.do = "create database" => ~base,
           a.do # "drop table"
    PROVE  CanRun(<<a>>)
<1> DEFINE s == <<a>>
<1>1. DOMAIN s = {1} /\ s[1] = a /\ Len(s) = 1
  BY One
<1> HIDE DEF s
<1>2. CanRun(s)
  BY <1>1 DEF CanRun, IsInjective, InItsTurn
<1> QED
  BY <1>2 DEF s

\* A statement on each of some tables.
LEMMA EachRuns ==
    ASSUME NEW do \in DropsOfTables \cup CreationsOfTables, NEW ts \in SUBSET Tables,
           \A t \in ts : OfSystem(Statement(do, t)), do # "drop table" => base,
           do = "create table" => ts \cap DOMAIN tables = {},
           do = "drop table" => ts \subseteq DOMAIN tables
    PROVE  CanRun(Each(do, ts))
<1> DEFINE s == Each(do, ts)
<1>1. IsInjective(s) /\ Range(s) = {Statement(do, t) : t \in ts}
  BY EachSays
<1>2. \A t \in ts : Statement(do, t).do = do /\ Statement(do, t).table = t
  BY TableStatement
<1> HIDE DEF s
<1>3. ASSUME NEW i \in DOMAIN s PROVE OfSystem(s[i]) /\ InItsTurn(s, i)
  <2>1. PICK t \in ts : s[i] = Statement(do, t)
    BY <1>1 DEF Range
  <2>2. s[i].do = do /\ s[i].table = t /\ OfSystem(s[i])
    BY <1>2, <2>1
  <2> QED
    BY <2>2 DEF InItsTurn, NeedsBase, DropsOfTables, CreationsOfTables
<1>4. CanRun(s)
  BY <1>1, <1>3 DEF CanRun
<1> QED
  BY <1>4 DEF s

\* It removes what there is.
LEMMA RemovalRuns ==
    ASSUME TypeOK
    PROVE  CanRun(RemoveOldDB) /\ Clears(RemoveOldDB)
<1>1. ASSUME NEW do \in {"list", "refuse", "drop database"}, RemoveOldDB = <<Statement(do, "")>>,
             do = "list" => system \in {"cratedb", "mongo"},
             do = "refuse" => system = "siridb",
             do = "drop database" => ~AlwaysThere
      PROVE  CanRun(RemoveOldDB) /\ Clears(RemoveOldDB)
  <2> DEFINE a == Statement(do, "")
  <2>1. a \in Statements /\ a.do = do /\ Range(<<a>>) = {a}
    BY GeneralStatement
  <2> HIDE DEF a
  <2>2. CanRun(<<a>>)
    BY <1>1, <2>1, OneRuns DEF OfSystem, NeedsBase, CreationsOfTables
  <2>3. Clears(<<a>>)
    BY <1>1, <2>1 DEF Clears, Removes, AlwaysThere
  <2> QED
    BY <1>1, <2>2, <2>3 DEF a
<1>2. CASE system \in {"cratedb", "mongo"}
  BY <1>1, <1>2 DEF RemoveOldDB
<1>3. CASE system = "siridb"
  BY <1>1, <1>3 DEF RemoveOldDB
<1>4. CASE system = "redistimeseries"
  <2>1. RemoveOldDB = <<>>
    BY <1>4 DEF RemoveOldDB
  <2> QED
    BY <1>4, <2>1, NoneRuns DEF Clears, AlwaysThere
<1>5. CASE system \notin {"cratedb", "mongo", "siridb", "redistimeseries"}
  BY <1>1, <1>5 DEF RemoveOldDB, DropDatabase, AlwaysThere
<1> QED
  BY <1>2, <1>3, <1>4, <1>5

\* So do the drops that follow a list.
LEMMA DropsRun ==
    ASSUME TypeOK, system \in {"cratedb", "mongo"}, base
    PROVE  LET drops == IF system = "mongo" THEN DropCollections ELSE DropListed
           IN  CanRun(drops) /\ Clears(drops)
<1> DEFINE drops == IF system = "mongo" THEN DropCollections ELSE DropListed
<1>1. AlwaysThere
  BY DEF AlwaysThere
<1>2. \A t \in DOMAIN tables : \E x \in Range(drops) : Removes(x, t)
  BY DropsSay
<1> DEFINE do == IF system = "mongo" THEN "drop table if there" ELSE "drop table"
<1>3. drops = Each(do, DOMAIN tables)
  BY DEF DropListed, DropCollections
<1>4. do \in DropsOfTables /\ do # "create table" /\ DOMAIN tables \subseteq Tables
  BY DEF DropsOfTables, TypeOK
<1>5. \A t \in Tables : Statement(do, t).do = do
  BY <1>4, TableStatement
<1>6. \A t \in DOMAIN tables : OfSystem(Statement(do, t))
  BY <1>4, <1>5 DEF OfSystem
<1> HIDE DEF do
<1>7. CanRun(Each(do, DOMAIN tables))
  BY <1>4, <1>6, EachRuns
<1> QED
  BY <1>1, <1>2, <1>3, <1>7 DEF Clears

\* SetToSeq of one element.
LEMMA OnlyOne ==
    ASSUME NEW x
    PROVE  SetToSeq({x}) = <<x>>
<1> DEFINE s == SetToSeq({x})
<1>1. s \in Seq({x}) /\ Range(s) = {x} /\ IsInjective(s)
  BY Listing, FS_Singleton
<1> HIDE DEF s
<1>2. Len(s) \in Nat /\ DOMAIN s = 1..Len(s)
  BY <1>1
<1>3. \A i \in DOMAIN s : s[i] = x
  BY <1>1 DEF Range
<1>4. DOMAIN s # {}
  BY <1>1 DEF Range
<1>5. \A i, j \in 1..Len(s) : i = j
  BY <1>1, <1>2, <1>3 DEF IsInjective
<1>6. Len(s) = 1
  BY <1>2, <1>4, <1>5
<1>7. s = <<x>>
  BY <1>1, <1>2, <1>3, <1>6
<1> QED
  BY <1>7 DEF s

\* A table that is made is there in the end, where none is dropped.
LEMMA WillHaveTable ==
    ASSUME NEW s, NEW t, NEW x \in Range(s), Makes(x, t), \A y \in Range(s) : InCreation(y)
    PROVE  HasTable(s, t)
<1>1. PICK i \in DOMAIN s : s[i] = x
  BY DEF Range
<1>2. \A j \in DOMAIN s : ~Drops(s[j], t)
  BY DEF Range, InCreation, Drops, CreationsOfTables, Creations
<1> QED
  BY <1>1, <1>2 DEF HasTable

\* A server that knows no database, and holds no tables, can make them.
LEMMA CreationRuns ==
    ASSUME TypeOK, StoreIsThere, base => AlwaysThere,
           system # "redistimeseries" => DOMAIN tables = {}
    PROVE  /\ CanRun(CreateDB) /\ HasBase(CreateDB)
           /\ system # "timescaledb" => \A t \in Tables : HasTable(CreateDB, t)
<1> DEFINE cd == Statement("create database", "")
<1>1. /\ cd \in Statements /\ cd.do = "create database"
      /\ CreateDatabase = <<cd>> /\ Range(<<cd>>) = {cd}
  BY GeneralStatement DEF Creations, CreateDatabase
<1>2. \A y \in Range(CreateDB) : InCreation(y)
  BY CreationSays
<1>3. \A do \in CreationsOfTables \cup {"learn"}, t \in Tables :
          /\ Statement(do, t) \in Statements
          /\ Statement(do, t).do = do /\ Statement(do, t).table = t
  BY TableStatement
<1> HIDE DEF cd
<1>4. CASE system = "clickhouse"
  <2> DEFINE b == Statement("create table", "tags")
             c == Statement("learn", "tags")
             d == Statement("learn", "metrics")
             e == Statement("create table", "metrics")
             s == <<cd>> \o <<b, c>> \o <<d, e>>
  <2>1. CreateDB = s
    BY <1>1, <1>4
       DEF CreateDB, CreateClickHouse, ClickHouseTags, ClickHouseMetrics
  <2>2. Tables = {"tags", "metrics"} /\ ~base /\ DOMAIN tables = {}
    BY <1>4, TablesAre DEF AlwaysThere
  <2>3. /\ b \in Statements /\ b.do = "create table" /\ b.table = "tags"
        /\ c \in Statements /\ c.do = "learn" /\ c.table = "tags"
        /\ d \in Statements /\ d.do = "learn" /\ d.table = "metrics"
        /\ e \in Statements /\ e.do = "create table" /\ e.table = "metrics"
    BY <1>3, <2>2 DEF CreationsOfTables
  <2> HIDE DEF b, c, d, e
  <2>4. /\ DOMAIN s = 1..5 /\ s[1] = cd /\ s[2] = b /\ s[3] = c /\ s[4] = d /\ s[5] = e
    <3>1. /\ cd \in Statements /\ b \in Statements /\ c \in Statements
          /\ d \in Statements /\ e \in Statements
      BY <1>1, <2>3
    <3> QED
      BY <3>1, Five
  <2> HIDE DEF s
  <2>5. \A i \in DOMAIN s : i \in {1, 2, 3, 4, 5}
    BY <2>4
  <2>6. IsInjective(s)
    BY <1>1, <2>3, <2>4, <2>5 DEF IsInjective
  <2>7. ASSUME NEW i \in DOMAIN s PROVE OfSystem(s[i]) /\ InItsTurn(s, i)
    <3>1. OfSystem(s[i])
      BY <1>1, <1>4, <2>3, <2>4, <2>5 DEF OfSystem, AlwaysThere
    <3>2. InItsTurn(s, i)
      BY <1>1, <2>2, <2>3, <2>4, <2>5 DEF InItsTurn
    <3> QED
      BY <3>1, <3>2
  <2>8. cd \in Range(s) /\ b \in Range(s) /\ e \in Range(s)
    <3>1. 1 \in DOMAIN s /\ 2 \in DOMAIN s /\ 5 \in DOMAIN s
      BY <2>4
    <3> QED
      BY <2>4, <3>1 DEF Range
  <2>9. Makes(b, "tags") /\ Makes(e, "metrics")
    BY <2>3 DEF Makes, CreationsOfTables
  <2>10. \A t \in Tables : HasTable(s, t)
    BY <1>2, <2>1, <2>2, <2>8, <2>9, WillHaveTable
  <2> QED
    BY <1>1, <2>1, <2>6, <2>7, <2>8, <2>10 DEF CanRun, HasBase, Creations
<1>5. ASSUME NEW b \in Statements, CreateDB = <<cd>> \o <<b>>, b.do \in {"create table", "join"},
             ~AlwaysThere, OfSystem(b), \A t \in Tables : Makes(b, t) \/ Makes(cd, t)
      PROVE  /\ CanRun(CreateDB) /\ HasBase(CreateDB)
             /\ \A t \in Tables : HasTable(CreateDB, t)
  <2> DEFINE s == <<cd>> \o <<b>>
  <2>1. DOMAIN s = 1..2 /\ s[1] = cd /\ s[2] = b
    <3>1. cd \in Statements /\ b \in Statements
      BY <1>1
    <3> QED
      BY <3>1, Two
  <2> HIDE DEF s
  <2>2. \A i \in DOMAIN s : i \in {1, 2}
    BY <2>1
  <2>3. ~base /\ DOMAIN tables = {}
    BY <1>5 DEF AlwaysThere
  <2>4. IsInjective(s)
    BY <1>1, <1>5, <2>1, <2>2 DEF IsInjective
  <2>5. \A i \in DOMAIN s : OfSystem(s[i])
    BY <1>1, <1>5, <2>1, <2>2 DEF OfSystem
  <2>6. \A i \in DOMAIN s : InItsTurn(s, i)
    BY <1>1, <1>5, <2>1, <2>2, <2>3 DEF InItsTurn
  <2>7. cd \in Range(s) /\ b \in Range(s)
    <3>1. 1 \in DOMAIN s /\ 2 \in DOMAIN s
      BY <2>1
    <3> QED
      BY <2>1, <3>1 DEF Range
  <2>8. CreateDB = s
    BY <1>5 DEF s
  <2>9. \A t \in Tables : HasTable(s, t)
    BY <1>2, <1>5, <2>7, <2>8, WillHaveTable
  <2> QED
    BY <1>1, <2>4, <2>5, <2>6, <2>7, <2>8, <2>9 DEF CanRun, HasBase, Creations
<1>6. CASE system = "cassandra"
  <2> DEFINE b == Statement("create table", "series")
  <2>1. Tables = {"series"} /\ b \in Statements /\ b.do = "create table" /\ b.table = "series"
    BY <1>3, <1>6, TablesAre DEF CreationsOfTables
  <2>2. {Statement("create table", t) : t \in Tables} = {b}
    BY <2>1
  <2>3. CreateDB = <<cd>> \o <<b>>
    BY <1>1, <1>6, <2>2, OnlyOne DEF CreateDB, CreateCassandra, Each
  <2> HIDE DEF b
  <2>4. OfSystem(b) /\ ~AlwaysThere /\ \A t \in Tables : Makes(b, t)
    BY <1>6, <2>1 DEF OfSystem, AlwaysThere, Makes, CreationsOfTables
  <2> QED
    BY <1>5, <2>1, <2>3, <2>4
<1>7. CASE system = "siridb"
  <2> DEFINE b == Statement("join", "")
  <2>1. b \in Statements /\ b.do = "join"
    BY GeneralStatement
  <2>2. CreateDB = <<cd>> \o <<b>>
    BY <1>1, <1>7 DEF CreateDB, CreateSiri
  <2> HIDE DEF b
  <2>3. OfSystem(b) /\ ~AlwaysThere /\ \A t \in Tables : Makes(cd, t)
    BY <1>1, <1>7, <2>1 DEF OfSystem, AlwaysThere, Makes, Creations
  <2> QED
    BY <1>5, <2>1, <2>2, <2>3
<1>8. ASSUME NEW do \in CreationsOfTables, CreateDB = Each(do, Tables), AlwaysThere,
             \A t \in Tables : OfSystem(Statement(do, t)), system # "redistimeseries"
      PROVE  /\ CanRun(CreateDB) /\ HasBase(CreateDB)
             /\ \A t \in Tables : HasTable(CreateDB, t)
  <2>1. base /\ DOMAIN tables = {}
    BY <1>8 DEF StoreIsThere
  <2>2. CanRun(Each(do, Tables))
    BY <1>8, <2>1, EachRuns DEF CreationsOfTables
  <2>3. \A t \in Tables : Statement(do, t) \in Range(CreateDB) /\ Makes(Statement(do, t), t)
    BY <1>3, <1>8, EachSays DEF Makes
  <2> QED
    BY <1>2, <1>8, <2>1, <2>2, <2>3, WillHaveTable DEF HasBase
<1>9. CASE system = "cratedb"
  <2>1. \A t \in Tables : OfSystem(Statement("create table", t))
    <3>1. \A t \in Tables : Statement("create table", t).do = "create table"
      BY <1>3 DEF CreationsOfTables
    <3> QED
      BY <1>9, <3>1 DEF OfSystem
  <2> QED
    BY <1>8, <1>9, <2>1 DEF CreateDB, CreateCrate, AlwaysThere, CreationsOfTables
<1>10. CASE system = "mongo"
  <2>1. \A t \in Tables : OfSystem(Statement("create table if not there", t))
    <3>1. \A t \in Tables :
              Statement("create table if not there", t).do = "create table if not there"
      BY <1>3 DEF CreationsOfTables
    <3> QED
      BY <1>10, <3>1 DEF OfSystem
  <2> QED
    BY <1>8, <1>10, <2>1 DEF CreateDB, CreateMongo, AlwaysThere, CreationsOfTables
<1>11. CASE system = "influx"
  <2> DEFINE b == Statement("create database if not there", "")
  <2>1. b \in Statements /\ b.do = "create database if not there" /\ Range(<<b>>) = {b}
    BY GeneralStatement DEF Creations
  <2>2. CreateDB = <<b>>
    BY <1>11 DEF CreateDB, CreateInflux
  <2> HIDE DEF b
  <2>3. CanRun(<<b>>)
    BY <2>1, OneRuns DEF OfSystem, NeedsBase, CreationsOfTables
  <2>4. \A t \in Tables : Makes(b, t)
    BY <1>11, <2>1 DEF Makes, Creations
  <2>5. \A t \in Tables : HasTable(CreateDB, t)
    BY <1>2, <2>1, <2>2, <2>4, WillHaveTable
  <2> QED
    BY <2>1, <2>2, <2>3, <2>5 DEF HasBase, Creations
<1>12. CASE system = "redistimeseries"
  <2>1. CreateDB = <<>> /\ DOMAIN <<>> = {}
    BY <1>12 DEF CreateDB
  <2>2. base /\ DOMAIN tables = Tables
    BY <1>12 DEF StoreIsThere, AlwaysThere
  <2> QED
    BY <2>1, <2>2, NoneRuns DEF HasBase, HasTable
<1>13. CASE system = "timescaledb"
  <2>1. CreateDB = <<cd>>
    BY <1>1, <1>13 DEF CreateDB
  <2>2. CanRun(<<cd>>)
    BY <1>1, <1>13, OneRuns DEF OfSystem, NeedsBase, CreationsOfTables, AlwaysThere
  <2> QED
    BY <1>1, <1>13, <2>1, <2>2 DEF HasBase, Creations
<1> QED
  BY <1>4, <1>6, <1>7, <1>9, <1>10, <1>11, <1>12, <1>13 DEF TypeOK, AllSystems

\* The first client makes the tables of TimescaleDB, each after its drop.
LEMMA PostRuns ==
    ASSUME TypeOK, NEW c \in Clients, base, system = "timescaledb" => flags[c].tables,
           system # "timescaledb" => Tables \subseteq DOMAIN tables
    PROVE  /\ CanRun(PostCreateDB(c)) /\ HasBase(PostCreateDB(c))
           /\ \A t \in Tables : HasTable(PostCreateDB(c), t)
<1>1. CASE system = "timescaledb"
  <2> DEFINE a == Statement("drop table if there", "tags")
             b == Statement("create table", "tags")
             l == Statement("learn", "tags")
             m == Statement("learn", "metrics")
             e == Statement("drop table if there", "metrics")
             f == Statement("create table", "metrics")
             s == <<a, b>> \o <<l, m>> \o <<e, f>>
  <2>1. PostCreateDB(c) = s
    BY <1>1 DEF PostCreateDB, PostTimescale, Recreate
  <2>2. Tables = {"tags", "metrics"}
    BY <1>1, TablesAre
  <2>3. /\ a \in Statements /\ a.do = "drop table if there" /\ a.table = "tags"
        /\ b \in Statements /\ b.do = "create table" /\ b.table = "tags"
        /\ l \in Statements /\ l.do = "learn" /\ l.table = "tags"
        /\ m \in Statements /\ m.do = "learn" /\ m.table = "metrics"
        /\ e \in Statements /\ e.do = "drop table if there" /\ e.table = "metrics"
        /\ f \in Statements /\ f.do = "create table" /\ f.table = "metrics"
    BY <2>2, TableStatement DEF DropsOfTables, CreationsOfTables
  <2> HIDE DEF a, b, l, m, e, f
  <2>4. /\ DOMAIN s = 1..6
        /\ s[1] = a /\ s[2] = b /\ s[3] = l /\ s[4] = m /\ s[5] = e /\ s[6] = f
    <3>1. /\ a \in Statements /\ b \in Statements /\ l \in Statements
          /\ m \in Statements /\ e \in Statements /\ f \in Statements
      BY <2>3
    <3> QED
      BY <3>1, Six
  <2> HIDE DEF s
  <2>5. \A i \in DOMAIN s : i \in {1, 2, 3, 4, 5, 6}
    BY <2>4
  <2>6. IsInjective(s)
    BY <2>3, <2>4, <2>5 DEF IsInjective
  <2>7. \A i \in DOMAIN s : OfSystem(s[i])
    BY <1>1, <2>3, <2>4, <2>5 DEF OfSystem, AlwaysThere
  <2>8. /\ Drops(a, "tags") /\ Makes(b, "tags") /\ Drops(e, "metrics") /\ Makes(f, "metrics")
        /\ \A x \in {b, l, m, e, f} : ~Drops(x, "tags")
        /\ \A x \in {a, b, l, m, f} : ~Drops(x, "metrics")
    BY <2>3 DEF Drops, Makes, CreationsOfTables
  <2>9. \A i \in 1..6 : i \in DOMAIN s
    BY <2>4
  <2>10. ASSUME NEW i \in DOMAIN s PROVE InItsTurn(s, i)
    <3>1. ASSUME s[i].do = "create table"
          PROVE  \E j \in DOMAIN s : j < i /\ Drops(s[j], s[i].table)
      <4>1. i = 2 \/ i = 6
        BY <2>3, <2>4, <2>5, <3>1
      <4>2. CASE i = 2
        <5>1. s[i].table = "tags" /\ 1 < i /\ 1 \in DOMAIN s
          <6>1. s[i] = b
            BY <2>4, <4>2
          <6>2. 1 < i
            BY <4>2
          <6>3. 1 \in DOMAIN s
            BY <2>9
          <6> QED
            BY <2>3, <6>1, <6>2, <6>3
        <5> QED
          BY <2>4, <2>8, <5>1
      <4>3. CASE i = 6
        <5>1. s[i].table = "metrics" /\ 5 < i /\ 5 \in DOMAIN s
          <6>1. s[i] = f
            BY <2>4, <4>3
          <6>2. 5 < i
            BY <4>3
          <6>3. 5 \in DOMAIN s
            BY <2>9
          <6> QED
            BY <2>3, <6>1, <6>2, <6>3
        <5> QED
          BY <2>4, <2>8, <5>1
      <4> QED
        BY <4>1, <4>2, <4>3
    <3> QED
      BY <2>3, <2>4, <2>5, <3>1 DEF InItsTurn
  <2>11. HasTable(s, "tags")
    <3>1. 2 \in DOMAIN s /\ Makes(s[2], "tags")
      BY <2>4, <2>8, <2>9
    <3>2. \A j \in DOMAIN s : Drops(s[j], "tags") => j < 2
      BY <2>4, <2>5, <2>8
    <3> QED
      BY <3>1, <3>2 DEF HasTable
  <2>12. HasTable(s, "metrics")
    <3>1. 6 \in DOMAIN s /\ Makes(s[6], "metrics")
      BY <2>4, <2>8, <2>9
    <3>2. \A j \in DOMAIN s : Drops(s[j], "metrics") => j < 6
      BY <2>4, <2>5, <2>8
    <3> QED
      BY <3>1, <3>2 DEF HasTable
  <2> QED
    BY <2>1, <2>2, <2>6, <2>7, <2>10, <2>11, <2>12 DEF CanRun, HasBase
<1>2. CASE system = "cassandra"
  <2> DEFINE a == Statement("connect", "")
  <2>1. a \in Statements /\ a.do = "connect"
    BY GeneralStatement
  <2>2. PostCreateDB(c) = <<a>>
    BY <1>2 DEF PostCreateDB, PostCassandra
  <2> HIDE DEF a
  <2>3. DOMAIN <<a>> = {1} /\ <<a>>[1] = a
    BY One
  <2>4. CanRun(<<a>>)
    BY <2>1, OneRuns DEF OfSystem
  <2>5. \A t \in Tables : HasTable(<<a>>, t)
    BY <1>2, <2>1, <2>3 DEF HasTable, Drops
  <2> QED
    BY <2>2, <2>4, <2>5 DEF HasBase
<1>3. CASE system \notin {"timescaledb", "cassandra"}
  <2>1. PostCreateDB(c) = <<>> /\ DOMAIN <<>> = {}
    BY <1>3 DEF PostCreateDB
  <2> QED
    BY <1>3, <2>1, NoneRuns DEF HasBase, HasTable
<1> QED
  BY <1>1, <1>2, <1>3

\* What a statement changes.
LEMMA ServerChanges ==
    ASSUME IInv, NEW s \in Statements, Possible(s), Done(s)
    PROVE  /\ base /\ s.do # "drop database" => base'
           /\ s.do \in Creations => base'
           /\ \A t \in DOMAIN tables' \ DOMAIN tables : Makes(s, t)
           /\ \A t \in DOMAIN tables \ DOMAIN tables' :
                  s.do = "drop database" \/ (s.do \in DropsOfTables /\ s.table = t)
           /\ s.do \in DropsOfTables => s.table \notin DOMAIN tables'
           /\ \A t \in Tables : Makes(s, t) => t \in DOMAIN tables'
<1> USE DEF IInv, TypeOK
<1>1. CASE s.do = "drop database"
  <2>1. DOMAIN tables' = {}
    <3>1. tables' = <<>>
      BY <1>1 DEF Done
    <3> QED
      BY <3>1
  <2> QED
    BY <1>1, <2>1 DEF Makes, Creations, CreationsOfTables, DropsOfTables
<1>2. CASE s.do \in Creations
  <2>1. /\ base' = TRUE
        /\ tables' = IF system \in {"influx", "siridb"} THEN With(Tables) ELSE tables
    BY <1>2 DEF Done, Creations
  <2>2. DOMAIN tables' = IF system \in {"influx", "siridb"} THEN DOMAIN tables \cup Tables
                         ELSE DOMAIN tables
    BY <2>1 DEF With
  <2> QED
    BY <1>2, <2>1, <2>2 DEF Makes, Creations, CreationsOfTables, DropsOfTables
<1>3. CASE s.do \in CreationsOfTables
  <2>1. base' = base /\ tables' = With({s.table})
    BY <1>3 DEF Done, CreationsOfTables
  <2>2. DOMAIN tables' = DOMAIN tables \cup {s.table}
    BY <2>1 DEF With
  <2> QED
    BY <1>3, <2>1, <2>2 DEF Makes, Creations, CreationsOfTables, DropsOfTables
<1>4. CASE s.do \in DropsOfTables
  <2>1. base' = base /\ tables' = [u \in DOMAIN tables \ {s.table} |-> tables[u]]
    BY <1>4 DEF Done, DropsOfTables, Without
  <2>2. DOMAIN tables' = DOMAIN tables \ {s.table}
    BY <2>1
  <2> QED
    BY <1>4, <2>1, <2>2 DEF Makes, Creations, CreationsOfTables, DropsOfTables
<1>5. CASE s.do \in {"learn", "list", "refuse", "join", "connect"}
  <2>1. base' = base /\ tables' = tables
    BY <1>5 DEF Done
  <2> QED
    BY <1>5, <2>1 DEF Makes, Creations, CreationsOfTables, DropsOfTables
<1> QED
  BY <1>1, <1>2, <1>3, <1>4, <1>5 DEF Statements

\* Once the next statement is done the rest can be.
LEMMA RestRuns ==
    ASSUME IInv, NEW s \in Seq(Statements), s # <<>>, CanRun(s), Possible(Head(s)), Done(Head(s)),
           [Next]_vars
    PROVE  CanRun(Tail(s))'
<1> DEFINE h == Head(s)
           r == Tail(s)
<1>1. /\ h \in Statements /\ r \in Seq(Statements) /\ Len(s) \in Nat \ {0}
      /\ \A i \in DOMAIN r : i \in Nat \ {0} /\ i + 1 \in DOMAIN s /\ r[i] = s[i + 1]
      /\ \A i \in DOMAIN s : i \in Nat /\ (i # 1 => i - 1 \in DOMAIN r /\ s[i] = r[i - 1])
  BY Parts
<1>2. 1 \in DOMAIN s /\ s[1] = h
  OBVIOUS
<1>3. \A i \in DOMAIN r : Len(s) # 1
  <2>1. \A i \in DOMAIN s : i <= Len(s)
    OBVIOUS
  <2> QED
    BY <1>1, <2>1
<1>4. \A i \in DOMAIN s : s[i] \in Statements
  OBVIOUS
<1> HIDE DEF h, r
<1>5. system' = system /\ (AlwaysThere' <=> AlwaysThere)
  BY FixedStays DEF AlwaysThere
<1>6. /\ base /\ h.do # "drop database" => base'
      /\ h.do \in Creations => base'
      /\ \A t \in DOMAIN tables' \ DOMAIN tables : Makes(h, t)
      /\ \A t \in DOMAIN tables \ DOMAIN tables' :
             h.do = "drop database" \/ (h.do \in DropsOfTables /\ h.table = t)
      /\ h.do \in DropsOfTables => h.table \notin DOMAIN tables'
  BY <1>1, ServerChanges DEF h
<1>7. IsInjective(r)
  <2>1. ASSUME NEW i \in DOMAIN r, NEW j \in DOMAIN r, r[i] = r[j] PROVE i = j
    <3>1. i + 1 = j + 1
      BY <1>1, <2>1 DEF CanRun, IsInjective
    <3>2. i \in Nat /\ j \in Nat
      BY <1>1
    <3> QED
      BY ONLY <3>1, <3>2
  <2> QED
    BY <2>1 DEF IsInjective
<1>8. ASSUME NEW i \in DOMAIN r PROVE OfSystem(r[i])' /\ InItsTurn(r, i)'
  <2> DEFINE x == r[i]
  <2>1. /\ i \in Nat \ {0} /\ i + 1 \in DOMAIN s /\ x = s[i + 1] /\ x \in Statements
        /\ OfSystem(x) /\ InItsTurn(s, i + 1) /\ OfSystem(h) /\ InItsTurn(s, 1) /\ Len(s) # 1
    BY <1>1, <1>2, <1>3, <1>4 DEF CanRun
  <2>2. i + 1 # 1
    BY <2>1
  <2>3. x # h
    BY <1>2, <2>1, <2>2 DEF CanRun, IsInjective
  <2>4. h.do # "drop database"
    BY <1>2, <2>1 DEF InItsTurn
  <2> HIDE DEF x
  <2>5. OfSystem(x)'
    BY <1>5, <2>1 DEF OfSystem
  <2>6. x.do # "create database" /\ x.do \notin {"drop database", "list", "refuse"}
    BY <2>1, <2>2 DEF InItsTurn
  <2>7. x.do \in NeedsBase => base'
    BY <1>2, <1>6, <2>1, <2>4 DEF InItsTurn, Creations
  <2>8. ASSUME x.do = "create table", x.table \in DOMAIN tables'
        PROVE  \E j \in DOMAIN r : j < i /\ Drops(r[j], x.table)
    <3>1. CASE x.table \notin DOMAIN tables
      <4>1. Makes(h, x.table)
        BY <1>6, <2>8, <3>1
      <4>2. h.do \notin Creations \/ system \notin {"influx", "siridb"}
        BY <2>1, <2>8 DEF OfSystem
      <4>3. h.do \in CreationsOfTables /\ h.table = x.table
        BY <4>1, <4>2 DEF Makes
      <4>4. h.do = x.do
        BY <2>1, <2>8, <4>3 DEF OfSystem, CreationsOfTables
      <4> QED
        BY <1>1, <2>1, <2>3, <4>3, <4>4, SameStatement
    <3>2. CASE \E j \in DOMAIN s : j < i + 1 /\ Drops(s[j], x.table)
      <4>1. PICK j \in DOMAIN s : j < i + 1 /\ Drops(s[j], x.table)
        BY <3>2
      <4>2. j # 1
        BY <1>2, <1>6, <2>8, <4>1 DEF Drops, DropsOfTables
      <4>3. j \in Nat /\ j - 1 \in DOMAIN r /\ s[j] = r[j - 1]
        BY <1>1, <4>2
      <4>4. j - 1 < i
        BY <2>1, <4>1, <4>3
      <4> QED
        BY <4>1, <4>3, <4>4
    <3> QED
      BY <2>1, <2>8, <3>1, <3>2 DEF InItsTurn
  <2>9. ASSUME x.do = "drop table" PROVE x.table \in DOMAIN tables'
    <3>1. x.table \in DOMAIN tables
      BY <2>1, <2>9 DEF InItsTurn
    <3> SUFFICES ASSUME x.table \notin DOMAIN tables' PROVE FALSE
      OBVIOUS
    <3>2. h.do \in DropsOfTables /\ h.table = x.table
      BY <1>6, <2>4, <3>1
    <3>3. h.do = x.do
      BY <2>1, <2>9, <3>2 DEF OfSystem, DropsOfTables
    <3> QED
      BY <1>1, <2>1, <2>3, <3>2, <3>3, SameStatement
  <2>10. InItsTurn(r, i)'
    BY <2>6, <2>7, <2>8, <2>9 DEF InItsTurn, x
  <2> QED
    BY <2>5, <2>10 DEF x
<1>9. CanRun(r)'
  BY <1>7, <1>8 DEF CanRun
<1> QED
  BY <1>9 DEF r

\* A table that will be there is made or there already.
LEMMA RestHasTable ==
    ASSUME IInv, NEW s \in Seq(Statements), s # <<>>, Possible(Head(s)), Done(Head(s)),
           InCreation(Head(s)) \/ (\E c \in Clients : InPost(c, Head(s))),
           NEW t \in Tables, HasTable(s, t), [Next]_vars
    PROVE  HasTable(Tail(s), t)'
<1> DEFINE h == Head(s)
           r == Tail(s)
<1>1. /\ h \in Statements
      /\ \A i \in DOMAIN r : i \in Nat \ {0} /\ i + 1 \in DOMAIN s /\ r[i] = s[i + 1]
      /\ \A i \in DOMAIN s : i \in Nat /\ (i # 1 => i - 1 \in DOMAIN r /\ s[i] = r[i - 1])
  BY Parts
<1>2. 1 \in DOMAIN s /\ s[1] = h
  OBVIOUS
<1> HIDE DEF r
<1>3. h.do \notin {"drop database", "drop table"}
  BY DEF InCreation, InPost, Creations, CreationsOfTables
<1> HIDE DEF h
<1>4. \A x : Makes(x, t)' <=> Makes(x, t)
  BY FixedStays DEF Makes
<1>5. /\ t \in DOMAIN tables \ DOMAIN tables' =>
             h.do = "drop database" \/ (h.do \in DropsOfTables /\ h.table = t)
      /\ Makes(h, t) => t \in DOMAIN tables'
  BY <1>1, ServerChanges DEF h
<1>6. CASE t \in DOMAIN tables /\ \A j \in DOMAIN s : ~Drops(s[j], t)
  <2>1. ~Drops(h, t)
    BY <1>2, <1>6
  <2>2. t \in DOMAIN tables'
    BY <1>3, <1>5, <1>6, <2>1 DEF Drops, DropsOfTables
  <2>3. \A j \in DOMAIN r : ~Drops(r[j], t)
    BY <1>1, <1>6
  <2> QED
    BY <2>2, <2>3 DEF HasTable, r
<1>7. ASSUME NEW i \in DOMAIN s, Makes(s[i], t), \A j \in DOMAIN s : Drops(s[j], t) => j < i
      PROVE  HasTable(r, t)'
  <2>1. CASE i = 1
    <3>1. t \in DOMAIN tables'
      BY <1>2, <1>5, <1>7, <2>1
    <3>2. ASSUME NEW j \in DOMAIN r, Drops(r[j], t) PROVE FALSE
      <4>1. j \in Nat \ {0} /\ j + 1 < 1
        BY <1>1, <1>7, <2>1, <3>2
      <4> QED
        BY <4>1
    <3> QED
      BY <3>1, <3>2 DEF HasTable
  <2>2. CASE i # 1
    <3>1. i \in Nat /\ i - 1 \in DOMAIN r /\ Makes(r[i - 1], t)'
      BY <1>1, <1>4, <1>7, <2>2
    <3>2. ASSUME NEW j \in DOMAIN r, Drops(r[j], t) PROVE j < i - 1
      <4>1. j \in Nat \ {0} /\ j + 1 < i
        BY <1>1, <1>7, <3>2
      <4> QED
        BY <3>1, <4>1
    <3> QED
      BY <3>1, <3>2 DEF HasTable
  <2> QED
    BY <2>1, <2>2
<1> QED
  BY <1>6, <1>7 DEF HasTable, r

\* What the flags are in the course, and who has failed.
LEMMA InCourse ==
    ASSUME Course
    PROVE  /\ inTurn /\ ~refused /\ 1 \in Clients
           /\ \A c \in Clients : /\ flags[c].load /\ ~flags[c].abort
                                 /\ flags[c].create <=> c = 1
                                 /\ system = "timescaledb" => (flags[c].tables <=> c = 1)
                                 /\ ~Disturbed(1)
<1>1. 1 \in Clients
  BY SetupAssumption DEF Clients
<1> QED
  BY <1>1 DEF Course, OneCreates, Disturbed

\* A client that has failed stays there.
LEMMA FailedStays ==
    ASSUME IInv, [Next]_vars, NEW c \in Clients, pc[c] = "failed"
    PROVE  pc'[c] = "failed"
<1>1. script[c] = <<>>
  BY DEF IInv, Methods, MethodOf
<1>2. ~Client(c)
  BY <1>1 DEF Client, Start, Unanswered, MayStart, TakenForNone, Check, Execute, Fail, Return,
              Write, WriteFails, ReadOnly, End
<1>3. CASE UNCHANGED vars
  BY <1>3 DEF vars
<1> QED
  BY <1>2, <1>3, NoClient, OthersStay DEF Next

\* Who is in the course has always been.
LEMMA CourseBefore ==
    ASSUME IInv, [Next]_vars, Course'
    PROVE  Course
<1>1. system' = system /\ flags' = flags /\ inTurn' = inTurn
  BY FixedStays
<1>2. OneCreates
  BY <1>1 DEF Course, OneCreates
<1>3. ~refused
  BY RefusedStays DEF Course
<1>4. 1 \in Clients
  BY SetupAssumption DEF Clients
<1>5. pc[1] = "failed" => pc'[1] = "failed"
  BY <1>4, FailedStays
<1> QED
  BY <1>1, <1>2, <1>3, <1>5 DEF Course

\* What the invariant says in the course.
Following == FirstLeads /\ StoreIsThere /\ \A c \in Clients : FollowsFirst(c)

\* Nothing depends on more than the server's state and the system.
LEMMA SameServer ==
    ASSUME base' = base, tables' = tables, system' = system
    PROVE  \A s : /\ CanRun(s)' <=> CanRun(s)
                  /\ Clears(s)' <=> Clears(s)
                  /\ HasBase(s)' <=> HasBase(s)
                  /\ \A t : HasTable(s, t)' <=> HasTable(s, t)
<1>1. AlwaysThere' <=> AlwaysThere
  BY DEF AlwaysThere
<1> TAKE s
<1>2. \A x : OfSystem(x)' <=> OfSystem(x)
  BY <1>1 DEF OfSystem
<1>3. \A i : InItsTurn(s, i)' <=> InItsTurn(s, i)
  BY DEF InItsTurn
<1>4. CanRun(s)' <=> CanRun(s)
  BY <1>2, <1>3 DEF CanRun
<1>5. Clears(s)' <=> Clears(s)
  BY <1>1 DEF Clears
<1>6. HasBase(s)' <=> HasBase(s)
  BY DEF HasBase
<1>7. \A x, t : Makes(x, t)' <=> Makes(x, t)
  BY DEF Makes
<1>8. \A t : HasTable(s, t)' <=> HasTable(s, t)
  BY <1>7 DEF HasTable
<1> QED
  BY <1>4, <1>5, <1>6, <1>8

\* Once the first client loads there is all it loads into.
LEMMA PastMeans ==
    ASSUME IInv, FirstLeads, pc[1] \in Past
    PROVE  base /\ Tables \subseteq DOMAIN tables /\ script[1] = <<>>
<1>1. script[1] = <<>> /\ DOMAIN <<>> = {} /\ Range(<<>>) = {}
  <2>1. 1 \in Clients
    BY SetupAssumption DEF Clients
  <2>2. Range(<<>>) = {} /\ DOMAIN <<>> = {}
    BY None
  <2>3. script[1] = <<>>
    BY <2>1 DEF IInv, Methods, MethodOf, Past
  <2> QED
    BY <2>2, <2>3
<1>2. HasBase(<<>>) /\ \A t \in Tables : HasTable(<<>>, t)
  BY <1>1 DEF FirstLeads, Past
<1> QED
  BY <1>1, <1>2 DEF HasBase, HasTable

\* Until then it is alone.
LEMMA FirstAlone ==
    ASSUME IInv, Course, Following, [Next]_vars, Course', NEW c \in Clients, Client(c),
           pc[1] \notin Past
    PROVE  c = 1
<1> SUFFICES ASSUME c # 1 PROVE FALSE
  OBVIOUS
<1>1. 1 \in Clients /\ inTurn
  BY InCourse
<1>2. pc[c] = "start" /\ pc[1] # "failed"
  BY <1>1 DEF Following, FollowsFirst
<1>3. script[c] = <<>>
  BY <1>2 DEF IInv, Methods, MethodOf
<1>4. Start(c) \/ Unanswered(c)
  BY <1>2, <1>3
     DEF Client, TakenForNone, Check, Execute, Fail, Return, Write, WriteFails, ReadOnly, End
<1>5. ~Unanswered(c)
  BY DEF Unanswered, Course
<1>6. 1 \in 1..(c - 1)
  BY DEF Clients
<1> QED
  BY <1>1, <1>2, <1>4, <1>5, <1>6 DEF Start, MayStart, Past

\* Only the creator's statements are not those of PostCreateDB; the others' change nothing.
LEMMA OthersSay ==
    ASSUME IInv, Course, NEW c \in Clients, script[c] # <<>>, c # 1
    PROVE  pc[c] = "post" /\ Head(script[c]).do \in {"learn", "connect"}
<1>1. ~flags[c].create /\ (system = "timescaledb" => ~flags[c].tables)
  BY InCourse
<1> QED
  BY <1>1, InMethod DEF InPost

\* From then on the server only gains.
LEMMA ServerGains ==
    ASSUME IInv, Course, Following, [Next]_vars, pc[1] \in Past
    PROVE  /\ base' = base
           /\ \A t \in DOMAIN tables : t \in DOMAIN tables' /\ tables[t] \subseteq tables'[t]
<1>1. ASSUME NEW c \in Clients, Execute(c) PROVE base' = base /\ tables' = tables
  <2>1. script[c] # <<>> /\ Done(Head(script[c]))
    BY <1>1 DEF Execute
  <2>2. c # 1
    BY <2>1, PastMeans DEF Following
  <2> QED
    BY <2>1, <2>2, OthersSay DEF Done
<1>2. ASSUME NEW c \in Clients, Write(c)
      PROVE  /\ base' = base
             /\ \A t \in DOMAIN tables : t \in DOMAIN tables' /\ tables[t] \subseteq tables'[t]
  <2>1. base' = base
        /\ tables' = [t \in Tables |-> {c} \cup IF t \in DOMAIN tables THEN tables[t] ELSE {}]
    BY <1>2 DEF Write
  <2> QED
    BY <2>1 DEF IInv, TypeOK
<1>3. ASSUME NEW c \in Clients, Client(c), ~Execute(c), ~Write(c)
      PROVE  base' = base /\ tables' = tables
  BY <1>3 DEF Client, Start, Unanswered, TakenForNone, Check, Fail, Return, WriteFails, ReadOnly, End, serverVars
<1>4. CASE UNCHANGED vars
  BY <1>4 DEF vars, serverVars
<1> QED
  BY <1>1, <1>2, <1>3, <1>4, NoClient DEF Next

\* The server can do what a client asks it.
LEMMA FailsNot ==
    ASSUME IInv, Course, Following, [Next]_vars, Course', NEW c \in Clients, Fail(c)
    PROVE  FALSE
<1> DEFINE h == Head(script[c])
<1>1. /\ script[c] # <<>> /\ h.do # "learn" /\ ~Possible(h)
      /\ h.do = "refuse" => MovesTo(c, "failed", <<>>)
  BY FailDecides DEF Course
<1>2. h \in Statements /\ script[c] \in Seq(Statements)
  BY <1>1, InMethod DEF IInv, TypeOK
<1>3. CASE c = 1
  <2>1. 1 \in DOMAIN script[c] /\ script[c][1] = h
    BY <1>1, <1>2
  <2>2. CanRun(script[c])
    BY <1>1, <1>3, InMethod DEF Following, FirstLeads
  <2> HIDE DEF h
  <2>3. OfSystem(h) /\ InItsTurn(script[c], 1)
    BY <2>1, <2>2 DEF CanRun
  <2>4. \A j \in DOMAIN script[c] : ~(j < 1)
    <3>1. \A j \in DOMAIN script[c] : j \in 1..Len(script[c])
      BY <1>2
    <3> QED
      BY <3>1
  <2>5. h.do = "create table" => base /\ h.table \notin DOMAIN tables
    BY <2>1, <2>3, <2>4 DEF InItsTurn, NeedsBase, CreationsOfTables
  <2>6. h.do \in {"connect", "drop table if there", "create table if not there"} => base
    BY <2>1, <2>3 DEF InItsTurn, NeedsBase, CreationsOfTables
  <2>7. h.do = "create database" => ~base
    BY <2>1, <2>3 DEF InItsTurn
  <2>8. h.do = "drop table" => h.table \in DOMAIN tables
    BY <2>1, <2>3 DEF InItsTurn
  <2>9. h.do = "refuse"
    BY <1>1, <2>5, <2>6, <2>7, <2>8 DEF Possible
  <2> QED
    BY <1>1, <1>3, <2>3, <2>9, FixedStays DEF OfSystem, MovesTo, Course
<1>4. CASE c # 1
  <2>1. h.do = "connect" /\ pc[c] = "post"
    BY <1>1, <1>4, OthersSay
  <2>2. pc[1] \in Past
    BY <1>4, <2>1 DEF Following, FollowsFirst
  <2> QED
    BY <1>1, <2>1, <2>2, PastMeans DEF Possible, Following
<1> QED
  BY <1>3, <1>4

\* Only where ClickHouse told another client the columns is a batch not stored.
LEMMA FailsToWrite ==
    ASSUME IInv, Preparation, Course, Following, [Next]_vars, Course',
           NEW c \in Clients, WriteFails(c)
    PROVE  system = "clickhouse" /\ c # 1
<1>1. pc[c] \in {"load", "loading"} /\ flags[c].load /\ ~CanWrite(c)
  BY DEF WriteFails, Course
<1>2. pc[1] \in Past
  BY <1>1 DEF Following, FollowsFirst, Past
<1>3. ~Prepared(c)
  BY <1>1, <1>2, PastMeans DEF Following, CanWrite
<1>4. system = "cassandra" => Prepared(c)
  BY <1>1 DEF Following, FollowsFirst, Prepared
<1>5. system = "clickhouse" /\ ~flags[c].create
  BY <1>1, <1>3, <1>4, PreparedRuns DEF SetUpToRun
<1> QED
  BY <1>5, InCourse

\* The first client fails on no system on which the procedure works.
LEMMA GoesWrong ==
    ASSUME IInv, Preparation, Course, Following, [Next]_vars, Course',
           NEW c \in Clients, pc'[c] = "failed"
    PROVE  c # 1 /\ system = "clickhouse"
<1>1. CASE pc[c] = "failed"
  BY <1>1 DEF Following, FollowsFirst
<1>2. ASSUME Client(c), pc[c] # "failed" PROVE WriteFails(c)
  <2>1. flags[c].load /\ ~flags[c].abort
    BY InCourse
  <2>2. ~Unanswered(c) /\ ~TakenForNone(c) /\ ~Fail(c)
    BY FailsNot DEF Unanswered, TakenForNone, Course
  <2>3. ~Start(c) /\ ~Return(c) /\ ~Write(c) /\ ~ReadOnly(c) /\ ~End(c)
    BY <2>1, Becoming DEF Start, Return, Write, ReadOnly, End, MovesTo
  <2>4. ~Check(c)
    BY <2>1, CheckDecides DEF MovesTo
  <2>5. ~Execute(c)
    BY <1>2 DEF Execute
  <2> QED
    BY <1>2, <2>2, <2>3, <2>4, <2>5 DEF Client
<1>3. CASE UNCHANGED vars
  BY <1>1, <1>3 DEF vars
<1> QED
  BY <1>1, <1>2, <1>3, FailsToWrite, NoClient, OthersStay DEF Next

\* The first client is done with its statements, or with one of them.
LEMMA StatementLeads ==
    ASSUME IInv, Course, Following, Course', [Next]_vars, Execute(1)
    PROVE  FirstLeads'
<1> PICK s : s = script[1]
  OBVIOUS
<1> DEFINE h == Head(s)
<1>1. /\ s # <<>> /\ Possible(h) /\ Done(h) /\ pc' = pc
      /\ script' = [script EXCEPT ![1] = IF h.do # "list" THEN Tail(@)
                                         ELSE IF system = "mongo" THEN DropCollections
                                         ELSE DropListed]
  BY DEF Execute
<1>2. 1 \in Clients
  BY InCourse
<1>3. /\ s \in Seq(Statements) /\ h \in Statements /\ Range(s) = {h} \cup Range(Tail(s))
      /\ pc[1] \in {"remove", "create", "post"}
      /\ pc[1] = "remove" => InRemoval(h)
      /\ pc[1] = "create" => InCreation(h)
      /\ pc[1] = "post" => InPost(1, h)
  BY <1>1, <1>2, InMethod DEF IInv, TypeOK
<1>4. CanRun(s)
  BY <1>3 DEF Following, FirstLeads
<1>5. OfSystem(h)
  <2>1. 1 \in DOMAIN s /\ s[1] = h
    BY <1>1, <1>3
  <2> QED
    BY <1>4, <2>1 DEF CanRun
<1>6. /\ system' = system /\ Tables' = Tables /\ (AlwaysThere' <=> AlwaysThere)
      /\ \A x, t : Makes(x, t)' <=> Makes(x, t)
  BY FixedStays DEF AlwaysThere, Makes
<1>7. script'[1] = IF h.do # "list" THEN Tail(s)
                   ELSE IF system = "mongo" THEN DropCollections ELSE DropListed
  BY <1>1, <1>2 DEF IInv, TypeOK
<1> HIDE DEF h
<1>8. CASE h.do = "list"
  <2> PICK drops : drops = IF system = "mongo" THEN DropCollections ELSE DropListed
    OBVIOUS
  <2>1. pc[1] = "remove"
    BY <1>3, <1>8 DEF InCreation, InPost, Creations, CreationsOfTables
  <2>2. system \in {"cratedb", "mongo"} /\ base
    BY <1>5, <1>8 DEF OfSystem, Following, StoreIsThere, AlwaysThere
  <2>3. base' = base /\ tables' = tables
    BY <1>1, <1>8 DEF Done
  <2>4. CanRun(drops) /\ Clears(drops)
    BY <2>2, DropsRun DEF IInv
  <2>5. script'[1] = drops
    BY <1>7, <1>8
  <2>6. CanRun(drops)' /\ Clears(drops)'
    BY <1>6, <2>3, <2>4, SameServer
  <2> QED
    BY <1>1, <2>1, <2>5, <2>6 DEF FirstLeads, Past
<1>9. CASE h.do # "list"
  <2> DEFINE r == Tail(s)
  <2>1. script'[1] = r
    BY <1>7, <1>9
  <2>2. CanRun(r)'
    BY <1>1, <1>3, <1>4, RestRuns DEF h
  <2>3. /\ base /\ h.do # "drop database" => base'
        /\ h.do \in Creations => base'
        /\ \A t \in DOMAIN tables' \ DOMAIN tables : Makes(h, t)
        /\ h.do \in DropsOfTables => h.table \notin DOMAIN tables'
    BY <1>1, <1>3, ServerChanges
  <2>4. pc[1] # "remove" => h.do # "drop database"
    BY <1>3 DEF InCreation, InPost, Creations, CreationsOfTables
  <2>5. pc[1] # "remove" => HasBase(s)
    BY <1>3 DEF Following, FirstLeads
  <2>6. ASSUME pc[1] # "remove" PROVE HasBase(r)'
    BY <1>3, <2>3, <2>4, <2>5, <2>6 DEF HasBase
  <2>7. ASSUME pc[1] # "remove", ~(pc[1] = "create" /\ system = "timescaledb"), NEW t \in Tables
        PROVE  HasTable(r, t)'
    <3>1. HasTable(s, t)
      BY <1>3, <2>7 DEF Following, FirstLeads
    <3>2. InCreation(h) \/ \E c \in Clients : InPost(c, h)
      BY <1>2, <1>3, <2>7
    <3> QED
      BY <1>1, <1>3, <3>1, <3>2, RestHasTable DEF h
  <2>8. ASSUME pc[1] = "remove" PROVE Clears(r)'
    <3>1. Clears(s) /\ InRemoval(h)
      BY <1>3, <2>8 DEF Following, FirstLeads
    <3>2. h.do # "refuse"
      BY <1>1 DEF Possible
    <3>3. CASE h.do = "drop database"
      <4>1. ~base' /\ DOMAIN tables' = {}
        <5>1. base' = FALSE /\ tables' = <<>>
          BY <1>1, <3>3 DEF Done
        <5> QED
          BY <5>1
      <4> QED
        BY <4>1 DEF Clears
    <3>4. CASE h.do \in DropsOfTables
      <4>1. base' = base
        BY <1>1, <3>4 DEF Done, DropsOfTables
      <4>2. h.do \notin {"drop database", "refuse"} /\ h.do \notin {"drop database", "list", "refuse"}
        BY <3>4 DEF DropsOfTables
      <4>3. base' /\ ~AlwaysThere => \E x \in Range(r) : x.do \in {"drop database", "refuse"}
        BY <1>3, <3>1, <4>1, <4>2 DEF Clears
      <4>4. ASSUME system # "redistimeseries", NEW t \in DOMAIN tables'
            PROVE  \E x \in Range(r) : Removes(x, t)
        <5>1. ~Makes(h, t) /\ ~Removes(h, t)
          BY <2>3, <3>4, <4>2, <4>4 DEF Makes, Removes, DropsOfTables, CreationsOfTables, Creations
        <5>2. t \in DOMAIN tables
          BY <2>3, <5>1
        <5>3. \E x \in Range(s) : Removes(x, t)
          BY <3>1, <4>4, <5>2 DEF Clears
        <5> QED
          BY <1>3, <5>1, <5>3
      <4> QED
        BY <1>6, <4>3, <4>4 DEF Clears
    <3> QED
      BY <1>9, <3>1, <3>2, <3>3, <3>4 DEF InRemoval
  <2> HIDE DEF r
  <2> QED
    BY <1>1, <1>3, <1>6, <2>1, <2>2, <2>6, <2>7, <2>8 DEF FirstLeads, Past
<1> QED
  BY <1>8, <1>9

\* A method of the first client is called.
LEMMA CallsLead ==
    ASSUME IInv, Course, Following, [Next]_vars, base' = base, tables' = tables,
           \/ MovesTo(1, "remove", RemoveOldDB)
           \/ /\ MovesTo(1, "create", CreateDB) /\ (base => AlwaysThere)
              /\ system # "redistimeseries" => DOMAIN tables = {}
           \/ /\ MovesTo(1, "post", PostCreateDB(1)) /\ base
              /\ system # "timescaledb" => Tables \subseteq DOMAIN tables
    PROVE  FirstLeads'
<1>1. TypeOK /\ StoreIsThere /\ 1 \in Clients
  BY InCourse DEF IInv, Following
<1>2. system' = system /\ Tables' = Tables
  BY FixedStays
<1>3. CASE MovesTo(1, "remove", RemoveOldDB)
  <2> PICK m : m = RemoveOldDB
    OBVIOUS
  <2>1. pc'[1] = "remove" /\ script'[1] = m
    BY <1>3 DEF MovesTo
  <2>2. CanRun(m) /\ Clears(m)
    BY <1>1, RemovalRuns
  <2>3. CanRun(m)' /\ Clears(m)'
    BY <1>2, <2>2, SameServer
  <2> QED
    BY <2>1, <2>3 DEF FirstLeads, Past
<1>4. CASE /\ MovesTo(1, "create", CreateDB) /\ (base => AlwaysThere)
           /\ system # "redistimeseries" => DOMAIN tables = {}
  <2> PICK m : m = CreateDB
    OBVIOUS
  <2>1. pc'[1] = "create" /\ script'[1] = m
    BY <1>4 DEF MovesTo
  <2>2. /\ CanRun(m) /\ HasBase(m)
        /\ system # "timescaledb" => \A t \in Tables : HasTable(m, t)
    BY <1>1, <1>4, CreationRuns
  <2>3. /\ CanRun(m)' /\ HasBase(m)'
        /\ system # "timescaledb" => \A t \in Tables : HasTable(m, t)'
    BY <1>2, <2>2, SameServer
  <2> QED
    BY <1>2, <2>1, <2>3 DEF FirstLeads, Past
<1>5. CASE /\ MovesTo(1, "post", PostCreateDB(1)) /\ base
           /\ system # "timescaledb" => Tables \subseteq DOMAIN tables
  <2> PICK m : m = PostCreateDB(1)
    OBVIOUS
  <2>1. pc'[1] = "post" /\ script'[1] = m
    BY <1>5 DEF MovesTo
  <2>2. system = "timescaledb" => flags[1].tables
    BY <1>1, InCourse
  <2>3. CanRun(m) /\ HasBase(m) /\ \A t \in Tables : HasTable(m, t)
    BY <1>1, <1>5, <2>2, PostRuns
  <2>4. CanRun(m)' /\ HasBase(m)' /\ \A t \in Tables : HasTable(m, t)'
    BY <1>2, <2>3, SameServer
  <2> QED
    BY <1>2, <2>1, <2>4 DEF FirstLeads, Past
<1> QED
  BY <1>3, <1>4, <1>5

\* The first client goes on.
LEMMA FirstGoesOn ==
    ASSUME IInv, Preparation, Course, Following, Course', [Next]_vars
    PROVE  FirstLeads'
<1>1. 1 \in Clients /\ flags[1].load /\ ~flags[1].abort /\ flags[1].create
  BY InCourse
<1>2. system' = system /\ Tables' = Tables
  BY FixedStays
<1>3. ASSUME pc'[1] \in Past, base', Tables \subseteq DOMAIN tables'
      PROVE  FirstLeads'
  <2>1. script'[1] = <<>> /\ DOMAIN <<>> = {}
    <3>1. IInv'
      BY StepsKeep
    <3>2. script'[1] = <<>>
      BY <1>1, <1>3, <3>1 DEF IInv, Methods, MethodOf, Past
    <3> QED
      BY <3>2
  <2>2. HasBase(<<>>)' /\ \A t \in Tables : HasTable(<<>>, t)'
    BY <1>3, <2>1 DEF HasBase, HasTable
  <2> QED
    BY <1>2, <1>3, <2>1, <2>2 DEF FirstLeads, Past
<1>4. CASE pc[1] \in Past
  <2>1. base' /\ Tables \subseteq DOMAIN tables'
    BY <1>4, PastMeans, ServerGains DEF Following
  <2>2. pc'[1] \in Past \cup {"failed"}
    <3>1. script[1] = <<>>
      BY <1>4, PastMeans DEF Following
    <3>2. ASSUME Client(1) PROVE pc'[1] \in Past \cup {"failed"}
      <4>1. Write(1) \/ WriteFails(1) \/ ReadOnly(1) \/ End(1)
        BY <1>4, <3>1, <3>2
           DEF Past, Client, Start, Unanswered, MayStart, TakenForNone, Check, Execute, Fail, Return
      <4>2. \E p \in Past \cup {"failed"} : MovesTo(1, p, <<>>)
        BY <1>1, <4>1, Becoming DEF Write, WriteFails, ReadOnly, End, Past
      <4> QED
        BY <4>2 DEF MovesTo
    <3>3. CASE UNCHANGED vars
      BY <1>4, <3>3 DEF vars
    <3> QED
      BY <1>1, <1>4, <3>2, <3>3, NoClient, OthersStay DEF Next
  <2>3. pc'[1] # "failed"
    BY <1>1, GoesWrong
  <2> QED
    BY <1>3, <2>1, <2>2, <2>3
<1>5. ASSUME pc[1] \notin Past, Client(1) PROVE FirstLeads'
  <2>1. CASE Start(1)
    <3>1. pc'[1] = "exists"
      BY <1>1, <2>1, Becoming DEF Start, MovesTo
    <3> QED
      BY <3>1 DEF FirstLeads, Past
  <2>2. CASE Check(1)
    <3>1. base' = base /\ tables' = tables
      BY <2>2 DEF Check, serverVars
    <3>2. \/ MovesTo(1, "remove", RemoveOldDB)
          \/ ~DBExists /\ MovesTo(1, "create", CreateDB)
      BY <1>1, <2>2, CheckDecides
    <3>3. ~DBExists => (base => AlwaysThere) /\ (system # "redistimeseries" => DOMAIN tables = {})
      BY DEF DBExists, HasTables, Listed, AlwaysThere, IInv, TablesNeedBase
    <3> QED
      BY <3>1, <3>2, <3>3, CallsLead
  <2>3. CASE Execute(1)
    BY <2>3, StatementLeads
  <2>4. CASE Return(1)
    <3>1. base' = base /\ tables' = tables /\ script[1] = <<>>
      BY <2>4 DEF Return, serverVars
    <3>2. Range(script[1]) = {} /\ DOMAIN script[1] = {}
      <4>1. Range(<<>>) = {} /\ DOMAIN <<>> = {}
        BY None
      <4> QED
        BY <3>1, <4>1
    <3>3. CASE pc[1] = "remove"
      <4>1. MovesTo(1, "create", CreateDB)
        BY <1>1, <2>4, <3>3, Becoming DEF Return
      <4>2. (base => AlwaysThere) /\ (system # "redistimeseries" => DOMAIN tables = {})
        BY <3>2, <3>3 DEF Following, FirstLeads, Clears
      <4> QED
        BY <3>1, <4>1, <4>2, CallsLead
    <3>4. CASE pc[1] = "create"
      <4>1. MovesTo(1, "post", PostCreateDB(1))
        BY <1>1, <2>4, <3>4, Becoming DEF Return
      <4>2. base /\ (system # "timescaledb" => Tables \subseteq DOMAIN tables)
        BY <3>2, <3>4 DEF Following, FirstLeads, HasBase, HasTable
      <4> QED
        BY <3>1, <4>1, <4>2, CallsLead
    <3>5. CASE pc[1] = "post"
      <4>1. pc'[1] \in Past
        BY <1>1, <2>4, <3>5, Becoming DEF Return, MovesTo, Past
      <4>2. base /\ Tables \subseteq DOMAIN tables
        BY <3>2, <3>5 DEF Following, FirstLeads, HasBase, HasTable
      <4> QED
        BY <1>3, <3>1, <4>1, <4>2
    <3> QED
      BY <2>4, <3>3, <3>4, <3>5 DEF Return
  <2>5. ~Unanswered(1) /\ ~TakenForNone(1) /\ ~Fail(1)
    BY <1>1, FailsNot DEF Unanswered, TakenForNone, Course
  <2>6. ~Write(1) /\ ~WriteFails(1) /\ ~ReadOnly(1) /\ ~End(1)
    BY <1>5 DEF Write, WriteFails, ReadOnly, End, Past
  <2> QED
    BY <1>5, <2>1, <2>2, <2>3, <2>4, <2>5, <2>6 DEF Client
<1>6. CASE UNCHANGED vars
  <2>1. /\ base' = base /\ tables' = tables /\ pc' = pc /\ script' = script
        /\ FirstLeads
    BY <1>6 DEF vars, serverVars, Following
  <2> QED
    BY <1>2, <2>1, SameServer DEF FirstLeads
<1> QED
  BY <1>4, <1>5, <1>6, FirstAlone, NoClient DEF Next

\* A schema or a store that is always there is.
LEMMA StoreStays ==
    ASSUME IInv, Course, Following, Course', [Next]_vars
    PROVE  StoreIsThere'
<1>1. system' = system /\ Tables' = Tables /\ (AlwaysThere' <=> AlwaysThere)
  BY FixedStays DEF AlwaysThere
<1>2. ASSUME NEW c \in Clients, Execute(c), pc[c] = "remove"
      PROVE  OfSystem(Head(script[c]))
  <2>1. script[c] # <<>> /\ script[c] \in Seq(Statements)
    BY <1>2 DEF Execute, IInv, TypeOK
  <2>2. c = 1
    BY <1>2, <2>1, OthersSay
  <2>3. CanRun(script[c])
    BY <1>2, <2>2 DEF Following, FirstLeads
  <2>4. 1 \in DOMAIN script[c] /\ script[c][1] = Head(script[c])
    BY <2>1
  <2> QED
    BY <2>3, <2>4 DEF CanRun
<1>3. AlwaysThere => base'
  <2> SUFFICES ASSUME AlwaysThere, ~base' PROVE FALSE
    OBVIOUS
  <2>1. base
    BY DEF Following, StoreIsThere
  <2>2. PICK c \in Clients : Execute(c) /\ pc[c] = "remove"
    BY <2>1, BaseStays
  <2>3. Head(script[c]).do = "drop database"
    BY <2>1, <2>2 DEF Execute, Done
  <2> QED
    BY <1>2, <2>2, <2>3 DEF OfSystem
<1>4. ASSUME system = "redistimeseries" PROVE DOMAIN tables' = Tables
  <2>1. DOMAIN tables = Tables
    BY <1>4 DEF Following, StoreIsThere
  <2>2. DOMAIN tables' \subseteq Tables
    BY <1>1, StepsKeep DEF IInv, TypeOK
  <2>3. ASSUME NEW c \in Clients, Execute(c), NEW t \in Tables, t \notin DOMAIN tables' PROVE FALSE
    <3> DEFINE h == Head(script[c])
    <3>1. script[c] # <<>> /\ h \in Statements /\ Possible(h) /\ Done(h)
      BY <2>3, InMethod DEF Execute
    <3>2. h.do \in DropsOfTables \cup {"drop database"}
      BY <2>1, <2>3, <3>1, ServerChanges
    <3>3. pc[c] = "remove"
      BY <1>4, <3>1, <3>2, InMethod
         DEF InCreation, InPost, Creations, CreationsOfTables, DropsOfTables
    <3> QED
      BY <1>2, <1>4, <2>3, <3>2, <3>3 DEF OfSystem, DropsOfTables, AlwaysThere
  <2>4. ASSUME NEW c \in Clients, Write(c) PROVE DOMAIN tables' = Tables
    BY <2>4 DEF Write
  <2>5. ASSUME NEW c \in Clients, Client(c), ~Execute(c), ~Write(c) PROVE tables' = tables
    BY <2>5
       DEF Client, Start, Unanswered, TakenForNone, Check, Fail, Return, WriteFails, ReadOnly, End, serverVars
  <2>6. CASE UNCHANGED vars
    BY <2>1, <2>6 DEF vars, serverVars
  <2> QED
    BY <2>1, <2>2, <2>3, <2>4, <2>5, <2>6, NoClient DEF Next
<1> QED
  BY <1>1, <1>3, <1>4 DEF StoreIsThere

\* So do the others.
LEMMA OthersFollow ==
    ASSUME IInv, Preparation, Course, Following, Course', [Next]_vars, NEW c \in Clients
    PROVE  FollowsFirst(c)'
<1>1. 1 \in Clients /\ flags[c].load /\ ~flags[c].abort
  BY InCourse
<1>2. system' = system /\ Tables' = Tables
  BY FixedStays
<1>3. FollowsFirst(c) /\ FollowsFirst(1)
  BY <1>1 DEF Following
<1>4. pc'[c] = "failed" => c # 1 /\ system = "clickhouse"
  BY GoesWrong
<1>5. pc'[1] # "failed" /\ pc[1] # "failed"
  BY <1>1, <1>3, GoesWrong DEF FollowsFirst
<1>6. pc[1] \in Past => pc'[1] \in Past
  <2>1. FirstLeads /\ (pc[1] \in Past => script[1] = <<>>)
    BY PastMeans DEF Following
  <2>2. ASSUME Client(1), pc[1] \in Past PROVE pc'[1] \in Past
    <3>1. Write(1) \/ WriteFails(1) \/ ReadOnly(1) \/ End(1)
      BY <2>1, <2>2
         DEF Past, Client, Start, Unanswered, MayStart, TakenForNone, Check, Execute, Fail, Return
    <3>2. \E p \in Past \cup {"failed"} : MovesTo(1, p, <<>>)
      BY <1>1, <3>1, Becoming DEF Write, WriteFails, ReadOnly, End, Past
    <3> QED
      BY <1>5, <3>2 DEF MovesTo
  <2>3. CASE UNCHANGED vars
    BY <2>3 DEF vars
  <2> QED
    BY <1>1, <2>2, <2>3, NoClient, OthersStay DEF Next
<1>7. c # 1 /\ pc'[c] # "start" => pc'[1] \in Past
  <2> SUFFICES ASSUME c # 1, pc'[c] # "start", pc[1] \notin Past PROVE FALSE
    BY <1>6
  <2>1. pc[c] = "start"
    BY <1>3 DEF FollowsFirst
  <2>2. ~Client(c)
    BY FirstAlone
  <2>3. UNCHANGED vars => pc'[c] = "start"
    BY <2>1 DEF vars
  <2> QED
    BY <2>1, <2>2, <2>3, NoClient, OthersStay DEF Next
<1>8. ASSUME system = "cassandra", pc'[c] \in {"load", "loading"} PROVE session'[c]
  <2>1. ASSUME Client(c) PROVE session'[c]
    <3>1. CASE Return(c)
      <4>1. pc[c] = "post" /\ script[c] = <<>> /\ session' = session
        <5>1. pc[c] = "remove" => pc'[c] = "create"
          BY <3>1, Becoming DEF Return, MovesTo
        <5>2. pc[c] = "create" => pc'[c] = "post"
          BY <3>1, Becoming DEF Return, MovesTo
        <5> QED
          BY <1>8, <3>1, <5>1, <5>2 DEF Return, localVars
      <4>2. session[c]
        BY <1>1, <1>8, <4>1, None DEF Preparation, Preparing, Session
      <4> QED
        BY <4>1, <4>2
    <3>2. CASE Write(c)
      BY <1>3, <1>8, <3>2 DEF FollowsFirst, Write, localVars
    <3>3. ~Fail(c)
      BY FailsNot
    <3>4. ~Start(c) /\ ~Unanswered(c) /\ ~WriteFails(c) /\ ~ReadOnly(c) /\ ~End(c)
      BY <1>1, <1>8, Becoming DEF Start, Unanswered, WriteFails, ReadOnly, End, MovesTo
    <3>5. ~Check(c) /\ ~TakenForNone(c)
      BY <1>8, CheckDecides, TakenDecides DEF MovesTo
    <3>6. ~Execute(c)
      <4>1. Execute(c) => script[c] # <<>> /\ pc'[c] = pc[c]
        BY DEF Execute
      <4> QED
        BY <1>8, <4>1, InMethod
    <3> QED
      BY <2>1, <3>1, <3>2, <3>3, <3>4, <3>5, <3>6 DEF Client
  <2>2. CASE UNCHANGED vars
    BY <1>3, <1>8, <2>2 DEF FollowsFirst, vars, localVars
  <2>3. ASSUME NEW d \in Clients, Client(d), d # c PROVE session'[c]
    BY <1>3, <1>8, <2>3, OthersStay DEF FollowsFirst
  <2> QED
    BY <2>1, <2>2, <2>3, NoClient DEF Next
<1>9. ASSUME pc'[c] \in {"loading", "done"} PROVE Holds(c)'
  <2>1. ASSUME Write(c) PROVE Holds(c)'
    <3>1. tables' = [t \in Tables |-> {c} \cup IF t \in DOMAIN tables THEN tables[t] ELSE {}]
      BY <2>1 DEF Write
    <3> QED
      BY <1>2, <3>1 DEF Holds
  <2>2. ASSUME Holds(c), pc[c] \in {"loading", "done"} PROVE Holds(c)'
    <3>1. pc[1] \in Past
      BY <1>3, <2>2 DEF FollowsFirst, Past
    <3>2. \A t \in DOMAIN tables : t \in DOMAIN tables' /\ tables[t] \subseteq tables'[t]
      BY <3>1, ServerGains
    <3> QED
      BY <1>2, <2>2, <3>2 DEF Holds
  <2>3. ASSUME Client(c), ~Write(c) PROVE pc[c] \in {"loading", "done"}
    <3>1. ~Start(c) /\ ~Unanswered(c) /\ ~WriteFails(c) /\ ~ReadOnly(c) /\ ~Fail(c)
      BY <1>1, <1>9, Becoming, FailsNot DEF Start, Unanswered, WriteFails, ReadOnly, MovesTo
    <3>2. ~Check(c) /\ ~TakenForNone(c) /\ ~Return(c)
      BY <1>9, CheckDecides, TakenDecides, Becoming DEF Return, MovesTo
    <3> QED
      BY <1>9, <2>3, <3>1, <3>2 DEF Client, Execute, End
  <2>4. UNCHANGED vars => pc[c] \in {"loading", "done"}
    BY <1>9 DEF vars
  <2>5. ASSUME NEW d \in Clients, Client(d), d # c PROVE pc[c] \in {"loading", "done"}
    BY <1>9, <2>5, OthersStay
  <2> QED
    BY <1>3, <2>1, <2>2, <2>3, <2>4, <2>5, NoClient DEF Next, FollowsFirst
<1> QED
  BY <1>2, <1>4, <1>7, <1>8, <1>9 DEF FollowsFirst

\* No step leaves the course unless something fails.
LEMMA TogetherStays == IInv /\ Preparation /\ Together /\ [Next]_vars => Together'
<1> SUFFICES ASSUME IInv, Preparation, Together, [Next]_vars, Course'
             PROVE  FirstLeads' /\ StoreIsThere' /\ \A c \in Clients : FollowsFirst(c)'
  BY DEF Together
<1>1. Course /\ Following
  BY CourseBefore DEF Together, Following
<1> QED
  BY <1>1, FirstGoesOn, StoreStays, OthersFollow

\* After the procedure for several clients (loader.go:78), and no failure of the server, the
\* database holds the rows of all of them, save where the procedure does not work: what the
\* first client's creator does leaves all that the others' processors write to.
THEOREM ClientsHoldTheirRows == Spec => []ClientsLoadTogether
<1>1. Init => Together
  <2> SUFFICES ASSUME Init PROVE FirstLeads /\ StoreIsThere /\ \A c \in Clients : FollowsFirst(c)
    BY DEF Together
  <2>1. \A c \in Clients : pc[c] = "start"
    BY DEF Init
  <2>2. FirstLeads
    <3>1. 1 \in Clients
      BY SetupAssumption DEF Clients
    <3> QED
      BY <2>1, <3>1 DEF FirstLeads, Past
  <2>3. StoreIsThere
    <3>1. system = "redistimeseries" => DOMAIN tables = Tables
      BY DEF Init, Empty
    <3> QED
      BY <3>1 DEF Init, StoreIsThere
  <2>4. \A c \in Clients : FollowsFirst(c)
    BY <2>1 DEF FollowsFirst
  <2> QED
    BY <2>2, <2>3, <2>4
<1>2. IInv /\ Together => ClientsLoadTogether
  <2> SUFFICES ASSUME Together, OneCreates, ~refused, NEW c \in Clients,
                      pc[c] \in {"done", "failed"}, ~ProcedureFails(c)
               PROVE  pc[c] = "done" /\ Holds(c)
    BY DEF ClientsLoadTogether
  <2>1. Course
    BY DEF Course, ProcedureFails
  <2>2. FollowsFirst(c)
    BY <2>1 DEF Together
  <2> QED
    BY <2>2 DEF FollowsFirst, ProcedureFails
<1> QED
  BY <1>1, <1>2, Invariance, PreparationKept, TogetherStays, PreparationStarts, PTL DEF Spec
=============================================================================
