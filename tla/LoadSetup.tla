----------------------------- MODULE LoadSetup -----------------------------
(***************************************************************************)
(* The setup of a load run: useDBCreator of load/loader.go with the        *)
(* database creators of cmd/tsbs_load_*, up to the first writes of the     *)
(* workers.  Several clients may load one database; each is a process with *)
(* flags of its own, and the server executes their statements one at a     *)
(* time, in any interleaving.                                              *)
(*                                                                         *)
(* A method of a creator is the script of statements it sends.  A table is *)
(* the set of those whose rows it holds; it stands for all tables of its   *)
(* kind.  Indexes and types are left out.                                  *)
(***************************************************************************)
EXTENDS Naturals, Sequences, FiniteSets, SequencesExt

CONSTANTS
    NumClients,     \* loaders at work on the server
    Systems,        \* the database systems
    Flags,          \* the flags of a client: load (--do-load), create (--do-create-db),
                    \* abort (--do-abort-on-exist), tables (--create-metrics-table)
    Old             \* whoever stored rows before these clients

Clients == 1..NumClients

AllSystems == {"timescaledb", "clickhouse", "cratedb", "siridb", "cassandra",
               "mongo", "influx", "redistimeseries"}

ASSUME SetupAssumption ==
    /\ NumClients \in Nat \ {0}
    /\ Systems \subseteq AllSystems
    /\ Flags \subseteq [load : BOOLEAN, create : BOOLEAN, abort : BOOLEAN, tables : BOOLEAN]
    /\ Old \notin Clients

VARIABLES
    system,     \* the database system
    flags,      \* the flags of each client
    inTurn,     \* whether a client starts once those before it are loading
    base,       \* whether the database (keyspace, schema) exists on the server
    tables,     \* its tables, each with those whose rows it holds
    refused,    \* whether the server has ever failed to do as told
    pc,         \* control of each client within RunBenchmark
    script,     \* the statements left of the method it is in
    header,     \* whether its creator has read the header of the file
    known,      \* tableCols, the tables whose columns it knows
    session     \* whether it has the session its processors write with

serverVars == <<base, tables, refused>>
fixed == <<system, flags, inTurn>>
localVars == <<header, known, session>>
vars == <<fixed, serverVars, pc, script, localVars>>

\* Files of these systems begin with the tags and the columns of each table.
HasHeader == system \in {"timescaledb", "clickhouse", "cratedb"}

\* The tables a load writes to.  Influx, SiriDB and RedisTimeSeries have none to create:
\* "points" is there as soon as the database is.
Tables ==
    CASE system \in {"timescaledb", "clickhouse"} -> {"tags", "metrics"}
      [] system = "cratedb" -> {"metrics"}
      [] system = "cassandra" -> {"series"}
      [] system = "mongo" -> {"point_data"}
      [] OTHER -> {"points"}

\* Systems without databases to create: a schema or a store is always there.
AlwaysThere == system \in {"cratedb", "mongo", "redistimeseries"}

Empty(ts) == [t \in ts |-> {}]

Init ==
    /\ system \in Systems
    /\ flags \in [Clients -> Flags]
    /\ inTurn \in BOOLEAN
    /\ \E before \in BOOLEAN :
           /\ base = (before \/ AlwaysThere)
           /\ tables = IF before THEN [t \in Tables |-> {Old}]
                       ELSE IF system = "redistimeseries" THEN Empty(Tables) ELSE <<>>
    /\ refused = FALSE
    /\ pc = [c \in Clients |-> "start"]
    /\ script = [c \in Clients |-> <<>>]
    /\ header = [c \in Clients |-> FALSE]
    /\ known = [c \in Clients |-> {}]
    /\ session = [c \in Clients |-> FALSE]
-----------------------------------------------------------------------------
(* The methods of the creators. *)

Statement(do, t) == [do |-> do, table |-> t]
Each(do, ts) == SetToSeq({Statement(do, t) : t \in ts})

\* Listed among the databases of the server; SiriDB lets one connect to it.
Listed == base

\* CrateDB counts the tables of the schema; MongoDB lists a database once it has a
\* collection.
HasTables == DOMAIN tables # {}

DBExists ==
    CASE system \in {"cratedb", "mongo"} -> HasTables
      [] system = "redistimeseries" -> TRUE
      [] OTHER -> Listed

DropDatabase == <<Statement("drop database", "")>>

\* CrateDB asks for the tables of the schema and drops them one by one.
DropListed == Each("drop table", DOMAIN tables)

\* So does MongoDB; see Ignored for what it makes of errors.
DropCollections == Each("drop table if there", DOMAIN tables)

\* RemoveOldDB.  SiriDB has no statement for it and always returns an error.
RemoveOldDB ==
    CASE system \in {"cratedb", "mongo"} -> <<Statement("list", "")>>
      [] system = "siridb" -> <<Statement("refuse", "")>>
      [] system = "redistimeseries" -> <<>>
      [] OTHER -> DropDatabase

CreateDatabase == <<Statement("create database", "")>>

\* createTagsTable of ClickHouse, and the columns CreateDB remembers.
ClickHouseTags == <<Statement("create table", "tags"), Statement("learn", "tags")>>

\* createMetricsTable of ClickHouse.
ClickHouseMetrics == <<Statement("learn", "metrics"), Statement("create table", "metrics")>>

\* Slip: the columns of tags are not remembered.
CreateClickHouseUnlearned ==
    CreateDatabase \o <<Statement("create table", "tags")>> \o ClickHouseMetrics

CreateClickHouse == CreateDatabase \o ClickHouseTags \o ClickHouseMetrics

CreateCassandra == CreateDatabase \o Each("create table", Tables)

CreateCrate == Each("create table", Tables)

\* That the collection is there already is no error.
CreateMongo == Each("create table if not there", Tables)

\* CREATE DATABASE of Influx does not mind an existing one.
CreateInflux == <<Statement("create database if not there", "")>>

\* SiriDB on two hosts: the second joins the pool, or becomes a replica.
CreateSiri == CreateDatabase \o <<Statement("join", "")>>

CreateDB ==
    CASE system = "clickhouse" -> CreateClickHouse
      [] system = "cassandra" -> CreateCassandra
      [] system = "cratedb" -> CreateCrate
      [] system = "mongo" -> CreateMongo
      [] system = "influx" -> CreateInflux
      [] system = "siridb" -> CreateSiri
      [] system = "redistimeseries" -> <<>>
      [] OTHER -> CreateDatabase

\* createTagsTable and createTableAndIndexes of TimescaleDB.
Recreate(t) == <<Statement("drop table if there", t), Statement("create table", t)>>

\* Slip: a client that makes no tables does not remember their columns either.
PostTimescaleOfMaker(c) ==
    IF ~flags[c].tables THEN <<>>
    ELSE Recreate("tags") \o <<Statement("learn", "tags"), Statement("learn", "metrics")>>
             \o Recreate("metrics")

\* TimescaleDB: the columns are remembered by every client, the tables made again by
\* every client with --create-metrics-table.  The files are those of tsbs_generate_data, so
\* the header begins with "tags", and the method does not return early because of it.
PostTimescale(c) ==
    LET recreate(t) == IF flags[c].tables THEN Recreate(t) ELSE <<>>
    IN  recreate("tags") \o <<Statement("learn", "tags"), Statement("learn", "metrics")>>
            \o recreate("metrics")

\* Cassandra: the session on the keyspace.
PostCassandra == <<Statement("connect", "")>>

\* PostCreateDB; only these two systems have one.
PostCreateDB(c) ==
    CASE system = "timescaledb" -> PostTimescale(c)
      [] system = "cassandra" -> PostCassandra
      [] OTHER -> <<>>
-----------------------------------------------------------------------------
(* The server. *)

\* Whether the server can do what a statement says.
Possible(s) ==
    CASE s.do = "create database" -> ~base
      [] s.do = "create table" -> base /\ s.table \notin DOMAIN tables
      [] s.do = "drop table" -> s.table \in DOMAIN tables
      [] s.do \in {"connect", "drop table if there", "create table if not there"} -> base
      [] s.do = "refuse" -> FALSE
      [] OTHER -> TRUE

\* The tables there are, and those of ts that are not, empty.
With(ts) ==
    [t \in DOMAIN tables \cup ts |-> IF t \in DOMAIN tables THEN tables[t] ELSE {}]

Without(t) == [u \in DOMAIN tables \ {t} |-> tables[u]]

\* What it then does.
Done(s) ==
    CASE s.do = "drop database" -> base' = FALSE /\ tables' = <<>>
      [] s.do \in {"create database", "create database if not there"} ->
             /\ base' = TRUE
             /\ tables' = IF system \in {"influx", "siridb"} THEN With(Tables) ELSE tables
      [] s.do \in {"create table", "create table if not there"} ->
             base' = base /\ tables' = With({s.table})
      [] s.do \in {"drop table", "drop table if there"} ->
             base' = base /\ tables' = Without(s.table)
      [] OTHER -> UNCHANGED <<base, tables>>
-----------------------------------------------------------------------------
(* A client. *)

Become(c, p, s) == pc' = [pc EXCEPT ![c] = p] /\ script' = [script EXCEPT ![c] = s]

\* Init of the creator reads the header of the file if it has one.
InitCreator(c) == header' = [header EXCEPT ![c] = HasHeader]

\* A client is started, at once or when those before it are set up.
MayStart(c) ==
    /\ pc[c] = "start"
    /\ inTurn => \A d \in 1..(c - 1) : pc[d] \in {"load", "loading", "done", "failed"}

\* Without --do-load there is nothing to set up.
Start(c) ==
    /\ MayStart(c)
    /\ Become(c, IF flags[c].load THEN "exists" ELSE "load", <<>>)
    /\ IF flags[c].load THEN InitCreator(c) ELSE UNCHANGED header
    /\ UNCHANGED <<fixed, serverVars, known, session>>

\* Slip: --do-abort-on-exist is looked at only when the database is not to be created.
AbortsUnlessCreating(c) == flags[c].abort /\ ~flags[c].create

\* Whether an existing database ends the run.
Aborts(c) == flags[c].abort

\* Slip: a database that exists is kept and written to.
AfterCheckKeeping(c, exists) ==
    IF exists /\ Aborts(c) THEN Become(c, "failed", <<>>)
    ELSE IF ~flags[c].create \/ exists THEN Become(c, "post", PostCreateDB(c))
    ELSE Become(c, "create", CreateDB)

\* What follows an answer of DBExists.
AfterCheck(c, exists) ==
    IF exists /\ Aborts(c) THEN Become(c, "failed", <<>>)
    ELSE IF ~flags[c].create THEN Become(c, "post", PostCreateDB(c))
    ELSE IF exists THEN Become(c, "remove", RemoveOldDB)
    ELSE Become(c, "create", CreateDB)

\* Systems whose Init ends the program if the server cannot be reached, and those whose
\* DBExists does if it does not answer.
Dialled == {"cratedb", "cassandra", "mongo"}
Asked == {"timescaledb", "clickhouse", "cratedb", "mongo", "influx"}

\* The server cannot be reached, or does not answer.
Unanswered(c) ==
    /\ flags[c].load
    /\ \/ MayStart(c) /\ system \in Dialled
       \/ pc[c] = "exists" /\ system \in Asked
    /\ Become(c, "failed", <<>>)
    /\ refused' = TRUE
    /\ UNCHANGED <<fixed, base, tables, localVars>>

\* DBExists of Cassandra and SiriDB takes a server that does not answer for one without the
\* database, and the run goes on.
TakenForNone(c) ==
    /\ pc[c] = "exists"
    /\ system \in {"cassandra", "siridb"}
    /\ AfterCheck(c, FALSE)
    /\ refused' = TRUE
    /\ UNCHANGED <<fixed, base, tables, localVars>>

\* The answer of DBExists is acted on.
Check(c) ==
    /\ pc[c] = "exists"
    /\ AfterCheck(c, DBExists)
    /\ UNCHANGED <<fixed, serverVars, localVars>>

\* The next statement of the method is done.
Execute(c) ==
    /\ script[c] # <<>>
    /\ LET s == Head(script[c])
       IN  /\ Possible(s)
           /\ Done(s)
           /\ known' = [known EXCEPT ![c] = IF s.do = "learn" THEN @ \cup {s.table} ELSE @]
           /\ session' = [session EXCEPT ![c] = @ \/ s.do = "connect"]
           /\ script' = [script EXCEPT ![c] = IF s.do # "list" THEN Tail(@)
                                             ELSE IF system = "mongo" THEN DropCollections
                                             ELSE DropListed]
    /\ UNCHANGED <<fixed, refused, pc, header>>

\* RemoveOldDB of MongoDB does not look at the error of a drop.
Ignored(s) == system = "mongo" /\ s.do = "drop table if there"

\* It cannot be done, or the server fails.  The creators panic, or return an error that
\* useDBCreator panics on; it does not look at that of PostCreateDB.
Fail(c) ==
    /\ script[c] # <<>>
    /\ LET s == Head(script[c])
       IN  /\ s.do # "learn"
           /\ refused' = (refused \/ Possible(s))
           /\ IF Ignored(s) THEN Become(c, pc[c], Tail(script[c]))
              ELSE Become(c, IF s.do = "connect" THEN "load" ELSE "failed", <<>>)
    /\ UNCHANGED <<fixed, base, tables, localVars>>

\* A method returns and useDBCreator goes on to the next.
Return(c) ==
    /\ pc[c] \in {"remove", "create", "post"}
    /\ script[c] = <<>>
    /\ CASE pc[c] = "remove" -> Become(c, "create", CreateDB)
         [] pc[c] = "create" -> Become(c, "post", PostCreateDB(c))
         [] pc[c] = "post" -> Become(c, "load", <<>>)
    /\ UNCHANGED <<fixed, serverVars, localVars>>

\* What a client must have found out or opened itself before it can write.
Prepared(c) ==
    /\ system \in {"timescaledb", "clickhouse"} => known[c] = Tables
    /\ system = "cassandra" => session[c]

\* Whether its INSERT or COPY finds what it names.  MongoDB makes a missing collection.
CanWrite(c) ==
    /\ Prepared(c)
    /\ base
    /\ Tables \subseteq DOMAIN tables \/ system = "mongo"

\* A batch is stored.
Write(c) ==
    /\ pc[c] \in {"load", "loading"}
    /\ flags[c].load
    /\ CanWrite(c)
    /\ tables' = [t \in Tables |-> {c} \cup IF t \in DOMAIN tables THEN tables[t] ELSE {}]
    /\ Become(c, "loading", <<>>)
    /\ UNCHANGED <<fixed, base, refused, localVars>>

\* A worker ends the program when it cannot write.  It may not be able to for reasons of
\* the server: RedisTimeSeries does not create a series twice, and the processor of CrateDB
\* depends on what its driver makes of a table's name given as a statement.
WriteFails(c) ==
    /\ pc[c] \in {"load", "loading"}
    /\ flags[c].load
    /\ refused' = (refused \/ CanWrite(c))
    /\ Become(c, "failed", <<>>)
    /\ UNCHANGED <<fixed, base, tables, localVars>>

\* Without --do-load the file is only read.  The decoders end the program on a header line.
ReadOnly(c) ==
    /\ pc[c] = "load"
    /\ ~flags[c].load
    /\ Become(c, IF HasHeader /\ ~header[c] THEN "failed" ELSE "done", <<>>)
    /\ UNCHANGED <<fixed, serverVars, localVars>>

\* The file is at its end.
End(c) ==
    /\ pc[c] = "loading"
    /\ Become(c, "done", <<>>)
    /\ UNCHANGED <<fixed, serverVars, localVars>>

Client(c) ==
    \/ Start(c) \/ Unanswered(c) \/ TakenForNone(c) \/ Check(c)
    \/ Execute(c) \/ Fail(c) \/ Return(c)
    \/ Write(c) \/ WriteFails(c) \/ ReadOnly(c) \/ End(c)

Stopped == \A c \in Clients : pc[c] \in {"done", "failed"} /\ UNCHANGED vars

Next == Stopped \/ \E c \in Clients : Client(c)

Spec == Init /\ [][Next]_vars
-----------------------------------------------------------------------------
(* Properties. *)

Holds(c) == \A t \in Tables : t \in DOMAIN tables /\ c \in tables[t]

Loading(c) == flags[c].load /\ pc[c] \in {"load", "loading", "done"}

\* Where older rows stay: RedisTimeSeries never removes any; MongoDB goes on after a drop
\* that failed (mongo/creator.go:44) and does not mind the collection it left (:65).
KeepsOlder == system = "redistimeseries" \/ (system = "mongo" /\ refused)

\* A client that makes the database loads into one without older rows: whatever the
\* clients do in between, those it found are gone (RemoveOldDB, loader.go:219), also where
\* an unanswered check was taken for no database.
CreatorStartsAfresh ==
    \A c \in Clients : Loading(c) /\ flags[c].create /\ ~KeepsOlder =>
        \A t \in DOMAIN tables : Old \notin tables[t]

\* Told to abort if the database exists, or not to create it; TimescaleDB clients make
\* their tables again even then, unless told not to.
Keeps(c) ==
    \/ ~flags[c].load
    \/ flags[c].create /\ flags[c].abort
    \/ ~flags[c].create /\ ~(system = "timescaledb" /\ flags[c].tables)

\* Clients that are all told to keep what is there (--do-abort-on-exist, --do-create-db=false;
\* loader.go:212, 218) never destroy a row, however their steps interleave.
RowsAreKept ==
    [][(\A c \in Clients : Keeps(c)) =>
          \A t \in DOMAIN tables : tables[t] # {} =>
              t \in DOMAIN tables' /\ tables[t] \subseteq tables'[t]]_vars

\* The procedure for several clients: the first creates the database, the others start
\* once it loads and do not ("Disable on all but one client", loader.go:78).
OneCreates ==
    /\ inTurn
    /\ \A c \in Clients : flags[c].load /\ ~flags[c].abort
    /\ \A c \in Clients : flags[c].create <=> c = 1

\* Where the procedure does not work: ClickHouse tells only the creator the columns;
\* TimescaleDB tables are made again by every client that is not told otherwise, and by
\* none if the first is; SiriDB's creator cannot remove an older database.
ProcedureFails(c) ==
    \/ system = "clickhouse" /\ c # 1
    \/ system = "timescaledb" /\ \E d \in Clients : flags[d].tables # flags[d].create
    \/ system = "siridb" /\ pc[1] = "failed"

\* After the procedure for several clients, and no failure of the server, the database
\* holds the rows of all of them.
ClientsLoadTogether ==
    OneCreates /\ ~refused /\ (\A c \in Clients : pc[c] \in {"done", "failed"}) =>
        \A c \in Clients : ProcedureFails(c) \/ (pc[c] = "done" /\ Holds(c))

\* Another client may take the keyspace away.
Disturbed(c) == \E d \in Clients \ {c} : flags[d].load /\ flags[d].create

\* A client that gets to its load can do it: it knows its columns or has its session, and
\* has left the header of the file behind.  Exceptions: a ClickHouse client that did not
\* create the database; a Cassandra client whose keyspace is not there or not reached, as
\* the error of PostCreateDB is not looked at (loader.go:233); reading a file with a header
\* without --do-load (loader.go:77).
SetUpToRun ==
    \A c \in Clients : pc[c] \in {"load", "loading"} =>
        /\ flags[c].load =>
               \/ Prepared(c)
               \/ system = "clickhouse" /\ ~flags[c].create
               \/ system = "cassandra" /\ (~flags[c].create \/ refused \/ Disturbed(c))
        /\ flags[c].load /\ HasHeader => header[c]
=============================================================================
