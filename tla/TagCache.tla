------------------------------ MODULE TagCache ------------------------------
(***************************************************************************)
(* The ids of tags in the loaders of TimescaleDB and ClickHouse: processCSI *)
(* of cmd/tsbs_load_timescaledb/process.go and its copy in                 *)
(* cmd/tsbs_load_clickhouse/process.go.  A row of data refers by tags_id to *)
(* the row of the table tags that holds its tags; the loader looks the id  *)
(* up by host name in an index (syncCSI) that all workers of a process     *)
(* share, or each has for itself when hosts are hashed to workers, and     *)
(* inserts the tags it does not find.                                      *)
(*                                                                         *)
(* A Go map that lacks a key yields 0 and ids are positive, so an index is *)
(* a function to Nat, 0 where it has no entry.  The tags of a row are its  *)
(* first tag, the host (or truck), and whether another one is empty.       *)
(***************************************************************************)
EXTENDS Integers, Sequences, FiniteSets

CONSTANTS
    NumWorkers,     \* workers of all the loaders
    Hosts,          \* values of the first tag
    NoHost,         \* the empty first tag of an entry of the IoT use case
    NilKey,         \* "<nil>", what a NULL first column is printed as
    MaxRows,        \* bound on the rows of a call of processCSI
    MaxCalls,       \* bound on the calls
    Configs         \* the flags: db, json (--use-jsonb-tags), hash (--hash-workers),
                    \* client (the process of each worker), partition (the worker a
                    \* host is hashed to), tags (those in the file)

Workers == 1..NumWorkers
FirstTags == Hosts \cup {NoHost}
Keys == FirstTags \cup {NilKey}
Tags == [host : FirstTags, cleared : BOOLEAN]

\* Hashing is modelled within one process.
ASSUME TagAssumption ==
    /\ NumWorkers \in Nat \ {0}
    /\ IsFiniteSet(Hosts)
    /\ NoHost \notin Hosts /\ NilKey \notin FirstTags
    /\ MaxRows \in Nat /\ MaxCalls \in Nat
    /\ Configs \subseteq [db : {"timescale", "clickhouse"}, json : BOOLEAN, hash : BOOLEAN,
                          client : [Workers -> Workers], partition : [FirstTags -> Workers],
                          tags : SUBSET Tags]
    /\ \A c \in Configs : c.hash => \A v, w \in Workers : c.client[v] = c.client[w]

VARIABLES
    conf,       \* the flags of this run
    calls,      \* calls of processCSI so far
    wpc,        \* control of each worker within processCSI
    rows,       \* the tags of the rows of its call
    new,        \* positions of those it found no id for
    ret,        \* what its insertTags returned
    cache,      \* syncCSI.m of each index
    writer,     \* the worker that holds syncCSI.mutex for writing, or 0
    tags,       \* the table tags
    nextId,     \* the sequence of the SERIAL column tags.id of TimescaleDB
    stored      \* the rows of data: their tags and tags_id

callVars == <<conf, calls>>
workVars == <<wpc, rows, new, ret>>
csiVars == <<cache, writer>>
dbVars == <<tags, nextId, stored>>
vars == <<callVars, workVars, csiVars, dbVars>>

\* Init of the processors: an index for the worker, or the one of its process.
CsiOf(w) == IF conf.hash THEN w ELSE conf.client[w]

NoIds == [k \in Keys |-> 0]

Init ==
    /\ conf \in Configs
    /\ calls = 0
    /\ wpc = [w \in Workers |-> "idle"]
    /\ rows = [w \in Workers |-> <<>>]
    /\ new = [w \in Workers |-> {}]
    /\ ret = [w \in Workers |-> NoIds]
    /\ cache = [c \in Workers |-> NoIds]
    /\ writer = [c \in Workers |-> 0]
    /\ tags = {}
    /\ nextId = 1
    /\ stored = {}
-----------------------------------------------------------------------------
(* A call of processCSI. *)

\* The tags the indexer sends to a worker.
TagsFor(w) == {t \in conf.tags : conf.hash => conf.partition[t.host] = w}

Start(w) ==
    /\ wpc[w] = "idle"
    /\ calls < MaxCalls
    /\ \E n \in 1..MaxRows : \E ts \in [1..n -> TagsFor(w)] :
           rows' = [rows EXCEPT ![w] = ts]
    /\ calls' = calls + 1
    /\ wpc' = [wpc EXCEPT ![w] = "check"]
    /\ UNCHANGED <<conf, new, ret, csiVars, dbVars>>

\* The read lock can be had while no one writes.
Readable(w) == writer[CsiOf(w)] = 0

\* Which rows have tags without an id.
Check(w) ==
    /\ wpc[w] = "check"
    /\ Readable(w)
    /\ LET missing == {k \in DOMAIN rows[w] : cache[CsiOf(w)][rows[w][k].host] = 0}
       IN  /\ new' = [new EXCEPT ![w] = missing]
           /\ wpc' = [wpc EXCEPT ![w] = IF missing = {} THEN "assign" ELSE "lock"]
    /\ UNCHANGED <<callVars, rows, ret, csiVars, dbVars>>

\* Slip: the read lock is taken where the index is written.
LockShared(w) ==
    /\ wpc[w] = "lock"
    /\ writer' = [writer EXCEPT ![CsiOf(w)] = w]
    /\ wpc' = [wpc EXCEPT ![w] = "insert"]
    /\ UNCHANGED <<callVars, rows, new, ret, cache, dbVars>>

Lock(w) ==
    /\ wpc[w] = "lock"
    /\ writer[CsiOf(w)] = 0
    /\ writer' = [writer EXCEPT ![CsiOf(w)] = w]
    /\ wpc' = [wpc EXCEPT ![w] = "insert"]
    /\ UNCHANGED <<callVars, rows, new, ret, cache, dbVars>>

\* Tags with an empty value, as the generator of the IoT use case writes.
HasEmpty(t) == t.cleared \/ t.host = NoHost

\* Equal for the unique index on tags: NULL columns differ from each other, a NULL
\* within a JSON document does not.
Conflict(s, t) == s = t /\ (conf.json \/ ~HasEmpty(t))

\* The key of a returned row: the first column printed, or the JSON member decoded.
KeyOf(t) == IF t.host = NoHost /\ ~conf.json THEN NilKey ELSE t.host

\* Slip: INSERT without ON CONFLICT DO NOTHING, on a table without a unique index.
InsertedAll(w) == new[w]

\* The rows INSERT ... ON CONFLICT DO NOTHING inserts, and so returns.
Inserted(w) ==
    {k \in new[w] :
        /\ \A s \in tags : ~Conflict(s.tag, rows[w][k])
        /\ \A j \in new[w] : j < k => ~Conflict(rows[w][j], rows[w][k])}

\* The map a returned result fills: of several rows with one key, the last stays.
IdMap(ks, id, key) ==
    [h \in Keys |->
        IF \E k \in ks : key[k] = h
        THEN id[CHOOSE k \in ks : key[k] = h /\ \A j \in ks : key[j] = h => j <= k]
        ELSE 0]

InsertTimescale(w) ==
    /\ wpc[w] = "insert"
    /\ conf.db = "timescale"
    /\ LET id == [k \in Inserted(w) |-> nextId + (k - 1)]
           key == [k \in Inserted(w) |-> KeyOf(rows[w][k])]
       IN  /\ tags' = tags \cup {[id |-> id[k], tag |-> rows[w][k]] : k \in Inserted(w)}
           /\ ret' = [ret EXCEPT ![w] = IdMap(Inserted(w), id, key)]
    /\ nextId' = nextId + Len(rows[w])
    /\ wpc' = [wpc EXCEPT ![w] = "merge"]
    /\ UNCHANGED <<callVars, rows, new, csiVars, stored>>

\* startID, the size of the index.
StartID(w) == Cardinality({h \in Keys : cache[CsiOf(w)][h] # 0})

InsertClickhouse(w) ==
    /\ wpc[w] = "insert"
    /\ conf.db = "clickhouse"
    /\ LET id == [k \in new[w] |-> StartID(w) + Cardinality({j \in new[w] : j <= k})]
           key == [k \in new[w] |-> rows[w][k].host]
       IN  /\ tags' = tags \cup {[id |-> id[k], tag |-> rows[w][k]] : k \in new[w]}
           /\ ret' = [ret EXCEPT ![w] = IdMap(new[w], id, key)]
    /\ wpc' = [wpc EXCEPT ![w] = "merge"]
    /\ UNCHANGED <<callVars, rows, new, csiVars, nextId, stored>>

\* Slip: the ids of this call replace the index.
MergedOver(w) == ret[w]

\* The index with the returned ids.
Merged(w) ==
    [h \in Keys |-> IF ret[w][h] # 0 THEN ret[w][h] ELSE cache[CsiOf(w)][h]]

\* Slip: the mutex stays locked.
MergeLocked(w) ==
    /\ wpc[w] = "merge"
    /\ cache' = [cache EXCEPT ![CsiOf(w)] = Merged(w)]
    /\ wpc' = [wpc EXCEPT ![w] = "assign"]
    /\ UNCHANGED <<callVars, rows, new, ret, writer, dbVars>>

Merge(w) ==
    /\ wpc[w] = "merge"
    /\ cache' = [cache EXCEPT ![CsiOf(w)] = Merged(w)]
    /\ writer' = [writer EXCEPT ![CsiOf(w)] = 0]
    /\ wpc' = [wpc EXCEPT ![w] = "assign"]
    /\ UNCHANGED <<callVars, rows, new, ret, dbVars>>

\* Look the ids up, and insert the rows.
Assign(w) ==
    /\ wpc[w] = "assign"
    /\ Readable(w)
    /\ stored' = stored \cup
           {[tag |-> rows[w][k], id |-> cache[CsiOf(w)][rows[w][k].host]] : k \in DOMAIN rows[w]}
    /\ wpc' = [wpc EXCEPT ![w] = "idle"]
    /\ rows' = [rows EXCEPT ![w] = <<>>]
    /\ new' = [new EXCEPT ![w] = {}]
    /\ ret' = [ret EXCEPT ![w] = NoIds]
    /\ UNCHANGED <<callVars, csiVars, tags, nextId>>

Step(w) == Check(w) \/ Lock(w) \/ InsertTimescale(w) \/ InsertClickhouse(w) \/ Merge(w) \/ Assign(w)

\* All calls have returned; stuttering here is not a deadlock.
Finished == calls = MaxCalls /\ (\A w \in Workers : wpc[w] = "idle") /\ UNCHANGED vars

Next == (\E w \in Workers : Start(w) \/ Step(w)) \/ Finished

Spec == Init /\ [][Next]_vars
FairSpec == Spec /\ \A w \in Workers : WF_vars(Step(w))
-----------------------------------------------------------------------------
(* What must hold. *)

Ids == Nat
WorkerStates == {"idle", "check", "lock", "insert", "merge", "assign"}

\* The indexes and the tables have the types of the Go maps and columns, and an index
\* is only locked by the worker that is between Lock and Unlock.
TypeOK ==
    /\ conf \in Configs
    /\ calls \in Nat
    /\ wpc \in [Workers -> WorkerStates]
    /\ rows \in [Workers -> Seq(Tags)]
    /\ new \in [Workers -> SUBSET Nat]
    /\ \A w \in Workers : new[w] \subseteq DOMAIN rows[w]
    /\ ret \in [Workers -> [Keys -> Ids]]
    /\ cache \in [Workers -> [Keys -> Ids]]
    /\ writer \in [Workers -> Workers \cup {0}]
    /\ \A w \in Workers : wpc[w] \in {"insert", "merge"} => writer[CsiOf(w)] = w
    /\ tags \subseteq [id : Ids, tag : Tags]
    /\ nextId \in Nat \ {0}
    /\ stored \subseteq [id : Ids, tag : Tags]

OneClient == \A v, w \in Workers : conf.client[v] = conf.client[w]

\* The rows the TimescaleDB loader may have no id for: another process inserted their
\* tags first, so nothing is returned, or their first tag is NULL.
MayLackId(t) == conf.db = "timescale" /\ (~OneClient \/ (t.host = NoHost /\ ~conf.json))

\* Every stored row refers to tags of its own host, whatever the workers insert and look
\* up at the same time; only the rows above may have the id 0 instead.
RowsReferToTheirHost ==
    \A r \in stored :
        \/ \E t \in tags : t.id = r.id /\ t.tag.host = r.tag.host
        \/ r.id = 0 /\ MayLackId(r.tag)

\* The id of a host does not change once it is in the index of the TimescaleDB loader,
\* when no tag is empty: workers that found the same host missing insert it once, so all
\* the rows of a host refer to one row of tags.
HostKeepsItsId ==
    conf.db = "timescale" /\ (\A t \in conf.tags : ~HasEmpty(t)) =>
        \A r, s \in stored : r.tag = s.tag /\ r.id # 0 /\ s.id # 0 => r.id = s.id

\* A call of processCSI returns, although workers wait for each other's locks.
CallsReturn == \A w \in Workers : wpc[w] = "check" ~> wpc[w] = "idle"

\* "Map hostname to tags.id for this host": rows of different hosts have different ids.
HostsHaveTheirOwnIds ==
    \A r, s \in stored : r.id = s.id => r.tag.host = s.tag.host
=============================================================================
