--------------------------- MODULE TagCacheProofs ---------------------------
(***************************************************************************)
(* The rows of TagCache refer to the tags of their own host, for every     *)
(* number of workers, hosts, rows and calls and every configuration.       *)
(***************************************************************************)
EXTENDS TagCache, FiniteSetTheorems, WellFoundedInduction, TLAPS

(* A set of positions that is not empty has a least one. *)
LEMMA LeastPosition ==
    ASSUME NEW T \in SUBSET Nat, T # {}
    PROVE  \E m \in T : \A k \in T : m <= k
<1> DEFINE R == OpToRel(<, Nat)
<1>1. IsWellFoundedOn(R, Nat)
  BY NatLessThanWellFounded
<1>2. \A y, x \in Nat : <<y, x>> \in R <=> y < x
  BY DEF OpToRel
<1> HIDE DEF R
<1>3. PICK x \in T : \A y \in T : ~ (<<y, x>> \in R)
  BY <1>1, WFMin
<1>4. ASSUME NEW y \in T
      PROVE  x <= y
  <2>1. x \in Nat /\ y \in Nat /\ ~ (y < x)
    BY <1>2, <1>3
  <2> QED  BY <2>1
<1> QED  BY <1>4

(* A set of positions of a sequence that is not empty has a last one. *)
LEMMA LastPosition ==
    ASSUME NEW n \in Nat, NEW T \in SUBSET (1..n), T # {}
    PROVE  \E m \in T : \A k \in T : k <= m
<1> DEFINE U == {n - k : k \in T}
<1>1. U \in SUBSET Nat /\ U # {}
  <2>1. \A k \in T : n - k \in Nat
    OBVIOUS
  <2> QED  BY <2>1
<1>2. PICK u \in U : \A v \in U : u <= v
  <2> HIDE DEF U
  <2> QED  BY <1>1, LeastPosition
<1>3. PICK m \in T : u = n - m
  BY <1>2
<1>4. \A k \in T : n - m <= n - k
  BY <1>2, <1>3
<1>5. \A k \in T : k <= m
  BY <1>4
<1> QED  BY <1>5

(* The map a returned result fills has an entry for the key of every row, each the id
   of a row with that key. *)
ReturnedRows(n, ks, id, key) ==
    n \in Nat /\ ks \subseteq 1..n /\ id \in [ks -> Nat \ {0}] /\ key \in [ks -> Keys]

MapsRows(f, ks, id, key) ==
    /\ f \in [Keys -> Nat]
    /\ \A k \in ks : f[key[k]] # 0
    /\ \A h \in Keys : f[h] # 0 => \E k \in ks : key[k] = h /\ id[k] = f[h]

LEMMA IdMapEntries ==
    ASSUME NEW n, NEW ks, NEW id, NEW key, ReturnedRows(n, ks, id, key)
    PROVE  MapsRows(IdMap(ks, id, key), ks, id, key)
<1> DEFINE last(h) == CHOOSE k \in ks : key[k] = h /\ \A j \in ks : key[j] = h => j <= k
           f == IdMap(ks, id, key)
<1>0. n \in Nat /\ ks \subseteq 1..n /\ id \in [ks -> Nat \ {0}] /\ key \in [ks -> Keys]
  BY DEF ReturnedRows
<1>1. ASSUME NEW h \in Keys, \E k \in ks : key[k] = h
      PROVE  last(h) \in ks /\ key[last(h)] = h
  <2> DEFINE T == {k \in ks : key[k] = h}
  <2>1. T \in SUBSET (1..n) /\ T # {}
    BY <1>0, <1>1
  <2>2. PICK m \in T : \A k \in T : k <= m
    <3> HIDE DEF T
    <3> QED  BY <1>0, <2>1, LastPosition
  <2>3. m \in ks /\ key[m] = h /\ \A j \in ks : key[j] = h => j <= m
    BY <2>2
  <2> QED  BY <2>3
<1>2. \A h \in Keys : f[h] = IF \E k \in ks : key[k] = h THEN id[last(h)] ELSE 0
  BY DEF IdMap
<1>3. f = [h \in Keys |-> IF \E k \in ks : key[k] = h THEN id[last(h)] ELSE 0]
  BY DEF IdMap
<1> HIDE DEF last, f
<1>4. \A h \in Keys : (\E k \in ks : key[k] = h) => id[last(h)] \in Nat \ {0}
  BY <1>0, <1>1
<1>5. f \in [Keys -> Nat]
  BY <1>3, <1>4
<1>6. \A k \in ks : f[key[k]] # 0
  BY <1>0, <1>2, <1>4
<1>7. \A h \in Keys : f[h] # 0 => \E k \in ks : key[k] = h /\ id[k] = f[h]
  BY <1>1, <1>2
<1> QED  BY <1>5, <1>6, <1>7 DEF f, MapsRows

(* The index of a worker is one of the indexes, and rows are looked up by a key. *)
LEMMA IndexType ==
    ASSUME TypeOK
    PROVE  /\ \A w \in Workers : CsiOf(w) \in Workers
           /\ \A t \in Tags : KeyOf(t) \in Keys /\ t.host \in FirstTags /\ t.host \in Keys
           /\ conf.tags \subseteq Tags
           /\ \A w \in Workers : w \in Nat \ {0}
           /\ \A w \in Workers : new[w] \subseteq 1..Len(rows[w]) /\ Len(rows[w]) \in Nat
           /\ \A w \in Workers : \A k \in DOMAIN rows[w] : k \in Nat \ {0} /\ rows[w][k] \in Tags
<1>1. conf \in Configs /\ rows \in [Workers -> Seq(Tags)]
  BY DEF TypeOK
<1>2. /\ conf.client \in [Workers -> Workers]
      /\ conf.tags \subseteq Tags
  BY <1>1, TagAssumption
<1>3. \A w \in Workers : CsiOf(w) \in Workers
  BY <1>2 DEF CsiOf
<1>4. \A t \in Tags : KeyOf(t) \in Keys /\ t.host \in FirstTags /\ t.host \in Keys
  BY DEF KeyOf, Keys, Tags
<1>5. \A w \in Workers : w \in Nat \ {0}
  BY DEF Workers
<1>6. ASSUME NEW w \in Workers
      PROVE  /\ new[w] \subseteq 1..Len(rows[w]) /\ Len(rows[w]) \in Nat
             /\ \A k \in DOMAIN rows[w] : k \in Nat \ {0} /\ rows[w][k] \in Tags
  <2>1. rows[w] \in Seq(Tags) /\ new[w] \subseteq DOMAIN rows[w]
    BY <1>1 DEF TypeOK
  <2> QED  BY <2>1
<1> QED  BY <1>2, <1>3, <1>4, <1>5, <1>6
-----------------------------------------------------------------------------
(* The inductive invariant. *)

\* A row is with a worker its host is hashed to.
RowsAtHome ==
    \A w \in Workers : \A k \in DOMAIN rows[w] : rows[w][k] \in TagsFor(w)

\* The positions of a call are forgotten when it returns.
NothingNew == \A w \in Workers : wpc[w] = "idle" => new[w] = {}

IdsAreOfHost(f) ==
    \A h \in FirstTags : f[h] # 0 => \E t \in tags : t.id = f[h] /\ t.tag.host = h

\* The ids of the indexes, and those returned and not merged yet, are of tags of the host.
IndexesTrue == \A w \in Workers : IdsAreOfHost(cache[w]) /\ IdsAreOfHost(ret[w])

Cached(w, k) == cache[CsiOf(w)][rows[w][k].host] # 0

\* What a worker has learnt of each row: ids found are not lost, missing ones are
\* returned, so in the end only rows that may lack one have none.
LookedUp(w) ==
    \A k \in DOMAIN rows[w] :
        /\ wpc[w] \in {"lock", "insert", "merge"} /\ k \notin new[w] => Cached(w, k)
        /\ wpc[w] = "merge" =>
               MayLackId(rows[w][k]) \/ ret[w][rows[w][k].host] # 0 \/ Cached(w, k)
        /\ wpc[w] = "assign" => MayLackId(rows[w][k]) \/ Cached(w, k)
RowsLookedUp == \A w \in Workers : LookedUp(w)

\* The index all the rows of a host are looked up in, when there is one process.
HomeOf(h) == IF conf.hash THEN conf.partition[h] ELSE conf.client[1]

\* Tags in the table are in that index, or about to be merged into it.
TagsKnown ==
    conf.db = "timescale" =>
        \A t \in tags : MayLackId(t.tag)
            \/ cache[HomeOf(t.tag.host)][t.tag.host] # 0
            \/ \E v \in Workers : /\ wpc[v] = "merge"
                                  /\ CsiOf(v) = HomeOf(t.tag.host)
                                  /\ ret[v][t.tag.host] # 0

IInv ==
    /\ TypeOK /\ RowsAtHome /\ NothingNew /\ IndexesTrue /\ RowsLookedUp /\ TagsKnown
    /\ RowsReferToTheirHost

LEMMA InitIInv ==
    ASSUME Init
    PROVE  IInv
<1>0. conf \in Configs /\ 0 \in Nat
  BY DEF Init
<1>1. \A w \in Workers : CsiOf(w) \in Workers
  BY <1>0, TagAssumption DEF CsiOf
<1>2. TypeOK
  BY <1>0, <1>1 DEF Init, TypeOK, WorkerStates, NoIds, Ids
<1>3. RowsAtHome /\ NothingNew
  BY DEF Init, RowsAtHome, NothingNew
<1>4. IndexesTrue
  BY DEF Init, IndexesTrue, IdsAreOfHost, NoIds, Keys
<1>5. RowsLookedUp
  BY DEF Init, RowsLookedUp, LookedUp
<1>6. TagsKnown /\ RowsReferToTheirHost
  BY DEF Init, TagsKnown, RowsReferToTheirHost
<1> QED  BY <1>2, <1>3, <1>4, <1>5, <1>6 DEF IInv

(* What a worker has learnt stays true when others work: ids in an index may be
   replaced, but do not go away. *)
LEMMA OthersLookedUp ==
    ASSUME TypeOK, conf' = conf, NEW v \in Workers, LookedUp(v),
           rows'[v] = rows[v], new'[v] = new[v], wpc'[v] = wpc[v], ret'[v] = ret[v],
           \A c \in Workers : \A h \in Keys : cache[c][h] # 0 => cache'[c][h] # 0
    PROVE  LookedUp(v)'
<1>1. CsiOf(v)' = CsiOf(v) /\ CsiOf(v) \in Workers
  BY IndexType DEF CsiOf
<1>2. \A t : MayLackId(t)' <=> MayLackId(t)
  BY DEF MayLackId, OneClient
<1>3. ASSUME NEW k \in DOMAIN rows[v], Cached(v, k)
      PROVE  Cached(v, k)'
  <2>1. rows[v][k].host \in Keys
    BY IndexType
  <2> QED  BY <1>1, <1>3, <2>1 DEF Cached
<1> HIDE DEF Cached, MayLackId
<1> QED  BY <1>2, <1>3 DEF LookedUp

LEMMA StartStep ==
    ASSUME IInv, NEW w \in Workers, Start(w)
    PROVE  IInv'
<1>0. TypeOK /\ RowsAtHome /\ NothingNew /\ IndexesTrue /\ RowsLookedUp /\ TagsKnown
      /\ RowsReferToTheirHost
  BY DEF IInv
<1>1. /\ conf' = conf /\ ret' = ret /\ cache' = cache /\ writer' = writer /\ new' = new
      /\ tags' = tags /\ nextId' = nextId /\ stored' = stored
      /\ wpc[w] = "idle" /\ wpc' = [wpc EXCEPT ![w] = "check"]
      /\ calls' = calls + 1
  BY DEF Start, csiVars, dbVars
<1>2. PICK ts : ts \in Seq(TagsFor(w)) /\ rows' = [rows EXCEPT ![w] = ts]
  <2>1. PICK n \in 1..MaxRows :
            \E ts \in [1..n -> TagsFor(w)] : rows' = [rows EXCEPT ![w] = ts]
    BY DEF Start
  <2>2. PICK ts \in [1..n -> TagsFor(w)] : rows' = [rows EXCEPT ![w] = ts]
    BY <2>1
  <2>3. n \in Nat
    BY TagAssumption
  <2>4. ts \in Seq(TagsFor(w))
    BY <2>3
  <2> QED  BY <2>2, <2>4
<1>3. TagsFor(w) \subseteq Tags
  BY <1>0, IndexType DEF TagsFor
<1>4. ts \in Seq(Tags)
  BY <1>2, <1>3
<1>5. \A v \in Workers : CsiOf(v)' = CsiOf(v) /\ TagsFor(v)' = TagsFor(v)
  BY <1>1 DEF CsiOf, TagsFor
<1>6. /\ rows' \in [Workers -> Seq(Tags)] /\ rows'[w] = ts
      /\ \A v \in Workers \ {w} : rows'[v] = rows[v] /\ wpc'[v] = wpc[v]
      /\ wpc' \in [Workers -> WorkerStates] /\ wpc'[w] = "check"
  BY <1>0, <1>1, <1>2, <1>4 DEF TypeOK, WorkerStates
<1>7. TypeOK'
  <2>1. \A v \in Workers : new'[v] \subseteq DOMAIN rows'[v]
    BY <1>0, <1>1, <1>6 DEF TypeOK, NothingNew
  <2>2. \A v \in Workers : wpc'[v] \in {"insert", "merge"} => writer'[CsiOf(v)'] = v
    BY <1>0, <1>1, <1>5, <1>6 DEF TypeOK
  <2> QED  BY <1>0, <1>1, <1>6, <2>1, <2>2 DEF TypeOK
<1>8. RowsAtHome'
  BY <1>0, <1>2, <1>5, <1>6 DEF RowsAtHome
<1>9. NothingNew'
  BY <1>0, <1>1, <1>6 DEF NothingNew
<1>10. IndexesTrue'
  BY <1>0, <1>1 DEF IndexesTrue, IdsAreOfHost
<1>11. RowsLookedUp'
  <2>1. LookedUp(w)'
    BY <1>6 DEF LookedUp
  <2>2. \A v \in Workers \ {w} : LookedUp(v)'
    BY <1>0, <1>1, <1>6, OthersLookedUp DEF RowsLookedUp
  <2> QED  BY <2>1, <2>2 DEF RowsLookedUp
<1>12. TagsKnown'
  BY <1>0, <1>1, <1>5, <1>6 DEF TagsKnown, MayLackId, OneClient, HomeOf
<1>13. RowsReferToTheirHost'
  BY <1>0, <1>1 DEF RowsReferToTheirHost, MayLackId, OneClient
<1> QED  BY <1>7, <1>8, <1>9, <1>10, <1>11, <1>12, <1>13 DEF IInv

(* A step of a worker that leaves indexes and tables alone. *)
LEMMA LocalStep ==
    ASSUME IInv, NEW w \in Workers, NEW pc \in WorkerStates,
           conf' = conf, calls' = calls, rows' = rows, ret' = ret, cache' = cache,
           tags' = tags, nextId' = nextId, stored' = stored,
           wpc' = [wpc EXCEPT ![w] = pc], wpc[w] \notin {"idle", "merge"}, pc # "idle",
           pc # "merge", TypeOK',
           \A v \in Workers \ {w} : new'[v] = new[v],
           LookedUp(w)'
    PROVE  IInv'
<1>0. TypeOK /\ RowsAtHome /\ NothingNew /\ IndexesTrue /\ RowsLookedUp /\ TagsKnown
      /\ RowsReferToTheirHost
  BY DEF IInv
<1>1. \A v \in Workers : CsiOf(v)' = CsiOf(v) /\ TagsFor(v)' = TagsFor(v)
  BY DEF CsiOf, TagsFor
<1>2. wpc'[w] = pc /\ \A v \in Workers \ {w} : wpc'[v] = wpc[v]
  BY <1>0 DEF TypeOK
<1>3. RowsAtHome' /\ NothingNew'
  BY <1>0, <1>1, <1>2 DEF RowsAtHome, NothingNew
<1>4. IndexesTrue'
  BY <1>0 DEF IndexesTrue, IdsAreOfHost
<1>5. RowsLookedUp'
  BY <1>0, <1>2, OthersLookedUp DEF RowsLookedUp
<1>6. TagsKnown'
  BY <1>0, <1>1, <1>2 DEF TagsKnown, MayLackId, OneClient, HomeOf
<1>7. RowsReferToTheirHost'
  BY <1>0 DEF RowsReferToTheirHost, MayLackId, OneClient
<1> QED  BY <1>3, <1>4, <1>5, <1>6, <1>7 DEF IInv

LEMMA CheckStep ==
    ASSUME IInv, NEW w \in Workers, Check(w)
    PROVE  IInv'
<1> DEFINE missing == {k \in DOMAIN rows[w] : cache[CsiOf(w)][rows[w][k].host] = 0}
           pc == IF missing = {} THEN "assign" ELSE "lock"
<1>0. TypeOK
  BY DEF IInv
<1>1. /\ conf' = conf /\ calls' = calls /\ rows' = rows /\ ret' = ret /\ cache' = cache
      /\ writer' = writer /\ tags' = tags /\ nextId' = nextId /\ stored' = stored
      /\ new' = [new EXCEPT ![w] = missing]
      /\ wpc[w] = "check" /\ wpc' = [wpc EXCEPT ![w] = pc]
  BY DEF Check, callVars, csiVars, dbVars
<1>2. pc \in WorkerStates /\ pc \in {"assign", "lock"}
  BY DEF WorkerStates
<1>3. missing \subseteq DOMAIN rows[w] /\ missing \in SUBSET Nat
  BY <1>0, IndexType
<1>4. /\ \A k \in DOMAIN rows[w] : k \notin missing => Cached(w, k)
      /\ pc = "assign" => missing = {}
  BY DEF Cached
<1> HIDE DEF missing, pc
<1>5. /\ wpc' \in [Workers -> WorkerStates] /\ new' \in [Workers -> SUBSET Nat]
      /\ wpc'[w] = pc /\ new'[w] = missing
      /\ \A v \in Workers \ {w} : wpc'[v] = wpc[v] /\ new'[v] = new[v]
  BY <1>0, <1>1, <1>2, <1>3 DEF TypeOK
<1>6. \A v \in Workers : CsiOf(v)' = CsiOf(v)
  BY <1>1 DEF CsiOf
<1>7. TypeOK'
  BY <1>0, <1>1, <1>2, <1>3, <1>5, <1>6 DEF TypeOK
<1>8. LookedUp(w)'
  BY <1>1, <1>2, <1>4, <1>5, <1>6 DEF LookedUp, Cached
<1> QED  BY <1>1, <1>2, <1>5, <1>7, <1>8, LocalStep

LEMMA LockStep ==
    ASSUME IInv, NEW w \in Workers, Lock(w)
    PROVE  IInv'
<1>0. TypeOK /\ LookedUp(w)
  BY DEF IInv, RowsLookedUp
<1>1. /\ conf' = conf /\ calls' = calls /\ rows' = rows /\ ret' = ret /\ cache' = cache
      /\ tags' = tags /\ nextId' = nextId /\ stored' = stored /\ new' = new
      /\ writer[CsiOf(w)] = 0 /\ writer' = [writer EXCEPT ![CsiOf(w)] = w]
      /\ wpc[w] = "lock" /\ wpc' = [wpc EXCEPT ![w] = "insert"]
  BY DEF Lock, callVars, dbVars
<1>2. \A v \in Workers : CsiOf(v)' = CsiOf(v) /\ CsiOf(v) \in Workers /\ v # 0
  BY <1>0, <1>1, IndexType DEF CsiOf
<1>3. /\ wpc' \in [Workers -> WorkerStates] /\ wpc'[w] = "insert"
      /\ \A v \in Workers \ {w} : wpc'[v] = wpc[v]
      /\ writer' \in [Workers -> Workers \cup {0}] /\ writer'[CsiOf(w)] = w
      /\ \A c \in Workers \ {CsiOf(w)} : writer'[c] = writer[c]
  BY <1>0, <1>1, <1>2 DEF TypeOK, WorkerStates
<1>4. \A v \in Workers : wpc'[v] \in {"insert", "merge"} => writer'[CsiOf(v)'] = v
  BY <1>0, <1>1, <1>2, <1>3 DEF TypeOK
<1>5. TypeOK'
  BY <1>0, <1>1, <1>3, <1>4 DEF TypeOK
<1>6. LookedUp(w)'
  BY <1>0, <1>1, <1>2, <1>3 DEF LookedUp, Cached
<1> QED  BY <1>1, <1>5, <1>6, LocalStep DEF WorkerStates

(* The rows of a host are looked up in the index of its home. *)
LEMMA HomeIsIndex ==
    ASSUME IInv, OneClient, NEW w \in Workers, NEW k \in DOMAIN rows[w]
    PROVE  HomeOf(rows[w][k].host) = CsiOf(w)
<1>1. rows[w][k] \in TagsFor(w) /\ 1 \in Workers
  BY TagAssumption DEF IInv, RowsAtHome, Workers
<1> QED  BY <1>1 DEF HomeOf, CsiOf, OneClient, TagsFor

(* An insert that returns the ids of some of the new rows, when each new row that must
   have an id is returned, or equals one that is, or has its host in the index. *)
InsertOf(w, ks, id, key) ==
    /\ wpc[w] = "insert"
    /\ ks \subseteq new[w] /\ id \in [ks -> Nat \ {0}] /\ key \in [ks -> Keys]
    /\ conf' = conf /\ calls' = calls /\ rows' = rows /\ new' = new /\ cache' = cache
    /\ writer' = writer /\ stored' = stored /\ nextId' \in Nat \ {0}
    /\ wpc' = [wpc EXCEPT ![w] = "merge"]
    /\ ret' = [ret EXCEPT ![w] = IdMap(ks, id, key)]
    /\ tags' = tags \cup {[id |-> id[k], tag |-> rows[w][k]] : k \in ks}
    /\ \A k \in ks : key[k] \in FirstTags => key[k] = rows[w][k].host
    /\ \A k \in new[w] : \/ MayLackId(rows[w][k]) \/ Cached(w, k)
                         \/ \E j \in ks : key[j] = rows[w][k].host
    /\ conf.db = "timescale" =>
           \A k \in ks : MayLackId(rows[w][k]) \/ key[k] = rows[w][k].host

LEMMA InsertStep ==
    ASSUME IInv, NEW w \in Workers, NEW ks, NEW id, NEW key, InsertOf(w, ks, id, key)
    PROVE  IInv'
<1> DEFINE f == IdMap(ks, id, key)
<1>0. TypeOK /\ RowsAtHome /\ NothingNew /\ IndexesTrue /\ RowsLookedUp /\ TagsKnown
      /\ RowsReferToTheirHost
  BY DEF IInv
<1>step. /\ wpc[w] = "insert"
      /\ ks \subseteq new[w] /\ id \in [ks -> Nat \ {0}] /\ key \in [ks -> Keys]
      /\ conf' = conf /\ calls' = calls /\ rows' = rows /\ new' = new /\ cache' = cache
      /\ writer' = writer /\ stored' = stored /\ nextId' \in Nat \ {0}
      /\ wpc' = [wpc EXCEPT ![w] = "merge"]
      /\ ret' = [ret EXCEPT ![w] = f]
      /\ tags' = tags \cup {[id |-> id[k], tag |-> rows[w][k]] : k \in ks}
  BY DEF InsertOf
<1>keys. \A k \in ks : key[k] \in FirstTags => key[k] = rows[w][k].host
  BY DEF InsertOf
<1>found. \A k \in new[w] : \/ MayLackId(rows[w][k]) \/ Cached(w, k)
                             \/ \E j \in ks : key[j] = rows[w][k].host
  BY DEF InsertOf
<1>own. conf.db = "timescale" =>
            \A k \in ks : MayLackId(rows[w][k]) \/ key[k] = rows[w][k].host
  BY DEF InsertOf
<1>1. /\ f \in [Keys -> Nat]
      /\ \A k \in ks : f[key[k]] # 0
      /\ \A h \in Keys : f[h] # 0 => \E k \in ks : key[k] = h /\ id[k] = f[h]
  <2>1. new[w] \subseteq 1..Len(rows[w]) /\ Len(rows[w]) \in Nat
    BY <1>0, IndexType
  <2>2. ReturnedRows(Len(rows[w]), ks, id, key)
    BY <1>step, <2>1 DEF ReturnedRows
  <2>3. MapsRows(IdMap(ks, id, key), ks, id, key)
    BY <2>2, IdMapEntries
  <2> QED  BY <2>3 DEF MapsRows
<1> HIDE DEF f
<1>2. /\ \A v \in Workers : CsiOf(v)' = CsiOf(v) /\ TagsFor(v)' = TagsFor(v)
      /\ \A t : MayLackId(t)' <=> MayLackId(t)
      /\ \A h : HomeOf(h)' = HomeOf(h)
      /\ \A v \in Workers : CsiOf(v) \in Workers
  BY <1>step, <1>0, IndexType DEF CsiOf, TagsFor, MayLackId, OneClient, HomeOf
<1>3. /\ wpc' \in [Workers -> WorkerStates] /\ wpc'[w] = "merge"
      /\ \A v \in Workers \ {w} : wpc'[v] = wpc[v] /\ ret'[v] = ret[v]
      /\ ret' \in [Workers -> [Keys -> Nat]] /\ ret'[w] = f
  BY <1>step, <1>0, <1>1 DEF TypeOK, WorkerStates, Ids, f
<1>4. \A k \in ks : k \in DOMAIN rows[w] /\ rows[w][k] \in Tags /\ rows[w][k].host \in FirstTags
  BY <1>step, <1>0, IndexType DEF TypeOK
<1>5. tags \subseteq tags' /\ tags' \subseteq [id : Nat, tag : Tags]
  BY <1>step, <1>0, <1>4 DEF TypeOK, Ids
<1>6. TypeOK'
  <2>1. \A v \in Workers : wpc'[v] \in {"insert", "merge"} => writer'[CsiOf(v)'] = v
    BY <1>step, <1>0, <1>2, <1>3 DEF TypeOK
  <2> QED  BY <1>step, <1>0, <1>3, <1>5, <2>1 DEF TypeOK, Ids
<1>7. RowsAtHome' /\ NothingNew'
  BY <1>step, <1>0, <1>2, <1>3 DEF RowsAtHome, NothingNew
<1>8. IndexesTrue'
  <2>1. ASSUME NEW g, IdsAreOfHost(g)
        PROVE  \A h \in FirstTags : g[h] # 0 => \E t \in tags' : t.id = g[h] /\ t.tag.host = h
    BY <1>step, <1>5, <2>1 DEF IdsAreOfHost
  <2>2. ASSUME NEW h \in FirstTags, f[h] # 0
        PROVE  \E t \in tags' : t.id = f[h] /\ t.tag.host = h
    <3>1. PICK k \in ks : key[k] = h /\ id[k] = f[h]
      BY <1>step, <1>1, <2>2 DEF Keys
    <3>2. rows[w][k].host = h
      BY <1>keys, <3>1
    <3> DEFINE t == [id |-> id[k], tag |-> rows[w][k]]
    <3>3. t \in tags'
      BY <1>step
    <3>4. t.id = f[h] /\ t.tag.host = h
      BY <3>1, <3>2
    <3> QED  BY <3>3, <3>4
  <2> QED  BY <1>step, <1>0, <1>3, <2>1, <2>2 DEF IndexesTrue, IdsAreOfHost
<1>9. RowsLookedUp'
  <2>1. ASSUME NEW k \in DOMAIN rows[w]
        PROVE  MayLackId(rows[w][k]) \/ f[rows[w][k].host] # 0 \/ Cached(w, k)
    <3>1. CASE k \in new[w]
      <4>1. CASE \E j \in ks : key[j] = rows[w][k].host
        <5>1. PICK j \in ks : key[j] = rows[w][k].host
          BY <4>1
        <5>2. f[key[j]] # 0
          BY <1>1
        <5> QED  BY <5>1, <5>2
      <4>2. MayLackId(rows[w][k]) \/ Cached(w, k) \/ \E j \in ks : key[j] = rows[w][k].host
        BY <1>found, <3>1
      <4> QED  BY <4>1, <4>2
    <3>2. CASE k \notin new[w]
      BY <1>step, <1>0, <3>2 DEF RowsLookedUp, LookedUp
    <3> QED  BY <3>1, <3>2
  <2>2. \A k \in DOMAIN rows[w] : k \notin new[w] => Cached(w, k)
    BY <1>step, <1>0 DEF RowsLookedUp, LookedUp
  <2>3. \A k : Cached(w, k)' <=> Cached(w, k)
    BY <1>step, <1>2 DEF Cached
  <2>4. LookedUp(w)'
    BY <1>step, <1>2, <1>3, <2>1, <2>2, <2>3 DEF LookedUp
  <2>5. \A v \in Workers \ {w} : LookedUp(v)'
    BY <1>step, <1>0, <1>3, OthersLookedUp DEF RowsLookedUp
  <2> QED  BY <2>4, <2>5 DEF RowsLookedUp
<1>10. TagsKnown'
  <2> SUFFICES ASSUME conf.db = "timescale", NEW t \in tags', ~MayLackId(t.tag)
               PROVE  \/ cache[HomeOf(t.tag.host)][t.tag.host] # 0
                      \/ \E v \in Workers : /\ wpc'[v] = "merge"
                                            /\ CsiOf(v) = HomeOf(t.tag.host)
                                            /\ ret'[v][t.tag.host] # 0
    BY <1>step, <1>2 DEF TagsKnown
  <2>1. CASE t \in tags
    <3>1. \A v \in Workers : wpc[v] = "merge" => wpc'[v] = "merge" /\ ret'[v] = ret[v]
      BY <1>step, <1>3
    <3> QED  BY <1>step, <1>0, <2>1, <3>1 DEF TagsKnown
  <2>2. CASE t \notin tags
    <3>1. PICK k \in ks : t = [id |-> id[k], tag |-> rows[w][k]]
      BY <1>step, <2>2
    <3>2. t.tag = rows[w][k] /\ key[k] = t.tag.host
      <4>1. t.tag = rows[w][k]
        BY <3>1
      <4>2. ~MayLackId(rows[w][k])
        BY <4>1
      <4>3. key[k] = rows[w][k].host
        BY <1>own, <3>1, <4>2
      <4> QED  BY <4>1, <4>3
    <3>3. f[t.tag.host] # 0
      BY <1>1, <3>2
    <3>4. OneClient
      BY DEF MayLackId
    <3>5. HomeOf(t.tag.host) = CsiOf(w)
      BY <1>step, <1>4, <3>2, <3>4, HomeIsIndex
    <3> QED  BY <1>step, <1>3, <3>3, <3>5
  <2> QED  BY <2>1, <2>2
<1>11. RowsReferToTheirHost'
  BY <1>step, <1>0, <1>2, <1>5 DEF RowsReferToTheirHost
<1> QED  BY <1>step, <1>6, <1>7, <1>8, <1>9, <1>10, <1>11 DEF IInv

(* INSERT ... ON CONFLICT DO NOTHING: a new row that is not returned equals tags in the
   table, or the first of the equal rows of this statement, which is returned. *)
LEMMA InsertTimescaleStep ==
    ASSUME IInv, NEW w \in Workers, InsertTimescale(w)
    PROVE  IInv'
<1> DEFINE ks == Inserted(w)
           id == [k \in ks |-> nextId + (k - 1)]
           key == [k \in ks |-> KeyOf(rows[w][k])]
<1>0. TypeOK /\ TagsKnown
  BY DEF IInv
<1>1. /\ conf' = conf /\ calls' = calls /\ rows' = rows /\ new' = new /\ cache' = cache
      /\ writer' = writer /\ stored' = stored /\ nextId' = nextId + Len(rows[w])
      /\ wpc[w] = "insert" /\ conf.db = "timescale"
      /\ wpc' = [wpc EXCEPT ![w] = "merge"]
      /\ ret' = [ret EXCEPT ![w] = IdMap(ks, id, key)]
      /\ tags' = tags \cup {[id |-> id[k], tag |-> rows[w][k]] : k \in ks}
  BY DEF InsertTimescale, callVars, csiVars
<1>2. ks \in SUBSET new[w]
  BY DEF Inserted
<1>3. /\ nextId \in Nat \ {0} /\ Len(rows[w]) \in Nat
      /\ \A k \in new[w] : k \in Nat \ {0} /\ k \in DOMAIN rows[w] /\ rows[w][k] \in Tags
      /\ \A t \in Tags : KeyOf(t) \in Keys /\ t.host \in FirstTags
  BY <1>0, IndexType DEF TypeOK
<1>4. id \in [ks -> Nat \ {0}] /\ key \in [ks -> Keys]
  <2>1. \A k \in ks : nextId + (k - 1) \in Nat \ {0}
    BY <1>2, <1>3
  <2>2. \A k \in ks : KeyOf(rows[w][k]) \in Keys
    BY <1>2, <1>3
  <2> QED  BY <2>1, <2>2
<1>5. nextId' \in Nat \ {0}
  BY <1>1, <1>3
<1>6. \A k \in ks : key[k] \in FirstTags => key[k] = rows[w][k].host
  BY TagAssumption DEF KeyOf
<1>7. \A k \in ks : MayLackId(rows[w][k]) \/ key[k] = rows[w][k].host
  BY <1>1 DEF KeyOf, MayLackId
<1>8. ASSUME NEW k \in new[w], ~MayLackId(rows[w][k]), ~Cached(w, k)
      PROVE  \E j \in ks : key[j] = rows[w][k].host
  <2> DEFINE T == {j \in new[w] : rows[w][j] = rows[w][k]}
  <2>1. PICK m \in T : \A j \in T : m <= j
    <3>1. T \in SUBSET Nat /\ T # {}
      BY <1>3
    <3> HIDE DEF T
    <3> QED  BY <3>1, LeastPosition
  <2>2. m \in new[w] /\ rows[w][m] = rows[w][k]
    BY <2>1
  <2>3. ASSUME NEW s \in tags
        PROVE  ~Conflict(s.tag, rows[w][m])
    <3>1. SUFFICES ASSUME s.tag = rows[w][k]
                   PROVE  FALSE
      BY <2>2 DEF Conflict
    <3>2. OneClient /\ HomeOf(s.tag.host) = CsiOf(w)
      <4>1. OneClient
        BY <1>1, <1>8 DEF MayLackId
      <4> QED  BY <1>3, <3>1, <4>1, HomeIsIndex
    <3>3. cache[HomeOf(s.tag.host)][s.tag.host] = 0
      BY <1>8, <3>1, <3>2 DEF Cached
    <3>4. PICK v \in Workers : wpc[v] = "merge" /\ CsiOf(v) = CsiOf(w)
      BY <1>0, <1>1, <1>8, <3>1, <3>2, <3>3 DEF TagsKnown
    <3> QED  BY <1>0, <1>1, <3>4 DEF TypeOK
  <2>4. ASSUME NEW j \in new[w], j < m
        PROVE  ~Conflict(rows[w][j], rows[w][m])
    <3>1. j \notin T
      BY <1>3, <2>1, <2>4
    <3> QED  BY <2>2, <3>1 DEF Conflict
  <2>5. m \in ks
    BY <2>2, <2>3, <2>4 DEF Inserted
  <2>6. key[m] = rows[w][k].host
    BY <1>7, <1>8, <2>2, <2>5
  <2> QED  BY <2>5, <2>6
<1>9. \A k \in new[w] : \/ MayLackId(rows[w][k]) \/ Cached(w, k)
                         \/ \E j \in ks : key[j] = rows[w][k].host
  BY <1>8
<1> HIDE DEF ks, id, key
<1>10. InsertOf(w, ks, id, key)
  BY <1>1, <1>2, <1>4, <1>5, <1>6, <1>7, <1>9 DEF InsertOf
<1> QED  BY <1>10, InsertStep

(* ClickHouse: every new row is inserted, with the id after the size of the index and
   the rows before it. *)
LEMMA InsertClickhouseStep ==
    ASSUME IInv, NEW w \in Workers, InsertClickhouse(w)
    PROVE  IInv'
<1> DEFINE ks == new[w]
           rank(k) == {j \in ks : j <= k}
           id == [k \in ks |-> StartID(w) + Cardinality(rank(k))]
           key == [k \in ks |-> rows[w][k].host]
<1>0. TypeOK
  BY DEF IInv
<1>1. /\ conf' = conf /\ calls' = calls /\ rows' = rows /\ new' = new /\ cache' = cache
      /\ writer' = writer /\ stored' = stored /\ nextId' = nextId
      /\ wpc[w] = "insert" /\ conf.db = "clickhouse"
      /\ wpc' = [wpc EXCEPT ![w] = "merge"]
      /\ ret' = [ret EXCEPT ![w] = IdMap(ks, id, key)]
      /\ tags' = tags \cup {[id |-> id[k], tag |-> rows[w][k]] : k \in ks}
  BY DEF InsertClickhouse, callVars, csiVars
<1>2. /\ nextId \in Nat \ {0}
      /\ ks \subseteq 1..Len(rows[w]) /\ Len(rows[w]) \in Nat
      /\ \A k \in ks : k \in Nat /\ rows[w][k].host \in Keys
  <2>1. /\ ks \subseteq DOMAIN rows[w] /\ ks \subseteq 1..Len(rows[w]) /\ Len(rows[w]) \in Nat
        /\ \A k \in DOMAIN rows[w] : k \in Nat /\ rows[w][k] \in Tags
        /\ \A t \in Tags : t.host \in Keys
        /\ nextId \in Nat \ {0}
    BY <1>0, IndexType DEF TypeOK
  <2> QED  BY <2>1
<1>3. StartID(w) \in Nat
  <2>1. IsFiniteSet(Keys)
    BY TagAssumption, FS_AddElement DEF Keys, FirstTags
  <2>2. IsFiniteSet({h \in Keys : cache[CsiOf(w)][h] # 0})
    BY <2>1, FS_Subset
  <2> QED  BY <2>2, FS_CardinalityType DEF StartID
<1>4. ASSUME NEW k \in ks
      PROVE  Cardinality(rank(k)) \in Nat \ {0}
  <2>1. IsFiniteSet(1..Len(rows[w]))
    BY <1>2, FS_Interval
  <2>2. rank(k) \in SUBSET (1..Len(rows[w]))
    BY <1>2
  <2>3. k \in rank(k)
    BY <1>2
  <2> HIDE DEF rank, ks
  <2>4. IsFiniteSet(rank(k))
    BY <2>1, <2>2, FS_Subset
  <2>5. Cardinality(rank(k)) \in Nat
    BY <2>4, FS_CardinalityType
  <2>6. Cardinality(rank(k)) # 0
    BY <2>3, <2>4, FS_EmptySet
  <2> QED  BY <2>5, <2>6
<1>5. id \in [ks -> Nat \ {0}] /\ key \in [ks -> Keys]
  <2>1. \A k \in ks : StartID(w) + Cardinality(rank(k)) \in Nat \ {0}
    <3> HIDE DEF rank
    <3> QED  BY <1>3, <1>4
  <2> QED  BY <1>2, <2>1
<1>6. /\ \A k \in ks : key[k] = rows[w][k].host
      /\ conf.db # "timescale" /\ ks \in SUBSET new[w]
  BY <1>1
<1>7. \A k \in new[w] : \E j \in ks : key[j] = rows[w][k].host
  BY <1>6
<1> HIDE DEF ks, id, key
<1>8. InsertOf(w, ks, id, key)
  BY <1>1, <1>2, <1>5, <1>6, <1>7 DEF InsertOf
<1> QED  BY <1>8, InsertStep

(* Merging keeps what the index knows and adds what was returned. *)
LEMMA MergeStep ==
    ASSUME IInv, NEW w \in Workers, Merge(w)
    PROVE  IInv'
<1> DEFINE c == CsiOf(w)
<1>0. TypeOK /\ RowsAtHome /\ NothingNew /\ IndexesTrue /\ RowsLookedUp /\ TagsKnown
      /\ RowsReferToTheirHost
  BY DEF IInv
<1>1. /\ conf' = conf /\ calls' = calls /\ rows' = rows /\ new' = new /\ ret' = ret
      /\ tags' = tags /\ nextId' = nextId /\ stored' = stored
      /\ wpc[w] = "merge" /\ wpc' = [wpc EXCEPT ![w] = "assign"]
      /\ cache' = [cache EXCEPT ![c] = Merged(w)] /\ writer' = [writer EXCEPT ![c] = 0]
  BY DEF Merge, callVars, dbVars
<1>2. /\ \A v \in Workers : CsiOf(v)' = CsiOf(v) /\ TagsFor(v)' = TagsFor(v)
      /\ \A t : MayLackId(t)' <=> MayLackId(t)
      /\ \A h : HomeOf(h)' = HomeOf(h)
      /\ \A v \in Workers : CsiOf(v) \in Workers /\ v # 0
  BY <1>0, <1>1, IndexType DEF CsiOf, TagsFor, MayLackId, OneClient, HomeOf
<1> HIDE DEF c
<1>3. c \in Workers /\ c = CsiOf(w)
  BY <1>2 DEF c
<1>4. /\ Merged(w) \in [Keys -> Nat]
      /\ \A h \in Keys : Merged(w)[h] = IF ret[w][h] # 0 THEN ret[w][h] ELSE cache[c][h]
  BY <1>0, <1>3 DEF Merged, TypeOK, Ids
<1>5. /\ wpc' \in [Workers -> WorkerStates] /\ wpc'[w] = "assign"
      /\ \A v \in Workers \ {w} : wpc'[v] = wpc[v]
      /\ cache' \in [Workers -> [Keys -> Nat]] /\ cache'[c] = Merged(w)
      /\ writer' \in [Workers -> Workers \cup {0}]
      /\ \A d \in Workers \ {c} : cache'[d] = cache[d] /\ writer'[d] = writer[d]
  BY <1>0, <1>1, <1>3, <1>4 DEF TypeOK, WorkerStates, Ids
<1>6. \A d \in Workers : \A h \in Keys : cache[d][h] # 0 => cache'[d][h] # 0
  BY <1>4, <1>5
<1>7. \A h \in Keys : ret[w][h] # 0 => cache'[c][h] # 0
  BY <1>4, <1>5
<1>8. TypeOK'
  <2>1. ASSUME NEW v \in Workers, wpc'[v] \in {"insert", "merge"}
        PROVE  writer'[CsiOf(v)'] = v
    <3>1. v # w /\ wpc[v] \in {"insert", "merge"}
      BY <1>5, <2>1
    <3>2. writer[CsiOf(v)] = v /\ writer[CsiOf(w)] = w
      BY <1>0, <1>1, <3>1 DEF TypeOK
    <3> QED  BY <1>2, <1>3, <1>5, <3>1, <3>2
  <2> QED  BY <1>0, <1>1, <1>5, <2>1 DEF TypeOK, Ids
<1>9. RowsAtHome' /\ NothingNew'
  BY <1>0, <1>1, <1>2, <1>5 DEF RowsAtHome, NothingNew
<1>10. IndexesTrue'
  <2>1. ASSUME NEW h \in FirstTags, Merged(w)[h] # 0
        PROVE  \E t \in tags : t.id = Merged(w)[h] /\ t.tag.host = h
    BY <1>0, <1>3, <1>4, <2>1 DEF IndexesTrue, IdsAreOfHost, Keys
  <2> QED  BY <1>0, <1>1, <1>5, <2>1 DEF IndexesTrue, IdsAreOfHost
<1>11. RowsLookedUp'
  <2>1. ASSUME NEW k \in DOMAIN rows[w]
        PROVE  MayLackId(rows[w][k]) \/ cache'[c][rows[w][k].host] # 0
    <3>1. rows[w][k].host \in Keys
      BY <1>0, IndexType
    <3>2. MayLackId(rows[w][k]) \/ ret[w][rows[w][k].host] # 0 \/ cache[c][rows[w][k].host] # 0
      BY <1>0, <1>1, <1>3 DEF RowsLookedUp, LookedUp, Cached
    <3> QED  BY <1>3, <1>6, <1>7, <3>1, <3>2
  <2>2. LookedUp(w)'
    BY <1>1, <1>2, <1>3, <1>5, <2>1 DEF LookedUp, Cached
  <2>3. \A v \in Workers \ {w} : LookedUp(v)'
    BY <1>0, <1>1, <1>5, <1>6, OthersLookedUp DEF RowsLookedUp
  <2> QED  BY <2>2, <2>3 DEF RowsLookedUp
<1>12. TagsKnown'
  <2> SUFFICES ASSUME conf.db = "timescale", NEW t \in tags, ~MayLackId(t.tag)
               PROVE  \/ cache'[HomeOf(t.tag.host)][t.tag.host] # 0
                      \/ \E v \in Workers : /\ wpc'[v] = "merge"
                                            /\ CsiOf(v) = HomeOf(t.tag.host)
                                            /\ ret[v][t.tag.host] # 0
    BY <1>1, <1>2 DEF TagsKnown
  <2>1. t.tag.host \in FirstTags /\ t.tag.host \in Keys
    BY <1>0 DEF TypeOK, Tags, Keys
  <2>2. HomeOf(t.tag.host) \in Workers
    <3>1. /\ conf.partition \in [FirstTags -> Workers]
          /\ conf.client \in [Workers -> Workers] /\ 1 \in Workers
      <4>1. conf \in Configs
        BY <1>0 DEF TypeOK
      <4>2. 1 \in Workers
        BY TagAssumption DEF Workers
      <4> QED  BY <4>1, <4>2, TagAssumption
    <3> QED  BY <2>1, <3>1 DEF HomeOf
  <2>3. CASE cache[HomeOf(t.tag.host)][t.tag.host] # 0
    BY <1>6, <2>1, <2>2, <2>3
  <2>4. CASE \E v \in Workers : /\ wpc[v] = "merge"
                                /\ CsiOf(v) = HomeOf(t.tag.host)
                                /\ ret[v][t.tag.host] # 0
    <3>1. PICK v \in Workers : /\ wpc[v] = "merge"
                               /\ CsiOf(v) = HomeOf(t.tag.host)
                               /\ ret[v][t.tag.host] # 0
      BY <2>4
    <3>2. CASE v = w
      BY <1>3, <1>7, <2>1, <3>1, <3>2
    <3>3. CASE v # w
      BY <1>5, <3>1, <3>3
    <3> QED  BY <3>2, <3>3
  <2> QED  BY <1>0, <2>3, <2>4 DEF TagsKnown
<1>13. RowsReferToTheirHost'
  BY <1>0, <1>1, <1>2 DEF RowsReferToTheirHost
<1> QED  BY <1>8, <1>9, <1>10, <1>11, <1>12, <1>13 DEF IInv

LEMMA AssignStep ==
    ASSUME IInv, NEW w \in Workers, Assign(w)
    PROVE  IInv'
<1> DEFINE row(k) == [tag |-> rows[w][k], id |-> cache[CsiOf(w)][rows[w][k].host]]
<1>0. TypeOK /\ RowsAtHome /\ NothingNew /\ IndexesTrue /\ RowsLookedUp /\ TagsKnown
      /\ RowsReferToTheirHost
  BY DEF IInv
<1>1. /\ conf' = conf /\ calls' = calls /\ cache' = cache /\ writer' = writer
      /\ tags' = tags /\ nextId' = nextId
      /\ stored' = stored \cup {row(k) : k \in DOMAIN rows[w]}
      /\ wpc[w] = "assign" /\ wpc' = [wpc EXCEPT ![w] = "idle"]
      /\ rows' = [rows EXCEPT ![w] = <<>>] /\ new' = [new EXCEPT ![w] = {}]
      /\ ret' = [ret EXCEPT ![w] = NoIds]
  BY DEF Assign, callVars, csiVars
<1>2. /\ \A v \in Workers : CsiOf(v)' = CsiOf(v) /\ TagsFor(v)' = TagsFor(v)
      /\ \A t : MayLackId(t)' <=> MayLackId(t)
      /\ \A h : HomeOf(h)' = HomeOf(h)
      /\ \A v \in Workers : CsiOf(v) \in Workers
  BY <1>0, <1>1, IndexType DEF CsiOf, TagsFor, MayLackId, OneClient, HomeOf
<1>3. NoIds \in [Keys -> Nat] /\ \A h \in Keys : NoIds[h] = 0
  BY DEF NoIds
<1>4. /\ wpc' \in [Workers -> WorkerStates] /\ rows' \in [Workers -> Seq(Tags)]
      /\ new' \in [Workers -> SUBSET Nat] /\ ret' \in [Workers -> [Keys -> Nat]]
      /\ wpc'[w] = "idle" /\ rows'[w] = <<>> /\ new'[w] = {} /\ ret'[w] = NoIds
      /\ \A v \in Workers \ {w} : /\ wpc'[v] = wpc[v] /\ rows'[v] = rows[v]
                                  /\ new'[v] = new[v] /\ ret'[v] = ret[v]
  BY <1>0, <1>1, <1>3 DEF TypeOK, WorkerStates, Ids
<1>5. ASSUME NEW k \in DOMAIN rows[w]
      PROVE  /\ row(k) \in [id : Nat, tag : Tags]
             /\ \/ \E t \in tags : t.id = row(k).id /\ t.tag.host = row(k).tag.host
                \/ row(k).id = 0 /\ MayLackId(row(k).tag)
  <2>1. rows[w][k] \in Tags /\ rows[w][k].host \in FirstTags /\ rows[w][k].host \in Keys
    BY <1>0, IndexType
  <2>2. cache[CsiOf(w)][rows[w][k].host] \in Nat
    BY <1>0, <1>2, <2>1 DEF TypeOK, Ids
  <2>3. MayLackId(rows[w][k]) \/ cache[CsiOf(w)][rows[w][k].host] # 0
    BY <1>0, <1>1 DEF RowsLookedUp, LookedUp, Cached
  <2>4. cache[CsiOf(w)][rows[w][k].host] # 0 =>
            \E t \in tags : /\ t.id = cache[CsiOf(w)][rows[w][k].host]
                            /\ t.tag.host = rows[w][k].host
    BY <1>0, <1>2, <2>1 DEF IndexesTrue, IdsAreOfHost
  <2> QED  BY <2>1, <2>2, <2>3, <2>4
<1>6. TypeOK'
  <2>1. stored' \subseteq [id : Nat, tag : Tags]
    BY <1>0, <1>1, <1>5 DEF TypeOK, Ids
  <2>2. \A v \in Workers : new'[v] \subseteq DOMAIN rows'[v]
    BY <1>0, <1>4 DEF TypeOK
  <2>3. \A v \in Workers : wpc'[v] \in {"insert", "merge"} => writer'[CsiOf(v)'] = v
    BY <1>0, <1>1, <1>2, <1>4 DEF TypeOK
  <2> QED  BY <1>0, <1>1, <1>4, <2>1, <2>2, <2>3 DEF TypeOK, Ids
<1>7. RowsAtHome' /\ NothingNew'
  <2>1. \A k \in DOMAIN rows'[w] : rows'[w][k] \in TagsFor(w)
    BY <1>4
  <2>2. \A v \in Workers \ {w} : \A k \in DOMAIN rows'[v] : rows'[v][k] \in TagsFor(v)
    BY <1>0, <1>4 DEF RowsAtHome
  <2>3. RowsAtHome'
    BY <1>2, <2>1, <2>2 DEF RowsAtHome
  <2>4. NothingNew'
    BY <1>0, <1>4 DEF NothingNew
  <2> QED  BY <2>3, <2>4
<1>8. IndexesTrue'
  BY <1>0, <1>1, <1>3, <1>4 DEF IndexesTrue, IdsAreOfHost, Keys
<1>9. RowsLookedUp'
  <2>1. LookedUp(w)'
    BY <1>4 DEF LookedUp
  <2>2. \A v \in Workers \ {w} : LookedUp(v)'
    BY <1>0, <1>1, <1>4, OthersLookedUp DEF RowsLookedUp
  <2> QED  BY <2>1, <2>2 DEF RowsLookedUp
<1>10. TagsKnown'
  <2>1. \A v \in Workers : wpc[v] = "merge" => wpc'[v] = "merge" /\ ret'[v] = ret[v]
    BY <1>1, <1>4
  <2> QED  BY <1>0, <1>1, <1>2, <2>1 DEF TagsKnown
<1>11. RowsReferToTheirHost'
  <2> HIDE DEF row
  <2> QED  BY <1>0, <1>1, <1>2, <1>5 DEF RowsReferToTheirHost
<1> QED  BY <1>6, <1>7, <1>8, <1>9, <1>10, <1>11 DEF IInv

LEMMA NextIInv ==
    ASSUME IInv, [Next]_vars
    PROVE  IInv'
<1>1. ASSUME NEW w \in Workers, Start(w) \/ Step(w)
      PROVE  IInv'
  BY <1>1, StartStep, CheckStep, LockStep, InsertTimescaleStep, InsertClickhouseStep, MergeStep,
     AssignStep DEF Step
<1>2. CASE UNCHANGED vars
  <2>1. /\ conf' = conf /\ calls' = calls /\ rows' = rows /\ new' = new /\ ret' = ret
        /\ tags' = tags /\ nextId' = nextId /\ stored' = stored /\ wpc' = wpc
        /\ cache' = cache /\ writer' = writer
    BY <1>2 DEF vars, callVars, workVars, csiVars, dbVars
  <2>2. \A v \in Workers : CsiOf(v)' = CsiOf(v) /\ TagsFor(v)' = TagsFor(v)
    BY <2>1 DEF CsiOf, TagsFor
  <2>3. TypeOK /\ RowsAtHome /\ NothingNew /\ IndexesTrue /\ RowsLookedUp /\ TagsKnown
        /\ RowsReferToTheirHost
    BY DEF IInv
  <2>4. TypeOK' /\ RowsAtHome' /\ NothingNew' /\ IndexesTrue'
    BY <2>1, <2>2, <2>3 DEF TypeOK, RowsAtHome, NothingNew, IndexesTrue, IdsAreOfHost
  <2>5. RowsLookedUp'
    BY <2>1, <2>3, OthersLookedUp DEF RowsLookedUp
  <2>6. TagsKnown' /\ RowsReferToTheirHost'
    BY <2>1, <2>2, <2>3 DEF TagsKnown, RowsReferToTheirHost, MayLackId, OneClient, HomeOf
  <2> QED  BY <2>4, <2>5, <2>6 DEF IInv
<1> QED  BY <1>1, <1>2 DEF Next, Finished

LEMMA AlwaysIInv == Spec => []IInv
<1>1. Init => IInv
  BY InitIInv
<1>2. IInv /\ [Next]_vars => IInv'
  BY NextIInv
<1> QED  BY <1>1, <1>2, PTL DEF Spec

(* The indexes, tables and locals of processCSI keep their types, and an index is only
   written by the worker that has locked it. *)
THEOREM TypesAndLocks == Spec => []TypeOK
<1>1. IInv => TypeOK
  BY DEF IInv
<1> QED  BY <1>1, AlwaysIInv, PTL

(* A row of data stored by either loader refers to tags of its own host, whichever
   workers look up, insert and merge at the same time, for any number of workers, hosts
   and rows; only TimescaleDB rows whose first tag is NULL, or whose tags another process
   inserted, may have no id. *)
THEOREM StoredRowsReferToTheirHost == Spec => []RowsReferToTheirHost
<1>1. IInv => RowsReferToTheirHost
  BY DEF IInv
<1> QED  BY <1>1, AlwaysIInv, PTL
-----------------------------------------------------------------------------
(* One row of tags for each host. *)

PlainTimescale == conf.db = "timescale" /\ \A t \in conf.tags : ~HasEmpty(t)

\* The unique index on tags: with no empty value among them, the rows of the table
\* are tags of the file, and those of one host are one row.
TagsUnique ==
    PlainTimescale =>
        /\ \A t \in tags : t.tag \in conf.tags
        /\ \A s, t \in tags : s.tag.host = t.tag.host => s = t

\* Without empty values the host tells the tags, and only equal tags conflict.
LEMMA PlainTags ==
    ASSUME TypeOK, PlainTimescale, NEW s \in conf.tags, NEW t \in conf.tags
    PROVE  /\ s.host = t.host => s = t
           /\ Conflict(s, t) <=> s = t
<1>1. s \in Tags /\ t \in Tags
  BY IndexType
<1>2. s.cleared = FALSE /\ t.cleared = FALSE /\ ~HasEmpty(t)
  BY <1>1 DEF PlainTimescale, HasEmpty, Tags
<1>3. s = [host |-> s.host, cleared |-> FALSE] /\ t = [host |-> t.host, cleared |-> FALSE]
  BY <1>1, <1>2 DEF Tags
<1> QED  BY <1>2, <1>3 DEF Conflict

LEMMA TagsUniqueHolds == Spec => []TagsUnique
<1>1. Init => TagsUnique
  BY DEF Init, TagsUnique
<1>2. IInv /\ TagsUnique /\ [Next]_vars => TagsUnique'
  <2> SUFFICES ASSUME IInv, TagsUnique, [Next]_vars PROVE TagsUnique'
    OBVIOUS
  <2>1. ASSUME conf' = conf, tags' = tags PROVE TagsUnique'
    BY <2>1 DEF TagsUnique, PlainTimescale
  <2>2. ASSUME NEW w \in Workers, InsertTimescale(w) PROVE TagsUnique'
    <3> DEFINE Row(k) == [id |-> nextId + (k - 1), tag |-> rows[w][k]]
    <3>1. /\ conf' = conf /\ TypeOK
          /\ tags' = tags \cup {Row(k) : k \in Inserted(w)}
      BY <2>2 DEF InsertTimescale, callVars, IInv
    <3>2. \A k : Row(k).tag = rows[w][k]
      OBVIOUS
    <3> HIDE DEF Row
    <3> SUFFICES ASSUME PlainTimescale
                 PROVE  /\ \A t \in tags' : t.tag \in conf.tags
                        /\ \A s, t \in tags' : s.tag.host = t.tag.host => s = t
      BY <3>1 DEF TagsUnique, PlainTimescale
    <3>3. /\ \A t \in tags : t.tag \in conf.tags
          /\ \A s, t \in tags : s.tag.host = t.tag.host => s = t
      BY DEF TagsUnique
    <3>4. \A k \in Inserted(w) : k \in Nat /\ rows[w][k] \in conf.tags
      <4>1. \A k \in Inserted(w) : k \in DOMAIN rows[w]
        BY <3>1 DEF Inserted, TypeOK
      <4> QED  BY <3>1, <4>1, IndexType DEF IInv, RowsAtHome, TagsFor
    <3>5. \A s \in tags, k \in Inserted(w) : s.tag.host # rows[w][k].host
      BY <3>1, <3>3, <3>4, PlainTags DEF Inserted
    <3>6. ASSUME NEW j \in Inserted(w), NEW k \in Inserted(w),
                 rows[w][j].host = rows[w][k].host
          PROVE  j = k
      <4>1. rows[w][j] = rows[w][k] /\ Conflict(rows[w][j], rows[w][k])
                /\ Conflict(rows[w][k], rows[w][j])
        BY <3>1, <3>4, <3>6, PlainTags
      <4>2. ~(j < k) /\ ~(k < j)
        BY <4>1 DEF Inserted
      <4> QED  BY <3>4, <4>2
    <3>7. \A t \in tags' : t \in tags \/ \E k \in Inserted(w) : t = Row(k)
      BY <3>1
    <3>8. \A t \in tags' : t.tag \in conf.tags
      BY <3>2, <3>3, <3>4, <3>7
    <3>9. ASSUME NEW s \in tags', NEW t \in tags', s.tag.host = t.tag.host PROVE s = t
      BY <3>2, <3>3, <3>5, <3>6, <3>7, <3>9
    <3> QED  BY <3>8, <3>9
  <2>3. ASSUME NEW w \in Workers, InsertClickhouse(w) PROVE TagsUnique'
    BY <2>3 DEF InsertClickhouse, TagsUnique, PlainTimescale, callVars
  <2>4. ASSUME NEW w \in Workers, Start(w) \/ Check(w) \/ Lock(w) \/ Merge(w) \/ Assign(w)
        PROVE  TagsUnique'
    BY <2>1, <2>4 DEF Start, Check, Lock, Merge, Assign, callVars, dbVars
  <2> QED  BY <2>1, <2>2, <2>3, <2>4 DEF Next, Step, Finished, vars, callVars, dbVars
<1> QED  BY <1>1, <1>2, AlwaysIInv, PTL DEF Spec

\* Workers that found the same host missing insert it once, in whatever order they lock
\* the index, so all the rows of a host with an id refer to one row of tags: also those
\* of different processes, which share nothing but the unique index.
THEOREM HostsKeepTheirId == Spec => []HostKeepsItsId
<1>1. IInv /\ TagsUnique => HostKeepsItsId
  <2> SUFFICES ASSUME IInv, TagsUnique, PlainTimescale,
                      NEW r \in stored, NEW s \in stored,
                      r.tag = s.tag, r.id # 0, s.id # 0
               PROVE  r.id = s.id
    BY DEF HostKeepsItsId, PlainTimescale
  <2>1. PICK t \in tags : t.id = r.id /\ t.tag.host = r.tag.host
    BY DEF IInv, RowsReferToTheirHost
  <2>2. PICK u \in tags : u.id = s.id /\ u.tag.host = s.tag.host
    BY DEF IInv, RowsReferToTheirHost
  <2> QED  BY <2>1, <2>2 DEF TagsUnique
<1> QED  BY <1>1, AlwaysIInv, TagsUniqueHolds, PTL
=============================================================================
