------------------------- MODULE DatabaseLoadProofs -------------------------
(***************************************************************************)
(* The loaders of MongoDB, InfluxDB and RedisTimeSeries, for any number of *)
(* workers.                                                                *)
(*                                                                         *)
(* MongoDB: for any hash of the hosts, any file and any sizes of batches,  *)
(* inserts and hours, every event comes to its slot.                       *)
(*                                                                         *)
(* InfluxDB: for any number of batches and channels of any capacity.  What *)
(* a goroutine has not reported yet is on its channel: the ends of         *)
(* backoffs among its messages, and one that has not ended, are the        *)
(* batches that were turned away and not reported.                         *)
(*                                                                         *)
(* RedisTimeSeries: for any connections and hosts, any file, any hashes of *)
(* the hosts and pipelines of any length, samples reach their series, and  *)
(* what is counted has been executed.                                      *)
(***************************************************************************)
EXTENDS MongoLoad, InfluxLoad, RedisLoad, FiniteSetTheorems, WellFoundedInduction, TLAPS

-----------------------------------------------------------------------------
(* MongoDB: the invariant. *)

\* The run is set up as it is assumed to be.
FileOfTheRun == input \in Files

\* The keys of a file's documents.
DocKeys == {DocKey(n) : n \in Numbers}

EventTypeOK ==
    /\ FileOfTheRun
    /\ mongoQueues \in [MongoWorkers -> SUBSET Numbers]
    /\ mongoPc \in [MongoWorkers -> {"idle", "insert", "update"}]
    /\ createdDocs \in [MongoWorkers -> SUBSET DocKeys]
    /\ createQueue \in [MongoWorkers -> Seq(DocKeys)]
    /\ docToEvents \in [MongoWorkers -> SUBSET Numbers]
    /\ copies \in [DocKeys -> Nat]
    /\ settled \subseteq Numbers

NoneListedTwice(queue) == \A i, j \in DOMAIN queue : queue[i] = queue[j] => i = j

\* Every event comes to the worker its host is hashed to.
EventsAtHome == \A w \in MongoWorkers : \A n \in mongoQueues[w] \cup docToEvents[w] : MongoIndex(n) = w

\* What a worker remembers to have created are documents of events of its own, and they
\* wait in its queue or are on the server.
Creates(w) ==
    /\ mongoPc[w] # "insert" => createQueue[w] = <<>>
    /\ NoneListedTwice(createQueue[w])
    /\ ToSet(createQueue[w]) \subseteq createdDocs[w]
    /\ \A n \in docToEvents[w] : DocKey(n) \in createdDocs[w]
    /\ \A k \in createdDocs[w] : \E n \in Numbers : MongoIndex(n) = w /\ DocKey(n) = k
    /\ \A k \in createdDocs[w] \ ToSet(createQueue[w]) : copies[k] >= 1

DocsRemembered == \A w \in MongoWorkers : Creates(w)

\* A document of a host, not of any truck.
OfHost(k) == k.hostname # ""

\* A document with a hostname that is on the server was inserted by the worker of the host,
\* which does not insert it again.
OneDocument ==
    \A k \in DocKeys : OfHost(k) =>
        /\ copies[k] <= 1
        /\ copies[k] = 1 => \E w \in MongoWorkers : k \in createdDocs[w] \ ToSet(createQueue[w])

\* An event whose update has run is in its slot, or one of the same slot is.
SlotsRight ==
    /\ \A n \in settled : SlotOf(n) \in DOMAIN slots
    /\ \A s \in DOMAIN slots : slots[s] \in Numbers /\ SlotOf(slots[s]) = s

DocInv == EventTypeOK /\ EventsAtHome /\ DocsRemembered /\ OneDocument /\ SlotsRight
-----------------------------------------------------------------------------
(* Sets and sequences. *)

\* A number is known by its quotient and its remainder.
LEMMA QuotientAndRemainder ==
    ASSUME NEW w \in Nat \ {0}, NEW m \in Nat, NEW n \in Nat,
           m \div w = n \div w, m % w = n % w
    PROVE  m = n
<1>1. m - w * (m \div w) = m % w
  BY SMTT(30)
<1>2. n - w * (n \div w) = n % w
  BY SMTT(30)
<1> DEFINE p == w * (m \div w)
<1>3. p = w * (n \div w) /\ p \in Nat
  OBVIOUS
<1> DEFINE r == m % w
<1>4. r = n % w /\ r \in Nat
  OBVIOUS
<1>5. m - p = r /\ n - p = r
  BY <1>1, <1>2, <1>3, <1>4
<1> HIDE DEF p, r
<1> QED
  BY <1>3, <1>4, <1>5

\* The smaller of two numbers.
LEMMA SmallerOfTwo ==
    ASSUME NEW a \in Nat, NEW b \in Nat
    PROVE  Min({a, b}) = IF a <= b THEN a ELSE b
<1> DEFINE m == IF a <= b THEN a ELSE b
<1>1. m \in {a, b} /\ \A y \in {a, b} : m <= y
  OBVIOUS
<1>2. \A x \in {a, b} : (\A y \in {a, b} : x <= y) => x = m
  OBVIOUS
<1> HIDE DEF m
<1>3. Min({a, b}) = m
  BY <1>1, <1>2 DEF Min
<1> QED
  BY <1>3 DEF m

\* A set of numbers that is not empty has a least one.
LEMMA LeastNumber ==
    ASSUME NEW T \in SUBSET Nat, T # {}
    PROVE  \E m \in T : \A k \in T : m <= k
<1> DEFINE R == OpToRel(<, Nat)
<1>1. IsWellFoundedOn(R, Nat)
  BY NatLessThanWellFounded
<1>2. \A y, x \in Nat : <<y, x>> \in R <=> y < x
  BY DEF OpToRel
<1> HIDE DEF R
<1>3. PICK x \in T : \A y \in T : ~ (<<y, x>> \in R)
  BY <1>1, WFMin
<1>4. ASSUME NEW y \in T
      PROVE  x <= y
  <2>1. x \in Nat /\ y \in Nat /\ ~ (y < x)
    BY <1>2, <1>3
  <2> QED  BY <2>1
<1> QED  BY <1>4

\* A set of numbers of events that is not empty has a last one.
LEMMA HasLast ==
    ASSUME NEW N \in Nat, NEW S \in SUBSET (1..N), S # {}
    PROVE  Max(S) \in S
<1>1. PICK c \in S : TRUE
  OBVIOUS
<1> DEFINE T == {N - x : x \in S}
<1>2. T \in SUBSET Nat /\ T # {}
  BY <1>1
<1>3. PICK t \in T : \A u \in T : t <= u
  BY <1>2, LeastNumber
<1>4. PICK x \in S : t = N - x
  BY <1>3
<1>5. ASSUME NEW y \in S
      PROVE  x >= y
  <2>1. N - y \in T
    OBVIOUS
  <2>2. N - x <= N - y
    BY <1>3, <1>4, <2>1
  <2>3. x \in Nat /\ y \in Nat
    OBVIOUS
  <2> HIDE DEF T
  <2> QED
    BY <2>2, <2>3
<1> QED
  BY <1>4, <1>5 DEF Max

\* SetToSeq lists the elements of a finite set, each once.
LEMMA ListsOnce ==
    ASSUME NEW S, IsFiniteSet(S)
    PROVE  /\ SetToSeq(S) \in Seq(S)
           /\ ToSet(SetToSeq(S)) = S
           /\ NoneListedTwice(SetToSeq(S))
<1> DEFINE n == Cardinality(S)
<1>1. n \in Nat /\ ExistsBijection(1..n, S)
  BY FS_CardinalityType
<1>2. \E f \in [1..n -> S] : IsInjective(f)
  BY <1>1 DEF ExistsBijection, Bijection, Injection
<1>3. SetToSeq(S) \in [1..n -> S] /\ IsInjective(SetToSeq(S))
  BY <1>2 DEF SetToSeq
<1>4. SetToSeq(S) \in Injection(1..n, S)
  BY <1>3 DEF Injection
<1>5. Cardinality(1..n) = n
  BY <1>1, FS_Interval
<1>6. SetToSeq(S) \in Surjection(1..n, S)
  BY <1>4, <1>5, FS_Injection
<1>7. ToSet(SetToSeq(S)) = S
  BY <1>3, <1>6 DEF Surjection, ToSet
<1>8. NoneListedTwice(SetToSeq(S))
  BY <1>3 DEF NoneListedTwice, IsInjective
<1> QED
  BY <1>1, <1>3, <1>7, <1>8

\* An insert takes its part off the queue.
LEMMA TakingAPart ==
    ASSUME NEW K, NEW queue \in Seq(K), NoneListedTwice(queue), InsertSize \in Nat \ {0}
    PROVE  LET rest == AfterInsert(queue)
               part == ToSet(SubSeq(queue, 1, Min({InsertSize, Len(queue)})))
           IN  /\ rest \in Seq(K) /\ NoneListedTwice(rest)
               /\ part \cup ToSet(rest) = ToSet(queue)
               /\ part \cap ToSet(rest) = {}
<1> DEFINE m == IF InsertSize <= Len(queue) THEN InsertSize ELSE Len(queue)
           rest == AfterInsert(queue)
           first == SubSeq(queue, 1, m)
<1>1. Min({InsertSize, Len(queue)}) = m
  BY SmallerOfTwo
<1>2. /\ DOMAIN first = 1..m
      /\ \A i \in 1..m : first[i] = queue[i]
  OBVIOUS
<1>3. /\ rest \in Seq(K)
      /\ \A i \in DOMAIN rest : i + m \in DOMAIN queue /\ rest[i] = queue[i + m]
      /\ \A j \in DOMAIN queue : j > m => j - m \in DOMAIN rest /\ rest[j - m] = queue[j]
  BY DEF AfterInsert
<1>4. NoneListedTwice(rest)
  BY <1>3 DEF NoneListedTwice
<1>5. ToSet(first) \cup ToSet(rest) \subseteq ToSet(queue)
  BY <1>2, <1>3 DEF ToSet
<1>6. ToSet(queue) \subseteq ToSet(first) \cup ToSet(rest)
  <2> SUFFICES ASSUME NEW j \in DOMAIN queue PROVE queue[j] \in ToSet(first) \cup ToSet(rest)
    BY DEF ToSet
  <2>1. CASE j <= m
    <3>1. j \in DOMAIN first /\ first[j] = queue[j]
      BY <1>2, <2>1
    <3> QED
      BY <3>1 DEF ToSet
  <2>2. CASE j > m
    BY <1>3, <2>2 DEF ToSet
  <2> QED
    BY <2>1, <2>2
<1>7. ToSet(first) \cap ToSet(rest) = {}
  <2> SUFFICES ASSUME NEW i \in DOMAIN first, NEW j \in DOMAIN rest, first[i] = rest[j] PROVE FALSE
    BY DEF ToSet
  <2>1. queue[i] = queue[j + m] /\ i \in DOMAIN queue /\ j + m \in DOMAIN queue
    BY <1>2, <1>3
  <2>2. i = j + m
    BY <2>1 DEF NoneListedTwice
  <2> QED
    BY <1>2, <1>3, <2>2
<1> QED
  BY <1>1, <1>4, <1>5, <1>6, <1>7, <1>3
-----------------------------------------------------------------------------
(* The file. *)

\* Events in a file of the run.
LEMMA FilesOfTheRun ==
    ASSUME FileOfTheRun
    PROVE  /\ Len(input) \in Nat /\ Numbers = 1..Len(input)
           /\ \A n \in Numbers :
                  /\ Event(n).host \in DOMAIN Hash /\ Event(n).host # ""
                  /\ Event(n).time \in Nat /\ Hash[Event(n).host] \in Nat
BY MongoAssumption DEF FileOfTheRun, Numbers, Event

\* A worker of one document's events that has a hostname is that of the host.
LEMMA OneHome ==
    ASSUME FileOfTheRun, NEW m \in Numbers, NEW n \in Numbers,
           DocKey(m) = DocKey(n), DocKey(n).hostname # ""
    PROVE  MongoIndex(m) = MongoIndex(n) /\ Event(m).tag = "hostname" /\ Event(n).tag = "hostname"
BY FilesOfTheRun DEF DocKey, MongoIndex

\* The events of one slot of a host are of the same second.
LEMMA OneSecond ==
    ASSUME FileOfTheRun, NEW m \in Numbers, NEW n \in Numbers,
           SlotOf(m) = SlotOf(n), Event(n).tag = "hostname"
    PROVE  SameReading(m, n)
<1> DEFINE d(i) == Event(i).time \div Hour
           r(i) == Event(i).time % Hour
<1>1. DocKey(m) = DocKey(n) /\ r(m) = r(n)
  BY DEF SlotOf
<1>2. DocKey(n).hostname # ""
  BY FilesOfTheRun DEF DocKey
<1>3. Event(m).tag = "hostname"
  BY <1>1, <1>2, OneHome
<1>4. d(m) = d(n) /\ Event(m).measurement = Event(n).measurement /\ Event(m).host = Event(n).host
  BY <1>1, <1>3 DEF DocKey
<1>5. Event(m).time \in Nat /\ Event(n).time \in Nat /\ Hour \in Nat \ {0}
  BY FilesOfTheRun, MongoAssumption DEF FileOfTheRun
<1>6. Event(m).time = Event(n).time
  BY <1>1, <1>4, <1>5, QuotientAndRemainder
<1> QED
  BY <1>4, <1>6 DEF SameReading
-----------------------------------------------------------------------------
(* The invariant. *)

LEMMA DocsInitially == MongoInit => DocInv
<1> SUFFICES ASSUME MongoInit PROVE DocInv
  OBVIOUS
<1> USE DEF MongoInit
<1>1. EventTypeOK
  BY DEF EventTypeOK, FileOfTheRun, DocKeys
<1>2. EventsAtHome
  BY DEF EventsAtHome
<1>3. DocsRemembered
  BY DEF DocsRemembered, Creates, ToSet, NoneListedTwice
<1>4. OneDocument
  <2>1. \A k \in DocKeys : copies[k] = 0
    BY DEF DocKeys
  <2> QED
    BY <2>1 DEF OneDocument
<1>5. SlotsRight
  BY DEF SlotsRight
<1> QED
  BY <1>1, <1>2, <1>3, <1>4, <1>5 DEF DocInv

\* What depends on the file only.
LEMMA SameFile ==
    ASSUME UNCHANGED input
    PROVE  /\ FileOfTheRun => FileOfTheRun'
           /\ Numbers' = Numbers /\ DocKeys' = DocKeys
           /\ \A n : MongoIndex(n)' = MongoIndex(n) /\ DocKey(n)' = DocKey(n) /\ SlotOf(n)' = SlotOf(n)
           /\ \A m, n : SameReading(m, n)' = SameReading(m, n) /\ (Event(n).tag)' = Event(n).tag
<1>1. FileOfTheRun => FileOfTheRun'
  BY DEF FileOfTheRun
<1> QED
  BY <1>1 DEF Numbers, DocKeys, MongoIndex, DocKey, SlotOf, Event, SameReading

\* A batch is gathered: its new documents are queued.
LEMMA GatherKeeps ==
    ASSUME DocInv, NEW w \in MongoWorkers, Gather(w)
    PROVE  DocInv'
<1> USE DEF DocInv
<1> DEFINE taken == NextBatch(mongoQueues[w])
           keys == {DocKey(n) : n \in taken} \ createdDocs[w]
           new == NewKeys(taken, createdDocs[w])
<1>1. /\ mongoPc[w] = "idle" /\ mongoPc' = [mongoPc EXCEPT ![w] = "insert"]
      /\ UNCHANGED <<input, copies, slots, settled>>
      /\ mongoQueues' = [mongoQueues EXCEPT ![w] = @ \ taken]
      /\ createQueue' = [createQueue EXCEPT ![w] = new]
      /\ createdDocs' = [createdDocs EXCEPT ![w] = @ \cup ToSet(new)]
      /\ docToEvents' = [docToEvents EXCEPT ![w] = taken]
  BY DEF Gather
<1>2. taken \subseteq mongoQueues[w] /\ taken \subseteq Numbers /\ keys \subseteq DocKeys
  BY DEF EventTypeOK, DocKeys, NextBatch
<1>3. IsFiniteSet(keys)
  <2>1. FileOfTheRun
    BY DEF EventTypeOK
  <2>2. Len(input) \in Nat /\ Numbers = 1..Len(input)
    BY <2>1, FilesOfTheRun
  <2>3. IsFiniteSet(Numbers)
    BY <2>2, FS_Interval
  <2>4. IsFiniteSet(taken)
    BY <1>2, <2>3, FS_Subset
  <2> DEFINE f == [n \in taken |-> DocKey(n)]
             image == {DocKey(n) : n \in taken}
  <2>5. f \in Surjection(taken, image)
    BY DEF Surjection
  <2>6. IsFiniteSet(image)
    BY <2>4, <2>5, FS_Surjection
  <2> QED
    BY <2>6, FS_Subset
<1>4. new \in Seq(DocKeys) /\ ToSet(new) = keys /\ NoneListedTwice(new)
  <2>1. new = SetToSeq(keys)
    BY DEF NewKeys
  <2> HIDE DEF keys
  <2> QED
    BY <1>2, <1>3, <2>1, ListsOnce
<1> HIDE DEF taken, new, keys
<1>5. createQueue[w] = <<>> /\ ToSet(createQueue[w]) = {}
  BY <1>1 DEF DocsRemembered, Creates, ToSet
<1>6. EventTypeOK'
  BY <1>1, <1>2, <1>4, SameFile DEF EventTypeOK
<1>7. EventsAtHome'
  BY <1>1, <1>2, SameFile DEF EventTypeOK, EventsAtHome
<1>8. DocsRemembered'
  <2> SUFFICES ASSUME NEW v \in MongoWorkers PROVE Creates(v)'
    BY DEF DocsRemembered, MongoWorkers
  <2>1. CASE v # w
    BY <1>1, <2>1, SameFile DEF EventTypeOK, DocsRemembered, Creates
  <2>2. CASE v = w
    <3>1. /\ createQueue'[w] = new /\ createdDocs'[w] = createdDocs[w] \cup keys
          /\ docToEvents'[w] = taken /\ mongoPc'[w] = "insert"
      BY <1>1, <1>4 DEF EventTypeOK
    <3>2. \A n \in taken : DocKey(n) \in createdDocs[w] \cup keys
      BY DEF keys
    <3>3. \A k \in keys : \E n \in Numbers : MongoIndex(n) = w /\ DocKey(n) = k
      BY <1>2 DEF EventsAtHome, keys
    <3>4. \A k \in createdDocs[w] : \E n \in Numbers : MongoIndex(n) = w /\ DocKey(n) = k
      BY DEF DocsRemembered, Creates
    <3>5. \A k \in createdDocs[w] : copies[k] >= 1
      BY <1>5 DEF DocsRemembered, Creates
    <3> QED
      BY <1>1, <1>4, <2>2, <3>1, <3>2, <3>3, <3>4, <3>5, SameFile DEF Creates
  <2> QED
    BY <2>1, <2>2
<1>9. OneDocument'
  <2> SUFFICES ASSUME NEW k \in DocKeys, OfHost(k)
               PROVE  /\ copies[k] <= 1
                      /\ copies[k] = 1 =>
                             \E v \in MongoWorkers : k \in createdDocs'[v] \ ToSet(createQueue'[v])
    BY <1>1, SameFile DEF OneDocument, OfHost, MongoWorkers
  <2>1. copies[k] <= 1
    BY DEF OneDocument
  <2>2. ASSUME copies[k] = 1
        PROVE  \E v \in MongoWorkers : k \in createdDocs'[v] \ ToSet(createQueue'[v])
    <3>1. PICK v \in MongoWorkers : k \in createdDocs[v] \ ToSet(createQueue[v])
      BY <2>2 DEF OneDocument
    <3>2. CASE v = w
      <4>1. k \in createdDocs'[w] /\ createQueue'[w] = new
        BY <1>1, <3>1, <3>2 DEF EventTypeOK
      <4>2. k \notin keys
        BY <3>1, <3>2 DEF keys
      <4> QED
        BY <1>4, <3>2, <4>1, <4>2
    <3>3. CASE v # w
      BY <1>1, <3>1, <3>3 DEF EventTypeOK
    <3> QED
      BY <3>2, <3>3
  <2> QED
    BY <2>1, <2>2
<1>10. SlotsRight'
  BY <1>1, SameFile DEF SlotsRight
<1> QED
  BY <1>6, <1>7, <1>8, <1>9, <1>10

\* Some of the queued documents are inserted: none with a hostname was there.
LEMMA InsertKeeps ==
    ASSUME DocInv, NEW w \in MongoWorkers, Insert(w)
    PROVE  DocInv'
<1> USE DEF DocInv
<1> DEFINE queue == createQueue[w]
           rest == AfterInsert(queue)
           part == ToSet(SubSeq(queue, 1, Min({InsertSize, Len(queue)})))
<1>1. /\ mongoPc[w] = "insert"
      /\ copies' = [k \in DOMAIN copies |-> IF k \in part THEN copies[k] + 1 ELSE copies[k]]
      /\ createQueue' = [createQueue EXCEPT ![w] = rest]
      /\ UNCHANGED <<input, mongoQueues, mongoPc, createdDocs, docToEvents, slots, settled>>
  BY DEF Insert
<1>2. Creates(w)
  BY DEF DocsRemembered
<1>3. /\ rest \in Seq(DocKeys) /\ NoneListedTwice(rest)
      /\ part \cup ToSet(rest) = ToSet(queue)
      /\ part \cap ToSet(rest) = {}
  <2>1. queue \in Seq(DocKeys) /\ NoneListedTwice(queue) /\ InsertSize \in Nat \ {0}
    BY <1>2, MongoAssumption DEF EventTypeOK, Creates, FileOfTheRun
  <2> QED
    BY <2>1, TakingAPart
<1>4. part \subseteq createdDocs[w]
  BY <1>2, <1>3 DEF Creates
<1> HIDE DEF rest, part
<1>5. EventTypeOK'
  BY <1>1, <1>3, SameFile DEF EventTypeOK
<1>6. EventsAtHome'
  BY <1>1, SameFile DEF EventsAtHome
<1>7. \A k \in DocKeys : copies[k] >= 1 => copies'[k] >= 1
  BY <1>1 DEF EventTypeOK
<1>8. \A k \in part : copies'[k] >= 1
  BY <1>1, <1>4 DEF EventTypeOK
<1>9. DocsRemembered'
  <2> SUFFICES ASSUME NEW v \in MongoWorkers PROVE Creates(v)'
    BY DEF DocsRemembered, MongoWorkers
  <2>1. CASE v # w
    <3>1. Creates(v) /\ createQueue'[v] = createQueue[v]
      BY <1>1, <2>1 DEF DocsRemembered, EventTypeOK
    <3> QED
      BY <1>1, <1>7, <3>1, SameFile DEF EventTypeOK, Creates
  <2>2. CASE v = w
    <3>1. createQueue'[w] = rest
      BY <1>1 DEF EventTypeOK
    <3>2. \A k \in createdDocs[w] \ ToSet(rest) : copies'[k] >= 1
      BY <1>2, <1>3, <1>7, <1>8 DEF EventTypeOK, Creates
    <3> QED
      BY <1>1, <1>2, <1>3, <2>2, <3>1, <3>2, SameFile DEF Creates
  <2> QED
    BY <2>1, <2>2
<1>10. OneDocument'
  <2> SUFFICES ASSUME NEW k \in DocKeys, OfHost(k)
               PROVE  /\ copies'[k] <= 1
                      /\ copies'[k] = 1 =>
                             \E v \in MongoWorkers : k \in createdDocs[v] \ ToSet(createQueue'[v])
    BY <1>1, SameFile DEF OneDocument, OfHost, MongoWorkers
  <2>1. CASE k \in part
    <3>1. copies[k] # 1
      <4> SUFFICES ASSUME copies[k] = 1 PROVE FALSE
        OBVIOUS
      <4>1. PICK v \in MongoWorkers : k \in createdDocs[v] \ ToSet(createQueue[v])
        BY DEF OneDocument
      <4>2. PICK m \in Numbers : MongoIndex(m) = v /\ DocKey(m) = k
        BY <4>1 DEF DocsRemembered, Creates
      <4>3. PICK n \in Numbers : MongoIndex(n) = w /\ DocKey(n) = k
        BY <1>2, <1>4, <2>1 DEF Creates
      <4>4. v = w
        BY <4>2, <4>3, OneHome DEF EventTypeOK, OfHost
      <4> QED
        BY <1>3, <2>1, <4>1, <4>4
    <3>2. copies[k] = 0
      BY <3>1 DEF OneDocument, EventTypeOK
    <3>3. copies'[k] = 1
      BY <1>1, <2>1, <3>2 DEF EventTypeOK
    <3>4. k \in createdDocs[w] \ ToSet(createQueue'[w])
      BY <1>1, <1>3, <1>4, <2>1 DEF EventTypeOK
    <3> QED
      BY <3>3, <3>4
  <2>2. CASE k \notin part
    <3>1. copies'[k] = copies[k]
      BY <1>1, <2>2 DEF EventTypeOK
    <3>2. \A v \in MongoWorkers : ToSet(createQueue'[v]) \subseteq ToSet(createQueue[v])
      BY <1>1, <1>3 DEF EventTypeOK
    <3> QED
      BY <3>1, <3>2 DEF OneDocument
  <2> QED
    BY <2>1, <2>2
<1>11. SlotsRight'
  BY <1>1, SameFile DEF SlotsRight
<1> QED
  BY <1>5, <1>6, <1>9, <1>10, <1>11

\* The events of a document are set in their slots: the document is there.
LEMMA UpdateDocKeeps ==
    ASSUME DocInv, NEW w \in MongoWorkers, NEW k \in DocKeys, UpdateDoc(w, k)
    PROVE  DocInv'
<1> USE DEF DocInv
<1> DEFINE of == EventsOf(w, k)
           at == {SlotOf(n) : n \in of}
<1>1. /\ mongoPc[w] = "update" /\ of # {}
      /\ slots' = IF copies[k] = 0 THEN slots
                  ELSE [s \in DOMAIN slots \cup at |-> IF s \in at THEN LastIn(of, s) ELSE slots[s]]
      /\ settled' = settled \cup of
      /\ docToEvents' = [docToEvents EXCEPT ![w] = @ \ of]
      /\ UNCHANGED <<input, mongoQueues, mongoPc, createdDocs, createQueue, copies>>
  BY DEF UpdateDoc
<1>2. Creates(w)
  BY DEF DocsRemembered
<1>3. of \subseteq docToEvents[w] /\ of \subseteq Numbers /\ \A n \in of : DocKey(n) = k
  BY DEF EventsOf, EventTypeOK
<1>4. copies[k] # 0
  <2>1. k \in createdDocs[w]
    BY <1>1, <1>2, <1>3 DEF Creates
  <2>2. ToSet(createQueue[w]) = {}
    BY <1>1, <1>2 DEF Creates, ToSet
  <2> QED
    BY <1>2, <2>1, <2>2 DEF Creates
<1>5. \A s \in at : LastIn(of, s) \in Numbers /\ SlotOf(LastIn(of, s)) = s
  <2> SUFFICES ASSUME NEW s \in at
               PROVE  LastIn(of, s) \in {n \in of : SlotOf(n) = s}
    BY <1>3
  <2>1. {n \in of : SlotOf(n) = s} # {}
    OBVIOUS
  <2>2. Len(input) \in Nat /\ {n \in of : SlotOf(n) = s} \in SUBSET (1..Len(input))
    BY <1>3, FilesOfTheRun DEF EventTypeOK
  <2> QED
    BY <2>1, <2>2, HasLast DEF LastIn
<1> HIDE DEF of
<1>6. slots' = [s \in DOMAIN slots \cup at |-> IF s \in at THEN LastIn(of, s) ELSE slots[s]]
  BY <1>1, <1>4
<1>7. EventTypeOK'
  BY <1>1, <1>3, SameFile DEF EventTypeOK
<1>8. EventsAtHome'
  BY <1>1, SameFile DEF EventsAtHome, EventTypeOK
<1>9. DocsRemembered'
  <2> SUFFICES ASSUME NEW v \in MongoWorkers PROVE Creates(v)'
    BY DEF DocsRemembered, MongoWorkers
  <2>1. Creates(v) /\ docToEvents'[v] \subseteq docToEvents[v]
    BY <1>1 DEF DocsRemembered, EventTypeOK
  <2> QED
    BY <1>1, <2>1, SameFile DEF Creates
<1>10. OneDocument'
  BY <1>1, SameFile DEF OneDocument, OfHost, MongoWorkers
<1>11. SlotsRight'
  <2>1. \A n \in settled \cup of : SlotOf(n) \in DOMAIN slots \cup at
    BY DEF SlotsRight
  <2>2. \A s \in DOMAIN slots \cup at : slots'[s] \in Numbers /\ SlotOf(slots'[s]) = s
    BY <1>5, <1>6 DEF SlotsRight
  <2> HIDE DEF at
  <2> QED
    BY <1>1, <1>6, <2>1, <2>2, SameFile DEF SlotsRight
<1> QED
  BY <1>7, <1>8, <1>9, <1>10, <1>11

LEMMA DocsKept == DocInv /\ [MongoNext]_mongoVars => DocInv'
<1> SUFFICES ASSUME DocInv, [MongoNext]_mongoVars PROVE DocInv'
  OBVIOUS
<1> USE DEF DocInv
<1>1. ASSUME NEW w \in MongoWorkers, Gather(w) PROVE DocInv'
  BY <1>1, GatherKeeps
<1>2. ASSUME NEW w \in MongoWorkers, Insert(w) PROVE DocInv'
  BY <1>2, InsertKeeps
<1>3. ASSUME NEW w \in MongoWorkers, Inserted(w) PROVE DocInv'
  <2>1. /\ createQueue[w] = <<>> /\ mongoPc' = [mongoPc EXCEPT ![w] = "update"]
        /\ UNCHANGED <<input, mongoQueues, createdDocs, createQueue, docToEvents, copies, slots, settled>>
    BY <1>3 DEF Inserted
  <2>2. EventTypeOK' /\ EventsAtHome'
    BY <2>1, SameFile DEF EventTypeOK, EventsAtHome, MongoWorkers
  <2>3. OneDocument' /\ SlotsRight'
    BY <2>1, SameFile DEF OneDocument, OfHost, SlotsRight, MongoWorkers
  <2>4. ASSUME NEW v \in MongoWorkers PROVE Creates(v)'
    BY <2>1, SameFile DEF EventTypeOK, DocsRemembered, Creates
  <2> QED
    BY <2>2, <2>3, <2>4 DEF DocsRemembered, MongoWorkers
<1>4. ASSUME NEW w \in MongoWorkers, Return(w) PROVE DocInv'
  <2>1. /\ mongoPc[w] = "update" /\ mongoPc' = [mongoPc EXCEPT ![w] = "idle"]
        /\ UNCHANGED <<input, mongoQueues, createdDocs, createQueue, docToEvents, copies, slots, settled>>
    BY <1>4 DEF Return
  <2>2. EventTypeOK' /\ EventsAtHome'
    BY <2>1, SameFile DEF EventTypeOK, EventsAtHome, MongoWorkers
  <2>3. OneDocument' /\ SlotsRight'
    BY <2>1, SameFile DEF OneDocument, OfHost, SlotsRight, MongoWorkers
  <2>4. ASSUME NEW v \in MongoWorkers PROVE Creates(v)'
    BY <2>1, SameFile DEF EventTypeOK, DocsRemembered, Creates
  <2> QED
    BY <2>2, <2>3, <2>4 DEF DocsRemembered, MongoWorkers
<1>5. ASSUME NEW w \in MongoWorkers, NEW k \in DOMAIN copies, UpdateDoc(w, k) PROVE DocInv'
  <2>1. k \in DocKeys
    BY DEF EventTypeOK
  <2> QED
    BY <1>5, <2>1, UpdateDocKeeps
<1>6. CASE UNCHANGED mongoVars
  <2>1. UNCHANGED <<input, mongoQueues, mongoPc, createdDocs, createQueue, docToEvents, copies, slots, settled>>
    BY <1>6 DEF mongoVars
  <2>2. EventTypeOK' /\ EventsAtHome'
    BY <2>1, SameFile DEF EventTypeOK, EventsAtHome, MongoWorkers
  <2>3. OneDocument' /\ SlotsRight'
    BY <2>1, SameFile DEF OneDocument, OfHost, SlotsRight, MongoWorkers
  <2>4. DocsRemembered'
    BY <2>1, SameFile DEF DocsRemembered, Creates, MongoWorkers
  <2> QED
    BY <2>2, <2>3, <2>4
<1> QED
  BY <1>1, <1>2, <1>3, <1>4, <1>5, <1>6 DEF MongoNext, MongoBatch

LEMMA DocsSay == DocInv => EventsHaveTheirSlot
<1> SUFFICES ASSUME DocInv PROVE EventsHaveTheirSlot
  OBVIOUS
<1> USE DEF DocInv
<1>1. ASSUME NEW n \in settled
      PROVE  /\ SlotOf(n) \in DOMAIN slots
             /\ Event(n).tag = "hostname" => SameReading(slots[SlotOf(n)], n)
  <2>1. n \in Numbers /\ FileOfTheRun /\ SlotOf(n) \in DOMAIN slots
    BY DEF EventTypeOK, SlotsRight
  <2>2. slots[SlotOf(n)] \in Numbers /\ SlotOf(slots[SlotOf(n)]) = SlotOf(n)
    BY <2>1 DEF SlotsRight
  <2> QED
    BY <2>1, <2>2, OneSecond
<1>2. \A k \in DOMAIN copies : k.hostname # "" => copies[k] <= 1
  BY DEF EventTypeOK, OneDocument, OfHost
<1> QED
  BY <1>1, <1>2 DEF EventsHaveTheirSlot

\* However the hosts are hashed and the batches cut, an event whose update has run is in its
\* slot of the one document of its host, hour and measurement (aggregate_loader.go:139-202).
THEOREM EventsAreInTheirSlots == MongoSpec => []EventsHaveTheirSlot
<1>1. MongoInit => DocInv
  BY DocsInitially
<1> QED
  BY <1>1, DocsKept, DocsSay, PTL DEF MongoSpec
-----------------------------------------------------------------------------
(* InfluxDB: the invariants. *)

WpcStates == {"idle", "write", "tell", "closing", "closed"}
Results == {"nil", "errBackoff", "error"}
Batches == InfluxWorkers \X Nat

TypeOK ==
    /\ influxPc \in [InfluxWorkers -> WpcStates]
    /\ batch \in [InfluxWorkers -> Nat]
    /\ result \in [InfluxWorkers -> Results]
    /\ backingOffChan \in [InfluxWorkers -> Seq(BOOLEAN)]
    /\ last \in [InfluxWorkers -> BOOLEAN]
    /\ printed \in [InfluxWorkers -> Nat]
    /\ mpc \in [InfluxWorkers -> {"run", "done"}]
    /\ storedBatches \subseteq Batches
    /\ twice \subseteq Batches
    /\ timedOut \subseteq Batches
    /\ delayed \subseteq Batches
    /\ counted \subseteq Batches
    /\ influxFatal \in BOOLEAN

InCall(w) == influxPc[w] \in {"write", "tell"}

\* Batches are numbered as they are taken: the next is in no set.
Past(S) == \A b \in S : b[2] <= batch[b[1]]
Numbered == Past(storedBatches) /\ Past(delayed)

\* A batch that is stored and will be sent again has timed out.
Again(w) == influxPc[w] = "write" \/ (influxPc[w] = "tell" /\ result[w] = "errBackoff")

Sent(w) ==
    /\ Again(w) /\ Batch(w) \in storedBatches => Batch(w) \in timedOut
    /\ influxPc[w] = "tell" /\ result[w] = "nil" => Batch(w) \in storedBatches

Answered == \A w \in InfluxWorkers : Sent(w)

\* Batches of a worker that were turned away.
Delayed(w) == {b \in delayed : b[1] = w}

\* The message before one on the channel, and the last that was sent.
PrecededBy(chan, first, i) == IF i = 1 THEN first ELSE chan[i - 1]
Latest(chan, first) == IF chan = <<>> THEN first ELSE chan[Len(chan)]

\* The messages that will end a backoff.
Ends(chan, first) == {i \in DOMAIN chan : EndsBackoff(chan[i], PrecededBy(chan, first, i))}

\* The worker is backing off if the last message it sent says so.
BackingOff(w) == Latest(backingOffChan[w], last[w])

Reports(w) ==
    /\ BackingOff(w) <=> InCall(w) /\ Batch(w) \in delayed
    /\ IsFiniteSet(Delayed(w))
    /\ Cardinality(Delayed(w)) =
           printed[w] + Cardinality(Ends(backingOffChan[w], last[w]))
               + (IF BackingOff(w) THEN 1 ELSE 0)

\* The goroutine ends with its channel empty, and Close waits for it.
Ending(w) ==
    /\ mpc[w] = "done" => influxPc[w] \in {"closing", "closed"} /\ backingOffChan[w] = <<>>
    /\ influxPc[w] = "closed" => mpc[w] = "done"

Reported == \A w \in InfluxWorkers : Reports(w) /\ Ending(w)

IInv == TypeOK /\ Numbered
-----------------------------------------------------------------------------
(* Channels. *)

\* A message is sent.
LEMMA Sending ==
    ASSUME NEW chan \in Seq(BOOLEAN), NEW first \in BOOLEAN, NEW this \in BOOLEAN
    PROVE  /\ Append(chan, this) \in Seq(BOOLEAN)
           /\ Latest(Append(chan, this), first) = this
           /\ Ends(Append(chan, this), first) =
                  Ends(chan, first) \cup
                      (IF EndsBackoff(this, Latest(chan, first)) THEN {Len(chan) + 1} ELSE {})
           /\ Len(chan) + 1 \notin Ends(chan, first)
<1> DEFINE new == Append(chan, this)
           n == Len(chan)
<1>1. /\ new \in Seq(BOOLEAN) /\ DOMAIN new = 1..(n + 1) /\ DOMAIN chan = 1..n /\ n \in Nat
      /\ new[n + 1] = this /\ \A i \in 1..n : new[i] = chan[i]
      /\ Len(new) = n + 1 /\ new # <<>>
  OBVIOUS
<1>2. ASSUME NEW i \in 1..n PROVE PrecededBy(new, first, i) = PrecededBy(chan, first, i)
  <2>1. i = 1 \/ i - 1 \in 1..n
    BY <1>1
  <2> QED
    BY <1>1, <2>1 DEF PrecededBy
<1>3. PrecededBy(new, first, n + 1) = Latest(chan, first)
  <2>1. CASE chan = <<>>
    BY <2>1 DEF PrecededBy, Latest
  <2>2. CASE chan # <<>>
    <3>1. n \in 1..n /\ n + 1 # 1 /\ (n + 1) - 1 = n
      BY <2>2
    <3> QED
      BY <1>1, <2>2, <3>1 DEF PrecededBy, Latest
  <2> QED
    BY <2>1, <2>2
<1>4. 1..(n + 1) = 1..n \cup {n + 1} /\ n + 1 \notin 1..n
  BY <1>1
<1>5. \A i \in 1..n : i \in Ends(new, first) <=> i \in Ends(chan, first)
  BY <1>1, <1>2, <1>4 DEF Ends
<1>6. n + 1 \in Ends(new, first) <=> EndsBackoff(this, Latest(chan, first))
  BY <1>1, <1>3, <1>4 DEF Ends
<1>7. Ends(new, first) \subseteq 1..(n + 1) /\ Ends(chan, first) \subseteq 1..n
  BY <1>1 DEF Ends
<1> HIDE DEF new, n
<1>8. Ends(new, first) = Ends(chan, first) \cup
          (IF EndsBackoff(this, Latest(chan, first)) THEN {n + 1} ELSE {})
  BY <1>4, <1>5, <1>6, <1>7
<1>9. Latest(new, first) = this
  BY <1>1 DEF Latest
<1> QED
  BY <1>1, <1>4, <1>7, <1>8, <1>9 DEF new, n

\* A message is received.
LEMMA Receiving ==
    ASSUME NEW chan \in Seq(BOOLEAN), NEW first \in BOOLEAN, chan # <<>>
    PROVE  /\ Head(chan) \in BOOLEAN /\ Tail(chan) \in Seq(BOOLEAN)
           /\ Latest(Tail(chan), Head(chan)) = Latest(chan, first)
           /\ Cardinality(Ends(chan, first)) =
                  Cardinality(Ends(Tail(chan), Head(chan)))
                      + (IF EndsBackoff(Head(chan), first) THEN 1 ELSE 0)
<1> DEFINE rest == Tail(chan)
           n == Len(chan)
           this == Head(chan)
           A == Ends(chan, first)
           B == Ends(rest, this)
           C == {i \in A : i # 1}
<1>1. /\ n = Len(chan) /\ n \in Nat \ {0} /\ DOMAIN chan = 1..n /\ rest \in Seq(BOOLEAN) /\ Len(rest) = n - 1
      /\ DOMAIN rest = 1..(n - 1) /\ this = chan[1] /\ this \in BOOLEAN
      /\ \A i \in 1..(n - 1) : rest[i] = chan[i + 1]
  OBVIOUS
<1>2. Latest(rest, this) = Latest(chan, first)
  <2>1. CASE n = 1
    <3>1. rest = <<>>
      BY <1>1, <2>1
    <3> QED
      BY <1>1, <2>1, <3>1 DEF Latest
  <2>2. CASE n # 1
    <3>1. n - 1 \in 1..(n - 1) /\ (n - 1) + 1 = n
      BY <1>1, <2>2
    <3>2. rest # <<>>
      <4>1. Len(rest) # 0 /\ Len(<<>>) = 0
        BY <1>1, <2>2
      <4> HIDE DEF rest
      <4> QED
        BY <4>1
    <3> QED
      BY <1>1, <3>1, <3>2 DEF Latest
  <2> QED
    BY <2>1, <2>2
<1>3. ASSUME NEW i \in 1..(n - 1)
      PROVE  /\ PrecededBy(rest, this, i) = PrecededBy(chan, first, i + 1)
             /\ i + 1 \in 1..n
  <2>1. i + 1 \in 1..n /\ i + 1 # 1 /\ (i + 1) - 1 = i
    BY <1>1
  <2>2. CASE i = 1
    BY <1>1, <2>1, <2>2 DEF PrecededBy
  <2>3. CASE i # 1
    <3>1. i - 1 \in 1..(n - 1) /\ (i - 1) + 1 = i
      BY <1>1, <2>3
    <3> QED
      BY <1>1, <2>1, <2>3, <3>1 DEF PrecededBy
  <2> QED
    BY <2>1, <2>2, <2>3
<1>4. \A i \in 1..(n - 1) : i \in B <=> i + 1 \in A
  BY <1>1, <1>3 DEF Ends
<1>5. A \subseteq 1..n /\ B \subseteq 1..(n - 1)
  BY <1>1 DEF Ends
<1>6. 1 \in A <=> EndsBackoff(this, first)
  BY <1>1 DEF Ends, PrecededBy
<1> HIDE DEF A, B, n, rest, this
<1>7. IsFiniteSet(A) /\ IsFiniteSet(B) /\ IsFiniteSet(C)
  <2>1. IsFiniteSet(1..n) /\ IsFiniteSet(1..(n - 1))
    BY <1>1, FS_Interval
  <2> QED
    BY <1>5, <2>1, FS_Subset
<1>8. Cardinality(B) = Cardinality(C)
  <2> DEFINE f == [i \in B |-> i + 1]
  <2>1. \A i \in B : f[i] \in C
    BY <1>4, <1>5
  <2>2. \A i, j \in B : f[i] = f[j] => i = j
    BY <1>5
  <2>3. ASSUME NEW k \in C PROVE \E i \in B : f[i] = k
    <3>1. k - 1 \in 1..(n - 1) /\ (k - 1) + 1 = k
      BY <1>1, <1>5
    <3>2. k - 1 \in B
      BY <1>4, <3>1
    <3> QED
      BY <3>1, <3>2
  <2>4. f \in Bijection(B, C)
    BY <2>1, <2>2, <2>3 DEF Bijection, Injection, Surjection, IsInjective
  <2> HIDE DEF C
  <2>5. ExistsBijection(B, C)
    BY <2>4 DEF ExistsBijection
  <2> QED
    BY <1>7, <2>5, FS_Bijection
<1>9. CASE 1 \in A
  <2>1. A = C \cup {1} /\ 1 \notin C
    BY <1>9
  <2> HIDE DEF C
  <2>2. Cardinality(A) = Cardinality(C) + 1
    BY <1>7, <2>1, FS_AddElement
  <2> QED
    BY <1>1, <1>2, <1>6, <1>8, <1>9, <2>2 DEF A, B, rest, this
<1>10. CASE 1 \notin A
  <2>1. A = C
    BY <1>10
  <2> HIDE DEF C
  <2>2. Cardinality(C) \in Nat
    BY <1>7, FS_CardinalityType
  <2> QED
    BY <1>1, <1>2, <1>6, <1>8, <1>10, <2>1, <2>2 DEF A, B, rest, this
<1> QED
  BY <1>9, <1>10

\* Ends are finitely many.
LEMMA EndsFinite ==
    ASSUME NEW chan \in Seq(BOOLEAN), NEW first \in BOOLEAN
    PROVE  IsFiniteSet(Ends(chan, first)) /\ Cardinality(Ends(chan, first)) \in Nat
<1>1. Ends(chan, first) \subseteq 1..Len(chan) /\ Len(chan) \in Nat
  BY DEF Ends
<1>2. IsFiniteSet(1..Len(chan))
  BY <1>1, FS_Interval
<1> QED
  BY <1>1, <1>2, FS_Subset, FS_CardinalityType
-----------------------------------------------------------------------------
(* Types. *)

LEMMA Starts == InfluxInit => IInv /\ Answered /\ Reported
<1> SUFFICES ASSUME InfluxInit PROVE IInv /\ Answered /\ Reported
  OBVIOUS
<1>1. <<>> \in Seq(BOOLEAN) /\ DOMAIN <<>> = {}
  OBVIOUS
<1>2. TypeOK
  BY <1>1 DEF InfluxInit, TypeOK, WpcStates, Results
<1>3. Numbered
  BY DEF InfluxInit, Numbered, Past
<1>4. Answered
  BY DEF InfluxInit, Answered, Sent, Again
<1>5. ASSUME NEW w \in InfluxWorkers PROVE Reports(w) /\ Ending(w)
  <2>1. backingOffChan[w] = <<>> /\ last[w] = FALSE /\ printed[w] = 0 /\ influxPc[w] = "idle"
        /\ mpc[w] = "run"
    BY DEF InfluxInit
  <2>2. Ends(<<>>, FALSE) = {} /\ Delayed(w) = {}
    BY <1>1 DEF Ends, InfluxInit, Delayed
  <2>3. IsFiniteSet({}) /\ Cardinality({}) = 0
    BY FS_EmptySet
  <2>4. ~BackingOff(w)
    BY <2>1 DEF BackingOff, Latest
  <2>5. Cardinality(Ends(backingOffChan[w], last[w])) = 0
    BY <2>1, <2>2, <2>3
  <2>6. Reports(w)
    BY <2>1, <2>2, <2>3, <2>4, <2>5 DEF Reports, InCall
  <2> QED
    BY <2>1, <2>6 DEF Ending
<1> QED
  BY <1>2, <1>3, <1>4, <1>5 DEF IInv, Reported

LEMMA StepsKeep == IInv /\ [InfluxNext]_influxVars => IInv'
<1> SUFFICES ASSUME IInv, [InfluxNext]_influxVars PROVE IInv'
  OBVIOUS
<1> USE DEF IInv, TypeOK, Numbered, Past, Batch, Batches, goVars, dbVars, WpcStates, Results
<1>1. ASSUME NEW w \in InfluxWorkers, Take(w) PROVE IInv'
  BY <1>1 DEF Take
<1>2. ASSUME NEW w \in InfluxWorkers, NEW answer \in Answers, WriteAnswered(w, answer) PROVE IInv'
  <2>1. <<w, batch[w]>> \in Batches
    OBVIOUS
  <2>2. ExecuteReq(answer) \in Results
    BY DEF ExecuteReq
  <2>3. storedBatches' \in {storedBatches, storedBatches \cup {<<w, batch[w]>>}}
    BY <1>2 DEF WriteAnswered
  <2>4. twice' \subseteq Batches /\ timedOut' \subseteq Batches
    BY <1>2, <2>1 DEF WriteAnswered
  <2>5. UNCHANGED <<batch, backingOffChan, last, printed, mpc, delayed, counted, influxFatal>>
        /\ influxPc' = [influxPc EXCEPT ![w] = "tell"] /\ result' = [result EXCEPT ![w] = ExecuteReq(answer)]
    BY <1>2 DEF WriteAnswered
  <2>6. TypeOK'
    BY <2>1, <2>2, <2>3, <2>4, <2>5
  <2>7. \A b \in storedBatches' : b[2] <= batch[b[1]]
    BY <2>1, <2>3
  <2> QED
    BY <2>5, <2>6, <2>7
<1>3. ASSUME NEW w \in InfluxWorkers, BackOff(w) PROVE IInv'
  <2>1. <<w, batch[w]>> \in Batches
    OBVIOUS
  <2>2. backingOffChan' \in [InfluxWorkers -> Seq(BOOLEAN)]
    BY <1>3, Sending DEF BackOff, Tell
  <2>3. UNCHANGED <<batch, result, last, printed, mpc, storedBatches, twice, timedOut, counted, influxFatal>>
        /\ influxPc' = [influxPc EXCEPT ![w] = "write"] /\ delayed' = delayed \cup {<<w, batch[w]>>}
    BY <1>3 DEF BackOff
  <2>4. TypeOK'
    BY <2>1, <2>2, <2>3
  <2>5. \A b \in delayed' : b[2] <= batch[b[1]]
    BY <2>1, <2>3
  <2> QED
    BY <2>3, <2>4, <2>5
<1>4. ASSUME NEW w \in InfluxWorkers, Settle(w) PROVE IInv'
  <2>1. <<w, batch[w]>> \in Batches
    OBVIOUS
  <2>2. backingOffChan' \in [InfluxWorkers -> Seq(BOOLEAN)]
    BY <1>4, Sending DEF Settle, Tell
  <2> QED
    BY <1>4, <2>1, <2>2 DEF Settle
<1>5. ASSUME NEW w \in InfluxWorkers, Close(w) PROVE IInv'
  BY <1>5 DEF Close, CloseChan, Closed
<1>6. ASSUME NEW w \in InfluxWorkers, Message(w) PROVE IInv'
  <2>1. Head(backingOffChan[w]) \in BOOLEAN /\ Tail(backingOffChan[w]) \in Seq(BOOLEAN)
    BY <1>6, Receiving DEF Message
  <2> DEFINE over == EndsBackoff(Head(backingOffChan[w]), last[w])
  <2>2. over \in BOOLEAN
    BY <2>1 DEF EndsBackoff
  <2>3. last' = [last EXCEPT ![w] = ~over /\ (Head(backingOffChan[w]) \/ @)]
    BY <1>6 DEF Message
  <2> HIDE DEF over
  <2>4. last' \in [InfluxWorkers -> BOOLEAN]
    BY <2>1, <2>2, <2>3
  <2>5. UNCHANGED <<influxPc, batch, result, mpc, storedBatches, twice, timedOut, delayed, counted, influxFatal>>
        /\ backingOffChan' = [backingOffChan EXCEPT ![w] = Tail(@)]
    BY <1>6 DEF Message
  <2>6. printed' \in [InfluxWorkers -> Nat]
    <3>1. printed' = [printed EXCEPT ![w] = IF over THEN @ + 1 ELSE @]
      BY <1>6 DEF Message, over
    <3> QED
      BY <2>2, <3>1
  <2>7. TypeOK'
    BY <2>1, <2>4, <2>5, <2>6
  <2> QED
    BY <2>5, <2>7
<1>7. ASSUME NEW w \in InfluxWorkers, MessagesEnd(w) PROVE IInv'
  BY <1>7 DEF MessagesEnd
<1>8. CASE UNCHANGED influxVars
  BY <1>8 DEF influxVars
<1> QED
  BY <1>1, <1>2, <1>3, <1>4, <1>5, <1>6, <1>7, <1>8
     DEF InfluxNext, InfluxBatch, Write, ProcessBackoffMessages

LEMMA Invariance == InfluxSpec => []IInv
BY Starts, StepsKeep, PTL DEF InfluxSpec
-----------------------------------------------------------------------------
(* What is stored. *)

\* What a step of one worker leaves of another's.
LEMMA OthersStay ==
    ASSUME IInv, NEW w \in InfluxWorkers,
           Take(w) \/ Write(w) \/ BackOff(w) \/ Settle(w) \/ Close(w) \/ ProcessBackoffMessages(w),
           NEW v \in InfluxWorkers, v # w
    PROVE  /\ influxPc'[v] = influxPc[v] /\ batch'[v] = batch[v] /\ result'[v] = result[v]
           /\ backingOffChan'[v] = backingOffChan[v] /\ last'[v] = last[v]
           /\ printed'[v] = printed[v] /\ mpc'[v] = mpc[v]
           /\ \A n : <<v, n>> \in storedBatches' <=> <<v, n>> \in storedBatches
           /\ \A n : <<v, n>> \in timedOut' <=> <<v, n>> \in timedOut
           /\ \A n : <<v, n>> \in delayed' <=> <<v, n>> \in delayed
<1> USE DEF IInv, TypeOK, goVars, dbVars
<1>1. CASE Take(w)
  BY <1>1 DEF Take
<1>2. CASE Write(w)
  BY <1>2 DEF Write, WriteAnswered, Batch
<1>3. CASE BackOff(w)
  BY <1>3 DEF BackOff, Tell, Batch
<1>4. CASE Settle(w)
  BY <1>4 DEF Settle, Tell
<1>5. CASE Close(w)
  BY <1>5 DEF Close, CloseChan, Closed
<1>6. CASE Message(w)
  BY <1>6 DEF Message
<1>7. CASE MessagesEnd(w)
  BY <1>7 DEF MessagesEnd
<1> QED
  BY <1>1, <1>2, <1>3, <1>4, <1>5, <1>6, <1>7 DEF ProcessBackoffMessages

\* What an answer tells of the write: accepted, it is done; turned away without a timeout,
\* it is not.
LEMMA AnswersMean ==
    ASSUME NEW answer \in Answers
    PROVE  /\ ExecuteReq(answer) = "nil" => MayStore(answer) = {TRUE}
           /\ ExecuteReq(answer) = "errBackoff" /\ answer.body # "timeout"
                  => MayStore(answer) = {FALSE}
<1>1. CASE answer.status = 204
  <2>1. answer = [status |-> 204, body |-> "nothing"]
    BY <1>1 DEF Answers
  <2> QED
    BY <1>1, <2>1 DEF ExecuteReq, MayStore, BackpressurePred
<1>2. CASE answer.status # 204
  <2>1. ExecuteReq(answer) # "nil"
    BY <1>2 DEF ExecuteReq
  <2>2. ExecuteReq(answer) = "errBackoff" => answer.body \in {"full", "timeout"}
    BY <1>2 DEF ExecuteReq, BackpressurePred
  <2>3. answer.body = "full" => MayStore(answer) = {FALSE}
    BY <1>2 DEF MayStore
  <2> QED
    BY <2>1, <2>2, <2>3
<1> QED
  BY <1>1, <1>2

LEMMA AnsweredStays ==
    ASSUME IInv, Answered, [InfluxNext]_influxVars
    PROVE  Answered'
<1>1. ASSUME NEW w \in InfluxWorkers, InfluxBatch(w) \/ Close(w) \/ ProcessBackoffMessages(w)
      PROVE  Sent(w)'
  <2> USE DEF IInv, TypeOK, goVars, dbVars
  <2>1. Sent(w)
    BY DEF Answered
  <2>2. CASE Take(w)
    <3>1. influxPc'[w] = "write" /\ storedBatches' = storedBatches /\ batch'[w] = batch[w] + 1
      BY <2>2 DEF Take
    <3>2. <<w, batch[w] + 1>> \notin storedBatches
      BY DEF Numbered, Past
    <3> QED
      BY <3>1, <3>2 DEF Sent, Batch
  <2>3. ASSUME NEW answer \in Answers, WriteAnswered(w, answer) PROVE Sent(w)'
    <3>1. /\ influxPc[w] = "write" /\ batch' = batch /\ result'[w] = ExecuteReq(answer) /\ influxPc'[w] = "tell"
          /\ timedOut' = IF answer.body = "timeout" THEN timedOut \cup {Batch(w)} ELSE timedOut
          /\ \E done \in MayStore(answer) :
                 storedBatches' = IF done THEN storedBatches \cup {Batch(w)} ELSE storedBatches
      BY <2>3 DEF WriteAnswered
    <3>2. Batch(w)' = Batch(w)
      BY <3>1 DEF Batch
    <3>3. ASSUME ExecuteReq(answer) = "nil" PROVE Batch(w) \in storedBatches'
      <4>1. MayStore(answer) = {TRUE}
        BY <3>3, AnswersMean
      <4>2. storedBatches' = storedBatches \cup {Batch(w)}
        BY <3>1, <4>1, Zenon
      <4> QED
        BY <4>2
    <3>4. ASSUME ExecuteReq(answer) = "errBackoff", Batch(w) \in storedBatches'
          PROVE  Batch(w) \in timedOut'
      <4>2. CASE answer.body = "timeout"
        BY <3>1, <4>2
      <4>3. CASE answer.body # "timeout"
        <5>1. MayStore(answer) = {FALSE}
          BY <3>4, <4>3, AnswersMean
        <5>2. storedBatches' = storedBatches
          BY <3>1, <5>1
        <5> QED
          BY <2>1, <3>1, <3>4, <5>2 DEF Sent, Again
      <4> QED
        BY <4>2, <4>3
    <3> QED
      BY <3>1, <3>2, <3>3, <3>4 DEF Sent, Again
  <2>4. CASE BackOff(w)
    BY <2>1, <2>4 DEF BackOff, Sent, Again, Batch
  <2>5. CASE Settle(w) \/ Close(w)
    BY <2>5 DEF Settle, Close, CloseChan, Closed, Sent, Again
  <2>6. CASE ProcessBackoffMessages(w)
    BY <2>1, <2>6 DEF ProcessBackoffMessages, Message, MessagesEnd, Sent, Again, Batch
  <2> QED
    BY <1>1, <2>2, <2>3, <2>4, <2>5, <2>6 DEF InfluxBatch, Write
<1>2. ASSUME NEW w \in InfluxWorkers, InfluxBatch(w) \/ Close(w) \/ ProcessBackoffMessages(w),
             NEW v \in InfluxWorkers, v # w
      PROVE  Sent(v)'
  <2>1. Sent(v)
    BY DEF Answered
  <2> QED
    BY <1>2, <2>1, OthersStay DEF InfluxBatch, Sent, Again, Batch
<1>3. CASE UNCHANGED influxVars
  BY <1>3 DEF influxVars, dbVars, Answered, Sent, Again, Batch
<1> QED
  BY <1>1, <1>2, <1>3 DEF InfluxNext, Answered

\* A batch that the load counts is stored (http_writer.go:94), and only one whose answer was a
\* timeout, which the loop of ProcessBatch (process.go:45) sends again, is stored twice.
THEOREM CountedBatchesAreStored == InfluxSpec => []CountedIsStored
<1>1. InfluxInit => CountedIsStored
  BY DEF InfluxInit, CountedIsStored
<1>2. ASSUME IInv, Answered, CountedIsStored, [InfluxNext]_influxVars PROVE CountedIsStored'
  <2> USE DEF CountedIsStored, goVars, dbVars
  <2>1. ASSUME NEW w \in InfluxWorkers, NEW answer \in Answers, WriteAnswered(w, answer)
        PROVE  CountedIsStored'
    <3>1. Batch(w) \in storedBatches => Batch(w) \in timedOut
      BY <1>2, <2>1 DEF Answered, Sent, Again, WriteAnswered
    <3> QED
      BY <1>2, <2>1, <3>1 DEF WriteAnswered
  <2>2. ASSUME NEW w \in InfluxWorkers, Settle(w) PROVE CountedIsStored'
    <3>1. result[w] = "nil" => Batch(w) \in storedBatches
      BY <1>2, <2>2 DEF Answered, Sent, Settle
    <3> QED
      BY <1>2, <2>2, <3>1 DEF Settle
  <2>3. ASSUME NEW w \in InfluxWorkers, Take(w) \/ BackOff(w) \/ Close(w) \/ ProcessBackoffMessages(w)
        PROVE  CountedIsStored'
    BY <1>2, <2>3
       DEF Take, BackOff, Close, CloseChan, Closed, ProcessBackoffMessages, Message, MessagesEnd
  <2>4. CASE UNCHANGED influxVars
    BY <1>2, <2>4 DEF influxVars
  <2> QED
    BY <1>2, <2>1, <2>2, <2>3, <2>4 DEF InfluxNext, InfluxBatch, Write
<1> QED
  BY <1>1, <1>2, Starts, AnsweredStays, Invariance, PTL DEF InfluxSpec
-----------------------------------------------------------------------------
(* What is reported. *)

\* Where neither the channel nor the goroutine's count changes.
LEMMA SameReports ==
    ASSUME NEW w \in InfluxWorkers, Reports(w),
           backingOffChan'[w] = backingOffChan[w], last'[w] = last[w], printed'[w] = printed[w],
           Delayed(w)' = Delayed(w),
           InCall(w)' /\ (Batch(w) \in delayed)' <=> InCall(w) /\ Batch(w) \in delayed
    PROVE  Reports(w)'
BY DEF Reports, BackingOff

\* A worker tells its goroutine how a write went.
LEMMA TellingReports ==
    ASSUME IInv, NEW w \in InfluxWorkers, Reports(w), NEW this \in BOOLEAN, Tell(w, this),
           influxPc[w] = "tell", last' = last, printed' = printed,
           delayed' = IF this THEN delayed \cup {Batch(w)} ELSE delayed,
           InCall(w)' /\ (Batch(w) \in delayed)' <=> this
    PROVE  Reports(w)'
<1> DEFINE chan == backingOffChan[w]
           first == last[w]
           before == Latest(chan, first)
           n == Len(chan)
<1>1. chan \in Seq(BOOLEAN) /\ first \in BOOLEAN /\ backingOffChan'[w] = Append(chan, this)
      /\ last'[w] = first /\ printed'[w] = printed[w] /\ printed[w] \in Nat
  BY DEF IInv, TypeOK, Tell
<1>2. before <=> Batch(w) \in delayed
  BY DEF Reports, BackingOff, InCall
<1>3. /\ IsFiniteSet(Delayed(w))
      /\ Cardinality(Delayed(w)) =
             printed[w] + Cardinality(Ends(chan, first)) + (IF before THEN 1 ELSE 0)
  BY DEF Reports, BackingOff
<1> HIDE DEF chan, first
<1>4. /\ Latest(Append(chan, this), first) = this
      /\ Ends(Append(chan, this), first) =
             Ends(chan, first) \cup (IF EndsBackoff(this, before) THEN {n + 1} ELSE {})
      /\ n + 1 \notin Ends(chan, first)
  BY <1>1, Sending
<1>5. IsFiniteSet(Ends(chan, first)) /\ Cardinality(Ends(chan, first)) \in Nat
  BY <1>1, EndsFinite
<1>6. BackingOff(w)' = this
  BY <1>1, <1>4 DEF BackingOff
<1> HIDE DEF before, n
<1>7. CASE this
  <2>1. ~EndsBackoff(this, before)
    BY <1>7 DEF EndsBackoff
  <2>2. Ends(Append(chan, this), first) = Ends(chan, first)
    BY <1>4, <2>1
  <2>3. Delayed(w)' = Delayed(w) \cup {Batch(w)}
    BY <1>7 DEF Delayed, Batch
  <2>4. Batch(w) \in Delayed(w) <=> before
    BY <1>2 DEF Delayed, Batch
  <2>5. IsFiniteSet(Delayed(w)')
        /\ Cardinality(Delayed(w)') = Cardinality(Delayed(w)) + (IF before THEN 0 ELSE 1)
    <3>1. CASE before
      <4>1. Delayed(w)' = Delayed(w)
        BY <2>3, <2>4, <3>1
      <4> QED
        BY <1>1, <1>3, <1>5, <3>1, <4>1
    <3>2. CASE ~before
      BY <1>3, <2>3, <2>4, <3>2, FS_AddElement
    <3> QED
      BY <3>1, <3>2
  <2>6. Cardinality(Delayed(w)') =
            printed[w] + Cardinality(Ends(chan, first)) + (IF this THEN 1 ELSE 0)
    BY <1>1, <1>3, <1>5, <1>7, <2>5
  <2> QED
    BY <1>1, <1>6, <2>2, <2>5, <2>6 DEF Reports
<1>8. CASE ~this
  <2>1. EndsBackoff(this, before) <=> before
    BY <1>8 DEF EndsBackoff
  <2>2. Delayed(w)' = Delayed(w)
    BY <1>8 DEF Delayed
  <2>3. Cardinality(Ends(Append(chan, this), first)) =
            Cardinality(Ends(chan, first)) + (IF before THEN 1 ELSE 0)
    <3>1. CASE before
      BY <1>4, <1>5, <2>1, <3>1, FS_AddElement
    <3>2. CASE ~before
      <4>1. Ends(Append(chan, this), first) = Ends(chan, first)
        BY <1>4, <2>1, <3>2
      <4> QED
        BY <1>5, <3>2, <4>1
    <3> QED
      BY <3>1, <3>2
  <2>4. Cardinality(Delayed(w)) =
            printed[w] + Cardinality(Ends(Append(chan, this), first)) + (IF this THEN 1 ELSE 0)
    <3>1. (IF this THEN 1 ELSE 0) = 0
      BY <1>8
    <3>2. printed[w] \in Nat
      BY <1>1
    <3> QED
      BY ONLY <1>3, <1>5, <2>3, <3>1, <3>2
  <2> QED
    BY <1>1, <1>3, <1>6, <2>2, <2>4 DEF Reports
<1> QED
  BY <1>7, <1>8

\* The goroutine takes a message.
LEMMA MessageReports ==
    ASSUME IInv, NEW w \in InfluxWorkers, Reports(w), Message(w)
    PROVE  Reports(w)'
<1> DEFINE chan == backingOffChan[w]
           first == last[w]
           this == Head(chan)
           over == EndsBackoff(this, first)
<1>1. chan \in Seq(BOOLEAN) /\ first \in BOOLEAN /\ chan # <<>>
      /\ printed[w] \in Nat
  BY DEF IInv, TypeOK, Message
<1>2. /\ this \in BOOLEAN /\ Tail(chan) \in Seq(BOOLEAN)
      /\ Latest(Tail(chan), this) = Latest(chan, first)
      /\ Cardinality(Ends(chan, first)) =
             Cardinality(Ends(Tail(chan), this)) + (IF over THEN 1 ELSE 0)
  BY <1>1, Receiving
<1>3. last'[w] = this
  <2> DEFINE next == ~over /\ (this \/ first)
  <2>1. last' = [last EXCEPT ![w] = next]
    BY DEF Message
  <2>2. next = this
    <3>1. this \in BOOLEAN /\ first \in BOOLEAN
      BY <1>1, <1>2
    <3> HIDE DEF this, first
    <3> QED
      BY <3>1 DEF EndsBackoff
  <2> HIDE DEF next, this, first, over
  <2>3. last'[w] = next
    BY <2>1 DEF IInv, TypeOK
  <2> QED
    BY <2>2, <2>3
<1>4. printed'[w] = IF over THEN printed[w] + 1 ELSE printed[w]
  <2>1. printed' = [printed EXCEPT ![w] = IF over THEN @ + 1 ELSE @]
    BY DEF Message
  <2> HIDE DEF over
  <2> QED
    BY <2>1 DEF IInv, TypeOK
<1>5. backingOffChan'[w] = Tail(chan) /\ influxPc' = influxPc /\ batch' = batch /\ delayed' = delayed
  BY DEF Message, IInv, TypeOK
<1>6. BackingOff(w)' = BackingOff(w)
  BY <1>2, <1>3, <1>5 DEF BackingOff
<1>7. Cardinality(Ends(Tail(chan), this)) \in Nat
  BY <1>2, EndsFinite
<1>8. /\ IsFiniteSet(Delayed(w))
      /\ Cardinality(Delayed(w)) =
             printed[w] + Cardinality(Ends(chan, first)) + (IF BackingOff(w) THEN 1 ELSE 0)
  BY DEF Reports
<1> HIDE DEF chan, first, this, over
<1>9. Cardinality(Delayed(w)) =
          printed'[w] + Cardinality(Ends(Tail(chan), this)) + (IF BackingOff(w) THEN 1 ELSE 0)
  BY <1>1, <1>2, <1>4, <1>7, <1>8
<1>10. Delayed(w)' = Delayed(w) /\ (InCall(w)' <=> InCall(w)) /\ Batch(w)' = Batch(w)
  BY <1>5 DEF Delayed, InCall, Batch
<1> QED
  BY <1>3, <1>5, <1>6, <1>8, <1>9, <1>10 DEF Reports

\* What a worker and its goroutine do.
LEMMA WorkerReports ==
    ASSUME IInv, NEW w \in InfluxWorkers, Reports(w), Ending(w),
           InfluxBatch(w) \/ Close(w) \/ ProcessBackoffMessages(w)
    PROVE  Reports(w)' /\ Ending(w)'
<1> USE DEF IInv, TypeOK, goVars, dbVars
<1>1. CASE Take(w)
  <2>1. influxPc[w] = "idle" /\ influxPc'[w] = "write" /\ batch'[w] = batch[w] + 1
        /\ UNCHANGED <<backingOffChan, last, printed, mpc, delayed>>
    BY <1>1 DEF Take
  <2>2. <<w, batch[w] + 1>> \notin delayed
    BY DEF Numbered, Past
  <2>3. Reports(w)'
    BY <2>1, <2>2, SameReports DEF Delayed, InCall, Batch
  <2> QED
    BY <2>1, <2>3 DEF Ending
<1>2. CASE Write(w)
  <2>1. influxPc[w] = "write" /\ influxPc'[w] = "tell"
        /\ UNCHANGED <<batch, backingOffChan, last, printed, mpc, delayed>>
    BY <1>2 DEF Write, WriteAnswered
  <2>2. Reports(w)'
    BY <2>1, SameReports DEF Delayed, InCall, Batch
  <2> QED
    BY <2>1, <2>2 DEF Ending
<1>3. CASE BackOff(w)
  <2>1. influxPc[w] = "tell" /\ influxPc'[w] = "write" /\ Tell(w, TRUE) /\ delayed' = delayed \cup {Batch(w)}
        /\ UNCHANGED <<batch, last, printed, mpc>>
    BY <1>3 DEF BackOff
  <2>2. InCall(w)' /\ (Batch(w) \in delayed)'
    BY <2>1 DEF InCall, Batch
  <2>3. Reports(w)'
    BY <2>1, <2>2, TellingReports
  <2> QED
    BY <2>1, <2>3 DEF Ending
<1>4. CASE Settle(w)
  <2>1. influxPc[w] = "tell" /\ influxPc'[w] = "idle" /\ Tell(w, FALSE)
        /\ UNCHANGED <<batch, last, printed, mpc, delayed>>
    BY <1>4 DEF Settle
  <2>2. ~InCall(w)'
    BY <2>1 DEF InCall
  <2>3. Reports(w)'
    BY <2>1, <2>2, TellingReports
  <2> QED
    BY <2>1, <2>3 DEF Ending
<1>5. CASE Close(w)
  <2>1. /\ ~InCall(w) /\ ~InCall(w)'
        /\ UNCHANGED <<batch, backingOffChan, last, printed, mpc, delayed>>
    BY <1>5 DEF Close, CloseChan, Closed, InCall
  <2>2. Reports(w)'
    BY <2>1, SameReports DEF Delayed
  <2> QED
    BY <1>5, <2>1, <2>2 DEF Ending, Close, CloseChan, Closed
<1>6. CASE Message(w)
  BY <1>6, MessageReports DEF Message, Ending
<1>7. CASE MessagesEnd(w)
  <2>1. Reports(w)'
    BY <1>7, SameReports DEF MessagesEnd, Delayed, InCall, Batch
  <2> QED
    BY <1>7, <2>1 DEF MessagesEnd, Ending
<1> QED
  BY <1>1, <1>2, <1>3, <1>4, <1>5, <1>6, <1>7 DEF InfluxBatch, ProcessBackoffMessages

LEMMA ReportedStays ==
    ASSUME IInv, Reported, [InfluxNext]_influxVars
    PROVE  Reported'
<1>1. ASSUME NEW w \in InfluxWorkers, InfluxBatch(w) \/ Close(w) \/ ProcessBackoffMessages(w),
             NEW v \in InfluxWorkers
      PROVE  Reports(v)' /\ Ending(v)'
  <2>1. Reports(v) /\ Ending(v)
    BY DEF Reported
  <2>2. CASE v = w
    BY <1>1, <2>1, <2>2, WorkerReports
  <2>3. CASE v # w
    <3>1. /\ influxPc'[v] = influxPc[v] /\ batch'[v] = batch[v] /\ mpc'[v] = mpc[v]
          /\ backingOffChan'[v] = backingOffChan[v] /\ last'[v] = last[v]
          /\ printed'[v] = printed[v]
          /\ \A n : <<v, n>> \in delayed' <=> <<v, n>> \in delayed
      BY <1>1, <2>3, OthersStay DEF InfluxBatch
    <3>2. delayed' \subseteq Batches /\ delayed \subseteq Batches
      BY StepsKeep DEF IInv, TypeOK
    <3>3. Delayed(v)' = Delayed(v)
      BY <3>1, <3>2 DEF Delayed, Batches
    <3>4. Reports(v)'
      BY <2>1, <3>1, <3>3, SameReports DEF InCall, Batch
    <3> QED
      BY <2>1, <3>1, <3>4 DEF Ending
  <2> QED
    BY <2>2, <2>3
<1>2. ASSUME UNCHANGED influxVars, NEW v \in InfluxWorkers PROVE Reports(v)' /\ Ending(v)'
  <2>1. Reports(v) /\ Ending(v)
    BY DEF Reported
  <2>2. Reports(v)'
    BY <1>2, <2>1, SameReports DEF influxVars, goVars, Delayed, InCall, Batch
  <2> QED
    BY <1>2, <2>1, <2>2 DEF influxVars, goVars, Ending
<1> QED
  BY <1>1, <1>2 DEF InfluxNext, Reported

\* When Close returns (process.go:40) the goroutine has reported each batch that was turned
\* away once, however long its backoff and however far behind it was.
THEOREM EachBackoffIsReported == InfluxSpec => []BackoffsReported
<1>1. ASSUME IInv, Reported PROVE BackoffsReported
  <2> SUFFICES ASSUME NEW w \in InfluxWorkers, influxPc[w] = "closed"
               PROVE  printed[w] = Cardinality({b \in delayed : b[1] = w}) /\ ~last[w]
    BY DEF BackoffsReported, Cardinality, Cardinality
  <2>1. backingOffChan[w] = <<>> /\ Reports(w) /\ printed[w] \in Nat /\ last[w] \in BOOLEAN
    BY <1>1 DEF Reported, Ending, IInv, TypeOK
  <2>2. ~BackingOff(w)
    BY <2>1 DEF Reports, InCall
  <2>3. ~last[w]
    BY <2>1, <2>2 DEF BackingOff, Latest
  <2>4. Ends(backingOffChan[w], last[w]) = {}
    <3>1. DOMAIN backingOffChan[w] = {}
      BY <2>1
    <3> QED
      BY <3>1 DEF Ends
  <2>5. Cardinality(Ends(backingOffChan[w], last[w])) = 0
    BY <2>4, FS_EmptySet
  <2> QED
    BY <2>1, <2>2, <2>3, <2>5 DEF Reports, Delayed
<1> QED
  BY <1>1, Starts, ReportedStays, Invariance, PTL DEF InfluxSpec
-----------------------------------------------------------------------------
(* RedisTimeSeries: lines and their order. *)

\* The loader is set up as it is assumed to be.
ConfOK == redisConf \in Configs

\* What a configuration of the run is.
LEMMA Configured ==
    ASSUME ConfOK
    PROVE  /\ redisConf.points \in Seq([host : Hosts, measurement : Measurements])
           /\ redisConf.single \in BOOLEAN /\ redisConf.connections \in Nat \ {0} /\ redisConf.pipeline \in Nat
           /\ redisConf.tag \in [Hosts -> Nat] /\ redisConf.md5 \in [Hosts -> Nat]
           /\ NumRedisWorkers \in Nat \ {0} /\ RedisBatchSize \in Nat \ {0}
BY RedisAssumption DEF ConfOK

LEMMA PointsAndFields ==
    ASSUME ConfOK, NEW n \in DOMAIN redisConf.points
    PROVE  /\ n \in Nat /\ NumFields(n) \in Nat
           /\ redisConf.points[n].host \in Hosts /\ redisConf.points[n].measurement \in Measurements
           /\ DOMAIN FieldsOf[redisConf.points[n].measurement] = 1..NumFields(n)
<1> DEFINE S == [host : Hosts, measurement : Measurements]
<1>1. redisConf.points[n] \in S /\ n \in Nat
  <2>1. redisConf.points \in Seq(S)
    BY Configured
  <2> HIDE DEF S
  <2> QED
    BY <2>1
<1>2. FieldsOf[redisConf.points[n].measurement] \in Seq(STRING)
  BY <1>1, RedisAssumption DEF ConfOK
<1> QED
  BY <1>1, <1>2 DEF NumFields

\* A place is a point of the file and a field of it, or the end.
LEMMA PlacesAre ==
    ASSUME ConfOK
    PROVE  \A l : l \in Places <=>
               \E n \in DOMAIN redisConf.points : \E k \in 1..(NumFields(n) + 1) : l = [point |-> n, field |-> k]
BY DEF Places

LEMMA PlaceTypes ==
    ASSUME ConfOK, NEW l \in Places
    PROVE  /\ l.point \in DOMAIN redisConf.points /\ l.point \in Nat /\ NumFields(l.point) \in Nat
           /\ l.field \in 1..(NumFields(l.point) + 1)
           /\ l = [point |-> l.point, field |-> l.field]
           /\ Point(l).host \in Hosts
<1>1. PICK n \in DOMAIN redisConf.points : \E k \in 1..(NumFields(n) + 1) : l = [point |-> n, field |-> k]
  BY PlacesAre
<1>2. PICK k \in 1..(NumFields(n) + 1) : l = [point |-> n, field |-> k]
  BY <1>1
<1> QED
  BY <1>2, PointsAndFields DEF Point

LEMMA BeforeIsAnOrder ==
    ASSUME ConfOK, NEW l \in Places, NEW m \in Places
    PROVE  /\ ~Before(l, l)
           /\ \/ Before(l, m) \/ Before(m, l) \/ l = m
           /\ \A k \in Places : Before(k, l) /\ Before(l, m) => Before(k, m)
<1>1. \A k \in Places : k.point \in Nat /\ k.field \in Nat /\ k = [point |-> k.point, field |-> k.field]
  BY PlaceTypes
<1> QED
  BY <1>1 DEF Before

\* Some lines have a first.
LEMMA FirstIs ==
    ASSUME ConfOK, NEW S \in SUBSET Places, S # {}
    PROVE  First(S) \in S /\ \A m \in S : ~Before(m, First(S))
<1>1. \A k \in S : k.point \in Nat /\ k.field \in Nat
  BY PlaceTypes
<1> DEFINE P == {k.point : k \in S}
<1>2. PICK p \in P : \A x \in P : p <= x
  BY <1>1, LeastNumber
<1> DEFINE F == {k.field : k \in {j \in S : j.point = p}}
<1>3. F \in SUBSET Nat /\ F # {}
  BY <1>1, <1>2
<1>4. PICK f \in F : \A x \in F : f <= x
  BY <1>3, LeastNumber
<1>5. PICK l \in S : l.point = p /\ l.field = f
  BY <1>4
<1>6. \A m \in S : ~Before(m, l)
  <2> SUFFICES ASSUME NEW m \in S PROVE ~Before(m, l)
    OBVIOUS
  <2>1. l.point <= m.point
    BY <1>2, <1>5
  <2>2. m.point = l.point => l.field <= m.field
    BY <1>4, <1>5
  <2> QED
    BY <1>1, <2>1, <2>2 DEF Before
<1>7. \E x \in S : \A m \in S : ~Before(m, x)
  BY <1>6
<1> QED
  BY <1>7 DEF First

LEMMA PlacesFinite ==
    ASSUME ConfOK
    PROVE  IsFiniteSet(Places)
<1> DEFINE Of(p) == {[point |-> p, field |-> k] : k \in 1..(NumFields(p) + 1)}
           all == {Of(n) : n \in DOMAIN redisConf.points}
<1>1. ASSUME NEW n \in DOMAIN redisConf.points
      PROVE  IsFiniteSet(Of(n))
  <2>1. NumFields(n) \in Nat
    BY PointsAndFields
  <2>2. IsFiniteSet(1..(NumFields(n) + 1))
    BY <2>1, FS_Interval
  <2> DEFINE f == [k \in 1..(NumFields(n) + 1) |-> [point |-> n, field |-> k]]
  <2>3. f \in Surjection(1..(NumFields(n) + 1), Of(n))
    BY DEF Surjection
  <2> QED
    BY <2>2, <2>3, FS_Surjection
<1>2. IsFiniteSet(all)
  <2>1. PICK c \in Nat : DOMAIN redisConf.points = 1..c
    BY Configured
  <2>2. IsFiniteSet(DOMAIN redisConf.points)
    BY <2>1, FS_Interval
  <2> DEFINE f == [n \in DOMAIN redisConf.points |-> Of(n)]
  <2>3. f \in Surjection(DOMAIN redisConf.points, all)
    BY DEF Surjection
  <2> HIDE DEF f, all
  <2> QED
    BY <2>2, <2>3, FS_Surjection
<1>3. \A T \in all : IsFiniteSet(T)
  BY <1>1
<1>4. Places = UNION all
  BY DEF Places
<1> HIDE DEF all
<1> QED
  BY <1>2, <1>3, <1>4, FS_UNION

\* The first lines of a queue: with a line of them go those before it.
LEMMA FirstOfIs ==
    ASSUME ConfOK, NEW S \in SUBSET Places, NEW n \in Nat
    PROVE  /\ FirstOf(n, S) \subseteq S
           /\ IsFiniteSet(FirstOf(n, S)) /\ Cardinality(FirstOf(n, S)) \in Nat
           /\ \A l \in FirstOf(n, S), m \in S : Before(m, l) => m \in FirstOf(n, S)
<1>1. FirstOf(n, S) \subseteq S /\ FirstOf(n, S) \in SUBSET Places
  BY DEF FirstOf
<1>2. IsFiniteSet(FirstOf(n, S)) /\ Cardinality(FirstOf(n, S)) \in Nat
  BY <1>1, PlacesFinite, FS_Subset, FS_CardinalityType
<1>3. ASSUME NEW l \in FirstOf(n, S), NEW m \in S, Before(m, l)
      PROVE  m \in FirstOf(n, S)
  <2> DEFINE A == {x \in S : Before(x, m)}
             B == {x \in S : Before(x, l)}
  <2>1. A \in SUBSET B
    BY <1>1, <1>3, BeforeIsAnOrder
  <2>2. IsFiniteSet(B) /\ B \in SUBSET Places
    BY PlacesFinite, FS_Subset
  <2>3. Cardinality(A) <= Cardinality(B) /\ Cardinality(A) \in Nat /\ Cardinality(B) \in Nat
    <3> HIDE DEF A, B
    <3> QED
      BY <2>1, <2>2, FS_Subset, FS_CardinalityType
  <2>4. Cardinality(B) < n
    BY DEF FirstOf
  <2>5. Cardinality(A) < n
    <3> HIDE DEF A, B
    <3> QED
      BY <2>3, <2>4
  <2> QED
    BY <2>5 DEF FirstOf
<1> QED
  BY <1>1, <1>2, <1>3
-----------------------------------------------------------------------------
(* Types, and where lines can be. *)

PerWorkerAndConnection(S) == [RedisWorkers -> [Connections -> S]]

RedisTypeOK ==
    /\ ConfOK
    /\ redisQueues \in [Queues -> SUBSET Lines]
    /\ redisPc \in [RedisWorkers -> {"idle", "wait"}]
    /\ rows \in PerWorkerAndConnection(SUBSET Lines)
    /\ pipe \in PerWorkerAndConnection(SUBSET Lines)
    /\ curPipe \in PerWorkerAndConnection(Nat)
    /\ finished \in PerWorkerAndConnection(BOOLEAN)
    /\ metrics \in [RedisWorkers -> [buflen : Nat, counts : Nat, sum : Nat]]
    /\ metricCnt \in Nat /\ rowCnt \in Nat

\* The lines of a host come to one queue, and within a batch to one connection.
AtHome ==
    /\ \A q \in Queues : \A l \in redisQueues[q] : RedisIndex(l) = q
    /\ \A w \in RedisWorkers, i \in Connections : \A l \in rows[w][i] \cup pipe[w][i] :
           ConnectionOf(l) = i /\ RedisIndex(l) = QueueOf(w)

\* A connection leaves nothing behind.
NothingLeft ==
    /\ \A w \in RedisWorkers, i \in Connections :
           /\ redisPc[w] = "idle" => finished[w][i]
           /\ finished[w][i] => rows[w][i] = {} /\ pipe[w][i] = {}
           /\ curPipe[w][i] = 0 => pipe[w][i] = {}
    /\ \A w \in RedisWorkers : redisPc[w] = "idle" => metrics[w].sum = 0

CInv == RedisTypeOK /\ AtHome /\ NothingLeft

\* What depends on the configuration only.
LEMMA SameConf ==
    ASSUME redisConf' = redisConf
    PROVE  /\ ConfOK => ConfOK'
           /\ Places' = Places /\ Lines' = Lines /\ Connections' = Connections /\ Queues' = Queues
           /\ \A l : Point(l)' = Point(l) /\ IsMadd(l)' = IsMadd(l) /\ FieldName(l)' = FieldName(l)
           /\ \A l : RedisIndex(l)' = RedisIndex(l) /\ ConnectionOf(l)' = ConnectionOf(l)
           /\ \A l : SamplesOf(l)' = SamplesOf(l)
           /\ \A w : QueueOf(w)' = QueueOf(w)
           /\ \A x : NeverCreated(x)' = NeverCreated(x)
           /\ \A S : PerWorkerAndConnection(S)' = PerWorkerAndConnection(S)
<1>1. ConfOK => ConfOK'
  BY DEF ConfOK
<1> QED
  BY <1>1 DEF Places, Lines, Connections, Queues, Point, IsMadd, FieldName, RedisIndex, ConnectionOf,
              SamplesOf, QueueOf, NeverCreated, PerWorkerAndConnection, New, Key, NumFields

LEMMA QueuesOfWorkers ==
    ASSUME ConfOK
    PROVE  /\ \A w \in RedisWorkers : QueueOf(w) \in Queues
           /\ \A l \in Places : RedisIndex(l) \in Queues /\ ConnectionOf(l) \in Connections
<1>1. 0 \in RedisWorkers /\ Cardinality(RedisWorkers) = NumRedisWorkers /\ Cardinality({0}) = 1
  <2>1. NumRedisWorkers \in Nat \ {0}
    BY Configured
  <2>2. 0 \in RedisWorkers /\ Cardinality(RedisWorkers) = NumRedisWorkers
    BY <2>1, FS_Interval DEF RedisWorkers
  <2> QED
    BY <2>2, FS_Singleton
<1>2. \A w \in RedisWorkers : QueueOf(w) \in Queues
  BY <1>1 DEF QueueOf, Queues
<1>3. ASSUME NEW l \in Places
      PROVE  RedisIndex(l) \in Queues
  <2>1. redisConf.md5[Point(l).host] \in Nat
    BY PlaceTypes, Configured
  <2>2. CASE redisConf.single
    <3>1. Queues = {0} /\ RedisIndex(l) = redisConf.md5[Point(l).host] % 1
      BY <1>1, <2>2 DEF Queues, RedisIndex
    <3> QED
      BY <2>1, <3>1
  <2>3. CASE ~redisConf.single
    <3>1. Queues = RedisWorkers /\ RedisIndex(l) = redisConf.md5[Point(l).host] % NumRedisWorkers
      BY <1>1, <2>3 DEF Queues, RedisIndex
    <3>2. redisConf.md5[Point(l).host] % NumRedisWorkers \in 0..(NumRedisWorkers - 1)
      BY <2>1, Configured
    <3> QED
      BY <3>1, <3>2 DEF RedisWorkers
  <2> QED
    BY <2>2, <2>3
<1>4. ASSUME NEW l \in Places
      PROVE  ConnectionOf(l) \in Connections
  <2>1. redisConf.tag[Point(l).host] \in Nat
    BY PlaceTypes, Configured
  <2> QED
    BY <2>1, Configured DEF ConnectionOf, Connections
<1> QED
  BY <1>2, <1>3, <1>4

LEMMA LinesArePlaces ==
    ASSUME ConfOK
    PROVE  Lines \subseteq Places /\ IsFiniteSet(Lines)
BY PlacesFinite, FS_Subset DEF Lines

\* The batch of a worker: some lines of its queue, with a line those before it.
LEMMA TheBatch ==
    ASSUME RedisTypeOK, NEW w \in RedisWorkers
    PROVE  LET left == redisQueues[QueueOf(w)]
               theBatch == FirstOf(RedisBatchSize, left)
           IN  /\ QueueOf(w) \in Queues
               /\ left \subseteq Lines /\ theBatch \subseteq left
               /\ IsFiniteSet(theBatch) /\ Cardinality(theBatch) \in Nat
               /\ \A l \in theBatch, m \in left : Before(m, l) => m \in theBatch
               /\ \A l \in theBatch : ConnectionOf(l) \in Connections
<1>1. ConfOK /\ QueueOf(w) \in Queues
  BY QueuesOfWorkers DEF RedisTypeOK
<1>2. redisQueues[QueueOf(w)] \subseteq Lines /\ redisQueues[QueueOf(w)] \in SUBSET Places
  BY <1>1, LinesArePlaces DEF RedisTypeOK
<1>3. RedisBatchSize \in Nat
  BY <1>1, Configured
<1> QED
  BY <1>1, <1>2, <1>3, FirstOfIs, QueuesOfWorkers

\* A line is sent, the first that is waiting for the connection.
Sends(w, i) ==
    \E l \in rows[w][i] :
        /\ \A m \in rows[w][i] : ~Before(m, l)
        /\ rows' = [rows EXCEPT ![w][i] = @ \ {l}]
        /\ pipe' = [pipe EXCEPT ![w][i] = @ \cup {l}]
        /\ UNCHANGED <<redisConf, redisQueues, series, storedSamples, dropped>>

\* A line is executed, the first that was sent on the connection.
Executes(w, i) ==
    \E l \in pipe[w][i] :
        /\ \A m \in pipe[w][i] : ~Before(m, l)
        /\ pipe' = [pipe EXCEPT ![w][i] = @ \ {l}]
        /\ UNCHANGED <<redisConf, redisQueues, rows>>
        /\ \/ /\ ~IsMadd(l)
              /\ series' = series \cup {SeriesOf(Point(l), FieldName(l))}
              /\ UNCHANGED <<storedSamples, dropped>>
           \/ IsMadd(l) /\ ExecuteMadd(l)

Rests == UNCHANGED <<redisConf, redisQueues, rows, pipe, series, storedSamples, dropped>>

LEMMA FirstWaiting ==
    ASSUME RedisTypeOK, NEW w \in RedisWorkers, NEW i \in Connections
    PROVE  /\ rows[w][i] # {} => /\ First(rows[w][i]) \in rows[w][i]
                                 /\ \A m \in rows[w][i] : ~Before(m, First(rows[w][i]))
           /\ pipe[w][i] # {} => /\ First(pipe[w][i]) \in pipe[w][i]
                                 /\ \A m \in pipe[w][i] : ~Before(m, First(pipe[w][i]))
<1>1. ConfOK /\ rows[w][i] \in SUBSET Places /\ pipe[w][i] \in SUBSET Places
  BY LinesArePlaces DEF RedisTypeOK, PerWorkerAndConnection
<1> QED
  BY <1>1, FirstIs

LEMMA SendsIsSending ==
    ASSUME RedisTypeOK, NEW w \in RedisWorkers, NEW i \in Connections, NEW n, rows[w][i] # {},
           SendNext(w, i, n), UNCHANGED <<redisConf, redisQueues, series, storedSamples, dropped>>
    PROVE  Sends(w, i)
BY FirstWaiting DEF SendNext, Sends

\* What a step does to the lines.
LEMMA StepKinds ==
    ASSUME RedisTypeOK, [RedisNext]_redisVars
    PROVE  \/ \E w \in RedisWorkers : Dispatch(w)
           \/ \E w \in RedisWorkers, i \in Connections : Sends(w, i) \/ Executes(w, i)
           \/ Rests
<1>1. ASSUME NEW w \in RedisWorkers, NEW i \in Connections, Send(w, i) PROVE Sends(w, i)
  BY <1>1, SendsIsSending DEF Send, workVars, serverVars
<1>2. ASSUME NEW w \in RedisWorkers, NEW i \in Connections, FlushAndSend(w, i) PROVE Sends(w, i)
  BY <1>2, SendsIsSending DEF FlushAndSend, workVars, serverVars
<1>3. ASSUME NEW w \in RedisWorkers, NEW i \in Connections, Leave(w, i) PROVE Rests
  BY <1>3 DEF Leave, Rests, workVars, serverVars
<1>4. ASSUME NEW w \in RedisWorkers, NEW i \in Connections, Fatal(w, i) PROVE Rests
  BY <1>4 DEF Fatal, Rests, workVars, connVars, serverVars
<1>5. ASSUME NEW w \in RedisWorkers, NEW i \in Connections, Execute(w, i) PROVE Executes(w, i)
  BY <1>5, FirstWaiting DEF Execute, ExecuteCreate, ExecuteMadd, Executes, workVars
<1>6. ASSUME NEW w \in RedisWorkers, Collect(w) PROVE Rests
  BY <1>6 DEF Collect, Rests, serverVars
<1>7. CASE UNCHANGED redisVars
  BY <1>7 DEF redisVars, Rests, workVars, connVars, serverVars
<1> QED
  BY <1>1, <1>2, <1>3, <1>4, <1>5, <1>6, <1>7 DEF RedisNext, Step, Worker, Connection

LEMMA ControlInitially == RedisInit => CInv
<1> SUFFICES ASSUME RedisInit PROVE CInv
  OBVIOUS
<1> USE DEF RedisInit
<1>1. RedisTypeOK
  BY DEF ConfOK, RedisTypeOK, PerWorkerAndConnection, PerConnection
<1>2. AtHome
  BY DEF AtHome, PerConnection
<1>3. NothingLeft
  BY DEF NothingLeft, PerConnection
<1> QED
  BY <1>1, <1>2, <1>3 DEF CInv

\* Types in terms of what does not change.
LEMMA TypesOfTheNext ==
    ASSUME redisConf' = redisConf, ConfOK,
           redisQueues' \in [Queues -> SUBSET Lines],
           redisPc' \in [RedisWorkers -> {"idle", "wait"}],
           rows' \in PerWorkerAndConnection(SUBSET Lines),
           pipe' \in PerWorkerAndConnection(SUBSET Lines),
           curPipe' \in PerWorkerAndConnection(Nat),
           finished' \in PerWorkerAndConnection(BOOLEAN),
           metrics' \in [RedisWorkers -> [buflen : Nat, counts : Nat, sum : Nat]],
           metricCnt' \in Nat, rowCnt' \in Nat
    PROVE  RedisTypeOK'
BY SameConf DEF RedisTypeOK

LEMMA DispatchKeepsControl ==
    ASSUME CInv, NEW w \in RedisWorkers, Dispatch(w)
    PROVE  CInv'
<1> USE DEF CInv
<1> DEFINE left == redisQueues[QueueOf(w)]
           theBatch == FirstOf(RedisBatchSize, left)
           n == Cardinality(theBatch)
<1>1. /\ redisPc[w] = "idle"
      /\ redisQueues' = [redisQueues EXCEPT ![QueueOf(w)] = @ \ theBatch]
      /\ rows' = [rows EXCEPT ![w] = [i \in Connections |-> {l \in theBatch : ConnectionOf(l) = i}]]
      /\ metrics' = [metrics EXCEPT ![w] = [buflen |-> n + 1, counts |-> 0, sum |-> 0]]
      /\ rowCnt' = rowCnt + n
      /\ curPipe' = [curPipe EXCEPT ![w] = PerConnection(0)]
      /\ finished' = [finished EXCEPT ![w] = PerConnection(FALSE)]
      /\ redisPc' = [redisPc EXCEPT ![w] = "wait"]
      /\ UNCHANGED <<redisConf, pipe, metricCnt>>
  BY DEF Dispatch, Buflen
<1>2. QueueOf(w) \in Queues /\ left \subseteq Lines /\ theBatch \subseteq left /\ n \in Nat
  BY TheBatch
<1> HIDE DEF theBatch, n
<1>3. RedisTypeOK'
  BY <1>1, <1>2, TypesOfTheNext DEF RedisTypeOK, PerWorkerAndConnection, PerConnection
<1>4. AtHome'
  <2>1. \A q \in Queues : \A l \in redisQueues'[q] : RedisIndex(l) = q
    BY <1>1, <1>2 DEF RedisTypeOK, AtHome
  <2>2. \A l \in theBatch : RedisIndex(l) = QueueOf(w)
    BY <1>2 DEF AtHome
  <2>3. ASSUME NEW v \in RedisWorkers, NEW i \in Connections, NEW l \in rows'[v][i] \cup pipe'[v][i]
        PROVE  ConnectionOf(l) = i /\ RedisIndex(l) = QueueOf(v)
    <3>1. CASE v = w
      <4>1. rows'[v][i] = {m \in theBatch : ConnectionOf(m) = i} /\ pipe'[v][i] = pipe[v][i]
        BY <1>1, <3>1 DEF RedisTypeOK, PerWorkerAndConnection
      <4> QED
        BY <2>2, <2>3, <3>1, <4>1 DEF AtHome
    <3>2. CASE v # w
      <4>1. rows'[v][i] = rows[v][i] /\ pipe'[v][i] = pipe[v][i]
        BY <1>1, <3>2 DEF RedisTypeOK
      <4> QED
        BY <2>3, <4>1 DEF AtHome
    <3> QED
      BY <3>1, <3>2
  <2> QED
    BY <1>1, <2>1, <2>3, SameConf DEF AtHome
<1>5. NothingLeft'
  <2>1. ASSUME NEW v \in RedisWorkers, NEW i \in Connections
        PROVE  /\ redisPc'[v] = "idle" => finished'[v][i]
               /\ finished'[v][i] => rows'[v][i] = {} /\ pipe'[v][i] = {}
               /\ curPipe'[v][i] = 0 => pipe'[v][i] = {}
    <3>1. CASE v = w
      BY <1>1, <3>1 DEF RedisTypeOK, PerWorkerAndConnection, PerConnection, NothingLeft
    <3>2. CASE v # w
      BY <1>1, <3>2 DEF RedisTypeOK, NothingLeft
    <3> QED
      BY <3>1, <3>2
  <2>2. ASSUME NEW v \in RedisWorkers, redisPc'[v] = "idle"
        PROVE  metrics'[v].sum = 0
    BY <1>1, <2>2 DEF RedisTypeOK, NothingLeft
  <2> QED
    BY <1>1, <2>1, <2>2, SameConf DEF NothingLeft
<1> QED
  BY <1>3, <1>4, <1>5

\* A line is sent and counted in curPipe.
LEMMA SendNextKeepsControl ==
    ASSUME CInv, NEW w \in RedisWorkers, NEW i \in Connections, NEW n \in Nat \ {0},
           rows[w][i] # {}, SendNext(w, i, n), Running(w, i),
           UNCHANGED <<redisConf, workVars, finished>>,
           metrics' \in [RedisWorkers -> [buflen : Nat, counts : Nat, sum : Nat]],
           \A v \in RedisWorkers : v # w => metrics'[v] = metrics[v]
    PROVE  CInv'
<1> USE DEF CInv
<1> DEFINE l == First(rows[w][i])
<1>1. l \in rows[w][i] /\ rows[w][i] \subseteq Lines /\ pipe[w][i] \subseteq Lines
  BY FirstWaiting DEF RedisTypeOK, PerWorkerAndConnection
<1>2. /\ pipe' = [pipe EXCEPT ![w][i] = pipe[w][i] \cup {l}]
      /\ rows' = [rows EXCEPT ![w][i] = rows[w][i] \ {l}]
      /\ curPipe' = [curPipe EXCEPT ![w][i] = n]
      /\ UNCHANGED <<redisQueues, redisPc, metricCnt, rowCnt>>
  BY DEF SendNext, workVars
<1> HIDE DEF l
<1>3. /\ pipe' \in PerWorkerAndConnection(SUBSET Lines)
      /\ pipe'[w][i] = pipe[w][i] \cup {l}
      /\ \A v \in RedisWorkers, j \in Connections : v # w \/ j # i => pipe'[v][j] = pipe[v][j]
  <2>1. pipe \in PerWorkerAndConnection(SUBSET Lines) /\ pipe[w][i] \cup {l} \in SUBSET Lines
    BY <1>1 DEF RedisTypeOK
  <2> QED
    BY <1>2, <2>1 DEF PerWorkerAndConnection
<1>4. /\ rows' \in PerWorkerAndConnection(SUBSET Lines)
      /\ rows'[w][i] = rows[w][i] \ {l}
      /\ \A v \in RedisWorkers, j \in Connections : v # w \/ j # i => rows'[v][j] = rows[v][j]
  <2>1. rows \in PerWorkerAndConnection(SUBSET Lines) /\ rows[w][i] \ {l} \in SUBSET Lines
    BY <1>1 DEF RedisTypeOK
  <2> QED
    BY <1>2, <2>1 DEF PerWorkerAndConnection
<1>5. /\ curPipe' \in PerWorkerAndConnection(Nat)
      /\ curPipe'[w][i] = n
      /\ \A v \in RedisWorkers, j \in Connections : v # w \/ j # i => curPipe'[v][j] = curPipe[v][j]
  <2>1. curPipe \in PerWorkerAndConnection(Nat) /\ n \in Nat
    BY DEF RedisTypeOK
  <2> QED
    BY <1>2, <2>1 DEF PerWorkerAndConnection
<1>6. RedisTypeOK'
  BY <1>2, <1>3, <1>4, <1>5, TypesOfTheNext DEF RedisTypeOK
<1>7. \A v \in RedisWorkers, j \in Connections : rows'[v][j] \cup pipe'[v][j] \subseteq rows[v][j] \cup pipe[v][j]
  BY <1>1, <1>3, <1>4
<1>8. AtHome'
  BY <1>2, <1>7, SameConf DEF AtHome
<1>9. ASSUME NEW v \in RedisWorkers, NEW j \in Connections
      PROVE  /\ redisPc[v] = "idle" => finished[v][j]
             /\ finished[v][j] => rows'[v][j] = {} /\ pipe'[v][j] = {}
             /\ curPipe'[v][j] = 0 => pipe'[v][j] = {}
  <2>1. CASE v # w \/ j # i
    BY <1>3, <1>4, <1>5, <2>1 DEF NothingLeft
  <2>2. CASE v = w /\ j = i
    BY <1>5, <2>2 DEF NothingLeft, Running
  <2> QED
    BY <2>1, <2>2
<1>10. \A v \in RedisWorkers : redisPc[v] = "idle" => metrics'[v].sum = 0
  BY DEF NothingLeft, Running
<1>11. NothingLeft'
  BY <1>2, <1>9, <1>10, SameConf DEF NothingLeft
<1> QED
  BY <1>6, <1>8, <1>11

\* The flush of a connection: what is added to the counts of its worker.
LEMMA FlushCounts ==
    ASSUME RedisTypeOK, NEW w \in RedisWorkers, NEW i \in Connections, FlushAndUpdate(w, i)
    PROVE  /\ pipe[w][i] = {}
           /\ metrics' \in [RedisWorkers -> [buflen : Nat, counts : Nat, sum : Nat]]
           /\ \A v \in RedisWorkers : v # w => metrics'[v] = metrics[v]
           /\ metrics'[w].sum = metrics[w].sum + 10 * curPipe[w][i]
<1>1. /\ pipe[w][i] = {}
      /\ metrics' = [metrics EXCEPT ![w].counts = @ + 1, ![w].sum = @ + MetricsOf(curPipe[w][i])]
  BY DEF FlushAndUpdate
<1>2. curPipe[w][i] \in Nat /\ MetricsOf(curPipe[w][i]) = 10 * curPipe[w][i] /\ 10 * curPipe[w][i] \in Nat
  BY DEF RedisTypeOK, PerWorkerAndConnection, MetricsOf
<1>3. metrics[w] \in [buflen : Nat, counts : Nat, sum : Nat]
  BY DEF RedisTypeOK
<1>4. metrics' = [metrics EXCEPT ![w] = [metrics[w] EXCEPT !.counts = metrics[w].counts + 1,
                                             !.sum = metrics[w].sum + 10 * curPipe[w][i]]]
  BY <1>1, <1>2, <1>3 DEF RedisTypeOK
<1> HIDE DEF FlushAndUpdate
<1> QED
  BY <1>1, <1>2, <1>3, <1>4 DEF RedisTypeOK

LEMMA LeaveKeepsControl ==
    ASSUME CInv, NEW w \in RedisWorkers, NEW i \in Connections, Leave(w, i)
    PROVE  CInv'
<1> USE DEF CInv
<1>1. /\ redisPc[w] = "wait" /\ rows[w][i] = {}
      /\ finished' = [finished EXCEPT ![w][i] = TRUE]
      /\ UNCHANGED <<redisConf, redisQueues, redisPc, metricCnt, rowCnt, rows, pipe, curPipe>>
  BY DEF Leave, Running, workVars
<1>2. /\ pipe[w][i] = {}
      /\ metrics' \in [RedisWorkers -> [buflen : Nat, counts : Nat, sum : Nat]]
      /\ \A v \in RedisWorkers : v # w => metrics'[v] = metrics[v]
  <2>1. CASE curPipe[w][i] > 0
    BY <2>1, FlushCounts DEF Leave
  <2>2. CASE ~(curPipe[w][i] > 0)
    <3>1. curPipe[w][i] = 0 /\ UNCHANGED metrics
      BY <2>2 DEF Leave, RedisTypeOK, PerWorkerAndConnection
    <3> QED
      BY <3>1 DEF NothingLeft, RedisTypeOK
  <2> QED
    BY <2>1, <2>2
<1>3. /\ finished' \in PerWorkerAndConnection(BOOLEAN)
      /\ \A v \in RedisWorkers, j \in Connections : v # w \/ j # i => finished'[v][j] = finished[v][j]
      /\ finished'[w][i]
  <2>1. finished \in PerWorkerAndConnection(BOOLEAN) /\ TRUE \in BOOLEAN
    BY DEF RedisTypeOK
  <2> QED
    BY <1>1, <2>1 DEF PerWorkerAndConnection
<1>4. RedisTypeOK'
  BY <1>1, <1>2, <1>3, TypesOfTheNext DEF RedisTypeOK
<1>5. AtHome'
  BY <1>1, SameConf DEF AtHome
<1>6. ASSUME NEW v \in RedisWorkers, NEW j \in Connections
      PROVE  /\ redisPc[v] = "idle" => finished'[v][j]
             /\ finished'[v][j] => rows[v][j] = {} /\ pipe[v][j] = {}
             /\ curPipe[v][j] = 0 => pipe[v][j] = {}
  BY <1>1, <1>2, <1>3 DEF NothingLeft
<1>7. NothingLeft'
  BY <1>1, <1>2, <1>6, SameConf DEF NothingLeft
<1> QED
  BY <1>4, <1>5, <1>7

LEMMA ExecuteKeepsControl ==
    ASSUME CInv, NEW w \in RedisWorkers, NEW i \in Connections, Execute(w, i)
    PROVE  CInv'
<1> USE DEF CInv
<1> DEFINE l == First(pipe[w][i])
<1>1. /\ pipe' = [pipe EXCEPT ![w][i] = pipe[w][i] \ {l}]
      /\ UNCHANGED <<redisConf, redisQueues, redisPc, metricCnt, rowCnt, rows, curPipe, finished, metrics>>
  BY DEF Execute, workVars
<1> HIDE DEF l
<1>2. /\ pipe' \in PerWorkerAndConnection(SUBSET Lines)
      /\ pipe'[w][i] = pipe[w][i] \ {l}
      /\ \A v \in RedisWorkers, j \in Connections : v # w \/ j # i => pipe'[v][j] = pipe[v][j]
  <2>1. pipe \in PerWorkerAndConnection(SUBSET Lines)
    BY DEF RedisTypeOK
  <2>2. pipe[w][i] \ {l} \in SUBSET Lines
    BY <2>1 DEF PerWorkerAndConnection
  <2> QED
    BY <1>1, <2>1, <2>2 DEF PerWorkerAndConnection
<1>3. RedisTypeOK'
  BY <1>1, <1>2, TypesOfTheNext DEF RedisTypeOK
<1>4. \A v \in RedisWorkers, j \in Connections : pipe'[v][j] \subseteq pipe[v][j]
  BY <1>2
<1>5. AtHome'
  BY <1>1, <1>4, SameConf DEF AtHome
<1>6. NothingLeft'
  BY <1>1, <1>4, SameConf DEF NothingLeft
<1> QED
  BY <1>3, <1>5, <1>6

LEMMA CollectKeepsControl ==
    ASSUME CInv, NEW w \in RedisWorkers, Collect(w)
    PROVE  CInv'
<1> USE DEF CInv
<1>1. /\ \A i \in Connections : finished[w][i]
      /\ metricCnt' = metricCnt + metrics[w].sum
      /\ metrics' = [metrics EXCEPT ![w].counts = 0, ![w].sum = 0]
      /\ redisPc' = [redisPc EXCEPT ![w] = "idle"]
      /\ UNCHANGED <<redisConf, redisQueues, rowCnt, rows, pipe, curPipe, finished>>
  BY DEF Collect, ConnectionsDone
<1>2. metrics[w] \in [buflen : Nat, counts : Nat, sum : Nat]
  BY DEF RedisTypeOK
<1>3. metrics' = [metrics EXCEPT ![w] = [metrics[w] EXCEPT !.counts = 0, !.sum = 0]]
  BY <1>1, <1>2 DEF RedisTypeOK
<1>4. /\ metrics' \in [RedisWorkers -> [buflen : Nat, counts : Nat, sum : Nat]]
      /\ metrics'[w].sum = 0 /\ \A v \in RedisWorkers : v # w => metrics'[v] = metrics[v]
  BY <1>2, <1>3 DEF RedisTypeOK
<1>5. RedisTypeOK'
  BY <1>1, <1>2, <1>4, TypesOfTheNext DEF RedisTypeOK
<1>6. AtHome'
  BY <1>1, SameConf DEF AtHome
<1>7. NothingLeft'
  BY <1>1, <1>4, SameConf DEF NothingLeft, RedisTypeOK
<1> QED
  BY <1>5, <1>6, <1>7

LEMMA ControlKept == CInv /\ [RedisNext]_redisVars => CInv'
<1> SUFFICES ASSUME CInv, [RedisNext]_redisVars PROVE CInv'
  OBVIOUS
<1>1. ASSUME NEW w \in RedisWorkers, Dispatch(w) PROVE CInv'
  BY <1>1, DispatchKeepsControl
<1>2. ASSUME NEW w \in RedisWorkers, NEW i \in Connections, Send(w, i) PROVE CInv'
  <2>1. /\ rows[w][i] # {} /\ SendNext(w, i, curPipe[w][i] + 1) /\ Running(w, i)
        /\ UNCHANGED <<redisConf, workVars, finished>> /\ UNCHANGED metrics
    BY <1>2 DEF Send
  <2>2. curPipe[w][i] + 1 \in Nat \ {0}
    BY DEF CInv, RedisTypeOK, PerWorkerAndConnection
  <2>3. metrics' \in [RedisWorkers -> [buflen : Nat, counts : Nat, sum : Nat]]
    BY <2>1 DEF CInv, RedisTypeOK
  <2> QED
    BY <2>1, <2>2, <2>3, SendNextKeepsControl
<1>3. ASSUME NEW w \in RedisWorkers, NEW i \in Connections, FlushAndSend(w, i) PROVE CInv'
  <2>1. /\ rows[w][i] # {} /\ SendNext(w, i, 1) /\ Running(w, i) /\ FlushAndUpdate(w, i)
        /\ UNCHANGED <<redisConf, workVars, finished>>
    BY <1>3 DEF FlushAndSend
  <2>2. /\ metrics' \in [RedisWorkers -> [buflen : Nat, counts : Nat, sum : Nat]]
        /\ \A v \in RedisWorkers : v # w => metrics'[v] = metrics[v]
    BY <2>1, FlushCounts DEF CInv
  <2> QED
    BY <2>1, <2>2, SendNextKeepsControl
<1>4. ASSUME NEW w \in RedisWorkers, NEW i \in Connections, Leave(w, i) PROVE CInv'
  BY <1>4, LeaveKeepsControl
<1>5. ASSUME NEW w \in RedisWorkers, NEW i \in Connections, Fatal(w, i) PROVE CInv'
  <2>1. UNCHANGED <<redisConf, redisQueues, redisPc, rows, pipe, curPipe, finished, metrics, metricCnt, rowCnt>>
    BY <1>5 DEF Fatal, workVars, connVars
  <2> QED
    BY <2>1, SameConf DEF CInv, RedisTypeOK, AtHome, NothingLeft
<1>6. ASSUME NEW w \in RedisWorkers, NEW i \in Connections, Execute(w, i) PROVE CInv'
  BY <1>6, ExecuteKeepsControl
<1>7. ASSUME NEW w \in RedisWorkers, Collect(w) PROVE CInv'
  BY <1>7, CollectKeepsControl
<1>8. CASE UNCHANGED redisVars
  <2>1. UNCHANGED <<redisConf, redisQueues, redisPc, rows, pipe, curPipe, finished, metrics, metricCnt, rowCnt>>
    BY <1>8 DEF redisVars, workVars, connVars
  <2> QED
    BY <2>1, SameConf DEF CInv, RedisTypeOK, AtHome, NothingLeft
<1> QED
  BY <1>1, <1>2, <1>3, <1>4, <1>5, <1>6, <1>7, <1>8 DEF RedisNext, Step, Worker, Connection
-----------------------------------------------------------------------------
(* Each line is in one place until it is executed, and what is executed is *)
(* stored or dropped.                                                      *)

Held(w, i) == rows[w][i] \cup pipe[w][i]

\* A line of the file that has not been executed.
Pending(l) ==
    \/ \E q \in Queues : l \in redisQueues[q]
    \/ \E w \in RedisWorkers, i \in Connections : l \in Held(w, i)

Distinct ==
    /\ \A w \in RedisWorkers, i \in Connections : rows[w][i] \cap pipe[w][i] = {}
    /\ \A w, v \in RedisWorkers, i, j \in Connections : w # v \/ i # j => Held(w, i) \cap Held(v, j) = {}
    /\ \A w \in RedisWorkers, i \in Connections, q \in Queues : Held(w, i) \cap redisQueues[q] = {}

DoneExactly ==
    /\ \A l \in Lines : IsMadd(l) => \A x \in SamplesOf(l) : x \in storedSamples \cup dropped <=> ~Pending(l)
    /\ \A x \in storedSamples \cup dropped : \E l \in Lines : IsMadd(l) /\ x \in SamplesOf(l)
    /\ storedSamples \cap dropped = {}

DInv == CInv /\ Distinct /\ DoneExactly

\* What a batch taken by a worker moves.
LEMMA DispatchMoves ==
    ASSUME CInv, NEW w \in RedisWorkers, Dispatch(w)
    PROVE  LET theBatch == FirstOf(RedisBatchSize, redisQueues[QueueOf(w)])
           IN  /\ QueueOf(w) \in Queues
               /\ theBatch \subseteq redisQueues[QueueOf(w)]
               /\ redisQueues'[QueueOf(w)] = redisQueues[QueueOf(w)] \ theBatch
               /\ \A q \in Queues : q # QueueOf(w) => redisQueues'[q] = redisQueues[q]
               /\ \A i \in Connections : /\ rows[w][i] = {} /\ pipe[w][i] = {} /\ pipe'[w][i] = {}
                                         /\ rows'[w][i] = {l \in theBatch : ConnectionOf(l) = i}
               /\ \A v \in RedisWorkers, i \in Connections :
                      v # w => rows'[v][i] = rows[v][i] /\ pipe'[v][i] = pipe[v][i]
               /\ \A l \in theBatch : ConnectionOf(l) \in Connections
               /\ UNCHANGED <<redisConf, pipe, series, storedSamples, dropped>>
<1> USE DEF CInv
<1> DEFINE left == redisQueues[QueueOf(w)]
           theBatch == FirstOf(RedisBatchSize, left)
<1>1. /\ redisPc[w] = "idle"
      /\ redisQueues' = [redisQueues EXCEPT ![QueueOf(w)] = @ \ theBatch]
      /\ rows' = [rows EXCEPT ![w] = [i \in Connections |-> {l \in theBatch : ConnectionOf(l) = i}]]
      /\ UNCHANGED <<redisConf, pipe, series, storedSamples, dropped>>
  BY DEF Dispatch, serverVars
<1>2. QueueOf(w) \in Queues /\ theBatch \subseteq left /\ \A l \in theBatch : ConnectionOf(l) \in Connections
  BY TheBatch
<1> HIDE DEF theBatch
<1>3. \A i \in Connections : rows[w][i] = {} /\ pipe[w][i] = {}
  BY <1>1 DEF NothingLeft
<1>4. /\ redisQueues'[QueueOf(w)] = redisQueues[QueueOf(w)] \ theBatch
      /\ \A q \in Queues : q # QueueOf(w) => redisQueues'[q] = redisQueues[q]
  BY <1>1, <1>2 DEF RedisTypeOK
<1>5. /\ \A i \in Connections : rows'[w][i] = {l \in theBatch : ConnectionOf(l) = i}
      /\ \A v \in RedisWorkers, i \in Connections : v # w => rows'[v][i] = rows[v][i]
  BY <1>1 DEF RedisTypeOK, PerWorkerAndConnection
<1>6. /\ QueueOf(w) \in Queues
      /\ theBatch \subseteq redisQueues[QueueOf(w)]
      /\ redisQueues'[QueueOf(w)] = redisQueues[QueueOf(w)] \ theBatch
      /\ \A q \in Queues : q # QueueOf(w) => redisQueues'[q] = redisQueues[q]
      /\ \A i \in Connections : /\ rows[w][i] = {} /\ pipe[w][i] = {} /\ pipe'[w][i] = {}
                                /\ rows'[w][i] = {l \in theBatch : ConnectionOf(l) = i}
      /\ \A v \in RedisWorkers, i \in Connections :
             v # w => rows'[v][i] = rows[v][i] /\ pipe'[v][i] = pipe[v][i]
      /\ \A l \in theBatch : ConnectionOf(l) \in Connections
      /\ UNCHANGED <<redisConf, pipe, series, storedSamples, dropped>>
  BY <1>1, <1>2, <1>3, <1>4, <1>5
<1> QED
  BY <1>6 DEF theBatch

\* What a line sent, and a line executed, moves.
LEMMA SendsMoves ==
    ASSUME CInv, NEW w \in RedisWorkers, NEW i \in Connections, Sends(w, i)
    PROVE  \E l \in rows[w][i] :
               /\ \A m \in rows[w][i] : ~Before(m, l)
               /\ l \in Lines
               /\ rows'[w][i] = rows[w][i] \ {l} /\ pipe'[w][i] = pipe[w][i] \cup {l}
               /\ \A v \in RedisWorkers, j \in Connections :
                      v # w \/ j # i => rows'[v][j] = rows[v][j] /\ pipe'[v][j] = pipe[v][j]
               /\ UNCHANGED <<redisConf, redisQueues, series, storedSamples, dropped>>
<1>1. PICK l \in rows[w][i] :
          /\ \A m \in rows[w][i] : ~Before(m, l)
          /\ rows' = [rows EXCEPT ![w][i] = @ \ {l}]
          /\ pipe' = [pipe EXCEPT ![w][i] = @ \cup {l}]
          /\ UNCHANGED <<redisConf, redisQueues, series, storedSamples, dropped>>
  BY DEF Sends
<1>2. l \in Lines
  BY DEF CInv, RedisTypeOK, PerWorkerAndConnection
<1>3. /\ rows'[w][i] = rows[w][i] \ {l} /\ pipe'[w][i] = pipe[w][i] \cup {l}
      /\ \A v \in RedisWorkers, j \in Connections :
             v # w \/ j # i => rows'[v][j] = rows[v][j] /\ pipe'[v][j] = pipe[v][j]
  BY <1>1 DEF CInv, RedisTypeOK, PerWorkerAndConnection
<1> QED
  BY <1>1, <1>2, <1>3

LEMMA ExecutesMoves ==
    ASSUME CInv, NEW w \in RedisWorkers, NEW i \in Connections, Executes(w, i)
    PROVE  \E l \in pipe[w][i] :
               /\ \A m \in pipe[w][i] : ~Before(m, l)
               /\ l \in Lines
               /\ pipe'[w][i] = pipe[w][i] \ {l}
               /\ \A v \in RedisWorkers, j \in Connections : v # w \/ j # i => pipe'[v][j] = pipe[v][j]
               /\ UNCHANGED <<redisConf, redisQueues, rows>>
               /\ \/ /\ ~IsMadd(l)
                     /\ series' = series \cup {SeriesOf(Point(l), FieldName(l))}
                     /\ UNCHANGED <<storedSamples, dropped>>
                  \/ IsMadd(l) /\ ExecuteMadd(l)
<1>1. PICK l \in pipe[w][i] :
          /\ \A m \in pipe[w][i] : ~Before(m, l)
          /\ pipe' = [pipe EXCEPT ![w][i] = @ \ {l}]
          /\ UNCHANGED <<redisConf, redisQueues, rows>>
          /\ \/ /\ ~IsMadd(l)
                /\ series' = series \cup {SeriesOf(Point(l), FieldName(l))}
                /\ UNCHANGED <<storedSamples, dropped>>
             \/ IsMadd(l) /\ ExecuteMadd(l)
  BY DEF Executes
<1>2. l \in Lines
  BY DEF CInv, RedisTypeOK, PerWorkerAndConnection
<1>3. /\ pipe'[w][i] = pipe[w][i] \ {l}
      /\ \A v \in RedisWorkers, j \in Connections : v # w \/ j # i => pipe'[v][j] = pipe[v][j]
  BY <1>1 DEF CInv, RedisTypeOK, PerWorkerAndConnection
<1> QED
  BY <1>1, <1>2, <1>3

LEMMA DistinctKept ==
    ASSUME CInv, Distinct, [RedisNext]_redisVars
    PROVE  Distinct'
<1>1. ASSUME NEW w \in RedisWorkers, Dispatch(w) PROVE Distinct'
  <2> DEFINE theBatch == FirstOf(RedisBatchSize, redisQueues[QueueOf(w)])
  <2>1. /\ QueueOf(w) \in Queues
        /\ theBatch \subseteq redisQueues[QueueOf(w)]
        /\ redisQueues'[QueueOf(w)] = redisQueues[QueueOf(w)] \ theBatch
        /\ \A q \in Queues : q # QueueOf(w) => redisQueues'[q] = redisQueues[q]
        /\ \A i \in Connections : /\ pipe'[w][i] = {}
                                  /\ rows'[w][i] = {l \in theBatch : ConnectionOf(l) = i}
        /\ \A v \in RedisWorkers, i \in Connections :
               v # w => rows'[v][i] = rows[v][i] /\ pipe'[v][i] = pipe[v][i]
        /\ Connections' = Connections /\ Queues' = Queues
    BY <1>1, DispatchMoves, SameConf
  <2> HIDE DEF theBatch
  <2>2. \A v \in RedisWorkers, i \in Connections :
            Held(v, i)' = IF v = w THEN {l \in theBatch : ConnectionOf(l) = i} ELSE Held(v, i)
    BY <2>1 DEF Held
  <2>3. \A q \in Queues : redisQueues'[q] \subseteq redisQueues[q] /\ redisQueues'[q] \cap theBatch = {}
    <3>1. \A q \in Queues : q # QueueOf(w) => redisQueues[q] \cap theBatch = {}
      BY <2>1 DEF CInv, AtHome
    <3> QED
      BY <2>1, <3>1
  <2>4. \A v \in RedisWorkers, i \in Connections : v # w => Held(v, i) \cap theBatch = {}
    BY <2>1 DEF Distinct
  <2>5. \A v \in RedisWorkers, i \in Connections : rows'[v][i] \cap pipe'[v][i] = {}
    BY <2>1 DEF Distinct
  <2>6. \A u, v \in RedisWorkers, i, j \in Connections :
            u # v \/ i # j => Held(u, i)' \cap Held(v, j)' = {}
    BY <2>2, <2>4 DEF Distinct
  <2>7. \A v \in RedisWorkers, i \in Connections, q \in Queues : Held(v, i)' \cap redisQueues'[q] = {}
    BY <2>2, <2>3 DEF Distinct
  <2> QED
    BY <2>1, <2>5, <2>6, <2>7 DEF Distinct
<1>2. ASSUME NEW w \in RedisWorkers, NEW i \in Connections, Sends(w, i) PROVE Distinct'
  <2>1. PICK l \in rows[w][i] :
            /\ rows'[w][i] = rows[w][i] \ {l} /\ pipe'[w][i] = pipe[w][i] \cup {l}
            /\ \A v \in RedisWorkers, j \in Connections :
                   v # w \/ j # i => rows'[v][j] = rows[v][j] /\ pipe'[v][j] = pipe[v][j]
            /\ UNCHANGED <<redisConf, redisQueues>>
    BY <1>2, SendsMoves
  <2>2. \A v \in RedisWorkers, j \in Connections : Held(v, j)' = Held(v, j)
    <3> SUFFICES ASSUME NEW v \in RedisWorkers, NEW j \in Connections PROVE Held(v, j)' = Held(v, j)
      OBVIOUS
    <3>1. CASE v = w /\ j = i
      BY <2>1, <3>1 DEF Held
    <3>2. CASE v # w \/ j # i
      BY <2>1, <3>2 DEF Held
    <3> QED
      BY <3>1, <3>2
  <2>3. \A v \in RedisWorkers, j \in Connections : rows'[v][j] \cap pipe'[v][j] = {}
    <3> SUFFICES ASSUME NEW v \in RedisWorkers, NEW j \in Connections PROVE rows'[v][j] \cap pipe'[v][j] = {}
      OBVIOUS
    <3>1. CASE v = w /\ j = i
      BY <2>1, <3>1 DEF Distinct
    <3>2. CASE v # w \/ j # i
      BY <2>1, <3>2 DEF Distinct
    <3> QED
      BY <3>1, <3>2
  <2> QED
    BY <2>1, <2>2, <2>3, SameConf DEF Distinct
<1>3. ASSUME NEW w \in RedisWorkers, NEW i \in Connections, Executes(w, i) PROVE Distinct'
  <2>1. \A v \in RedisWorkers, j \in Connections : pipe'[v][j] \subseteq pipe[v][j]
    BY <1>3, ExecutesMoves
  <2>2. UNCHANGED <<redisConf, redisQueues, rows>>
    BY <1>3, ExecutesMoves
  <2>3. \A v \in RedisWorkers, j \in Connections : Held(v, j)' \subseteq Held(v, j)
    BY <2>1, <2>2 DEF Held
  <2> QED
    BY <2>1, <2>2, <2>3, SameConf DEF Distinct
<1>4. CASE Rests
  BY <1>4, SameConf DEF Rests, Distinct, Held
<1> QED
  BY <1>1, <1>2, <1>3, <1>4, StepKinds DEF CInv

\* Only executing a line makes it not pending any more.
LEMMA PendingKept ==
    ASSUME DInv, \/ \E w \in RedisWorkers : Dispatch(w)
                 \/ \E w \in RedisWorkers, i \in Connections : Sends(w, i)
                 \/ Rests
    PROVE  \A l : Pending(l)' <=> Pending(l)
<1>1. ASSUME NEW w \in RedisWorkers, Dispatch(w) PROVE \A l : Pending(l)' <=> Pending(l)
  <2> DEFINE theBatch == FirstOf(RedisBatchSize, redisQueues[QueueOf(w)])
  <2>1. /\ QueueOf(w) \in Queues
        /\ theBatch \subseteq redisQueues[QueueOf(w)]
        /\ redisQueues'[QueueOf(w)] = redisQueues[QueueOf(w)] \ theBatch
        /\ \A q \in Queues : q # QueueOf(w) => redisQueues'[q] = redisQueues[q]
        /\ \A i \in Connections : /\ rows[w][i] = {} /\ pipe[w][i] = {} /\ pipe'[w][i] = {}
                                  /\ rows'[w][i] = {l \in theBatch : ConnectionOf(l) = i}
        /\ \A v \in RedisWorkers, i \in Connections :
               v # w => rows'[v][i] = rows[v][i] /\ pipe'[v][i] = pipe[v][i]
        /\ \A l \in theBatch : ConnectionOf(l) \in Connections
        /\ Connections' = Connections /\ Queues' = Queues
    BY <1>1, DispatchMoves, SameConf DEF DInv
  <2> HIDE DEF theBatch
  <2>2. \A v \in RedisWorkers, i \in Connections :
            Held(v, i)' = IF v = w THEN {l \in theBatch : ConnectionOf(l) = i} ELSE Held(v, i)
    BY <2>1 DEF Held
  <2>3. \A i \in Connections : Held(w, i) = {}
    BY <2>1 DEF Held
  <2> SUFFICES ASSUME NEW l PROVE Pending(l)' <=> Pending(l)
    OBVIOUS
  <2>4. (\E q \in Queues : l \in redisQueues[q]) <=> l \in theBatch \/ (\E q \in Queues : l \in redisQueues'[q])
    BY <2>1
  <2>5. (\E v \in RedisWorkers, i \in Connections : l \in Held(v, i)')
            <=> l \in theBatch \/ (\E v \in RedisWorkers, i \in Connections : l \in Held(v, i))
    BY <2>1, <2>2, <2>3
  <2> QED
    BY <2>1, <2>4, <2>5 DEF Pending
<1>2. ASSUME NEW w \in RedisWorkers, NEW i \in Connections, Sends(w, i)
      PROVE  \A l : Pending(l)' <=> Pending(l)
  <2>1. PICK l \in rows[w][i] :
            /\ rows'[w][i] = rows[w][i] \ {l} /\ pipe'[w][i] = pipe[w][i] \cup {l}
            /\ \A v \in RedisWorkers, j \in Connections :
                   v # w \/ j # i => rows'[v][j] = rows[v][j] /\ pipe'[v][j] = pipe[v][j]
            /\ UNCHANGED <<redisConf, redisQueues>>
    BY <1>2, SendsMoves DEF DInv
  <2>2. \A v \in RedisWorkers, j \in Connections : Held(v, j)' = Held(v, j)
    <3> SUFFICES ASSUME NEW v \in RedisWorkers, NEW j \in Connections PROVE Held(v, j)' = Held(v, j)
      OBVIOUS
    <3>1. CASE v = w /\ j = i
      BY <2>1, <3>1 DEF Held
    <3>2. CASE v # w \/ j # i
      BY <2>1, <3>2 DEF Held
    <3> QED
      BY <3>1, <3>2
  <2> QED
    BY <2>1, <2>2, SameConf DEF Pending
<1>3. CASE Rests
  BY <1>3, SameConf DEF Rests, Pending, Held
<1> QED
  BY <1>1, <1>2, <1>3

LEMMA PendingExecuted ==
    ASSUME DInv, NEW w \in RedisWorkers, NEW i \in Connections, NEW l \in pipe[w][i],
           pipe'[w][i] = pipe[w][i] \ {l},
           \A v \in RedisWorkers, j \in Connections : v # w \/ j # i => pipe'[v][j] = pipe[v][j],
           UNCHANGED <<redisConf, redisQueues, rows>>
    PROVE  Pending(l) /\ \A m : Pending(m)' <=> Pending(m) /\ m # l
<1>1. Pending(l)
  BY DEF Pending, Held
<1>2. Connections' = Connections /\ Queues' = Queues
  BY SameConf
<1>3. ASSUME NEW v \in RedisWorkers, NEW j \in Connections
      PROVE  Held(v, j)' = Held(v, j) \ {l}
  <2>1. CASE v = w /\ j = i
    BY <2>1 DEF Held, DInv, Distinct
  <2>2. CASE v # w \/ j # i
    <3>1. Held(v, j)' = Held(v, j)
      BY <2>2 DEF Held
    <3>2. l \notin Held(v, j)
      <4>1. l \in Held(w, i) /\ Held(w, i) \cap Held(v, j) = {}
        BY <2>2 DEF Held, DInv, Distinct
      <4> QED
        BY <4>1
    <3> QED
      BY <3>1, <3>2
  <2> QED
    BY <2>1, <2>2
<1>4. \A q \in Queues : l \notin redisQueues[q]
  BY DEF Held, DInv, Distinct
<1> QED
  BY <1>1, <1>2, <1>3, <1>4 DEF Pending

\* A point has one line that stores it.
LEMMA OneMaddOfAPoint ==
    ASSUME ConfOK, NEW l \in Lines, NEW m \in Lines, IsMadd(l), IsMadd(m),
           SamplesOf(l) \cap SamplesOf(m) # {}
    PROVE  l = m
<1>1. l.point = m.point
  BY DEF SamplesOf
<1>2. l = [point |-> l.point, field |-> l.field] /\ m = [point |-> m.point, field |-> m.field]
  BY LinesArePlaces, PlaceTypes
<1>3. l.field = m.field
  BY <1>1 DEF IsMadd
<1> QED
  BY <1>1, <1>2, <1>3

LEMMA DoneKept ==
    ASSUME DInv, [RedisNext]_redisVars
    PROVE  DoneExactly'
<1> USE DEF DInv
<1>1. ASSUME \A l : Pending(l)' <=> Pending(l), UNCHANGED <<redisConf, storedSamples, dropped>>
      PROVE  DoneExactly'
  BY <1>1, SameConf DEF DoneExactly
<1>2. ASSUME NEW w \in RedisWorkers, NEW i \in Connections, Executes(w, i) PROVE DoneExactly'
  <2>1. PICK l \in pipe[w][i] :
            /\ l \in Lines
            /\ pipe'[w][i] = pipe[w][i] \ {l}
            /\ \A v \in RedisWorkers, j \in Connections : v # w \/ j # i => pipe'[v][j] = pipe[v][j]
            /\ UNCHANGED <<redisConf, redisQueues, rows>>
            /\ \/ ~IsMadd(l) /\ UNCHANGED <<storedSamples, dropped>>
               \/ IsMadd(l) /\ ExecuteMadd(l)
    BY <1>2, ExecutesMoves
  <2>2. Pending(l) /\ \A m : Pending(m)' <=> Pending(m) /\ m # l
    BY <2>1, PendingExecuted
  <2>3. /\ Lines' = Lines /\ \A m : SamplesOf(m)' = SamplesOf(m)
        /\ \A m : IsMadd(m)' <=> IsMadd(m)
    BY <2>1, SameConf
  <2>4. CASE ~IsMadd(l) /\ UNCHANGED <<storedSamples, dropped>>
    <3>1. \A m \in Lines : IsMadd(m) => (Pending(m)' <=> Pending(m))
      BY <2>2, <2>4
    <3> QED
      BY <2>3, <2>4, <3>1 DEF DoneExactly
  <2>5. CASE IsMadd(l) /\ ExecuteMadd(l)
    <3>1. PICK found \in SUBSET SamplesOf(l) :
              storedSamples' = storedSamples \cup found /\ dropped' = dropped \cup (SamplesOf(l) \ found)
      BY <2>5 DEF ExecuteMadd
    <3>2. storedSamples' \cup dropped' = storedSamples \cup dropped \cup SamplesOf(l)
      BY <3>1
    <3>3. SamplesOf(l) \cap (storedSamples \cup dropped) = {}
      BY <2>1, <2>2, <2>5 DEF DoneExactly
    <3>4. storedSamples' \cap dropped' = {}
      BY <3>1, <3>3 DEF DoneExactly
    <3>5. ASSUME NEW m \in Lines, IsMadd(m), NEW x \in SamplesOf(m)
          PROVE  x \in storedSamples' \cup dropped' <=> ~Pending(m)'
      <4>1. CASE m = l
        BY <2>2, <3>2, <3>5, <4>1
      <4>2. CASE m # l
        <5>1. x \notin SamplesOf(l)
          BY <2>1, <2>5, <3>5, <4>2, OneMaddOfAPoint DEF CInv, RedisTypeOK
        <5>2. Pending(m)' <=> Pending(m)
          BY <2>2, <4>2
        <5>3. x \in storedSamples \cup dropped <=> ~Pending(m)
          BY <3>5 DEF DoneExactly
        <5> QED
          BY <3>2, <5>1, <5>2, <5>3
      <4> QED
        BY <4>1, <4>2
    <3>6. \A x \in storedSamples' \cup dropped' : \E m \in Lines : IsMadd(m) /\ x \in SamplesOf(m)
      BY <2>1, <2>5, <3>2 DEF DoneExactly
    <3> QED
      BY <2>3, <3>4, <3>5, <3>6 DEF DoneExactly
  <2> QED
    BY <2>1, <2>4, <2>5
<1>3. ASSUME NEW w \in RedisWorkers, Dispatch(w) PROVE DoneExactly'
  <2>1. UNCHANGED <<redisConf, storedSamples, dropped>>
    BY <1>3 DEF Dispatch, serverVars
  <2> QED
    BY <1>1, <1>3, <2>1, PendingKept
<1>4. ASSUME NEW w \in RedisWorkers, NEW i \in Connections, Sends(w, i) PROVE DoneExactly'
  <2>1. UNCHANGED <<redisConf, storedSamples, dropped>>
    BY <1>4 DEF Sends
  <2> QED
    BY <1>1, <1>4, <2>1, PendingKept
<1>5. CASE Rests
  <2>1. UNCHANGED <<redisConf, storedSamples, dropped>>
    BY <1>5 DEF Rests
  <2> QED
    BY <1>1, <1>5, <2>1, PendingKept
<1> QED
  BY <1>2, <1>3, <1>4, <1>5, StepKinds DEF CInv

LEMMA DoneInitially == RedisInit => DInv
<1> SUFFICES ASSUME RedisInit PROVE DInv
  OBVIOUS
<1>1. CInv
  BY ControlInitially
<1>2. \A w \in RedisWorkers, i \in Connections : rows[w][i] = {} /\ pipe[w][i] = {}
  BY DEF RedisInit, PerConnection
<1>3. Distinct
  BY <1>2 DEF Distinct, Held
<1>4. \A l \in Lines : Pending(l)
  <2>1. \A l \in Lines : RedisIndex(l) \in Queues
    BY <1>1, LinesArePlaces, QueuesOfWorkers DEF CInv, RedisTypeOK
  <2> QED
    BY <2>1 DEF RedisInit, Pending
<1>5. storedSamples = {} /\ dropped = {}
  BY DEF RedisInit
<1>6. DoneExactly
  BY <1>4, <1>5 DEF DoneExactly
<1> QED
  BY <1>1, <1>3, <1>6 DEF DInv

LEMMA DoneIsInvariant == DInv /\ [RedisNext]_redisVars => DInv'
<1>1. ASSUME DInv, [RedisNext]_redisVars PROVE DInv'
  BY <1>1, ControlKept, DistinctKept, DoneKept DEF DInv
<1> QED
  BY <1>1
-----------------------------------------------------------------------------
(* The order of the file, for the lines of a host. *)

\* The line creates a series, and another line of its host comes after it.
Leads(c, m) == Before(c, m) /\ ~IsMadd(c) /\ Point(c).host = Point(m).host

Created(c) == SeriesOf(Point(c), FieldName(c)) \in series

\* One worker takes the lines of a queue.
OneTaker == redisConf.single => NumRedisWorkers = 1

\* A series is created, or the line that creates it is not behind those after it.
Ordered ==
    OneTaker => \A c, m \in Lines : Leads(c, m) =>
        \/ Created(c)
        \/ /\ \A w \in RedisWorkers : m \in redisQueues[QueueOf(w)] =>
                  c \in redisQueues[QueueOf(w)] \/ (\E i \in Connections : c \in Held(w, i))
           /\ \A w \in RedisWorkers, i \in Connections :
                  /\ m \in rows[w][i] => c \in Held(w, i)
                  /\ m \in pipe[w][i] => c \in pipe[w][i]

OInv == CInv /\ Ordered /\ SamplesKept

LEMMA SameOrder ==
    ASSUME redisConf' = redisConf
    PROVE  OneTaker' = OneTaker /\ \A c, m : Leads(c, m)' <=> Leads(c, m)
BY DEF OneTaker, Leads, Before, IsMadd, Point, NumFields

LEMMA TakersAreApart ==
    ASSUME ConfOK, OneTaker, NEW w \in RedisWorkers, NEW v \in RedisWorkers, QueueOf(w) = QueueOf(v)
    PROVE  w = v
BY Configured DEF OneTaker, QueueOf, RedisWorkers

\* The lines of a host have one queue and one connection.
LEMMA OneWayForAHost ==
    ASSUME NEW c, NEW m, Leads(c, m)
    PROVE  RedisIndex(c) = RedisIndex(m) /\ ConnectionOf(c) = ConnectionOf(m)
BY DEF Leads, RedisIndex, ConnectionOf

LEMMA OrderedByDispatch ==
    ASSUME CInv, Ordered, NEW w \in RedisWorkers, Dispatch(w)
    PROVE  Ordered'
<1> DEFINE theBatch == FirstOf(RedisBatchSize, redisQueues[QueueOf(w)])
<1>1. /\ QueueOf(w) \in Queues
      /\ theBatch \subseteq redisQueues[QueueOf(w)]
      /\ redisQueues'[QueueOf(w)] = redisQueues[QueueOf(w)] \ theBatch
      /\ \A q \in Queues : q # QueueOf(w) => redisQueues'[q] = redisQueues[q]
      /\ \A i \in Connections : /\ rows[w][i] = {} /\ pipe[w][i] = {} /\ pipe'[w][i] = {}
                                /\ rows'[w][i] = {l \in theBatch : ConnectionOf(l) = i}
      /\ \A v \in RedisWorkers, i \in Connections :
             v # w => rows'[v][i] = rows[v][i] /\ pipe'[v][i] = pipe[v][i]
      /\ \A l \in theBatch : ConnectionOf(l) \in Connections
      /\ redisConf' = redisConf /\ series' = series
  BY DispatchMoves
<1>2. \A l \in theBatch, m \in redisQueues[QueueOf(w)] : Before(m, l) => m \in theBatch
  BY TheBatch DEF CInv
<1>3. ConfOK /\ \A v \in RedisWorkers : QueueOf(v) \in Queues
  BY QueuesOfWorkers DEF CInv, RedisTypeOK
<1> HIDE DEF theBatch
<1>4. ASSUME OneTaker, NEW c \in Lines, NEW m \in Lines, Leads(c, m), ~Created(c)
      PROVE  /\ \A v \in RedisWorkers : m \in redisQueues'[QueueOf(v)] =>
                    c \in redisQueues'[QueueOf(v)] \/ (\E i \in Connections : c \in Held(v, i)')
             /\ \A v \in RedisWorkers, i \in Connections :
                    /\ m \in rows'[v][i] => c \in Held(v, i)'
                    /\ m \in pipe'[v][i] => c \in pipe'[v][i]
  <2>1. /\ \A v \in RedisWorkers : m \in redisQueues[QueueOf(v)] =>
               c \in redisQueues[QueueOf(v)] \/ (\E i \in Connections : c \in Held(v, i))
        /\ \A v \in RedisWorkers, i \in Connections :
               /\ m \in rows[v][i] => c \in Held(v, i)
               /\ m \in pipe[v][i] => c \in pipe[v][i]
    BY <1>4 DEF Ordered
  <2>2. m \in redisQueues[QueueOf(w)] => c \in redisQueues[QueueOf(w)]
    BY <1>1, <2>1 DEF Held
  <2>3. m \in redisQueues'[QueueOf(w)] => c \in redisQueues'[QueueOf(w)] \/ (\E i \in Connections : c \in rows'[w][i])
    BY <1>1, <2>2
  <2>4. \A i \in Connections : m \in rows'[w][i] => c \in rows'[w][i]
    <3> SUFFICES ASSUME NEW i \in Connections, m \in rows'[w][i] PROVE c \in rows'[w][i]
      OBVIOUS
    <3>1. m \in theBatch /\ ConnectionOf(m) = i
      BY <1>1
    <3>2. c \in theBatch
      BY <1>1, <1>2, <1>4, <2>2, <3>1 DEF Leads
    <3>3. ConnectionOf(c) = i
      BY <1>4, <3>1, OneWayForAHost
    <3> QED
      BY <1>1, <3>2, <3>3
  <2>5. ASSUME NEW v \in RedisWorkers, v # w
        PROVE  /\ redisQueues'[QueueOf(v)] = redisQueues[QueueOf(v)]
               /\ \A i \in Connections : Held(v, i)' = Held(v, i)
    <3>1. QueueOf(v) # QueueOf(w)
      BY <1>3, <1>4, <2>5, TakersAreApart
    <3> QED
      BY <1>1, <1>3, <2>5, <3>1 DEF Held
  <2>6. \A v \in RedisWorkers : m \in redisQueues'[QueueOf(v)] =>
            c \in redisQueues'[QueueOf(v)] \/ (\E i \in Connections : c \in Held(v, i)')
    <3> SUFFICES ASSUME NEW v \in RedisWorkers, m \in redisQueues'[QueueOf(v)]
                 PROVE  c \in redisQueues'[QueueOf(v)] \/ (\E i \in Connections : c \in Held(v, i)')
      OBVIOUS
    <3>1. CASE v = w
      BY <2>3, <3>1 DEF Held
    <3>2. CASE v # w
      BY <2>1, <2>5, <3>2
    <3> QED
      BY <3>1, <3>2
  <2>7. \A v \in RedisWorkers, i \in Connections :
            /\ m \in rows'[v][i] => c \in Held(v, i)'
            /\ m \in pipe'[v][i] => c \in pipe'[v][i]
    <3> SUFFICES ASSUME NEW v \in RedisWorkers, NEW i \in Connections
                 PROVE  /\ m \in rows'[v][i] => c \in Held(v, i)'
                        /\ m \in pipe'[v][i] => c \in pipe'[v][i]
      OBVIOUS
    <3>1. CASE v = w
      BY <1>1, <2>4, <3>1 DEF Held
    <3>2. CASE v # w
      BY <1>1, <2>1, <2>5, <3>2
    <3> QED
      BY <3>1, <3>2
  <2> QED
    BY <2>6, <2>7
<1>5. \A c : Created(c)' = Created(c)
  BY <1>1, SameConf DEF Created, SeriesOf
<1>6. /\ Connections' = Connections /\ Lines' = Lines /\ OneTaker' = OneTaker
      /\ \A c, m : Leads(c, m)' <=> Leads(c, m)
      /\ \A v : QueueOf(v)' = QueueOf(v)
  BY <1>1, SameConf, SameOrder
<1> QED
  BY <1>4, <1>5, <1>6 DEF Ordered

LEMMA OrderedBySends ==
    ASSUME CInv, Ordered, NEW w \in RedisWorkers, NEW i \in Connections, Sends(w, i)
    PROVE  Ordered'
<1>1. PICK l \in rows[w][i] :
          /\ \A m \in rows[w][i] : ~Before(m, l)
          /\ rows'[w][i] = rows[w][i] \ {l} /\ pipe'[w][i] = pipe[w][i] \cup {l}
          /\ \A v \in RedisWorkers, j \in Connections :
                 v # w \/ j # i => rows'[v][j] = rows[v][j] /\ pipe'[v][j] = pipe[v][j]
          /\ UNCHANGED <<redisConf, redisQueues, series>>
  BY SendsMoves
<1>2. \A v \in RedisWorkers, j \in Connections : Held(v, j)' = Held(v, j)
  <2> SUFFICES ASSUME NEW v \in RedisWorkers, NEW j \in Connections PROVE Held(v, j)' = Held(v, j)
    OBVIOUS
  <2>1. CASE v = w /\ j = i
    BY <1>1, <2>1 DEF Held
  <2>2. CASE v # w \/ j # i
    BY <1>1, <2>2 DEF Held
  <2> QED
    BY <2>1, <2>2
<1>3. ASSUME OneTaker, NEW c \in Lines, NEW m \in Lines, Leads(c, m), ~Created(c)
      PROVE  /\ \A v \in RedisWorkers : m \in redisQueues[QueueOf(v)] =>
                    c \in redisQueues[QueueOf(v)] \/ (\E j \in Connections : c \in Held(v, j))
             /\ \A v \in RedisWorkers, j \in Connections :
                    /\ m \in rows'[v][j] => c \in Held(v, j)
                    /\ m \in pipe'[v][j] => c \in pipe'[v][j]
  <2>1. /\ \A v \in RedisWorkers : m \in redisQueues[QueueOf(v)] =>
               c \in redisQueues[QueueOf(v)] \/ (\E j \in Connections : c \in Held(v, j))
        /\ \A v \in RedisWorkers, j \in Connections :
               /\ m \in rows[v][j] => c \in Held(v, j)
               /\ m \in pipe[v][j] => c \in pipe[v][j]
    BY <1>3 DEF Ordered
  <2>2. ASSUME m \in pipe'[w][i]
        PROVE  c \in pipe'[w][i]
    <3>1. CASE m \in pipe[w][i]
      BY <1>1, <2>1, <3>1
    <3>2. CASE m = l
      <4>1. c \in rows[w][i] \/ c \in pipe[w][i]
        BY <2>1, <3>2 DEF Held
      <4>2. c \notin rows[w][i]
        BY <1>1, <1>3, <3>2 DEF Leads
      <4> QED
        BY <1>1, <4>1, <4>2
    <3> QED
      BY <1>1, <2>2, <3>1, <3>2
  <2>3. ASSUME NEW v \in RedisWorkers, NEW j \in Connections
        PROVE  /\ m \in rows'[v][j] => c \in Held(v, j)
               /\ m \in pipe'[v][j] => c \in pipe'[v][j]
    <3>1. CASE v = w /\ j = i
      BY <1>1, <2>1, <2>2, <3>1
    <3>2. CASE v # w \/ j # i
      BY <1>1, <2>1, <3>2
    <3> QED
      BY <3>1, <3>2
  <2> QED
    BY <2>1, <2>3
<1>4. \A c : Created(c)' = Created(c)
  BY <1>1, SameConf DEF Created, SeriesOf
<1>5. /\ Connections' = Connections /\ Lines' = Lines /\ OneTaker' = OneTaker
      /\ \A c, m : Leads(c, m)' <=> Leads(c, m)
      /\ \A v : QueueOf(v)' = QueueOf(v)
  BY <1>1, SameConf, SameOrder
<1> QED
  BY <1>1, <1>2, <1>3, <1>4, <1>5 DEF Ordered

LEMMA OrderedByExecutes ==
    ASSUME CInv, Ordered, NEW w \in RedisWorkers, NEW i \in Connections, Executes(w, i)
    PROVE  Ordered'
<1>1. PICK l \in pipe[w][i] :
          /\ \A m \in pipe[w][i] : ~Before(m, l)
          /\ pipe'[w][i] = pipe[w][i] \ {l}
          /\ \A v \in RedisWorkers, j \in Connections : v # w \/ j # i => pipe'[v][j] = pipe[v][j]
          /\ UNCHANGED <<redisConf, redisQueues, rows>>
          /\ \/ ~IsMadd(l) /\ series' = series \cup {SeriesOf(Point(l), FieldName(l))}
             \/ IsMadd(l) /\ ExecuteMadd(l)
  BY ExecutesMoves
<1>2. series \subseteq series' /\ (~IsMadd(l) => SeriesOf(Point(l), FieldName(l)) \in series')
  BY <1>1 DEF ExecuteMadd
<1>3. \A c : Created(c)' <=> SeriesOf(Point(c), FieldName(c)) \in series'
  BY <1>1, SameConf DEF Created, SeriesOf
<1>4. ASSUME NEW v \in RedisWorkers, NEW j \in Connections, NEW c, ~IsMadd(c), ~Created(c)'
      PROVE  /\ c \in pipe[v][j] => c \in pipe'[v][j]
             /\ c \in Held(v, j) => c \in Held(v, j)'
  <2>1. c # l
    BY <1>2, <1>3, <1>4
  <2>2. c \in pipe[v][j] => c \in pipe'[v][j]
    <3>1. CASE v = w /\ j = i
      BY <1>1, <2>1, <3>1
    <3>2. CASE v # w \/ j # i
      BY <1>1, <3>2
    <3> QED
      BY <3>1, <3>2
  <2> QED
    BY <1>1, <2>2 DEF Held
<1>5. \A v \in RedisWorkers, j \in Connections : pipe'[v][j] \subseteq pipe[v][j]
  BY <1>1
<1>6. ASSUME OneTaker, NEW c \in Lines, NEW m \in Lines, Leads(c, m), ~Created(c)'
      PROVE  /\ \A v \in RedisWorkers : m \in redisQueues[QueueOf(v)] =>
                    c \in redisQueues[QueueOf(v)] \/ (\E j \in Connections : c \in Held(v, j)')
             /\ \A v \in RedisWorkers, j \in Connections :
                    /\ m \in rows[v][j] => c \in Held(v, j)'
                    /\ m \in pipe'[v][j] => c \in pipe'[v][j]
  <2>1. ~Created(c)
    BY <1>2, <1>3, <1>6 DEF Created
  <2>2. /\ \A v \in RedisWorkers : m \in redisQueues[QueueOf(v)] =>
               c \in redisQueues[QueueOf(v)] \/ (\E j \in Connections : c \in Held(v, j))
        /\ \A v \in RedisWorkers, j \in Connections :
               /\ m \in rows[v][j] => c \in Held(v, j)
               /\ m \in pipe[v][j] => c \in pipe[v][j]
    BY <1>6, <2>1 DEF Ordered
  <2>3. ~IsMadd(c)
    BY <1>6 DEF Leads
  <2> QED
    BY <1>4, <1>5, <1>6, <2>2, <2>3
<1>7. /\ Connections' = Connections /\ Lines' = Lines /\ OneTaker' = OneTaker
      /\ \A c, m : Leads(c, m)' <=> Leads(c, m)
      /\ \A v : QueueOf(v)' = QueueOf(v)
  BY <1>1, SameConf, SameOrder
<1> QED
  BY <1>1, <1>6, <1>7 DEF Ordered

LEMMA OrderedKept ==
    ASSUME CInv, Ordered, [RedisNext]_redisVars
    PROVE  Ordered'
<1>1. CASE Rests
  <2>1. /\ UNCHANGED <<redisConf, redisQueues, rows, pipe, series>>
        /\ Connections' = Connections /\ Lines' = Lines /\ OneTaker' = OneTaker
        /\ \A c, m : Leads(c, m)' <=> Leads(c, m)
        /\ \A v : QueueOf(v)' = QueueOf(v)
    BY <1>1, SameConf, SameOrder DEF Rests
  <2>2. \A c : Created(c)' <=> Created(c)
    BY <2>1, SameConf DEF Created, SeriesOf
  <2>3. \A v, j : Held(v, j)' = Held(v, j)
    BY <2>1 DEF Held
  <2> QED
    BY <2>1, <2>2, <2>3 DEF Ordered
<1> QED
  BY <1>1, OrderedByDispatch, OrderedBySends, OrderedByExecutes, StepKinds DEF CInv

\* The line that creates a series with the key of a sample comes before that of the sample.
LEMMA KeyIsCreated ==
    ASSUME ConfOK, NEW m \in Lines, IsMadd(m), NEW x \in SamplesOf(m)
    PROVE  \E c \in Lines : Leads(c, m) /\ FieldName(c) = x[2]
<1> DEFINE p == Point(m)
<1>1. m \in Places /\ m.point \in DOMAIN redisConf.points /\ m.point \in Nat /\ NumFields(m.point) \in Nat
  BY LinesArePlaces, PlaceTypes
<1>2. PICK k \in 1..NumFields(m.point) : x = <<m.point, FieldsOf[p.measurement][k]>>
  BY <1>1, PointsAndFields DEF SamplesOf, Field, Point
<1> DEFINE y == [point |-> m.point, field |-> k]
           K == {z \in Places : Before(z, m) /\ ~IsMadd(z) /\ Key(z) = <<p.host, x[2]>>}
<1>3. y \in K
  <2>1. y \in Places
    BY <1>1, <1>2, PlacesAre
  <2>2. Before(y, m) /\ ~IsMadd(y)
    BY <1>1, <1>2 DEF Before, IsMadd
  <2>3. Key(y) = <<p.host, x[2]>>
    BY <1>2 DEF Key, Point, FieldName
  <2> QED
    BY <2>1, <2>2, <2>3
<1>4. PICK c \in K : \A z \in K : ~Before(z, c)
  <2>1. K \in SUBSET Places /\ K # {}
    BY <1>3
  <2> HIDE DEF K
  <2> QED
    BY <2>1, FirstIs
<1>5. ASSUME NEW z \in Places, Before(z, c), ~IsMadd(z)
      PROVE  Key(z) # Key(c)
  <2>1. Before(z, m)
    BY <1>1, <1>4, <1>5, BeforeIsAnOrder
  <2> QED
    BY <1>4, <1>5, <2>1
<1>6. c \in Lines
  BY <1>4, <1>5 DEF New, Lines
<1>7. Leads(c, m) /\ FieldName(c) = x[2]
  BY <1>4 DEF Leads, Key
<1> QED
  BY <1>6, <1>7

\* The serializer's slip: the key was met with another measurement.
LEMMA OtherMeasurement ==
    ASSUME ConfOK, NEW m \in Lines, NEW c \in Lines, Leads(c, m), NEW x \in SamplesOf(m),
           FieldName(c) = x[2], Point(c).measurement # Point(m).measurement
    PROVE  NeverCreated(x)
<1>1. /\ m.point \in DOMAIN redisConf.points /\ m.point \in Nat /\ c.point \in DOMAIN redisConf.points
      /\ c.point \in Nat /\ NumFields(c.point) \in Nat /\ c.field \in 1..(NumFields(c.point) + 1)
  BY LinesArePlaces, PlaceTypes
<1>2. x[1] = m.point
  BY DEF SamplesOf
<1>3. c.point # m.point
  BY DEF Point
<1>4. c.point \in 1..(m.point - 1)
  <2>1. c.point >= 1
    <3>1. \E n \in Nat : DOMAIN redisConf.points = 1..n
      BY Configured
    <3> QED
      BY <1>1, <3>1
  <2> QED
    BY <1>1, <1>3, <2>1 DEF Leads, Before
<1>5. x[2] \in Field(Point(c).measurement)
  <2>1. c.field \in DOMAIN FieldsOf[Point(c).measurement]
    BY <1>1, PointsAndFields DEF Leads, IsMadd, Point
  <2> QED
    BY <2>1 DEF FieldName, Field
<1> QED
  BY <1>2, <1>4, <1>5 DEF NeverCreated, Leads, Point

LEMMA KeptByExecutes ==
    ASSUME OInv, NEW w \in RedisWorkers, NEW i \in Connections, Executes(w, i)
    PROVE  SamplesKept'
<1> USE DEF OInv
<1>1. PICK m \in pipe[w][i] :
          /\ \A l \in pipe[w][i] : ~Before(l, m)
          /\ m \in Lines
          /\ UNCHANGED redisConf
          /\ \/ UNCHANGED dropped
             \/ IsMadd(m) /\ ExecuteMadd(m)
  BY ExecutesMoves
<1>2. ConfOK
  BY DEF CInv, RedisTypeOK
<1>3. ASSUME OneTaker, IsMadd(m), ExecuteMadd(m), NEW x \in dropped', x \notin dropped
      PROVE  NeverCreated(x)
  <2>1. x \in SamplesOf(m) /\ SeriesOf(Point(m), x[2]) \notin series
    BY <1>3 DEF ExecuteMadd
  <2>2. PICK c \in Lines : Leads(c, m) /\ FieldName(c) = x[2]
    BY <1>1, <1>2, <1>3, <2>1, KeyIsCreated
  <2>3. c \notin pipe[w][i]
    BY <1>1, <2>2 DEF Leads
  <2>4. Created(c)
    BY <1>1, <1>3, <2>2, <2>3 DEF Ordered
  <2>5. Point(c).measurement # Point(m).measurement
    BY <2>1, <2>2, <2>4 DEF Created, SeriesOf, Leads
  <2> QED
    BY <1>1, <1>2, <2>1, <2>2, <2>5, OtherMeasurement
<1>4. ~OneTaker => redisConf.single /\ NumRedisWorkers > 1
  BY <1>2, Configured DEF OneTaker
<1>5. \A x \in dropped' : (redisConf.single /\ NumRedisWorkers > 1) \/ NeverCreated(x)
  BY <1>1, <1>3, <1>4 DEF SamplesKept
<1> QED
  BY <1>1, <1>5, SameConf DEF SamplesKept

LEMMA KeptInitially == RedisInit => OInv
<1> SUFFICES ASSUME RedisInit PROVE OInv
  OBVIOUS
<1>1. CInv
  BY ControlInitially
<1>2. /\ \A w \in RedisWorkers, i \in Connections : rows[w][i] = {} /\ pipe[w][i] = {}
      /\ dropped = {}
  BY DEF RedisInit, PerConnection
<1>3. ASSUME NEW c \in Lines, NEW m \in Lines, Leads(c, m), NEW w \in RedisWorkers, m \in redisQueues[QueueOf(w)]
      PROVE  c \in redisQueues[QueueOf(w)]
  <2>1. QueueOf(w) \in Queues
    BY <1>1, QueuesOfWorkers DEF CInv, RedisTypeOK
  <2>2. RedisIndex(m) = QueueOf(w)
    BY <1>3, <2>1 DEF RedisInit
  <2> QED
    BY <1>3, <2>1, <2>2, OneWayForAHost DEF RedisInit
<1>4. Ordered
  BY <1>2, <1>3 DEF Ordered
<1>5. SamplesKept
  BY <1>2 DEF SamplesKept
<1> QED
  BY <1>1, <1>4, <1>5 DEF OInv

LEMMA KeptIsInvariant == OInv /\ [RedisNext]_redisVars => OInv'
<1> SUFFICES ASSUME OInv, [RedisNext]_redisVars PROVE OInv'
  OBVIOUS
<1>1. CInv' /\ Ordered'
  BY ControlKept, OrderedKept DEF OInv
<1>2. ASSUME UNCHANGED <<redisConf, dropped>> PROVE SamplesKept'
  BY <1>2, SameConf DEF OInv, SamplesKept
<1>3. ASSUME NEW w \in RedisWorkers, Dispatch(w) PROVE UNCHANGED <<redisConf, dropped>>
  BY <1>3 DEF Dispatch, serverVars
<1>4. ASSUME NEW w \in RedisWorkers, NEW i \in Connections, Sends(w, i) PROVE UNCHANGED <<redisConf, dropped>>
  BY <1>4 DEF Sends
<1>5. Rests => UNCHANGED <<redisConf, dropped>>
  BY DEF Rests
<1>6. SamplesKept'
  BY <1>2, <1>3, <1>4, <1>5, KeptByExecutes, StepKinds DEF OInv, CInv
<1> QED
  BY <1>1, <1>6 DEF OInv

\* A sample reaches its series: the command that creates the series is executed before that of
\* the sample, however the workers, connections and pipelines of ProcessBatch take their turns.
\* The exceptions are several workers on one queue, and a field that keysSoFar of Serialize
\* has met with another measurement.
THEOREM SamplesReachTheirSeries == RedisSpec => []SamplesKept
<1>1. RedisInit => OInv
  BY KeptInitially
<1>2. OInv /\ [RedisNext]_redisVars => OInv'
  BY KeptIsInvariant
<1>3. OInv => SamplesKept
  BY DEF OInv
<1> QED
  BY <1>1, <1>2, <1>3, PTL DEF RedisSpec
-----------------------------------------------------------------------------
(* Counts.  The sum of some numbers is how many units they have. *)

Units(n, x) == {<<x, k>> : k \in 1..n[x]}
AllUnits(n) == UNION {Units(n, x) : x \in DOMAIN n}
Total(n) == Cardinality(AllUnits(n))

LEMMA UnitsOfOne ==
    ASSUME NEW x, NEW n, n[x] \in Nat
    PROVE  IsFiniteSet(Units(n, x)) /\ Cardinality(Units(n, x)) = n[x]
<1>1. IsFiniteSet(1..n[x]) /\ Cardinality(1..n[x]) = n[x]
  BY FS_Interval
<1> DEFINE f == [k \in 1..n[x] |-> <<x, k>>]
<1>2. f \in Bijection(1..n[x], Units(n, x))
  <2>1. f \in [1..n[x] -> Units(n, x)] /\ \A k \in 1..n[x] : f[k] = <<x, k>>
    BY DEF Units
  <2>2. \A u \in Units(n, x) : \E k \in 1..n[x] : u = <<x, k>>
    BY DEF Units
  <2> HIDE DEF f
  <2>3. f \in Injection(1..n[x], Units(n, x))
    <3>1. \A a, b \in 1..n[x] : f[a] = f[b] => a = b
      BY <2>1
    <3> QED
      BY <2>1, <3>1 DEF Injection, IsInjective
  <2>4. f \in Surjection(1..n[x], Units(n, x))
    BY <2>1, <2>2 DEF Surjection
  <2> QED
    BY <2>3, <2>4 DEF Bijection
<1>3. ExistsBijection(1..n[x], Units(n, x))
  BY <1>2 DEF ExistsBijection
<1> QED
  BY <1>1, <1>3, FS_Bijection

LEMMA TotalIsANumber ==
    ASSUME NEW X, IsFiniteSet(X), NEW n \in [X -> Nat]
    PROVE  IsFiniteSet(AllUnits(n)) /\ Total(n) \in Nat
<1> DEFINE all == {Units(n, x) : x \in X}
<1>1. IsFiniteSet(all)
  <2> DEFINE f == [x \in X |-> Units(n, x)]
  <2>1. f \in Surjection(X, all)
    BY DEF Surjection
  <2> HIDE DEF f, all
  <2> QED
    BY <2>1, FS_Surjection
<1>2. \A T \in all : IsFiniteSet(T)
  BY UnitsOfOne
<1>3. AllUnits(n) = UNION all
  BY DEF AllUnits
<1> HIDE DEF all
<1>4. IsFiniteSet(AllUnits(n))
  BY <1>1, <1>2, <1>3, FS_UNION
<1> QED
  BY <1>4, FS_CardinalityType DEF Total

\* When one of the numbers changes, so does the sum.
LEMMA TotalChanges ==
    ASSUME NEW X, IsFiniteSet(X), NEW n \in [X -> Nat], NEW z \in [X -> Nat], NEW x \in X,
           \A y \in X : y # x => z[y] = n[y]
    PROVE  Total(z) + n[x] = Total(n) + z[x]
<1> DEFINE Others == UNION {Units(n, y) : y \in X \ {x}}
<1>1. /\ AllUnits(n) = Others \cup Units(n, x) /\ Others \cap Units(n, x) = {}
      /\ AllUnits(z) = Others \cup Units(z, x) /\ Others \cap Units(z, x) = {}
  <2>1. \A y \in X \ {x} : Units(z, y) = Units(n, y)
    BY DEF Units
  <2>2. \A y \in X \ {x} : Units(n, y) \cap Units(n, x) = {} /\ Units(n, y) \cap Units(z, x) = {}
    BY DEF Units
  <2>3. AllUnits(n) = Others \cup Units(n, x)
    BY DEF AllUnits
  <2>4. AllUnits(z) = Others \cup Units(z, x)
    BY <2>1 DEF AllUnits
  <2> QED
    BY <2>2, <2>3, <2>4
<1>2. IsFiniteSet(AllUnits(n))
  BY TotalIsANumber
<1>3. IsFiniteSet(Others) /\ Cardinality(Others) \in Nat
  <2> HIDE DEF Others
  <2>1. Others \in SUBSET AllUnits(n)
    BY <1>1
  <2> QED
    BY <1>2, <2>1, FS_Subset, FS_CardinalityType
<1> HIDE DEF Others
<1>4. /\ n[x] \in Nat /\ IsFiniteSet(Units(n, x)) /\ Cardinality(Units(n, x)) = n[x]
      /\ z[x] \in Nat /\ IsFiniteSet(Units(z, x)) /\ Cardinality(Units(z, x)) = z[x]
  BY UnitsOfOne
<1>5. Total(n) = Cardinality(Others) + n[x]
  <2>1. Cardinality(Others \cap Units(n, x)) = 0
    BY <1>1, FS_EmptySet
  <2>2. Cardinality(Others \cup Units(n, x))
           = Cardinality(Others) + Cardinality(Units(n, x)) - Cardinality(Others \cap Units(n, x))
    BY <1>3, <1>4, FS_Union
  <2>3. Total(n) = Cardinality(Others \cup Units(n, x))
    BY <1>1 DEF Total
  <2> QED
    BY <1>3, <1>4, <2>1, <2>2, <2>3
<1>6. Total(z) = Cardinality(Others) + z[x]
  <2>1. Cardinality(Others \cap Units(z, x)) = 0
    BY <1>1, FS_EmptySet
  <2>2. Cardinality(Others \cup Units(z, x))
           = Cardinality(Others) + Cardinality(Units(z, x)) - Cardinality(Others \cap Units(z, x))
    BY <1>3, <1>4, FS_Union
  <2>3. Total(z) = Cardinality(Others \cup Units(z, x))
    BY <1>1 DEF Total
  <2> QED
    BY <1>3, <1>4, <2>1, <2>2, <2>3
<1> QED
  BY <1>3, <1>4, <1>5, <1>6

LEMMA TotalOfNothing ==
    ASSUME NEW X, NEW n \in [X -> Nat], \A x \in X : n[x] = 0
    PROVE  Total(n) = 0
<1>1. \A x \in X : Units(n, x) = {}
  BY DEF Units
<1>2. AllUnits(n) = {}
  BY <1>1 DEF AllUnits
<1> QED
  BY <1>2, FS_EmptySet DEF Total

\* Lines waiting for a connection, commands sent since the last flush of each connection that is
\* not done, and metrics in each channel.
AllRows == UNION {UNION {rows[w][i] : i \in Connections} : w \in RedisWorkers}
SentBy == [x \in RedisWorkers \X Connections |-> IF finished[x[1]][x[2]] THEN 0 ELSE curPipe[x[1]][x[2]]]
SumsOf == [w \in RedisWorkers |-> metrics[w].sum]

\* Every row of the batches taken waits, was sent, or has its metrics in a channel or the count.
Counted ==
    metricCnt + Total(SumsOf) + 10 * (Total(SentBy) + Cardinality(AllRows)) = 10 * rowCnt

TInv == DInv /\ Counted

CountTypes ==
    /\ IsFiniteSet(RedisWorkers) /\ IsFiniteSet(RedisWorkers \X Connections)
    /\ SentBy \in [RedisWorkers \X Connections -> Nat]
    /\ SumsOf \in [RedisWorkers -> Nat]
    /\ IsFiniteSet(AllRows) /\ Cardinality(AllRows) \in Nat
    /\ Total(SentBy) \in Nat /\ Total(SumsOf) \in Nat /\ metricCnt \in Nat /\ rowCnt \in Nat

LEMMA CountedSets == CInv => CountTypes
<1> SUFFICES ASSUME CInv PROVE CountTypes
  OBVIOUS
<1>1. ConfOK /\ metricCnt \in Nat /\ rowCnt \in Nat
  BY DEF CInv, RedisTypeOK
<1>2. IsFiniteSet(RedisWorkers) /\ IsFiniteSet(Connections)
  <2>1. NumRedisWorkers - 1 \in Int /\ redisConf.connections - 1 \in Int
    BY <1>1, Configured
  <2> QED
    BY <2>1, FS_Interval DEF RedisWorkers, Connections
<1>3. IsFiniteSet(RedisWorkers \X Connections)
  BY <1>2, FS_Product
<1>4. SentBy \in [RedisWorkers \X Connections -> Nat] /\ SumsOf \in [RedisWorkers -> Nat]
  BY DEF CInv, RedisTypeOK, PerWorkerAndConnection, SentBy, SumsOf
<1>5. AllRows \subseteq Lines
  BY DEF CInv, RedisTypeOK, PerWorkerAndConnection, AllRows
<1>6. IsFiniteSet(AllRows) /\ Cardinality(AllRows) \in Nat
  BY <1>1, <1>5, LinesArePlaces, FS_Subset, FS_CardinalityType
<1> QED
  BY <1>1, <1>2, <1>3, <1>4, <1>6, TotalIsANumber DEF CountTypes

LEMMA CountedSetsNext == CInv' => CountTypes'
BY CountedSets, PTL

\* What the step of a connection does to the counts.
LEMMA SentChanges ==
    ASSUME CInv, CInv', redisConf' = redisConf, NEW w \in RedisWorkers, NEW i \in Connections,
           \A v \in RedisWorkers, j \in Connections :
               v # w \/ j # i => finished'[v][j] = finished[v][j] /\ curPipe'[v][j] = curPipe[v][j]
    PROVE  Total(SentBy)' + SentBy[<<w, i>>] = Total(SentBy) + SentBy'[<<w, i>>]
<1> DEFINE X == RedisWorkers \X Connections
<1>1. IsFiniteSet(X) /\ SentBy \in [X -> Nat] /\ SentBy' \in [X -> Nat] /\ Connections' = Connections
  BY CountedSets, CountedSetsNext, SameConf DEF CountTypes
<1>2. ASSUME NEW y \in X, y # <<w, i>> PROVE SentBy'[y] = SentBy[y]
  BY <1>1, <1>2 DEF SentBy
<1>3. <<w, i>> \in X
  OBVIOUS
<1>4. Total(SentBy') + SentBy[<<w, i>>] = Total(SentBy) + SentBy'[<<w, i>>]
  <2> HIDE DEF X
  <2> QED
    BY <1>1, <1>2, <1>3, TotalChanges
<1>5. Total(SentBy)' = Total(SentBy')
  BY DEF Total, AllUnits, Units
<1> QED
  BY <1>4, <1>5

LEMMA SumChanges ==
    ASSUME CInv, CInv', NEW w \in RedisWorkers, \A v \in RedisWorkers : v # w => metrics'[v] = metrics[v]
    PROVE  Total(SumsOf)' + metrics[w].sum = Total(SumsOf) + metrics'[w].sum
<1>1. IsFiniteSet(RedisWorkers) /\ SumsOf \in [RedisWorkers -> Nat] /\ SumsOf' \in [RedisWorkers -> Nat]
  BY CountedSets, CountedSetsNext DEF CountTypes
<1>2. \A v \in RedisWorkers : v # w => SumsOf'[v] = SumsOf[v]
  BY DEF SumsOf
<1>3. Total(SumsOf') + SumsOf[w] = Total(SumsOf) + SumsOf'[w]
  BY <1>1, <1>2, TotalChanges
<1>4. Total(SumsOf)' = Total(SumsOf')
  BY DEF Total, AllUnits, Units
<1>5. SumsOf[w] = metrics[w].sum /\ SumsOf'[w] = metrics'[w].sum
  BY DEF SumsOf
<1> QED
  BY <1>3, <1>4, <1>5

LEMMA SameTotals ==
    /\ SentBy' = SentBy => Total(SentBy)' = Total(SentBy)
    /\ SumsOf' = SumsOf => Total(SumsOf)' = Total(SumsOf)
BY DEF Total, AllUnits, Units

\* A row is sent.
LEMMA RowsSent ==
    ASSUME DInv, NEW w \in RedisWorkers, NEW i \in Connections, Sends(w, i)
    PROVE  Cardinality(AllRows)' = Cardinality(AllRows) - 1
<1>1. PICK l \in rows[w][i] :
          /\ rows'[w][i] = rows[w][i] \ {l}
          /\ \A v \in RedisWorkers, j \in Connections : v # w \/ j # i => rows'[v][j] = rows[v][j]
          /\ redisConf' = redisConf
  BY SendsMoves DEF DInv
<1>2. \A v \in RedisWorkers, j \in Connections : v # w \/ j # i => l \notin rows[v][j]
  <2> SUFFICES ASSUME NEW v \in RedisWorkers, NEW j \in Connections, v # w \/ j # i
               PROVE  l \notin rows[v][j]
    OBVIOUS
  <2>1. Held(w, i) \cap Held(v, j) = {}
    BY DEF DInv, Distinct
  <2> QED
    BY <2>1 DEF Held
<1>3. \A v \in RedisWorkers, j \in Connections : rows'[v][j] = rows[v][j] \ {l}
  <2> SUFFICES ASSUME NEW v \in RedisWorkers, NEW j \in Connections PROVE rows'[v][j] = rows[v][j] \ {l}
    OBVIOUS
  <2>1. CASE v = w /\ j = i
    BY <1>1, <2>1
  <2>2. CASE v # w \/ j # i
    BY <1>1, <1>2, <2>2
  <2> QED
    BY <2>1, <2>2
<1>4. \A x : x \in AllRows <=> \E v \in RedisWorkers, j \in Connections : x \in rows[v][j]
  BY DEF AllRows
<1>5. \A x : x \in AllRows' <=> \E v \in RedisWorkers, j \in Connections : x \in rows'[v][j]
  BY <1>1, SameConf DEF AllRows
<1>6. AllRows' = AllRows \ {l} /\ l \in AllRows
  BY <1>3, <1>4, <1>5
<1>7. Cardinality(AllRows \ {l}) = Cardinality(AllRows) - 1
  BY <1>6, CountedSets, FS_RemoveElement DEF CountTypes, DInv
<1> QED
  BY <1>6, <1>7

\* A command sent is one of those that its connection has not flushed.
LEMMA SendNextCounts ==
    ASSUME DInv, CInv', NEW w \in RedisWorkers, NEW i \in Connections, NEW n \in Nat,
           rows[w][i] # {}, SendNext(w, i, n), Running(w, i),
           UNCHANGED <<redisConf, workVars, finished, serverVars>>
    PROVE  /\ Cardinality(AllRows)' = Cardinality(AllRows) - 1
           /\ Total(SentBy)' + curPipe[w][i] = Total(SentBy) + n
           /\ UNCHANGED <<metricCnt, rowCnt>>
<1> USE DEF DInv
<1>1. /\ curPipe' = [curPipe EXCEPT ![w][i] = n]
      /\ UNCHANGED <<redisConf, redisQueues, metricCnt, rowCnt, series, storedSamples, dropped>>
  BY DEF SendNext, workVars, serverVars
<1>2. Sends(w, i)
  BY <1>1, SendsIsSending DEF CInv
<1>3. /\ curPipe'[w][i] = n
      /\ \A v \in RedisWorkers, j \in Connections : v # w \/ j # i => curPipe'[v][j] = curPipe[v][j]
  BY <1>1 DEF CInv, RedisTypeOK, PerWorkerAndConnection
<1>4. \A v \in RedisWorkers, j \in Connections : v # w \/ j # i =>
          finished'[v][j] = finished[v][j] /\ curPipe'[v][j] = curPipe[v][j]
  BY <1>3
<1>5. Total(SentBy)' + SentBy[<<w, i>>] = Total(SentBy) + SentBy'[<<w, i>>]
  <2>1. redisConf' = redisConf
    BY <1>1
  <2> QED
    BY <1>4, <2>1, SentChanges
<1>6. SentBy[<<w, i>>] = curPipe[w][i] /\ SentBy'[<<w, i>>] = n
  <2>1. ~finished[w][i] /\ ~finished'[w][i] /\ Connections' = Connections
    BY SameConf DEF Running
  <2> QED
    BY <1>3, <2>1 DEF SentBy
<1> QED
  BY <1>1, <1>2, <1>5, <1>6, RowsSent

LEMMA CountedInitially == RedisInit => TInv
<1> SUFFICES ASSUME RedisInit PROVE TInv
  OBVIOUS
<1>1. DInv
  BY DoneInitially
<1>2. CountTypes
  BY <1>1, CountedSets DEF DInv
<1>3. Total(SentBy) = 0
  <2>1. \A x \in RedisWorkers \X Connections : SentBy[x] = 0
    BY DEF RedisInit, SentBy, PerConnection
  <2> QED
    BY <1>2, <2>1, TotalOfNothing DEF CountTypes
<1>4. Total(SumsOf) = 0
  <2>1. \A w \in RedisWorkers : SumsOf[w] = 0
    BY DEF RedisInit, SumsOf
  <2> QED
    BY <1>2, <2>1, TotalOfNothing DEF CountTypes
<1>5. Cardinality(AllRows) = 0
  <2>1. AllRows = {}
    BY DEF RedisInit, AllRows, PerConnection
  <2> QED
    BY <2>1, FS_EmptySet
<1>6. metricCnt = 0 /\ rowCnt = 0
  BY DEF RedisInit
<1>7. Counted
  BY <1>3, <1>4, <1>5, <1>6 DEF Counted
<1> QED
  BY <1>1, <1>7 DEF TInv

LEMMA CountedByDispatch ==
    ASSUME TInv, CInv', NEW w \in RedisWorkers, Dispatch(w)
    PROVE  Counted'
<1> USE DEF TInv, DInv
<1> DEFINE left == redisQueues[QueueOf(w)]
           theBatch == FirstOf(RedisBatchSize, left)
           n == Cardinality(theBatch)
<1>1. /\ redisPc[w] = "idle"
      /\ metrics' = [metrics EXCEPT ![w] = [buflen |-> n + 1, counts |-> 0, sum |-> 0]]
      /\ rowCnt' = rowCnt + n
      /\ curPipe' = [curPipe EXCEPT ![w] = PerConnection(0)]
      /\ finished' = [finished EXCEPT ![w] = PerConnection(FALSE)]
      /\ UNCHANGED <<redisConf, metricCnt>>
  BY DEF Dispatch, Buflen
<1>2. /\ QueueOf(w) \in Queues /\ theBatch \subseteq left
      /\ \A i \in Connections : /\ rows[w][i] = {}
                                /\ rows'[w][i] = {l \in theBatch : ConnectionOf(l) = i}
      /\ \A v \in RedisWorkers, i \in Connections : v # w => rows'[v][i] = rows[v][i]
      /\ \A l \in theBatch : ConnectionOf(l) \in Connections
  BY DispatchMoves
<1>3. IsFiniteSet(theBatch) /\ n \in Nat
  BY TheBatch DEF CInv
<1> HIDE DEF theBatch, n
<1>4. Connections' = Connections
  BY <1>1, SameConf
<1>5. Total(SentBy)' = Total(SentBy)
  <2>1. ASSUME NEW v \in RedisWorkers, NEW i \in Connections
        PROVE  (IF finished'[v][i] THEN 0 ELSE curPipe'[v][i]) = (IF finished[v][i] THEN 0 ELSE curPipe[v][i])
    <3>1. CASE v = w
      <4>1. finished[w][i]
        BY <1>1 DEF CInv, NothingLeft
      <4>2. curPipe'[w][i] = 0
        BY <1>1 DEF CInv, RedisTypeOK, PerWorkerAndConnection, PerConnection
      <4> QED
        BY <3>1, <4>1, <4>2
    <3>2. CASE v # w
      BY <1>1, <3>2 DEF CInv, RedisTypeOK
    <3> QED
      BY <3>1, <3>2
  <2>2. \A x \in RedisWorkers \X Connections :
            (IF finished'[x[1]][x[2]] THEN 0 ELSE curPipe'[x[1]][x[2]])
                = (IF finished[x[1]][x[2]] THEN 0 ELSE curPipe[x[1]][x[2]])
    BY <2>1
  <2>3. SentBy' = SentBy
    BY <1>4, <2>2 DEF SentBy
  <2> QED
    BY <2>3, SameTotals
<1>6. Total(SumsOf)' = Total(SumsOf)
  <2>1. \A v \in RedisWorkers : metrics'[v].sum = metrics[v].sum
    BY <1>1 DEF CInv, RedisTypeOK, NothingLeft
  <2>2. SumsOf' = SumsOf
    BY <2>1 DEF SumsOf
  <2> QED
    BY <2>2, SameTotals
<1>7. Cardinality(AllRows)' = Cardinality(AllRows) + n
  <2>1. \A x : x \in AllRows <=> \E v \in RedisWorkers, j \in Connections : x \in rows[v][j]
    BY DEF AllRows
  <2>2. \A x : x \in AllRows' <=> \E v \in RedisWorkers, j \in Connections : x \in rows'[v][j]
    BY <1>4 DEF AllRows
  <2>3. AllRows' = AllRows \cup theBatch
    BY <1>2, <2>1, <2>2
  <2>4. AllRows \cap theBatch = {}
    <3>1. \A v \in RedisWorkers, i \in Connections : Held(v, i) \cap left = {}
      BY <1>2 DEF Distinct
    <3> QED
      BY <1>2, <2>1, <3>1 DEF Held
  <2>5. Cardinality(AllRows \cap theBatch) = 0
    BY <2>4, FS_EmptySet
  <2>6. IsFiniteSet(AllRows) /\ Cardinality(AllRows) \in Nat
    BY CountedSets DEF CountTypes
  <2>7. Cardinality(AllRows \cup theBatch) = Cardinality(AllRows) + Cardinality(theBatch) - Cardinality(AllRows \cap theBatch)
    BY <1>3, <2>6, FS_Union
  <2> QED
    BY <1>3, <2>3, <2>5, <2>6, <2>7 DEF n
<1>8. CountTypes
  BY CountedSets
<1> QED
  BY <1>1, <1>3, <1>5, <1>6, <1>7, <1>8 DEF Counted, CountTypes

LEMMA CountedBySend ==
    ASSUME TInv, CInv', NEW w \in RedisWorkers, NEW i \in Connections, Send(w, i)
    PROVE  Counted'
<1> USE DEF TInv, DInv
<1>1. /\ rows[w][i] # {} /\ SendNext(w, i, curPipe[w][i] + 1) /\ Running(w, i)
      /\ UNCHANGED <<redisConf, workVars, finished, serverVars>> /\ metrics' = metrics
  BY DEF Send
<1>2. curPipe[w][i] \in Nat /\ curPipe[w][i] + 1 \in Nat
  BY DEF CInv, RedisTypeOK, PerWorkerAndConnection
<1>3. /\ Cardinality(AllRows)' = Cardinality(AllRows) - 1
      /\ Total(SentBy)' + curPipe[w][i] = Total(SentBy) + (curPipe[w][i] + 1)
      /\ UNCHANGED <<metricCnt, rowCnt>>
  BY <1>1, <1>2, SendNextCounts
<1>4. Total(SumsOf)' = Total(SumsOf)
  BY <1>1, SameTotals DEF SumsOf
<1>5. /\ Cardinality(AllRows) \in Nat /\ Total(SentBy) \in Nat /\ Total(SumsOf) \in Nat
      /\ Total(SentBy)' \in Nat /\ Total(SumsOf)' \in Nat /\ metricCnt \in Nat /\ rowCnt \in Nat
  BY CountedSets, CountedSetsNext DEF CountTypes
<1> QED
  BY <1>2, <1>3, <1>4, <1>5 DEF Counted

LEMMA CountedByFlushAndSend ==
    ASSUME TInv, CInv', NEW w \in RedisWorkers, NEW i \in Connections, FlushAndSend(w, i)
    PROVE  Counted'
<1> USE DEF TInv, DInv
<1>1. /\ rows[w][i] # {} /\ SendNext(w, i, 1) /\ Running(w, i) /\ FlushAndUpdate(w, i)
      /\ UNCHANGED <<redisConf, workVars, finished, serverVars>>
  BY DEF FlushAndSend
<1>2. curPipe[w][i] \in Nat /\ metrics[w].sum \in Nat
  BY DEF CInv, RedisTypeOK, PerWorkerAndConnection
<1>3. /\ Cardinality(AllRows)' = Cardinality(AllRows) - 1
      /\ Total(SentBy)' + curPipe[w][i] = Total(SentBy) + 1
      /\ UNCHANGED <<metricCnt, rowCnt>>
  BY <1>1, SendNextCounts
<1>4. /\ \A v \in RedisWorkers : v # w => metrics'[v] = metrics[v]
      /\ metrics'[w].sum = metrics[w].sum + 10 * curPipe[w][i]
  BY <1>1, FlushCounts DEF CInv
<1>5. Total(SumsOf)' + metrics[w].sum = Total(SumsOf) + metrics'[w].sum
  BY <1>4, SumChanges
<1>6. /\ Cardinality(AllRows) \in Nat /\ Total(SentBy) \in Nat /\ Total(SumsOf) \in Nat
      /\ Total(SentBy)' \in Nat /\ Total(SumsOf)' \in Nat /\ metricCnt \in Nat /\ rowCnt \in Nat
  BY CountedSets, CountedSetsNext DEF CountTypes
<1>7. Total(SumsOf)' = Total(SumsOf) + 10 * curPipe[w][i]
  BY <1>2, <1>4, <1>5, <1>6
<1>8. Total(SentBy)' + Cardinality(AllRows)' = (Total(SentBy) + Cardinality(AllRows)) - curPipe[w][i]
  BY <1>2, <1>3, <1>6
<1>9. 10 * (Total(SentBy)' + Cardinality(AllRows)')
          = 10 * (Total(SentBy) + Cardinality(AllRows)) - 10 * curPipe[w][i]
  BY <1>2, <1>6, <1>8
<1> QED
  BY <1>2, <1>3, <1>6, <1>7, <1>9 DEF Counted

LEMMA CountedByLeave ==
    ASSUME TInv, CInv', NEW w \in RedisWorkers, NEW i \in Connections, Leave(w, i)
    PROVE  Counted'
<1> USE DEF TInv, DInv
<1>1. /\ ~finished[w][i]
      /\ finished' = [finished EXCEPT ![w][i] = TRUE]
      /\ UNCHANGED <<redisConf, metricCnt, rowCnt, rows, curPipe>>
  BY DEF Leave, Running, workVars
<1>2. curPipe[w][i] \in Nat /\ metrics[w].sum \in Nat
  BY DEF CInv, RedisTypeOK, PerWorkerAndConnection
<1>3. /\ \A v \in RedisWorkers : v # w => metrics'[v] = metrics[v]
      /\ metrics'[w].sum = metrics[w].sum + 10 * curPipe[w][i]
  <2>1. CASE curPipe[w][i] > 0
    BY <2>1, FlushCounts DEF Leave, CInv
  <2>2. CASE ~(curPipe[w][i] > 0)
    BY <1>2, <2>2 DEF Leave
  <2> QED
    BY <2>1, <2>2
<1>4. Total(SumsOf)' + metrics[w].sum = Total(SumsOf) + metrics'[w].sum
  BY <1>3, SumChanges
<1>5. /\ finished'[w][i]
      /\ \A v \in RedisWorkers, j \in Connections : v # w \/ j # i =>
             finished'[v][j] = finished[v][j] /\ curPipe'[v][j] = curPipe[v][j]
  BY <1>1 DEF CInv, RedisTypeOK, PerWorkerAndConnection
<1>6. Total(SentBy)' + curPipe[w][i] = Total(SentBy)
  <2>1. redisConf' = redisConf /\ Connections' = Connections
    BY <1>1, SameConf
  <2>2. Total(SentBy)' + SentBy[<<w, i>>] = Total(SentBy) + SentBy'[<<w, i>>]
    BY <1>5, <2>1, SentChanges
  <2>3. SentBy[<<w, i>>] = curPipe[w][i] /\ SentBy'[<<w, i>>] = 0
    BY <1>1, <1>5, <2>1 DEF SentBy
  <2>4. CountTypes
    BY CountedSets
  <2> QED
    BY <2>2, <2>3, <2>4 DEF CountTypes
<1>7. AllRows' = AllRows
  BY <1>1, SameConf DEF AllRows
<1>8. /\ Cardinality(AllRows) \in Nat /\ Total(SentBy) \in Nat /\ Total(SumsOf) \in Nat
      /\ Total(SentBy)' \in Nat /\ Total(SumsOf)' \in Nat /\ metricCnt \in Nat /\ rowCnt \in Nat
  BY CountedSets, CountedSetsNext DEF CountTypes
<1> QED
  BY <1>1, <1>2, <1>3, <1>4, <1>6, <1>7, <1>8 DEF Counted

LEMMA CountedByCollect ==
    ASSUME TInv, CInv', NEW w \in RedisWorkers, Collect(w)
    PROVE  Counted'
<1> USE DEF TInv, DInv
<1>1. /\ metricCnt' = metricCnt + metrics[w].sum
      /\ metrics' = [metrics EXCEPT ![w].counts = 0, ![w].sum = 0]
      /\ UNCHANGED <<redisConf, rowCnt, rows, curPipe, finished>>
  BY DEF Collect
<1>2. metrics[w] \in [buflen : Nat, counts : Nat, sum : Nat]
  BY DEF CInv, RedisTypeOK
<1>3. metrics' = [metrics EXCEPT ![w] = [metrics[w] EXCEPT !.counts = 0, !.sum = 0]]
  BY <1>1, <1>2 DEF CInv, RedisTypeOK
<1>4. metrics'[w].sum = 0 /\ \A v \in RedisWorkers : v # w => metrics'[v] = metrics[v]
  BY <1>2, <1>3 DEF CInv, RedisTypeOK
<1>5. Total(SumsOf)' + metrics[w].sum = Total(SumsOf) + metrics'[w].sum
  BY <1>4, SumChanges
<1>6. AllRows' = AllRows /\ SentBy' = SentBy
  BY <1>1, SameConf DEF AllRows, SentBy
<1>7. Total(SentBy)' = Total(SentBy)
  BY <1>6, SameTotals
<1>8. /\ Cardinality(AllRows) \in Nat /\ Total(SentBy) \in Nat /\ Total(SumsOf) \in Nat
      /\ Total(SentBy)' \in Nat /\ Total(SumsOf)' \in Nat /\ metricCnt \in Nat /\ rowCnt \in Nat
  BY CountedSets, CountedSetsNext DEF CountTypes
<1> QED
  BY <1>1, <1>2, <1>4, <1>5, <1>6, <1>7, <1>8 DEF Counted

LEMMA CountedIsInvariant == TInv /\ [RedisNext]_redisVars => TInv'
<1> SUFFICES ASSUME TInv, [RedisNext]_redisVars PROVE TInv'
  OBVIOUS
<1>1. DInv' /\ CInv'
  BY DoneIsInvariant DEF TInv, DInv
<1>2. ASSUME UNCHANGED <<redisConf, rows, curPipe, finished, metrics, metricCnt, rowCnt>>
      PROVE  Counted'
  <2>1. AllRows' = AllRows /\ SentBy' = SentBy /\ SumsOf' = SumsOf
    BY <1>2, SameConf DEF AllRows, SentBy, SumsOf
  <2>2. Total(SentBy)' = Total(SentBy) /\ Total(SumsOf)' = Total(SumsOf)
    BY <2>1, SameTotals
  <2> QED
    BY <1>2, <2>1, <2>2 DEF TInv, Counted
<1>3. ASSUME NEW w \in RedisWorkers, NEW i \in Connections, Fatal(w, i) PROVE Counted'
  BY <1>2, <1>3 DEF Fatal, workVars, connVars
<1>4. ASSUME NEW w \in RedisWorkers, NEW i \in Connections, Execute(w, i) PROVE Counted'
  BY <1>2, <1>4 DEF Execute, workVars
<1>5. ASSUME UNCHANGED redisVars PROVE Counted'
  <2>1. UNCHANGED <<redisConf, rows, curPipe, finished, metrics, metricCnt, rowCnt>>
    BY <1>5 DEF redisVars, workVars, connVars
  <2> QED
    BY <1>2, <2>1
<1>6. ASSUME NEW w \in RedisWorkers, Worker(w) PROVE Counted'
  BY <1>1, <1>6, CountedByDispatch, CountedByCollect DEF Worker
<1>7. ASSUME NEW w \in RedisWorkers, NEW i \in Connections, Connection(w, i) PROVE Counted'
  BY <1>1, <1>3, <1>7, CountedBySend, CountedByFlushAndSend, CountedByLeave DEF Connection
<1>8. Counted'
  BY <1>4, <1>5, <1>6, <1>7 DEF RedisNext, Step
<1> QED
  BY <1>1, <1>8 DEF TInv

LEMMA IdleMeansCounted == TInv => CountsWhatIsDone
<1> SUFFICES ASSUME TInv, \A w \in RedisWorkers : redisPc[w] = "idle"
             PROVE  /\ storedSamples \cup dropped = UNION {SamplesOf(l) : l \in {k \in Lines \ Waiting : IsMadd(k)}}
                    /\ storedSamples \cap dropped = {}
                    /\ metricCnt = MetricsOf(rowCnt)
  BY DEF CountsWhatIsDone
<1> USE DEF TInv, DInv
<1>1. \A w \in RedisWorkers, i \in Connections : finished[w][i] /\ rows[w][i] = {} /\ pipe[w][i] = {}
  BY DEF CInv, NothingLeft
<1>2. \A l : Pending(l) <=> l \in Waiting
  BY <1>1 DEF Pending, Held, Waiting
<1>3. storedSamples \cup dropped = UNION {SamplesOf(l) : l \in {k \in Lines \ Waiting : IsMadd(k)}}
  <2>1. ASSUME NEW x \in storedSamples \cup dropped
        PROVE  \E l \in {k \in Lines \ Waiting : IsMadd(k)} : x \in SamplesOf(l)
    BY <1>2, <2>1 DEF DoneExactly
  <2>2. ASSUME NEW l \in {k \in Lines \ Waiting : IsMadd(k)}, NEW x \in SamplesOf(l)
        PROVE  x \in storedSamples \cup dropped
    BY <1>2, <2>2 DEF DoneExactly
  <2> QED
    BY <2>1, <2>2
<1>4. CountTypes
  BY CountedSets
<1>5. Total(SentBy) = 0
  <2>1. \A x \in RedisWorkers \X Connections : SentBy[x] = 0
    BY <1>1 DEF SentBy
  <2> QED
    BY <1>4, <2>1, TotalOfNothing DEF CountTypes
<1>6. Total(SumsOf) = 0
  <2>1. \A w \in RedisWorkers : SumsOf[w] = 0
    BY DEF CInv, NothingLeft, SumsOf
  <2> QED
    BY <1>4, <2>1, TotalOfNothing DEF CountTypes
<1>7. Cardinality(AllRows) = 0
  <2>1. AllRows = {}
    BY <1>1 DEF AllRows
  <2> QED
    BY <2>1, FS_EmptySet
<1>8. metricCnt = 10 * rowCnt
  BY <1>4, <1>5, <1>6, <1>7 DEF Counted, CountTypes
<1> QED
  BY <1>3, <1>8 DEF DoneExactly, MetricsOf

\* When every worker is between two calls of ProcessBatch, each command of the batches taken has
\* been executed once, and the metrics counted are those of their replies: no connection leaves
\* with replies that it has not received, and none of their counts is lost in the channel.
THEOREM BatchesAreCounted == RedisSpec => []CountsWhatIsDone
<1>1. RedisInit => TInv
  BY CountedInitially
<1>2. TInv /\ [RedisNext]_redisVars => TInv'
  BY CountedIsInvariant
<1>3. TInv => CountsWhatIsDone
  BY IdleMeansCounted
<1> QED
  BY <1>1, <1>2, <1>3, PTL DEF RedisSpec
=============================================================================
