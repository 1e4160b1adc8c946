----------------------------- MODULE MongoLoad -----------------------------
(***************************************************************************)
(* The MongoDB loader that gathers events in hourly documents              *)
(* (cmd/tsbs_load_mongo/aggregate_loader.go).  A worker inserts the        *)
(* document of an event when it meets it first, and then sets the event in *)
(* its slot, a second of the hour.  What it has inserted only that worker  *)
(* knows, so all events of a document must come to it.                     *)
(*                                                                         *)
(* An event has a tag (hostname for devops, name for IoT, or "none" when   *)
(* the generator left the name out), the host the tag names, a             *)
(* measurement and a time in seconds.  An event of the file is known by    *)
(* its number.  Events are in the order of the file wherever they are, so  *)
(* a queue or a batch is the set of their numbers.                         *)
(***************************************************************************)
EXTENDS Integers, Sequences, FiniteSets, SequencesExt, FiniteSetsExt

CONSTANTS
    NumMongoWorkers,    \* --workers, each with a queue
    MongoBatchSize,     \* --batch-size
    Hour,               \* seconds of an hour
    InsertSize,         \* aggInsertBatchSize
    Hash,               \* the hash of each host's name
    Files               \* the events, in sequence

MongoWorkers == 0..(NumMongoWorkers - 1)

\* A host has a name: a tag with an empty value is not written.
ASSUME MongoAssumption ==
    /\ {NumMongoWorkers, MongoBatchSize, Hour, InsertSize} \subseteq Nat \ {0}
    /\ \A h \in DOMAIN Hash : h # "" /\ Hash[h] \in Nat
    /\ \A file \in Files :
           /\ DOMAIN file = 1..Len(file) /\ Len(file) \in Nat
           /\ \A n \in DOMAIN file : file[n].host \in DOMAIN Hash /\ file[n].time \in Nat

VARIABLES
    input,          \* the file
    mongoQueues,    \* the events not taken yet, for each worker
    mongoPc,        \* where each worker is
    createdDocs,    \* the keys of the documents it queued for creation
    createQueue,    \* those not inserted yet
    docToEvents,    \* the events of its batch to be set
    copies,         \* on the server: how many documents each key has
    slots,          \* the event in each slot in use of a document
    settled         \* the events whose update was run

mongoVars ==
    <<input, mongoQueues, mongoPc, createdDocs, createQueue, docToEvents, copies, slots, settled>>

Event(n) == input[n]
Numbers == DOMAIN input

\* Slip: the events are dealt out in turn.
GetIndexInTurn(n) == n % NumMongoWorkers

\* hostnameIndexer: the worker of an event.
MongoIndex(n) ==
    IF Event(n).tag \in {"hostname", "name"} THEN Hash[Event(n).host] % NumMongoWorkers ELSE 0

\* The key of a document has the value of the tag hostname, or nothing.
DocKey(n) ==
    [hostname |-> IF Event(n).tag = "hostname" THEN Event(n).host ELSE "",
     date |-> Event(n).time \div Hour,
     measurement |-> Event(n).measurement]

SlotOf(n) == <<DocKey(n), Event(n).time % Hour>>

MongoInit ==
    /\ input \in Files
    /\ mongoQueues = [w \in MongoWorkers |-> {n \in Numbers : MongoIndex(n) = w}]
    /\ mongoPc = [w \in MongoWorkers |-> "idle"]
    /\ createdDocs = [w \in MongoWorkers |-> {}]
    /\ createQueue = [w \in MongoWorkers |-> <<>>]
    /\ docToEvents = [w \in MongoWorkers |-> {}]
    /\ copies = [k \in {DocKey(n) : n \in Numbers} |-> 0]
    /\ slots = <<>>
    /\ settled = {}
-----------------------------------------------------------------------------
\* The next batch of a queue: its first events, BatchSize of them or all that are left.
NextBatch(queue) == {n \in queue : Cardinality({m \in queue : m < n}) < MongoBatchSize}

\* The keys of a batch not created yet, each once (their order makes no difference).
NewKeys(events, known) == SetToSeq({DocKey(n) : n \in events} \ known)

\* ProcessBatch up to the first insert.
Gather(w) ==
    /\ mongoPc[w] = "idle"
    /\ mongoQueues[w] # {}
    /\ LET batch == NextBatch(mongoQueues[w])
           new == NewKeys(batch, createdDocs[w])
       IN  /\ mongoQueues' = [mongoQueues EXCEPT ![w] = @ \ batch]
           /\ createQueue' = [createQueue EXCEPT ![w] = new]
           /\ createdDocs' = [createdDocs EXCEPT ![w] = @ \cup ToSet(new)]
           /\ docToEvents' = [docToEvents EXCEPT ![w] = batch]
    /\ mongoPc' = [mongoPc EXCEPT ![w] = "insert"]
    /\ UNCHANGED <<input, copies, slots, settled>>

\* What is left after one insert of at most InsertSize documents.
AfterInsert(queue) == SubSeq(queue, InsertSize + 1, Len(queue))

\* insertNewAggregateDocs: a bulk for each part of the queue.
Insert(w) ==
    /\ mongoPc[w] = "insert"
    /\ createQueue[w] # <<>>
    /\ LET part == ToSet(SubSeq(createQueue[w], 1, Min({InsertSize, Len(createQueue[w])})))
       IN  copies' = [k \in DOMAIN copies |-> IF k \in part THEN copies[k] + 1 ELSE copies[k]]
    /\ createQueue' = [createQueue EXCEPT ![w] = AfterInsert(@)]
    /\ UNCHANGED <<input, mongoQueues, mongoPc, createdDocs, docToEvents, slots, settled>>

Inserted(w) ==
    /\ mongoPc[w] = "insert"
    /\ createQueue[w] = <<>>
    /\ mongoPc' = [mongoPc EXCEPT ![w] = "update"]
    /\ UNCHANGED <<input, mongoQueues, createdDocs, createQueue, docToEvents, copies, slots, settled>>

\* The events of a document of the batch.
EventsOf(w, k) == {n \in docToEvents[w] : DocKey(n) = k}

\* The map of a document's slots keeps the last event of each.
LastIn(events, s) == Max({n \in events : SlotOf(n) = s})

\* One update of the bulk, in any order: $set on the first document with the key, if any.
UpdateDoc(w, k) ==
    /\ mongoPc[w] = "update"
    /\ EventsOf(w, k) # {}
    /\ LET of == EventsOf(w, k)
           at == {SlotOf(n) : n \in of}
       IN  /\ slots' = IF copies[k] = 0 THEN slots
                       ELSE [s \in DOMAIN slots \cup at |->
                                IF s \in at THEN LastIn(of, s) ELSE slots[s]]
           /\ settled' = settled \cup of
           /\ docToEvents' = [docToEvents EXCEPT ![w] = @ \ of]
    /\ UNCHANGED <<input, mongoQueues, mongoPc, createdDocs, createQueue, copies>>

Return(w) ==
    /\ mongoPc[w] = "update"
    /\ docToEvents[w] = {}
    /\ mongoPc' = [mongoPc EXCEPT ![w] = "idle"]
    /\ UNCHANGED <<input, mongoQueues, createdDocs, createQueue, docToEvents, copies, slots, settled>>

MongoBatch(w) ==
    \/ Gather(w) \/ Insert(w) \/ Inserted(w) \/ Return(w)
    \/ \E k \in DOMAIN copies : UpdateDoc(w, k)

MongoNext == \E w \in MongoWorkers : MongoBatch(w)

MongoSpec == MongoInit /\ [][MongoNext]_mongoVars
-----------------------------------------------------------------------------
(* What must hold. *)

\* Readings of one host in the same second.
SameReading(m, n) ==
    /\ Event(m).host = Event(n).host /\ Event(m).measurement = Event(n).measurement
    /\ Event(m).time = Event(n).time

\* "Documents are aggregated on a per-sensor, per-hour basis": once its update has run, a
\* host's event is in its slot of the one document of the host, hour and measurement.  Only an
\* event of the same second replaces it.  Events without the tag hostname, those of trucks,
\* have no document of their own: any truck's replaces another's.
EventsHaveTheirSlot ==
    /\ \A n \in settled :
           /\ SlotOf(n) \in DOMAIN slots
           /\ Event(n).tag = "hostname" => SameReading(slots[SlotOf(n)], n)
    /\ \A k \in DOMAIN copies : k.hostname # "" => copies[k] <= 1
=============================================================================
