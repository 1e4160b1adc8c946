---------------------------- MODULE LoadPipeline ----------------------------
(***************************************************************************)
(* The insert benchmark of package load: one scanner goroutine that reads  *)
(* points and fills batches (load/scan.go), duplex channels that carry     *)
(* batches to the workers and acknowledgements back                        *)
(* (load/duplex_channel.go), the workers, and the shutdown performed by    *)
(* RunBenchmark (load/loader.go).                                          *)
(*                                                                         *)
(* Points are numbered 1, 2, ... in the order the decoder returns them.    *)
(* The input may end after any number of points up to MaxPoints, and the   *)
(* indexer may send each point to any channel.  A batch is the sequence of *)
(* points appended to it.  The code's acknowledgement is the bare value    *)
(* true; here it carries the batch it acknowledges, so that properties can *)
(* say which batches are outstanding.                                      *)
(***************************************************************************)
EXTENDS Integers, Sequences, FiniteSets, Functions

CONSTANTS NumWorkers,   \* --workers
          WorkQueues,   \* argument of RunBenchmark; 0 gives each worker its queue
          BatchSize,    \* --batch-size
          Limit,        \* --limit, 0 reads everything
          MaxPoints     \* bound on the length of the input

ASSUME LoadAssumption ==
    /\ NumWorkers \in Nat \ {0}
    /\ WorkQueues \in 0..NumWorkers      \* createChannels panics above NumWorkers
    /\ BatchSize \in Nat \ {0}           \* scanWithIndexer panics below 1
    /\ Limit \in Nat
    /\ MaxPoints \in Nat

Workers == 0..(NumWorkers - 1)
Points == 1..MaxPoints

NumChannels == IF WorkQueues = 0 THEN NumWorkers ELSE WorkQueues
Channels == 0..(NumChannels - 1)
NoChannel == NumChannels
ChannelOf(w) == w % NumChannels

\* Slip: rounding the number of workers per queue down.
QueueLenRoundedDown == NumWorkers \div NumChannels

\* Capacity of both directions of a channel: the workers it serves, rounded up.
QueueLen == (NumWorkers + NumChannels - 1) \div NumChannels

\* olimit: above this many outstanding batches the scanner blocks for an ack.
OutstandingLimit == NumChannels * QueueLen * 3

VARIABLES
    pc,          \* control of the scanner and of RunBenchmark after it
    idx,         \* next channel of the flush and close loops
    owed,        \* channel ackAndMaybeSend is sending an unsent batch to
    filling,     \* fillingBatches
    unsent,      \* unsentBatches
    ocnt,        \* batches dispatched and not acknowledged, as the scanner counts
    itemsRead,   \* points decoded so far
    toWorker,    \* batches in the channel to the workers
    toScanner,   \* acknowledgements in the channel back
    closed,      \* channels closed by RunBenchmark
    wpc,         \* control of each worker
    wbatch,      \* the batch each worker holds
    stored,      \* points handed to the database, in order, by channel
    rowCnt       \* the shared counter of loaded rows

scanVars == <<pc, idx, owed, filling, unsent, ocnt, itemsRead>>
chanVars == <<toWorker, toScanner, closed>>
workVars == <<wpc, wbatch, stored, rowCnt>>
vars == <<scanVars, chanVars, workVars>>

ScannerStates == {"select", "decode", "flush", "drain", "close", "wait", "done"}
WorkerStates == {"idle", "process", "count", "ack", "exited"}
BusyStates == {"process", "count", "ack"}    \* with a batch to acknowledge

Init ==
    /\ pc = "select"
    /\ idx = 0
    /\ owed = NoChannel
    /\ filling = [c \in Channels |-> <<>>]
    /\ unsent = [c \in Channels |-> <<>>]
    /\ ocnt = 0
    /\ itemsRead = 0
    /\ toWorker = [c \in Channels |-> <<>>]
    /\ toScanner = [c \in Channels |-> <<>>]
    /\ closed = [c \in Channels |-> FALSE]
    /\ wpc = [w \in Workers |-> "idle"]
    /\ wbatch = [w \in Workers |-> <<>>]
    /\ stored = [c \in Channels |-> <<>>]
    /\ rowCnt = 0
-----------------------------------------------------------------------------
(* The scanner. *)

LimitReached == Limit > 0 /\ itemsRead = Limit

\* Slip: off by one on the capacity of a channel.
HasRoomForOneMore(queue) == Len(queue) <= QueueLen

\* A send on the buffered channel does not block.
HasRoom(queue) == Len(queue) < QueueLen

\* Slip: the limit on outstanding batches off by one.
MayRunAheadByOne == ocnt <= OutstandingLimit

\* The select keeps its default case.
MayRunAhead == ocnt < OutstandingLimit

\* Slip: a free slot is used although older batches wait in unsentBatches.
GoesStraightWhenRoom(c) == HasRoom(toWorker[c])

\* A new batch may go straight to the channel.
GoesStraight(c) == unsent[c] = <<>> /\ HasRoom(toWorker[c])

\* Slip: all that waited is dropped, not the batch that was sent.
NoneUnsent(c) == <<>>

\* unsentBatches of a channel after its first batch was sent.
RestUnsent(c) == Tail(unsent[c])

\* Slip: the scanner stops waiting when nothing is left to send.
AllSent == \A c \in Channels : unsent[c] = <<>>

\* What the drain loop waits for.
AllAcked == ocnt = 0

\* Batches without points are not dispatched.
FlushNeeded(c) == filling[c] # <<>>

\* Slip: only the batches sent at once are counted.
CountWhenSent(c, batch) ==
    IF GoesStraight(c)
    THEN /\ toWorker' = [toWorker EXCEPT ![c] = Append(@, batch)]
         /\ ocnt' = ocnt + 1
         /\ UNCHANGED unsent
    ELSE /\ unsent' = [unsent EXCEPT ![c] = Append(@, batch)]
         /\ UNCHANGED <<toWorker, ocnt>>

\* sendOrQueueBatch: straight to the channel when that cannot block and nothing
\* waits before it, otherwise to the back of the unsent batches.
SendOrQueue(c, batch) ==
    /\ ocnt' = ocnt + 1
    /\ IF GoesStraight(c)
       THEN /\ toWorker' = [toWorker EXCEPT ![c] = Append(@, batch)]
            /\ UNCHANGED unsent
       ELSE /\ unsent' = [unsent EXCEPT ![c] = Append(@, batch)]
            /\ UNCHANGED toWorker

\* Receive an acknowledgement and enter ackAndMaybeSend: with a batch waiting
\* for the channel, the scanner now owes it a (blocking) send.
ReceiveAck(c) ==
    /\ owed = NoChannel
    /\ toScanner[c] # <<>>
    /\ toScanner' = [toScanner EXCEPT ![c] = Tail(@)]
    /\ ocnt' = ocnt - 1
    /\ owed' = IF unsent[c] # <<>> THEN c ELSE NoChannel
    /\ UNCHANGED <<idx, filling, unsent, itemsRead, toWorker, closed, workVars>>

\* The blocking send of ackAndMaybeSend.
SendOwed ==
    /\ owed # NoChannel
    /\ HasRoom(toWorker[owed])
    /\ toWorker' = [toWorker EXCEPT ![owed] = Append(@, Head(unsent[owed]))]
    /\ unsent' = [unsent EXCEPT ![owed] = RestUnsent(owed)]
    /\ owed' = NoChannel
    /\ UNCHANGED <<pc, idx, filling, ocnt, itemsRead, toScanner, closed, workVars>>

\* Top of the loop: the limit ends the scan before anything else.
StopAtLimit ==
    /\ pc = "select"
    /\ LimitReached
    /\ pc' = "flush"
    /\ UNCHANGED <<idx, owed, filling, unsent, ocnt, itemsRead, chanVars, workVars>>

SelectAck(c) ==
    /\ pc = "select"
    /\ ~LimitReached
    /\ ReceiveAck(c)
    /\ pc' = "decode"

\* The default case, which is absent once OutstandingLimit is reached and which
\* Go takes only when no acknowledgement is ready.
SelectDefault ==
    /\ pc = "select"
    /\ ~LimitReached
    /\ MayRunAhead
    /\ \A c \in Channels : toScanner[c] = <<>>
    /\ pc' = "decode"
    /\ UNCHANGED <<idx, owed, filling, unsent, ocnt, itemsRead, chanVars, workVars>>

\* Decode a point, append it to the batch of its channel, dispatch a full batch.
Read(c) ==
    /\ pc = "decode"
    /\ owed = NoChannel
    /\ itemsRead < MaxPoints
    /\ itemsRead' = itemsRead + 1
    /\ LET batch == Append(filling[c], itemsRead + 1)
       IN  IF Len(batch) >= BatchSize
           THEN /\ SendOrQueue(c, batch)
                /\ filling' = [filling EXCEPT ![c] = <<>>]
           ELSE /\ filling' = [filling EXCEPT ![c] = batch]
                /\ UNCHANGED <<unsent, ocnt, toWorker>>
    /\ pc' = "select"
    /\ UNCHANGED <<idx, owed, toScanner, closed, workVars>>

EndOfInput ==
    /\ pc = "decode"
    /\ owed = NoChannel
    /\ pc' = "flush"
    /\ UNCHANGED <<idx, owed, filling, unsent, ocnt, itemsRead, chanVars, workVars>>

\* One iteration of the loop that dispatches the partly filled batches.
Flush ==
    /\ pc = "flush"
    /\ IF FlushNeeded(idx)
       THEN SendOrQueue(idx, filling[idx])
       ELSE UNCHANGED <<unsent, ocnt, toWorker>>
    /\ filling' = [filling EXCEPT ![idx] = <<>>]
    /\ IF idx + 1 = NumChannels
       THEN pc' = "drain" /\ idx' = 0
       ELSE idx' = idx + 1 /\ UNCHANGED pc
    /\ UNCHANGED <<owed, itemsRead, toScanner, closed, workVars>>

\* Wait for every outstanding batch: the select without a default case.
DrainAck(c) ==
    /\ pc = "drain"
    /\ ~AllAcked
    /\ ReceiveAck(c)
    /\ UNCHANGED pc

Drained ==
    /\ pc = "drain"
    /\ owed = NoChannel
    /\ AllAcked
    /\ pc' = "close"
    /\ UNCHANGED <<idx, owed, filling, unsent, ocnt, itemsRead, chanVars, workVars>>

\* One iteration of the loop that closes the channels.
Close ==
    /\ pc = "close"
    /\ closed' = [closed EXCEPT ![idx] = TRUE]
    /\ IF idx + 1 = NumChannels
       THEN pc' = "wait" /\ idx' = 0
       ELSE idx' = idx + 1 /\ UNCHANGED pc
    /\ UNCHANGED <<owed, filling, unsent, ocnt, itemsRead, toWorker, toScanner, workVars>>

\* wg.Wait returns and the summary prints the counters.
Summary ==
    /\ pc = "wait"
    /\ \A w \in Workers : wpc[w] = "exited"
    /\ pc' = "done"
    /\ UNCHANGED <<idx, owed, filling, unsent, ocnt, itemsRead, chanVars, workVars>>
-----------------------------------------------------------------------------
(* A worker: the range over its channel, one batch at a time. *)

Take(w) ==
    LET c == ChannelOf(w) IN
    /\ wpc[w] = "idle"
    /\ toWorker[c] # <<>>
    /\ wbatch' = [wbatch EXCEPT ![w] = Head(toWorker[c])]
    /\ toWorker' = [toWorker EXCEPT ![c] = Tail(@)]
    /\ wpc' = [wpc EXCEPT ![w] = "process"]
    /\ UNCHANGED <<scanVars, toScanner, closed, stored, rowCnt>>

\* ProcessBatch: the batch reaches the database.
Process(w) ==
    /\ wpc[w] = "process"
    /\ stored' = [stored EXCEPT ![ChannelOf(w)] = @ \o wbatch[w]]
    /\ wpc' = [wpc EXCEPT ![w] = "count"]
    /\ UNCHANGED <<scanVars, chanVars, wbatch, rowCnt>>

\* The atomic additions to the counters the report and the summary read.
Count(w) ==
    /\ wpc[w] = "count"
    /\ rowCnt' = rowCnt + Len(wbatch[w])
    /\ wpc' = [wpc EXCEPT ![w] = "ack"]
    /\ UNCHANGED <<scanVars, chanVars, wbatch, stored>>

\* sendToScanner blocks while the channel back is full.
Ack(w) ==
    LET c == ChannelOf(w) IN
    /\ wpc[w] = "ack"
    /\ HasRoom(toScanner[c])
    /\ toScanner' = [toScanner EXCEPT ![c] = Append(@, wbatch[w])]
    /\ wbatch' = [wbatch EXCEPT ![w] = <<>>]
    /\ wpc' = [wpc EXCEPT ![w] = "idle"]
    /\ UNCHANGED <<scanVars, toWorker, closed, stored, rowCnt>>

\* Slip: the worker leaves its loop without wg.Done.
ExitWithoutDone(w) ==
    /\ wpc[w] = "idle"
    /\ closed[ChannelOf(w)]
    /\ toWorker[ChannelOf(w)] = <<>>
    /\ UNCHANGED vars

\* The range ends once the channel is closed and empty; then wg.Done.
Exit(w) ==
    /\ wpc[w] = "idle"
    /\ closed[ChannelOf(w)]
    /\ toWorker[ChannelOf(w)] = <<>>
    /\ wpc' = [wpc EXCEPT ![w] = "exited"]
    /\ UNCHANGED <<scanVars, chanVars, wbatch, stored, rowCnt>>
-----------------------------------------------------------------------------
Scanner ==
    \/ StopAtLimit
    \/ SelectDefault
    \/ EndOfInput
    \/ SendOwed
    \/ Flush
    \/ Drained
    \/ Close
    \/ Summary
    \/ \E c \in Channels : SelectAck(c) \/ Read(c) \/ DrainAck(c)

Worker(w) == Take(w) \/ Process(w) \/ Count(w) \/ Ack(w) \/ Exit(w)

\* The program has ended; stuttering here is not a deadlock.
Ended == pc = "done" /\ UNCHANGED vars

Next == Scanner \/ (\E w \in Workers : Worker(w)) \/ Ended

Spec == Init /\ [][Next]_vars

\* The Go scheduler eventually runs a goroutine that can run.  Weak fairness is
\* enough: no step here can be taken for ever without the others.
Fairness == WF_vars(Scanner) /\ \A w \in Workers : WF_vars(Worker(w))
FairSpec == Spec /\ Fairness
-----------------------------------------------------------------------------
(* What must hold. *)

Batch == Seq(Points)

\* Batches dispatched and not yet acknowledged to the scanner, by where they are.
Queued == UNION {Range(unsent[c]) \cup Range(toWorker[c]) : c \in Channels}
Held == {wbatch[w] : w \in {v \in Workers : wpc[v] \in BusyStates}}
Acked == UNION {Range(toScanner[c]) : c \in Channels}
Outstanding == Queued \cup Held \cup Acked

\* The state of the scanner, the channels and the workers has the types of the
\* Go variables: batches are sequences of points, counters never go negative and
\* no channel holds more than its capacity.
TypeOK ==
    /\ pc \in ScannerStates
    /\ idx \in Channels
    /\ owed \in Channels \cup {NoChannel}
    /\ filling \in [Channels -> Batch]
    /\ unsent \in [Channels -> Seq(Batch)]
    /\ ocnt \in Nat
    /\ itemsRead \in 0..MaxPoints
    /\ toWorker \in [Channels -> Seq(Batch)]
    /\ toScanner \in [Channels -> Seq(Batch)]
    /\ \A c \in Channels : Len(toWorker[c]) <= QueueLen /\ Len(toScanner[c]) <= QueueLen
    /\ closed \in [Channels -> BOOLEAN]
    /\ wpc \in [Workers -> WorkerStates]
    /\ wbatch \in [Workers -> Batch]
    /\ stored \in [Channels -> Seq(Points)]
    /\ rowCnt \in Nat

\* A worker sends an acknowledgement for every batch it takes, and a send on a
\* closed channel panics: RunBenchmark closes a channel only when no worker of
\* that channel still has a batch to acknowledge and no batch is left in it.
NoSendOnClosed ==
    \A c \in Channels : closed[c] =>
        /\ unsent[c] = <<>> /\ toWorker[c] = <<>> /\ toScanner[c] = <<>>
        /\ \A w \in Workers : ChannelOf(w) = c => wpc[w] \notin BusyStates

\* ocnt, the only thing the drain loop looks at, is the number of batches that
\* are waiting, in a channel, with a worker or acknowledged but not received.
OutstandingCounted == ocnt = Cardinality(Outstanding)

\* Flow control of scanWithIndexer: reading never leaves more than olimit batches
\* outstanding; the final flush adds at most one batch per channel.
Backpressure ==
    /\ pc \in {"select", "decode"} => ocnt <= OutstandingLimit
    /\ ocnt <= OutstandingLimit + NumChannels

\* "Scan does flow control to make sure workers are not left idle": a worker
\* without work, while a batch of its channel waits in unsentBatches, always has
\* an acknowledgement on the way that makes the scanner send that batch.
IdleWorkerIsServed ==
    \A w \in Workers :
        LET c == ChannelOf(w) IN
        wpc[w] = "idle" /\ toWorker[c] = <<>> /\ unsent[c] # <<>>
            => owed = c \/ toScanner[c] # <<>>

\* The three conditions a point that was read can be in.
Filling(p) == \E c \in Channels : p \in Range(filling[c])
Pending(p) ==
    \/ \E b \in Queued : p \in Range(b)
    \/ \E w \in Workers : wpc[w] = "process" /\ p \in Range(wbatch[w])
Stored(p) == \E c \in Channels : p \in Range(stored[c])

\* No point is lost or loaded twice between the decoder and ProcessBatch: a point
\* that was read is in a filling batch, or in a batch on its way, or stored, and
\* in one of the three only; what is stored is stored once, and was read.  When the
\* summary is printed every point read has been stored, and the counter that the
\* summary divides by the time counts them.
ExactlyOnce ==
    /\ \A p \in 1..itemsRead :
        /\ Filling(p) \/ Pending(p) \/ Stored(p)
        /\ ~(Filling(p) /\ Pending(p))
        /\ ~(Pending(p) /\ Stored(p))
        /\ ~(Stored(p) /\ Filling(p))
    /\ \A c \in Channels :
        /\ IsInjective(stored[c])
        /\ Range(stored[c]) \subseteq 1..itemsRead
        /\ \A d \in Channels \ {c} : Range(stored[c]) \cap Range(stored[d]) = {}
    /\ pc = "done" =>
        /\ \A p \in 1..itemsRead : Stored(p)
        /\ rowCnt = itemsRead
        /\ Limit > 0 => itemsRead <= Limit

\* Workers never share a queue when there are as many queues as workers; the
\* points of a channel then reach the database in the order they were read, which
\* is what --hash-workers relies on to keep each host's rows in order.
ReadOrder ==
    \A c \in Channels :
        Cardinality({w \in Workers : ChannelOf(w) = c}) = 1 =>
            \A i, j \in DOMAIN stored[c] : i < j => stored[c][i] < stored[c][j]

\* The load ends: the scanner gets every acknowledgement it waits for, although it
\* may block on a full channel to a worker that blocks on a full channel back, and
\* every worker leaves its loop.
Termination == <>(pc = "done")

\* Points accepted for channel c that no worker has taken.
WaitingPoints(c) ==
    UNION {Range(b) : b \in Range(toWorker[c]) \cup Range(unsent[c]) \cup {filling[c]}}

Delivery == INSTANCE PointDelivery WITH
    accepted <- itemsRead,
    waiting <- [c \in Channels |-> WaitingPoints(c)],
    held <- [w \in Workers |-> IF wpc[w] = "process" THEN wbatch[w] ELSE <<>>],
    delivered <- stored,
    finished <- pc = "done"

\* The pipeline of batches, channels and acknowledgements delivers the points of
\* every channel in the order they were read, in runs of at most a batch, each
\* exactly once, and ends when all of them were delivered.
ImplementsDelivery == Delivery!Spec
=============================================================================
