----------------------------- MODULE InfluxLoad -----------------------------
(***************************************************************************)
(* The InfluxDB loader (cmd/tsbs_load_influx/process.go, http_writer.go):  *)
(* a batch that the server turns away for want of resources is sent again  *)
(* until it is accepted.  Each worker tells a goroutine of its own, on a   *)
(* bounded channel, whether it is backing off; the goroutine reports how   *)
(* long each backoff took, and Close waits for it.                         *)
(***************************************************************************)
EXTENDS Integers, Sequences, FiniteSets

CONSTANTS
    NumInfluxWorkers,   \* --workers
    BackingOffChanCap,  \* capacity of a worker's channel
    MaxBatches          \* bound on the batches of a worker

InfluxWorkers == 0..(NumInfluxWorkers - 1)

VARIABLES
    influxPc,       \* where each worker is
    batch,          \* the number of its batch, from 1
    result,         \* the error of its last write
    backingOffChan, \* the messages on the way to its goroutine
    last,           \* the goroutine's: whether the last message was a backoff
    printed,        \* how many backoffs it reported
    mpc,            \* "run", "done" (sent on backingOffDone)
    storedBatches,  \* the batches the database holds, <<worker, number>>
    twice,          \* those written more than once
    timedOut,       \* those for which an answer was a timeout
    delayed,        \* those turned away at least once
    counted,        \* those whose rows the load counts
    influxFatal     \* whether the program ended with an error

goVars == <<backingOffChan, last, printed, mpc>>
dbVars == <<storedBatches, twice, timedOut>>
influxVars == <<influxPc, batch, result, goVars, dbVars, delayed, counted, influxFatal>>

InfluxInit ==
    /\ influxPc = [w \in InfluxWorkers |-> "idle"]
    /\ batch = [w \in InfluxWorkers |-> 0]
    /\ result = [w \in InfluxWorkers |-> "nil"]
    /\ backingOffChan = [w \in InfluxWorkers |-> <<>>]
    /\ last = [w \in InfluxWorkers |-> FALSE]
    /\ printed = [w \in InfluxWorkers |-> 0]
    /\ mpc = [w \in InfluxWorkers |-> "run"]
    /\ storedBatches = {} /\ twice = {} /\ timedOut = {} /\ delayed = {} /\ counted = {}
    /\ influxFatal = FALSE
-----------------------------------------------------------------------------
(* The server: an answer is a status and what its body says. *)

Answers ==
    {[status |-> 204, body |-> "nothing"], [status |-> 500, body |-> "full"],
     [status |-> 500, body |-> "timeout"], [status |-> 500, body |-> "other"],
     [status |-> 400, body |-> "other"], [status |-> 0, body |-> "silence"]}

\* A write that timed out, or was not answered, may have been done.
MayStore(answer) ==
    CASE answer.status = 204 -> {TRUE}
      [] answer.body \in {"timeout", "silence"} -> BOOLEAN
      [] OTHER -> {FALSE}

\* The words of a server that is short of memory, connections or time.
BackpressurePred(body) == body \in {"full", "timeout"}

\* Slip: an error that is not backpressure is not looked at.
ExecuteReqTrusting(answer) ==
    IF answer.status = 500 /\ BackpressurePred(answer.body) THEN "errBackoff" ELSE "nil"

ExecuteReq(answer) ==
    CASE answer.status = 500 /\ BackpressurePred(answer.body) -> "errBackoff"
      [] answer.status = 204 -> "nil"
      [] OTHER -> "error"
-----------------------------------------------------------------------------
(* A worker. *)

Batch(w) == <<w, batch[w]>>

\* ProcessBatch is called.
Take(w) ==
    /\ influxPc[w] = "idle"
    /\ batch[w] < MaxBatches
    /\ batch' = [batch EXCEPT ![w] = @ + 1]
    /\ influxPc' = [influxPc EXCEPT ![w] = "write"]
    /\ UNCHANGED <<result, goVars, dbVars, delayed, counted, influxFatal>>

WriteAnswered(w, answer) ==
    /\ influxPc[w] = "write"
    /\ \E done \in MayStore(answer) :
           /\ storedBatches' = IF done THEN storedBatches \cup {Batch(w)} ELSE storedBatches
           /\ twice' = IF done THEN twice \cup (storedBatches \cap {Batch(w)}) ELSE twice
    /\ timedOut' = IF answer.body = "timeout" THEN timedOut \cup {Batch(w)} ELSE timedOut
    /\ result' = [result EXCEPT ![w] = ExecuteReq(answer)]
    /\ influxPc' = [influxPc EXCEPT ![w] = "tell"]
    /\ UNCHANGED <<batch, goVars, delayed, counted, influxFatal>>

Write(w) == \E answer \in Answers : WriteAnswered(w, answer)

ChanRoom(w) == Len(backingOffChan[w]) < BackingOffChanCap

Tell(w, this) == backingOffChan' = [backingOffChan EXCEPT ![w] = Append(@, this)]

\* Turned away: a message, and after a while the batch again.
BackOff(w) ==
    /\ influxPc[w] = "tell" /\ result[w] = "errBackoff"
    /\ ChanRoom(w)
    /\ Tell(w, TRUE)
    /\ delayed' = delayed \cup {Batch(w)}
    /\ influxPc' = [influxPc EXCEPT ![w] = "write"]
    /\ UNCHANGED <<batch, result, last, printed, mpc, dbVars, counted, influxFatal>>

\* The loop is over: any error left ends the program, else the batch is counted.
Settle(w) ==
    /\ influxPc[w] = "tell" /\ result[w] # "errBackoff"
    /\ ChanRoom(w)
    /\ Tell(w, FALSE)
    /\ influxFatal' = (result[w] = "error")
    /\ counted' = IF result[w] = "nil" THEN counted \cup {Batch(w)} ELSE counted
    /\ influxPc' = [influxPc EXCEPT ![w] = "idle"]
    /\ UNCHANGED <<batch, result, last, printed, mpc, dbVars, delayed>>

\* Close, up to its wait.
CloseChan(w) ==
    /\ influxPc[w] = "idle"
    /\ influxPc' = [influxPc EXCEPT ![w] = "closing"]
    /\ UNCHANGED <<batch, result, goVars, dbVars, delayed, counted, influxFatal>>

Closed(w) ==
    /\ influxPc[w] = "closing"
    /\ mpc[w] = "done"
    /\ influxPc' = [influxPc EXCEPT ![w] = "closed"]
    /\ UNCHANGED <<batch, result, goVars, dbVars, delayed, counted, influxFatal>>
-----------------------------------------------------------------------------
(* processBackoffMessages *)

\* Slip: a backoff is over with any message.
EndsBackoffAlways(this, before) == before

\* A message that ends a backoff, which is then reported.
EndsBackoff(this, before) == ~this /\ before

Message(w) ==
    /\ mpc[w] = "run"
    /\ backingOffChan[w] # <<>>
    /\ LET this == Head(backingOffChan[w])
           over == EndsBackoff(this, last[w])
       IN  /\ printed' = [printed EXCEPT ![w] = IF over THEN @ + 1 ELSE @]
           /\ last' = [last EXCEPT ![w] = ~over /\ (this \/ @)]
    /\ backingOffChan' = [backingOffChan EXCEPT ![w] = Tail(@)]
    /\ UNCHANGED <<influxPc, batch, result, mpc, dbVars, delayed, counted, influxFatal>>

\* Slip: the goroutine leaves without a sign.
MessagesEndSilently(w) ==
    /\ mpc[w] = "run" /\ influxPc[w] = "closing" /\ backingOffChan[w] = <<>>
    /\ mpc' = [mpc EXCEPT ![w] = "left"]
    /\ UNCHANGED <<influxPc, batch, result, backingOffChan, last, printed, dbVars, delayed, counted, influxFatal>>

\* The channel is closed and empty.
MessagesEnd(w) ==
    /\ mpc[w] = "run" /\ influxPc[w] = "closing" /\ backingOffChan[w] = <<>>
    /\ mpc' = [mpc EXCEPT ![w] = "done"]
    /\ UNCHANGED <<influxPc, batch, result, backingOffChan, last, printed, dbVars, delayed, counted, influxFatal>>

InfluxBatch(w) == Take(w) \/ Write(w) \/ BackOff(w) \/ Settle(w)
Close(w) == CloseChan(w) \/ Closed(w)
ProcessBackoffMessages(w) == Message(w) \/ MessagesEnd(w)

InfluxNext ==
    /\ ~influxFatal
    /\ \E w \in InfluxWorkers : InfluxBatch(w) \/ Close(w) \/ ProcessBackoffMessages(w)

InfluxSpec == InfluxInit /\ [][InfluxNext]_influxVars

\* What a worker does in a call, and its goroutine.
Going(w) == ~influxFatal /\ (Write(w) \/ BackOff(w) \/ Settle(w) \/ Closed(w))
Talking(w) == ~influxFatal /\ ProcessBackoffMessages(w)

\* The server accepts a batch.
Accept(w) == ~influxFatal /\ WriteAnswered(w, [status |-> 204, body |-> "nothing"])
-----------------------------------------------------------------------------
(* What must hold. *)

\* A batch whose rows are counted is in the database, however often it was turned away; it is
\* there twice only if an answer was a timeout.
CountedIsStored == counted \subseteq storedBatches /\ twice \subseteq timedOut

\* When Close returns, the goroutine has reported each backoff once: those of one batch as
\* one, those of two as two.
BackoffsReported ==
    \A w \in InfluxWorkers :
        influxPc[w] = "closed" => printed[w] = Cardinality({b \in delayed : b[1] = w}) /\ ~last[w]

\* ProcessBatch or Close must return.
Busy(w) == influxPc[w] \in {"write", "tell", "closing"} /\ ~influxFatal
=============================================================================
