--------------------------- MODULE DataGeneration ---------------------------
(***************************************************************************)
(* Data generation: runSimulator of internal/inputs/generator_data.go over *)
(* the simulators of cmd/tsbs_generate_data.  Those of the devops and      *)
(* cpu-only use cases and the base of the IoT use case are one machine: it *)
(* goes through the generators (hosts or trucks), for each measurement,    *)
(* for each epoch, and fewer of them report in the first epochs.  The IoT  *)
(* simulator takes points from the base in batches, drops some, holds      *)
(* batches and entries back and inserts them later.                        *)
(*                                                                         *)
(* A point is where it was made: its epoch, measurement and generator.     *)
(* Values, tags and the fields the IoT simulator clears are left out.      *)
(***************************************************************************)
EXTENDS Integers, Sequences, FiniteSets, SequencesExt

CONSTANTS
    BatchSize,  \* defaultBatchSize of the IoT simulator
    Configs     \* the flags: use, hosts (--scale), init (--initial-scale),
                \* measurements of a generator, epochs, limit (--max-data-points),
                \* groups, group (--interleaved-generation-...), and bar, whether the
                \* caller asks for MaxPoints as runSimulator does

\* An initial scale above the scale is not modelled, nor an IoT run of one epoch (its
\* simulator may go past it, where the scale is divided by 0).
ASSUME GenerationAssumption ==
    /\ BatchSize \in Nat \ {0}
    /\ \A c \in Configs :
        /\ c.use \in {"devops", "iot"} /\ c.bar \in BOOLEAN
        /\ c.hosts \in Nat \ {0} /\ c.init \in 1..c.hosts
        /\ c.measurements \in Nat \ {0} /\ c.epochs \in Nat /\ c.limit \in Nat
        /\ c.groups \in Nat \ {0} /\ c.group \in 0..(c.groups - 1)
        /\ c.use = "iot" => c.epochs # 1

VARIABLES
    conf,           \* the flags of this run
    phase,          \* "start", "run" or "overflow" of the stack
    made,           \* madePoints of the base simulator
    generator,      \* its generatorIndex
    measurement,    \* its simulatedMeasurementIndex
    epoch,
    reporting,      \* its epochGenerators
    currBatch, outOfOrderBatches, outOfOrderEntries,    \* of the IoT simulator
    job,            \* the batch it is generating
    missing,        \* the points it dropped
    emitted,        \* the points Next returned
    group,          \* currGroupID of runSimulator
    written         \* the points serialized

baseVars == <<made, generator, measurement, epoch, reporting>>
iotVars == <<currBatch, outOfOrderBatches, outOfOrderEntries, job, missing>>
outVars == <<emitted, group, written>>
vars == <<conf, phase, baseVars, iotVars, outVars>>

\* kind is that of simulateNextBatch's loop; slot is index + offset of getNextEntry, again
\* tells its later iterations, and previous how many entries its batchConfig may insert.
Idle == [kind |-> "idle", late |-> FALSE, batch |-> <<>>, slot |-> 0, again |-> FALSE, previous |-> 0]

Init ==
    /\ conf \in Configs
    /\ phase = "start"
    /\ made = 0 /\ generator = 0 /\ measurement = 0 /\ epoch = 0
    /\ reporting = conf.init
    /\ currBatch = <<>> /\ outOfOrderBatches = <<>> /\ outOfOrderEntries = <<>>
    /\ job = Idle
    /\ missing = {}
    /\ emitted = <<>> /\ group = 0 /\ written = <<>>

\* runSimulator asks for the length of its progress bar; MaxPoints of the IoT simulator
\* calls itself.
AskMaxPoints ==
    /\ phase = "start"
    /\ phase' = IF conf.bar /\ conf.use = "iot" THEN "overflow" ELSE "run"
    /\ UNCHANGED <<conf, baseVars, iotVars, outVars>>
-----------------------------------------------------------------------------
(* The base simulator. *)

MaxPoints ==
    LET all == conf.epochs * conf.hosts * conf.measurements
    IN  IF conf.limit > 0 /\ conf.limit < all THEN conf.limit ELSE all

BaseFinished == made >= MaxPoints

\* Slip: proportional to all the epochs, so the last one misses some.
ReportingOfEpochs(e) == conf.init + ((conf.hosts - conf.init) * e) \div conf.epochs

\* adjustNumHostsForEpoch: the rest of the scale, in proportion to the epochs passed.
ReportingIn(e) == conf.init + ((conf.hosts - conf.init) * e) \div (conf.epochs - 1)

GeneratorsDone == generator = conf.hosts
EpochDone == GeneratorsDone /\ measurement + 1 = conf.measurements

\* The point Next makes, and whether its generator reports yet.
NextPoint ==
    [epoch |-> IF EpochDone THEN epoch + 1 ELSE epoch,
     measurement |-> IF EpochDone THEN 0 ELSE IF GeneratorsDone THEN measurement + 1 ELSE measurement,
     generator |-> IF GeneratorsDone THEN 0 ELSE generator]

NextReporting == IF EpochDone THEN ReportingIn(epoch + 1) ELSE reporting
NextReports == NextPoint.generator < NextReporting

BaseNext ==
    /\ made' = made + 1
    /\ generator' = NextPoint.generator + 1
    /\ measurement' = NextPoint.measurement
    /\ epoch' = NextPoint.epoch
    /\ reporting' = NextReporting
-----------------------------------------------------------------------------
(* runSimulator. *)

\* Slip: the group moves on for points that are not written, too.
MovesOn(write) == TRUE

\* Points not written do not count for the groups.
Counts(write) == write

\* What runSimulator does with a point Next returned.
Output(p, write) ==
    /\ emitted' = IF write THEN Append(emitted, p) ELSE emitted
    /\ written' = IF write /\ group = conf.group THEN Append(written, p) ELSE written
    /\ group' = IF Counts(write) THEN (group + 1) % conf.groups ELSE group

\* A round of runSimulator with a devops or cpu-only simulator.
DevopsNext ==
    /\ phase = "run" /\ conf.use = "devops"
    /\ ~BaseFinished
    /\ BaseNext
    /\ Output(NextPoint, NextReports)
    /\ UNCHANGED <<conf, phase, iotVars>>

\* A round with the IoT simulator while its batch lasts.
IoTNext ==
    /\ phase = "run" /\ conf.use = "iot"
    /\ job.kind = "idle" /\ currBatch # <<>>
    /\ Output(Head(currBatch), TRUE)
    /\ currBatch' = Tail(currBatch)
    /\ UNCHANGED <<conf, phase, baseVars, outOfOrderBatches, outOfOrderEntries, job, missing>>
-----------------------------------------------------------------------------
(* The IoT simulator: simulateNextBatch, taking the calls of itself as rounds. *)

NeedsBatch == phase = "run" /\ conf.use = "iot" /\ job.kind = "idle" /\ currBatch = <<>>

\* Slip: what does not fit in the batch is forgotten.
ForgetEntries(n) == <<>>

RestOfEntries(n) == SubSeq(outOfOrderEntries, n + 1, Len(outOfOrderEntries))

PendingBatchLen == IF Len(outOfOrderEntries) > BatchSize THEN BatchSize ELSE Len(outOfOrderEntries)

\* batchPending, when the base has finished.
TakePending ==
    /\ NeedsBatch /\ BaseFinished
    /\ \/ /\ outOfOrderBatches # <<>>
          /\ currBatch' = Head(outOfOrderBatches)
          /\ outOfOrderBatches' = Tail(outOfOrderBatches)
          /\ UNCHANGED outOfOrderEntries
       \/ /\ outOfOrderBatches = <<>> /\ outOfOrderEntries # <<>>
          /\ currBatch' = SubSeq(outOfOrderEntries, 1, PendingBatchLen)
          /\ outOfOrderEntries' = RestOfEntries(PendingBatchLen)
          /\ UNCHANGED outOfOrderBatches
    /\ UNCHANGED <<conf, phase, baseVars, job, missing, outVars>>

\* bc.InsertPrevious, only chosen with a batch held back.
InsertPrevious ==
    /\ NeedsBatch /\ ~BaseFinished
    /\ outOfOrderBatches # <<>>
    /\ currBatch' = Head(outOfOrderBatches)
    /\ outOfOrderBatches' = Tail(outOfOrderBatches)
    /\ UNCHANGED <<conf, phase, baseVars, outOfOrderEntries, job, missing, outVars>>

\* bc.Missing starts flushBatch, any other configuration generateBatch.
StartBatch ==
    /\ NeedsBatch /\ ~BaseFinished
    /\ \/ job' = [Idle EXCEPT !.kind = "flush"]
       \/ \E late \in BOOLEAN :
              job' = [Idle EXCEPT !.kind = "generate", !.late = late,
                                  !.previous = Len(outOfOrderEntries)]
    /\ UNCHANGED <<conf, phase, baseVars, currBatch, outOfOrderBatches, outOfOrderEntries, missing, outVars>>

\* flushBatch: up to BatchSize points, until one does not report.
FlushEntry ==
    /\ job.kind = "flush"
    /\ BaseNext
    /\ missing' = IF NextReports THEN missing \cup {NextPoint} ELSE missing
    /\ job' = IF NextReports /\ job.slot + 1 < BatchSize THEN [job EXCEPT !.slot = @ + 1] ELSE Idle
    /\ UNCHANGED <<conf, phase, currBatch, outOfOrderBatches, outOfOrderEntries, outVars>>

\* The batch is full, or the base has finished; this is not looked at between the
\* iterations for one entry.
BatchDone == ~job.again /\ (Len(job.batch) = BatchSize \/ BaseFinished)

\* The generated batch becomes the current one, or is held back.
DeliverBatch ==
    /\ job' = Idle
    /\ IF job.late
       THEN /\ outOfOrderBatches' = IF job.batch = <<>> THEN outOfOrderBatches
                                    ELSE Append(outOfOrderBatches, job.batch)
            /\ UNCHANGED currBatch
       ELSE currBatch' = job.batch /\ UNCHANGED outOfOrderBatches

EndBatch ==
    /\ job.kind = "generate" /\ BatchDone
    /\ DeliverBatch
    /\ UNCHANGED <<conf, phase, baseVars, outOfOrderEntries, missing, outVars>>

SlotAfterSkip == job.slot + 1

\* Slip: the configuration does not count the entries it inserts.
PreviousKept == job.previous

PreviousLeft == job.previous - 1

Kept(p, previous) ==
    job' = [job EXCEPT !.batch = Append(@, p), !.slot = @ + 1, !.again = FALSE, !.previous = previous]

Skipped(previous) ==
    job' = [job EXCEPT !.slot = SlotAfterSkip, !.again = TRUE, !.previous = previous]

\* What the configuration does with an entry; it has none for slots past the batch size.
Fate(p, entries, previous) ==
    \/ /\ Kept(p, previous)
       /\ outOfOrderEntries' = entries
       /\ UNCHANGED missing
    \/ /\ job.slot < BatchSize          \* MissingEntries
       /\ Skipped(previous)
       /\ outOfOrderEntries' = entries
       /\ missing' = missing \cup {p}
    \/ /\ job.slot < BatchSize          \* OutOfOrderEntries
       /\ Skipped(previous)
       /\ outOfOrderEntries' = Append(entries, p)
       /\ UNCHANGED missing

\* InsertPreviousEntry is only set while entries that were held at the start remain.
MayInsertEntry == job.slot < BatchSize /\ job.previous > 0

EntryHeldBack ==
    /\ job.kind = "generate" /\ ~BatchDone
    /\ MayInsertEntry
    /\ outOfOrderEntries # <<>>
    /\ Fate(Head(outOfOrderEntries), Tail(outOfOrderEntries), PreviousLeft)
    /\ UNCHANGED <<conf, phase, baseVars, currBatch, outOfOrderBatches, outVars>>

\* A point of the base; one that does not report ends the batch.
EntryOfBase ==
    /\ job.kind = "generate" /\ ~BatchDone
    /\ BaseNext
    /\ \/ /\ NextReports
          /\ Fate(NextPoint, outOfOrderEntries, job.previous)
          /\ UNCHANGED <<currBatch, outOfOrderBatches>>
       \/ /\ ~NextReports
          /\ DeliverBatch
          /\ UNCHANGED <<outOfOrderEntries, missing>>
    /\ UNCHANGED <<conf, phase, outVars>>

Finished ==
    /\ BaseFinished /\ currBatch = <<>> /\ job.kind = "idle"
    /\ outOfOrderBatches = <<>> /\ outOfOrderEntries = <<>>

\* The program has ended; stuttering here is not a deadlock.
Ended ==
    /\ phase = "overflow" \/ (phase = "run" /\ Finished)
    /\ UNCHANGED vars

Work ==
    \/ AskMaxPoints \/ DevopsNext \/ IoTNext
    \/ TakePending \/ InsertPrevious \/ StartBatch \/ FlushEntry
    \/ EndBatch \/ EntryHeldBack \/ EntryOfBase
Next == Work \/ Ended

Spec == Init /\ [][Next]_vars
-----------------------------------------------------------------------------
(* What must hold. *)

\* The points made so far of generators that report in their epoch.
ReportedPoints ==
    {p \in [epoch : 0..epoch, measurement : 0..(conf.measurements - 1), generator : 0..(conf.hosts - 1)] :
        /\ (p.epoch * conf.measurements + p.measurement) * conf.hosts + p.generator < made
        /\ p.generator < IF p.epoch = 0 THEN conf.init ELSE ReportingIn(p.epoch)}

\* Where the points are that a simulator has returned or will return.
Places == <<emitted, currBatch, job.batch, outOfOrderEntries>> \o outOfOrderBatches

Everywhere == UNION {ToSet(Places[i]) : i \in DOMAIN Places}

\* However batches and entries are held back, inserted, held again and dropped, each
\* point is dropped on purpose or in one place once: none is lost, none written twice.
EachPointOnce ==
    /\ \A i \in DOMAIN Places : IsInjective(Places[i])
    /\ \A i, j \in DOMAIN Places : i # j => ToSet(Places[i]) \cap ToSet(Places[j]) = {}
    /\ Everywhere \cap missing = {}
    /\ Everywhere \cup missing = ReportedPoints

\* A batchConfig never inserts an entry when none is held back, as getNextEntry panics on.
NeverPanics == job.kind = "generate" /\ ~BatchDone /\ MayInsertEntry => outOfOrderEntries # <<>>

Fleet(e) == {p.generator : p \in {q \in ToSet(emitted) : q.epoch = e}}

\* Without a limit, a devops run has the initial scale in its first epoch, the whole scale
\* in its last, and grows evenly; every host of an epoch reports every measurement once.
FleetGrowsToScale ==
    conf.use = "devops" /\ conf.limit = 0 /\ Finished /\ conf.epochs > 0 =>
        LET E == 0..(conf.epochs - 1)
            size == [e \in E |-> Cardinality(Fleet(e))]
            step == [e \in E \ {0} |-> size[e] - size[e - 1]]
        IN  /\ \A e \in E : Fleet(e) = 0..(size[e] - 1)
            /\ size[0] = conf.init
            /\ conf.epochs > 1 => size[conf.epochs - 1] = conf.hosts
            /\ \A e, d \in E \ {0} : step[e] >= 0 /\ step[e] <= step[d] + 1
            /\ IsInjective(emitted)
            /\ ToSet(emitted) =
                   {p \in [epoch : E, measurement : 0..(conf.measurements - 1),
                           generator : 0..(conf.hosts - 1)] : p.generator < size[p.epoch]}

\* Processes with the same seed, one for each group, write each point once between them:
\* this one writes those it is due, wherever hosts that do not report lie between.
GroupWritesItsShare ==
    /\ \A i \in DOMAIN emitted : emitted[i] \in ToSet(written) <=> (i - 1) % conf.groups = conf.group
    /\ IsInjective(written) /\ ToSet(written) \subseteq ToSet(emitted)

=============================================================================
