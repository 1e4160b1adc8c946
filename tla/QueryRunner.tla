---------------------------- MODULE QueryRunner ----------------------------
(***************************************************************************)
(* The query benchmark of package query: Run (benchmarker.go) with its     *)
(* scanner (scanner.go), the workers (processorHandler) and the goroutine  *)
(* that collects statistics (stat_processor.go).                           *)
(*                                                                         *)
(* Queries are numbered 0, 1, ... as the scanner numbers them; the file    *)
(* may hold any number of them up to MaxQueries.  A statistic is the       *)
(* record of the query it measures, whether the run was warm and whether   *)
(* it is partial (a part of a query, which only counts under its label).   *)
(* The labels, latencies and histograms are left out: a group is the set   *)
(* of the statistics pushed to it.                                         *)
(***************************************************************************)
EXTENDS Integers, Sequences, FiniteSets, Functions

CONSTANTS
    NumWorkers,     \* --workers
    MaxQueries,     \* bound on the queries in the file
    Configs         \* the flags limit, burnIn, prewarm; parts, the partial
                    \* statistics the processor returns per query; statsFirst,
                    \* TRUE when the statistics goroutine is scheduled before
                    \* the others, FALSE when it may start at any time

ASSUME QueryAssumption ==
    /\ NumWorkers \in Nat \ {0}          \* Run panics without workers
    /\ MaxQueries \in Nat
    /\ Configs \subseteq [limit : Nat, burnIn : Nat, prewarm : BOOLEAN, parts : Nat,
                          statsFirst : BOOLEAN]

Workers == 1..NumWorkers
Queries == 0..(MaxQueries - 1)
Stats == [query : Queries, warm : BOOLEAN, part : Nat]    \* part 0: the whole query

VARIABLES
    conf,        \* the configuration of this run
    pc,          \* control of Run
    scanned,     \* queries read and sent to the workers
    jobs,        \* b.ch
    jobsClosed,
    wpc,         \* control of each worker
    wquery,      \* query each worker executes
    wout,        \* its statistics still to be sent
    executed,    \* executions so far: pairs of a query and its being warm
    sppc,        \* control of the statistics goroutine
    stats,       \* sp.c, once it is made
    statsClosed,
    spWaits,     \* sp.wg
    counter,     \* i of process
    ignored,     \* statistics dropped by the burn-in
    recorded     \* statistics pushed to the groups

runVars == <<conf, pc, scanned>>
jobVars == <<jobs, jobsClosed>>
workVars == <<wpc, wquery, wout, executed>>
statVars == <<sppc, stats, statsClosed, spWaits, counter, ignored, recorded>>
vars == <<runVars, jobVars, workVars, statVars>>

RunStates == {"check", "scan", "wait", "closeStats", "waitStats", "returned", "panicked"}
WorkerStates == {"idle", "cold", "sendCold", "warm", "sendWarm", "blocked", "exited"}
StatStates == {"starting", "made", "running", "done"}

Init ==
    /\ conf \in Configs
    /\ pc = "check"
    /\ scanned = 0
    /\ jobs = <<>>
    /\ jobsClosed = FALSE
    /\ wpc = [w \in Workers |-> "idle"]
    /\ wquery = [w \in Workers |-> 0]
    /\ wout = [w \in Workers |-> <<>>]
    /\ executed = {}
    /\ sppc = IF conf.statsFirst THEN "running" ELSE "starting"
    /\ stats = <<>>
    /\ statsClosed = FALSE
    /\ spWaits = IF conf.statsFirst THEN 1 ELSE 0
    /\ counter = 0
    /\ ignored = {}
    /\ recorded = {}
-----------------------------------------------------------------------------
(* Run and its scanner. *)

BurnInTooLong == conf.burnIn > conf.limit

Reject ==
    /\ pc = "check"
    /\ BurnInTooLong
    /\ pc' = "panicked"
    /\ UNCHANGED <<conf, scanned, jobVars, workVars, statVars>>

Launch ==
    /\ pc = "check"
    /\ ~BurnInTooLong
    /\ pc' = "scan"
    /\ UNCHANGED <<conf, scanned, jobVars, workVars, statVars>>

LimitReached == conf.limit > 0 /\ scanned >= conf.limit

HasRoom == Len(jobs) < NumWorkers

\* Decode a query and send it, which blocks while the channel is full.
ScanQuery ==
    /\ pc = "scan"
    /\ ~LimitReached
    /\ scanned < MaxQueries
    /\ HasRoom
    /\ jobs' = Append(jobs, scanned)
    /\ scanned' = scanned + 1
    /\ UNCHANGED <<conf, pc, jobsClosed, workVars, statVars>>

\* The limit, or io.EOF, ends the scan; the job channel is closed.
EndScan ==
    /\ pc = "scan"
    /\ jobsClosed' = TRUE
    /\ pc' = "wait"
    /\ UNCHANGED <<conf, scanned, jobs, workVars, statVars>>

WorkersDone == \A w \in Workers : wpc[w] = "exited"

WaitWorkers ==
    /\ pc = "wait"
    /\ WorkersDone
    /\ pc' = "closeStats"
    /\ UNCHANGED <<conf, scanned, jobVars, workVars, statVars>>

\* CloseAndWait: closing the nil channel of a goroutine that has not started
\* panics.
CloseStats ==
    /\ pc = "closeStats"
    /\ sppc # "starting"
    /\ statsClosed' = TRUE
    /\ pc' = "waitStats"
    /\ UNCHANGED <<conf, scanned, jobVars, workVars, sppc, stats, spWaits, counter,
                   ignored, recorded>>

CloseNilStats ==
    /\ pc = "closeStats"
    /\ sppc = "starting"
    /\ pc' = "panicked"
    /\ UNCHANGED <<conf, scanned, jobVars, workVars, statVars>>

\* sp.wg.Wait, which returns at once when process has not called Add yet.
Return ==
    /\ pc = "waitStats"
    /\ spWaits = 0
    /\ pc' = "returned"
    /\ UNCHANGED <<conf, scanned, jobVars, workVars, statVars>>
-----------------------------------------------------------------------------
(* A worker. *)

Receive(w) ==
    /\ wpc[w] = "idle"
    /\ jobs # <<>>
    /\ wquery' = [wquery EXCEPT ![w] = Head(jobs)]
    /\ jobs' = Tail(jobs)
    /\ wpc' = [wpc EXCEPT ![w] = "cold"]
    /\ UNCHANGED <<runVars, jobsClosed, wout, executed, statVars>>

\* Slip: the pooled statistics of a prewarmed query keep their warm mark.
StaleStatsOf(q, warm) ==
    [k \in 1..(conf.parts + 1) |->
        [query |-> q, warm |-> warm \/ (conf.prewarm /\ q > 0),
         part |-> IF k <= conf.parts THEN k ELSE 0]]

\* What a processor returns: the partial statistics, then the whole query's.
StatsOf(q, warm) ==
    [k \in 1..(conf.parts + 1) |->
        [query |-> q, warm |-> warm, part |-> IF k <= conf.parts THEN k ELSE 0]]

\* ProcessQuery, cold and then (with --prewarm-queries) warm.
Execute(w) ==
    /\ wpc[w] \in {"cold", "warm"}
    /\ LET warm == wpc[w] = "warm" IN
        /\ executed' = executed \cup {<<wquery[w], warm>>}
        /\ wout' = [wout EXCEPT ![w] = StatsOf(wquery[w], warm)]
        /\ wpc' = [wpc EXCEPT ![w] = IF warm THEN "sendWarm" ELSE "sendCold"]
    /\ UNCHANGED <<runVars, jobVars, wquery, statVars>>

\* sp.send of one statistic: blocks while the channel is full.
Send(w) ==
    /\ wpc[w] \in {"sendCold", "sendWarm"}
    /\ wout[w] # <<>>
    /\ sppc # "starting"
    /\ Len(stats) < NumWorkers
    /\ stats' = Append(stats, Head(wout[w]))
    /\ wout' = [wout EXCEPT ![w] = Tail(@)]
    /\ UNCHANGED <<runVars, jobVars, wpc, wquery, executed, sppc, statsClosed, spWaits,
                   counter, ignored, recorded>>

\* A send on a nil channel never proceeds, whatever sp.c is set to later.
SendOnNil(w) ==
    /\ wpc[w] \in {"sendCold", "sendWarm"}
    /\ wout[w] # <<>>
    /\ sppc = "starting"
    /\ wpc' = [wpc EXCEPT ![w] = "blocked"]
    /\ UNCHANGED <<runVars, jobVars, wquery, wout, executed, statVars>>

\* The next state of a worker that sent the statistics of a cold run.
AfterCold == IF conf.prewarm THEN "warm" ELSE "idle"

Sent(w) ==
    /\ wpc[w] \in {"sendCold", "sendWarm"}
    /\ wout[w] = <<>>
    /\ wpc' = [wpc EXCEPT ![w] = IF @ = "sendCold" THEN AfterCold ELSE "idle"]
    /\ UNCHANGED <<runVars, jobVars, wquery, wout, executed, statVars>>

\* Slip: the worker leaves when the channel is closed, before it is empty.
ExitEarly(w) ==
    /\ wpc[w] = "idle"
    /\ jobsClosed
    /\ wpc' = [wpc EXCEPT ![w] = "exited"]
    /\ UNCHANGED <<runVars, jobVars, wquery, wout, executed, statVars>>

Exit(w) ==
    /\ wpc[w] = "idle"
    /\ jobsClosed
    /\ jobs = <<>>
    /\ wpc' = [wpc EXCEPT ![w] = "exited"]
    /\ UNCHANGED <<runVars, jobVars, wquery, wout, executed, statVars>>
-----------------------------------------------------------------------------
(* The statistics goroutine. *)

MakeChannel ==
    /\ sppc = "starting"
    /\ sppc' = "made"
    /\ UNCHANGED <<runVars, jobVars, workVars, stats, statsClosed, spWaits, counter,
                   ignored, recorded>>

AddWait ==
    /\ sppc = "made"
    /\ spWaits' = spWaits + 1
    /\ sppc' = "running"
    /\ UNCHANGED <<runVars, jobVars, workVars, stats, statsClosed, counter, ignored, recorded>>

\* Slip: the warm runs are counted like the cold ones.
CountsAlways(s) == s.part = 0

\* The statistics that advance i after the burn-in: whole queries, and with
\* prewarming only their cold run.
Counts(s) == s.part = 0 /\ (~conf.prewarm \/ ~s.warm)

BurningIn == counter < conf.burnIn

\* The first statistics, of whatever kind, are dropped.
Ignore ==
    /\ sppc = "running"
    /\ stats # <<>>
    /\ BurningIn
    /\ counter' = counter + 1
    /\ ignored' = ignored \cup {Head(stats)}
    /\ stats' = Tail(stats)
    /\ UNCHANGED <<runVars, jobVars, workVars, sppc, statsClosed, spWaits, recorded>>

Record ==
    /\ sppc = "running"
    /\ stats # <<>>
    /\ ~BurningIn
    /\ recorded' = recorded \cup {Head(stats)}
    /\ counter' = counter + (IF Counts(Head(stats)) THEN 1 ELSE 0)
    /\ stats' = Tail(stats)
    /\ UNCHANGED <<runVars, jobVars, workVars, sppc, statsClosed, spWaits, ignored>>

\* Slip: process returns without wg.Done.
FinishWithoutDone ==
    /\ sppc = "running"
    /\ stats = <<>>
    /\ statsClosed
    /\ sppc' = "done"
    /\ UNCHANGED <<runVars, jobVars, workVars, stats, statsClosed, spWaits, counter, ignored, recorded>>

\* The channel is closed and drained: print the summary, wg.Done.
Finish ==
    /\ sppc = "running"
    /\ stats = <<>>
    /\ statsClosed
    /\ sppc' = "done"
    /\ spWaits' = spWaits - 1
    /\ UNCHANGED <<runVars, jobVars, workVars, stats, statsClosed, counter, ignored, recorded>>
-----------------------------------------------------------------------------
Run == Reject \/ Launch \/ ScanQuery \/ EndScan \/ WaitWorkers \/ CloseStats
       \/ CloseNilStats \/ Return

\* The goroutines run once they were launched, and until Run returns or panics.
Running == pc \notin {"check", "returned", "panicked"}

Worker(w) == Running /\ (Receive(w) \/ Execute(w) \/ Send(w) \/ SendOnNil(w) \/ Sent(w) \/ Exit(w))

StatProcessor == Running /\ (MakeChannel \/ AddWait \/ Ignore \/ Record \/ Finish)

\* The program has ended; stuttering here is not a deadlock.
Ended == pc \in {"returned", "panicked"} /\ UNCHANGED vars

Next == Run \/ (\E w \in Workers : Worker(w)) \/ StatProcessor \/ Ended

Spec == Init /\ [][Next]_vars

Fairness ==
    /\ WF_vars(Run)
    /\ \A w \in Workers : WF_vars(Worker(w))
    /\ WF_vars(StatProcessor)
FairSpec == Spec /\ Fairness
-----------------------------------------------------------------------------
(* What must hold. *)

\* A worker's send on the closed statistics channel would panic: the channel is
\* closed only after every worker has sent all it had to send.
NoSendOnClosed ==
    statsClosed => \A w \in Workers : wpc[w] = "exited" /\ wout[w] = <<>>

\* The statistics of the runs Run performs, in total.
Expected ==
    [query : 0..(scanned - 1),
     warm : IF conf.prewarm THEN BOOLEAN ELSE {FALSE},
     part : 0..conf.parts]

\* Every query that was read, no more than --max-queries allows, is run, cold and, with
\* prewarming, warm; by the time Run returns each of its statistics is either part of
\* the burn-in or recorded in the groups, not both, and none is sent too late.  When the statistics goroutine starts late Run may return
\* with none of them, but never with a part: a run whose statistics goroutine got to
\* work is not cut off before the last one.
AllMeasured ==
    /\ NoSendOnClosed
    /\ conf.limit > 0 => scanned <= conf.limit
    /\ ignored \cap recorded = {}
    /\ pc = "returned" /\ (conf.statsFirst \/ ignored \cup recorded # {}) =>
           sppc = "done" /\ ignored \cup recorded = Expected

\* The number the summary and the interval reports print, i - burnIn, is the number
\* of whole queries (cold runs, when prewarming) the groups hold.
ReportedCountIsRight ==
    counter >= conf.burnIn =>
        counter - conf.burnIn =
            Cardinality({s \in recorded : s.part = 0 /\ (conf.prewarm => ~s.warm)})

\* The warm statistics of a query are processed after its cold ones: a worker runs
\* both in turn and sends them on one channel, so a warm result is never measured
\* against a query whose cold run is not in the statistics yet.
WarmAfterCold ==
    \A s \in ignored \cup recorded : s.warm => [s EXCEPT !.warm = FALSE] \in ignored \cup recorded

\* "CloseAndWait closes the stats channel and blocks until the StatProcessor has
\* finished all the stats on its channel": when Run returns the summary is printed.
StatsFinished == pc = "returned" => sppc = "done" /\ stats = <<>>

\* Run comes to an end, although workers and the statistics goroutine wait for each
\* other on full channels, when the statistics channel is made in time.
Termination == conf.statsFirst => <>(pc \in {"returned", "panicked"})
=============================================================================
