------------------------- MODULE QueryRunnerProofs -------------------------
(***************************************************************************)
(* The query benchmark measures every query, for every number of workers   *)
(* and queries and every configuration.  The invariants come in layers:    *)
(* the control of the goroutines, which query is where, and where each     *)
(* statistic is.                                                           *)
(***************************************************************************)
EXTENDS QueryRunner, FiniteSetTheorems, TLAPS

-----------------------------------------------------------------------------
(* The invariants. *)

TypeOK ==
    /\ conf \in Configs
    /\ pc \in RunStates
    /\ scanned \in 0..MaxQueries
    /\ jobs \in Seq(Queries)
    /\ jobsClosed \in BOOLEAN
    /\ wpc \in [Workers -> WorkerStates]
    /\ wquery \in [Workers -> Nat]
    /\ wout \in [Workers -> Seq(Stats)]
    /\ sppc \in StatStates
    /\ stats \in Seq(Stats)
    /\ statsClosed \in BOOLEAN
    /\ spWaits \in Nat
    /\ counter \in Nat
    /\ ignored \subseteq Stats
    /\ recorded \subseteq Stats

BusyStates == {"cold", "sendCold", "warm", "sendWarm", "blocked"}
SendStates == {"sendCold", "sendWarm", "blocked"}

\* The order in which Run, its scanner and the workers end.
RunOrder ==
    /\ jobsClosed => pc \notin {"check", "scan"}
    /\ \A w \in Workers : wpc[w] = "exited" => jobsClosed /\ jobs = <<>>
    /\ \A w \in Workers : wpc[w] \notin SendStates => wout[w] = <<>>
    /\ \A w \in Workers : wpc[w] \in {"warm", "sendWarm"} => conf.prewarm
    /\ pc \in {"closeStats", "waitStats", "returned"} => WorkersDone
    /\ statsClosed => pc \in {"waitStats", "returned"}
    /\ conf.limit > 0 => scanned <= conf.limit

Processed == ignored \cup recorded

\* The statistics goroutine, which Run waits for once it has called Add.
StatOrder ==
    /\ sppc \in {"starting", "made"} => Processed = {} /\ spWaits = 0
    /\ sppc = "running" => spWaits = 1
    /\ sppc = "done" => stats = <<>> /\ statsClosed
    /\ conf.statsFirst => sppc \in {"running", "done"}
    /\ pc = "returned" => sppc # "running"

IInv == TypeOK /\ RunOrder /\ StatOrder

\* Queries taken from the job channel.
Given == scanned - Len(jobs)

\* The queries pass the job channel in order, and each goes to one worker.
QueryOnce ==
    /\ Len(jobs) <= scanned
    /\ \A i \in DOMAIN jobs : jobs[i] = Given + i - 1
    /\ \A w \in Workers : wpc[w] \in BusyStates => wquery[w] < Given
    /\ \A v, w \in Workers :
           v # w /\ wpc[v] \in BusyStates /\ wpc[w] \in BusyStates => wquery[v] # wquery[w]

Modes == IF conf.prewarm THEN BOOLEAN ELSE {FALSE}

\* The statistics of a run of a query, and of all its runs.
RunStats(q, warm) == [query : {q}, warm : {warm}, part : 0..conf.parts]
AllStats(q) == [query : {q}, warm : Modes, part : 0..conf.parts]

\* Statistics that were sent.
Out == Range(stats) \cup Processed

\* A statistic of its query that a worker has still to send.
Due(w, s) ==
    \/ wpc[w] = "cold"
    \/ wpc[w] \in {"sendCold", "warm"} /\ s.warm
    \/ wpc[w] \in {"sendCold", "sendWarm"} /\ s \in Range(wout[w])

\* What a worker is sending are statistics of the run it has made, each once.
OutputShape ==
    \A w \in Workers :
        /\ IsInjective(wout[w])
        /\ wpc[w] = "sendCold" => Range(wout[w]) \subseteq RunStats(wquery[w], FALSE)
        /\ wpc[w] = "sendWarm" => Range(wout[w]) \subseteq RunStats(wquery[w], TRUE)

\* Each statistic is at one place: to be sent, in the channel, ignored or recorded.
StatOnce ==
    /\ IsInjective(stats)
    /\ Range(stats) \cap Processed = {}
    /\ ignored \cap recorded = {}
    /\ \A s \in Out : s.query < Given /\ s \in AllStats(s.query)
    /\ \A w \in Workers : wpc[w] \in BusyStates \ {"blocked"} =>
           \A s \in AllStats(wquery[w]) : s \in Out <=> ~Due(w, s)
    /\ \A q \in 0..(Given - 1) :
           (\A w \in Workers : wpc[w] \in BusyStates => wquery[w] # q) => AllStats(q) \subseteq Out

\* The cold statistic of a warm one in the channel was processed or is before it.
ColdFirst ==
    /\ WarmAfterCold
    /\ \A i \in DOMAIN stats : stats[i].warm =>
           LET cold == [stats[i] EXCEPT !.warm = FALSE] IN
           cold \in Processed \/ \E j \in 1..(i - 1) : stats[j] = cold

CountedStats == {s \in recorded : Counts(s)}

\* The counter passes the burn-in before anything is recorded.
CountRight ==
    /\ counter < conf.burnIn => recorded = {}
    /\ IsFiniteSet(CountedStats)
    /\ counter >= conf.burnIn => counter = conf.burnIn + Cardinality(CountedStats)
-----------------------------------------------------------------------------
(* Sequences. *)

LEMMA HeadTailFacts ==
    ASSUME NEW B, NEW s \in Seq(B), s # <<>>
    PROVE  /\ Head(s) \in B /\ Tail(s) \in Seq(B)
           /\ Len(s) \in Nat \ {0} /\ Len(Tail(s)) = Len(s) - 1
           /\ Head(s) = s[1] /\ 1 \in DOMAIN s
           /\ \A i \in DOMAIN Tail(s) : i + 1 \in DOMAIN s /\ Tail(s)[i] = s[i + 1]
           /\ \A i \in DOMAIN s : i = 1 \/ (i - 1 \in DOMAIN Tail(s) /\ Tail(s)[i - 1] = s[i])
OBVIOUS

LEMMA AppendFacts ==
    ASSUME NEW B, NEW s \in Seq(B), NEW e \in B
    PROVE  /\ Append(s, e) \in Seq(B)
           /\ Len(s) \in Nat /\ Len(Append(s, e)) = Len(s) + 1
           /\ DOMAIN s = 1..Len(s)
           /\ DOMAIN Append(s, e) = 1..(Len(s) + 1)
           /\ \A i \in DOMAIN s : Append(s, e)[i] = s[i]
           /\ Append(s, e)[Len(s) + 1] = e
OBVIOUS

\* The elements of a sequence and of its tail.
LEMMA TailRange ==
    ASSUME NEW B, NEW s \in Seq(B), s # <<>>
    PROVE  /\ Range(s) = {Head(s)} \cup Range(Tail(s))
           /\ IsInjective(s) => IsInjective(Tail(s)) /\ Head(s) \notin Range(Tail(s))
<1>1. /\ Head(s) = s[1] /\ 1 \in DOMAIN s
      /\ \A i \in DOMAIN Tail(s) : i + 1 \in DOMAIN s /\ Tail(s)[i] = s[i + 1] /\ i \in Nat \ {0}
      /\ \A i \in DOMAIN s : i = 1 \/ (i - 1 \in DOMAIN Tail(s) /\ Tail(s)[i - 1] = s[i])
  OBVIOUS
<1>2. Range(s) = {Head(s)} \cup Range(Tail(s))
  <2>1. ASSUME NEW x \in Range(s) PROVE x \in {Head(s)} \cup Range(Tail(s))
    <3>1. PICK i \in DOMAIN s : x = s[i]
      BY DEF Range
    <3>2. CASE i = 1
      BY <1>1, <3>1, <3>2
    <3>3. CASE i - 1 \in DOMAIN Tail(s) /\ Tail(s)[i - 1] = s[i]
      BY <3>1, <3>3 DEF Range
    <3> QED
      BY <1>1, <3>2, <3>3
  <2>2. Head(s) \in Range(s) /\ Range(Tail(s)) \subseteq Range(s)
    BY <1>1 DEF Range
  <2> QED
    BY <2>1, <2>2
<1>3. ASSUME IsInjective(s) PROVE IsInjective(Tail(s)) /\ Head(s) \notin Range(Tail(s))
  <2>1. \A i \in DOMAIN Tail(s) : i + 1 # 1
    BY <1>1
  <2>2. \A i, j \in DOMAIN Tail(s) : i + 1 = j + 1 => i = j
    BY <1>1
  <2> QED
    BY <1>1, <1>3, <2>1, <2>2 DEF IsInjective, Range
<1> QED
  BY <1>2, <1>3

LEMMA AppendRange ==
    ASSUME NEW B, NEW s \in Seq(B), NEW e \in B
    PROVE  /\ Range(Append(s, e)) = Range(s) \cup {e}
           /\ IsInjective(s) /\ e \notin Range(s) => IsInjective(Append(s, e))
<1> DEFINE t == Append(s, e)
           n == Len(s)
<1>1. /\ n \in Nat /\ DOMAIN s = 1..n /\ DOMAIN t = 1..(n + 1)
      /\ \A i \in 1..n : t[i] = s[i] /\ i \in 1..(n + 1)
      /\ t[n + 1] = e /\ n + 1 \in 1..(n + 1)
      /\ \A i \in 1..(n + 1) : i \in 1..n \/ i = n + 1
  OBVIOUS
<1> HIDE DEF t, n
<1>2. Range(t) = Range(s) \cup {e}
  BY <1>1 DEF Range
<1>3. ASSUME IsInjective(s), e \notin Range(s) PROVE IsInjective(t)
  BY <1>1, <1>3 DEF IsInjective, Range
<1> QED
  BY <1>2, <1>3 DEF t
-----------------------------------------------------------------------------
(* The control of the goroutines. *)

\* The statistics of a run are those a worker sends, each once.
LEMMA StatsOfShape ==
    ASSUME NEW q \in Queries, NEW warm \in BOOLEAN, conf \in Configs
    PROVE  /\ StatsOf(q, warm) \in Seq(Stats) /\ StatsOf(q, warm) # <<>>
           /\ IsInjective(StatsOf(q, warm))
           /\ Range(StatsOf(q, warm)) = RunStats(q, warm)
<1> DEFINE n == conf.parts
           s == StatsOf(q, warm)
           Part(k) == IF k <= n THEN k ELSE 0
<1>1. n \in Nat
  BY QueryAssumption
<1>2. s = [k \in 1..(n + 1) |-> [query |-> q, warm |-> warm, part |-> Part(k)]]
  BY DEF StatsOf
<1>3. /\ \A k \in 1..(n + 1) : Part(k) \in 0..n
      /\ \A k, l \in 1..(n + 1) : Part(k) = Part(l) => k = l
      /\ \A p \in 0..n : p = 0 \/ (p \in 1..(n + 1) /\ Part(p) = p)
      /\ n + 1 \in 1..(n + 1) /\ Part(n + 1) = 0
      /\ 0..n \subseteq Nat
  BY <1>1
<1> HIDE DEF n, Part, s
<1>4. \A k \in 1..(n + 1) : [query |-> q, warm |-> warm, part |-> Part(k)] \in Stats
  BY <1>3 DEF Stats
<1>5. s \in [1..(n + 1) -> Stats] /\ DOMAIN s = 1..(n + 1)
      /\ \A k \in 1..(n + 1) : s[k] = [query |-> q, warm |-> warm, part |-> Part(k)]
  BY <1>2, <1>4
<1>6. s \in Seq(Stats) /\ s # <<>>
  BY <1>1, <1>5
<1>7. IsInjective(s)
  BY <1>3, <1>5 DEF IsInjective
<1>8. Range(s) \subseteq RunStats(q, warm)
  <2>1. \A k \in 1..(n + 1) : s[k] \in [query : {q}, warm : {warm}, part : 0..n]
    BY <1>3, <1>5
  <2> QED
    BY <1>5, <2>1 DEF Range, RunStats, n
<1>9. ASSUME NEW x \in RunStats(q, warm) PROVE x \in Range(s)
  <2>1. x = [query |-> q, warm |-> warm, part |-> x.part] /\ x.part \in 0..n
    BY DEF RunStats, n
  <2>2. PICK k \in 1..(n + 1) : Part(k) = x.part
    BY <1>3, <2>1
  <2> QED
    BY <1>5, <2>1, <2>2 DEF Range
<1> QED
  BY <1>6, <1>7, <1>8, <1>9 DEF s

LEMMA TypeStep ==
    ASSUME IInv, QueryOnce, [Next]_vars
    PROVE  TypeOK'
<1>1. TypeOK /\ RunOrder /\ StatOrder
  BY DEF IInv
<1>2. CASE UNCHANGED vars
  BY <1>1, <1>2 DEF TypeOK, vars, runVars, jobVars, workVars, statVars
<1>3. CASE ScanQuery
  <2>1. scanned \in Queries /\ scanned + 1 \in 0..MaxQueries
    BY <1>1, <1>3, QueryAssumption DEF ScanQuery, TypeOK, Queries
  <2>2. Append(jobs, scanned) \in Seq(Queries)
    BY <1>1, <2>1 DEF TypeOK
  <2> QED
    BY <1>1, <1>3, <2>1, <2>2 DEF ScanQuery, TypeOK, workVars, statVars
<1>4. CASE Reject \/ Launch \/ EndScan \/ WaitWorkers \/ CloseStats \/ CloseNilStats \/ Return
  BY <1>1, <1>4 DEF Reject, Launch, EndScan, WaitWorkers, CloseStats, CloseNilStats, Return,
     TypeOK, RunStates, runVars, jobVars, workVars, statVars
<1>5. ASSUME NEW w \in Workers, Receive(w) PROVE TypeOK'
  <2>1. Head(jobs) \in Queries /\ Tail(jobs) \in Seq(Queries) /\ Queries \subseteq Nat
    BY <1>1, <1>5, HeadTailFacts, QueryAssumption DEF Receive, TypeOK, Queries
  <2> QED
    BY <1>1, <1>5, <2>1 DEF Receive, TypeOK, WorkerStates, runVars, statVars
<1>6. ASSUME NEW w \in Workers, Execute(w) PROVE TypeOK'
  <2>1. wquery[w] \in Queries
    <3>1. wquery[w] \in Nat /\ wquery[w] < scanned - Len(jobs) /\ Len(jobs) \in Nat
      BY <1>1, <1>6 DEF Execute, TypeOK, QueryOnce, BusyStates, Given
    <3>2. scanned \in 0..MaxQueries
      BY <1>1 DEF TypeOK
    <3> QED
      BY <3>1, <3>2, QueryAssumption DEF Queries
  <2>2. \A warm \in BOOLEAN : StatsOf(wquery[w], warm) \in Seq(Stats)
    BY <1>1, <2>1, StatsOfShape DEF TypeOK
  <2>3. wout' \in [Workers -> Seq(Stats)] /\ wpc' \in [Workers -> WorkerStates]
    BY <1>1, <1>6, <2>2 DEF Execute, TypeOK, WorkerStates
  <2> QED
    BY <1>1, <1>6, <2>3 DEF Execute, TypeOK, runVars, jobVars, statVars
<1>7. ASSUME NEW w \in Workers, Send(w) PROVE TypeOK'
  <2>1. wout[w] \in Seq(Stats) /\ wout[w] # <<>>
    BY <1>1, <1>7 DEF Send, TypeOK
  <2>2. Head(wout[w]) \in Stats /\ Tail(wout[w]) \in Seq(Stats)
    BY <2>1, HeadTailFacts
  <2>3. stats' \in Seq(Stats) /\ wout' \in [Workers -> Seq(Stats)]
    BY <1>1, <1>7, <2>2 DEF Send, TypeOK
  <2> QED
    BY <1>1, <1>7, <2>3 DEF Send, TypeOK, runVars, jobVars
<1>8. ASSUME NEW w \in Workers, SendOnNil(w) \/ Sent(w) \/ Exit(w) PROVE TypeOK'
  BY <1>1, <1>8 DEF SendOnNil, Sent, Exit, AfterCold, TypeOK, WorkerStates, runVars, jobVars,
     statVars
<1>9. CASE MakeChannel \/ AddWait \/ Finish
  <2>1. spWaits' \in Nat
    BY <1>1, <1>9 DEF MakeChannel, AddWait, Finish, TypeOK, StatOrder
  <2> QED
    BY <1>1, <1>9, <2>1 DEF MakeChannel, AddWait, Finish, TypeOK, StatStates, runVars, jobVars,
       workVars
<1>10. CASE Ignore \/ Record
  <2>1. Head(stats) \in Stats /\ Tail(stats) \in Seq(Stats)
    BY <1>1, <1>10, HeadTailFacts DEF Ignore, Record, TypeOK
  <2>2. counter' \in Nat
    BY <1>1, <1>10 DEF Ignore, Record, TypeOK
  <2>3. ignored' \subseteq Stats /\ recorded' \subseteq Stats /\ stats' \in Seq(Stats)
    BY <1>1, <1>10, <2>1 DEF Ignore, Record, TypeOK
  <2> QED
    BY <1>1, <1>10, <2>2, <2>3 DEF Ignore, Record, TypeOK, runVars, jobVars, workVars
<1> QED
  BY <1>2, <1>3, <1>4, <1>5, <1>6, <1>7, <1>8, <1>9, <1>10
     DEF Next, Run, Worker, StatProcessor, Ended

\* Run goes through its states in order, a worker leaves when the closed job channel
\* is empty, and the statistics goroutine when its closed channel is.
LEMMA RunOrderStep ==
    ASSUME IInv, [Next]_vars
    PROVE  RunOrder'
<1>1. TypeOK /\ RunOrder /\ StatOrder
  BY DEF IInv
<1>2. CASE UNCHANGED vars
  BY <1>1, <1>2 DEF RunOrder, WorkersDone, vars, runVars, jobVars, workVars, statVars
<1>3. CASE ScanQuery
  <2>1. conf.limit > 0 => scanned + 1 <= conf.limit
    <3>1. conf.limit \in Nat /\ scanned \in Nat
      BY <1>1, QueryAssumption DEF TypeOK
    <3> QED
      BY <1>3, <3>1 DEF ScanQuery, LimitReached
  <2>2. /\ ~jobsClosed /\ pc = "scan" /\ pc' = pc /\ jobsClosed' = jobsClosed
        /\ UNCHANGED <<conf, wpc, wout, statsClosed>> /\ scanned' = scanned + 1
    BY <1>1, <1>3 DEF ScanQuery, RunOrder, workVars, statVars
  <2> QED
    BY <1>1, <2>1, <2>2 DEF RunOrder, WorkersDone
<1>4. CASE Reject \/ Launch \/ EndScan \/ WaitWorkers \/ CloseStats \/ CloseNilStats \/ Return
  BY <1>1, <1>4 DEF Reject, Launch, EndScan, WaitWorkers, CloseStats, CloseNilStats, Return,
     RunOrder, WorkersDone, runVars, jobVars, workVars, statVars
<1>5. ASSUME NEW w \in Workers, Receive(w) PROVE RunOrder'
  <2>1. /\ UNCHANGED <<conf, pc, scanned, jobsClosed, wout, statsClosed>>
        /\ jobs # <<>> /\ wpc[w] = "idle" /\ wpc' = [wpc EXCEPT ![w] = "cold"]
        /\ wpc \in [Workers -> WorkerStates]
    BY <1>1, <1>5 DEF Receive, runVars, statVars, TypeOK
  <2>2. \A v \in Workers : wpc[v] # "exited"
    BY <1>1, <2>1 DEF RunOrder
  <2> QED
    BY <1>1, <2>1, <2>2 DEF RunOrder, WorkersDone, SendStates
<1>6. ASSUME NEW w \in Workers, Execute(w) \/ Send(w) \/ SendOnNil(w) \/ Sent(w) PROVE RunOrder'
  <2>1. /\ UNCHANGED <<conf, pc, scanned, jobs, jobsClosed, statsClosed>>
        /\ wpc \in [Workers -> WorkerStates]
        /\ wout \in [Workers -> Seq(Stats)]
        /\ wpc[w] \in BusyStates /\ wpc'[w] # "exited"
        /\ \A v \in Workers \ {w} : wpc'[v] = wpc[v] /\ wout'[v] = wout[v]
    BY <1>1, <1>6 DEF Execute, Send, SendOnNil, Sent, AfterCold, runVars, jobVars, statVars,
       TypeOK, BusyStates
  <2>2. ~WorkersDone
    BY <2>1 DEF WorkersDone, BusyStates
  <2>3. /\ wpc'[w] \notin SendStates => wout'[w] = <<>>
        /\ wpc'[w] \in {"warm", "sendWarm"} => conf.prewarm
    BY <1>1, <1>6 DEF Execute, Send, SendOnNil, Sent, AfterCold, SendStates, RunOrder, TypeOK
  <2> QED
    BY <1>1, <2>1, <2>2, <2>3 DEF RunOrder, WorkersDone
<1>7. ASSUME NEW w \in Workers, Exit(w) PROVE RunOrder'
  BY <1>1, <1>7 DEF Exit, RunOrder, WorkersDone, SendStates, TypeOK, runVars, jobVars, statVars
<1>8. CASE MakeChannel \/ AddWait \/ Ignore \/ Record \/ Finish
  BY <1>1, <1>8 DEF MakeChannel, AddWait, Ignore, Record, Finish, RunOrder, WorkersDone,
     runVars, jobVars, workVars
<1> QED
  BY <1>2, <1>3, <1>4, <1>5, <1>6, <1>7, <1>8 DEF Next, Run, Worker, StatProcessor, Ended

LEMMA StatOrderStep ==
    ASSUME IInv, [Next]_vars
    PROVE  StatOrder'
<1>1. TypeOK /\ RunOrder /\ StatOrder
  BY DEF IInv
<1>2. CASE UNCHANGED vars
  BY <1>1, <1>2 DEF StatOrder, Processed, vars, runVars, statVars
<1>3. CASE ScanQuery \/ Reject \/ Launch \/ EndScan \/ WaitWorkers \/ CloseNilStats \/ Return
  BY <1>1, <1>3 DEF ScanQuery, Reject, Launch, EndScan, WaitWorkers, CloseNilStats, Return,
     StatOrder, Processed, statVars
<1>4. CASE CloseStats
  BY <1>1, <1>4 DEF CloseStats, StatOrder, Processed
<1>5. ASSUME NEW w \in Workers, Receive(w) \/ Execute(w) \/ SendOnNil(w) \/ Sent(w) \/ Exit(w)
      PROVE  StatOrder'
  BY <1>1, <1>5 DEF Receive, Execute, SendOnNil, Sent, Exit, StatOrder, Processed, runVars, statVars
<1>6. ASSUME NEW w \in Workers, Send(w) PROVE StatOrder'
  <2>1. wout[w] # <<>>
    BY <1>6 DEF Send
  <2>2. ~statsClosed
    BY <1>1, <2>1 DEF RunOrder, WorkersDone, SendStates
  <2> QED
    BY <1>1, <1>6, <2>2 DEF Send, StatOrder, Processed, runVars
<1>7. CASE Running /\ (MakeChannel \/ AddWait \/ Finish)
  BY <1>1, <1>7 DEF MakeChannel, AddWait, Finish, Running, StatOrder, Processed, runVars
<1>8. CASE Running /\ (Ignore \/ Record)
  BY <1>1, <1>8 DEF Ignore, Record, Running, StatOrder, Processed, runVars
<1> QED
  BY <1>2, <1>3, <1>4, <1>5, <1>6, <1>7, <1>8 DEF Next, Run, Worker, StatProcessor, Ended
-----------------------------------------------------------------------------
(* Where a query is. *)

\* A step that neither reads a query nor gives one to a worker.
QueriesStay ==
    /\ UNCHANGED <<scanned, jobs, wquery>>
    /\ \A w \in Workers : wpc'[w] \in BusyStates => wpc[w] \in BusyStates

LEMMA QuerySteps ==
    ASSUME IInv, [Next]_vars
    PROVE  conf' = conf /\ (ScanQuery \/ (\E w \in Workers : Receive(w)) \/ QueriesStay)
<1>1. wpc \in [Workers -> WorkerStates]
  BY DEF IInv, TypeOK
<1>2. CASE UNCHANGED vars
  BY <1>2 DEF vars, runVars, jobVars, workVars, QueriesStay
<1>3. CASE Run
  BY <1>3 DEF Run, ScanQuery, Reject, Launch, EndScan, WaitWorkers, CloseStats, CloseNilStats,
     Return, QueriesStay, jobVars, workVars
<1>4. ASSUME NEW w \in Workers, Worker(w) PROVE conf' = conf /\ (Receive(w) \/ QueriesStay)
  <2>1. CASE Receive(w)
    BY <2>1 DEF Receive, runVars
  <2>2. CASE ~Receive(w)
    <3>1. UNCHANGED <<conf, scanned, jobs, wquery>>
      BY <1>4, <2>2 DEF Worker, Execute, Send, SendOnNil, Sent, Exit, runVars, jobVars
    <3>2. \A v \in Workers : wpc'[v] \in BusyStates => wpc[v] \in BusyStates
      BY <1>1, <1>4, <2>2 DEF Worker, Execute, Send, SendOnNil, Sent, Exit, BusyStates
    <3> QED
      BY <3>1, <3>2 DEF QueriesStay
  <2> QED
    BY <2>1, <2>2
<1>5. CASE StatProcessor
  BY <1>5 DEF StatProcessor, MakeChannel, AddWait, Ignore, Record, Finish, QueriesStay,
     runVars, jobVars, workVars
<1> QED
  BY <1>2, <1>3, <1>4, <1>5 DEF Next, Ended

\* What a worker receives.
LEMMA ReceiveFacts ==
    ASSUME IInv, QueryOnce, NEW w \in Workers, Receive(w)
    PROVE  /\ Given \in Nat /\ Given' = Given + 1
           /\ wquery' = [wquery EXCEPT ![w] = Given]
           /\ wpc[w] = "idle" /\ wpc' = [wpc EXCEPT ![w] = "cold"]
           /\ wpc \in [Workers -> WorkerStates] /\ wquery \in [Workers -> Nat]
           /\ Len(jobs') = Len(jobs) - 1 /\ Len(jobs) \in Nat \ {0} /\ scanned' = scanned
           /\ \A i \in DOMAIN jobs' : jobs'[i] = Given + i
<1>1. /\ jobs \in Seq(Queries) /\ jobs # <<>> /\ jobs' = Tail(jobs) /\ scanned' = scanned
      /\ scanned \in Nat /\ wpc[w] = "idle" /\ wpc' = [wpc EXCEPT ![w] = "cold"]
      /\ wquery' = [wquery EXCEPT ![w] = Head(jobs)]
      /\ wpc \in [Workers -> WorkerStates] /\ wquery \in [Workers -> Nat]
  BY QueryAssumption DEF Receive, IInv, TypeOK, runVars
<1>2. /\ Len(jobs) \in Nat \ {0} /\ Len(jobs') = Len(jobs) - 1
      /\ Head(jobs) = jobs[1] /\ 1 \in DOMAIN jobs
      /\ \A i \in DOMAIN jobs' : i + 1 \in DOMAIN jobs /\ jobs'[i] = jobs[i + 1]
      /\ \A i \in DOMAIN jobs' : i \in Nat
  BY <1>1, HeadTailFacts
<1>3. Given \in Nat /\ Given' = Given + 1
  BY <1>1, <1>2 DEF QueryOnce, Given
<1>4. \A i \in DOMAIN jobs : jobs[i] = Given + i - 1
  BY DEF QueryOnce
<1>5. Head(jobs) = Given
  BY <1>2, <1>3, <1>4
<1>6. \A i \in DOMAIN jobs' : jobs'[i] = Given + i
  BY <1>2, <1>3, <1>4
<1> QED
  BY <1>1, <1>2, <1>3, <1>5, <1>6

LEMMA QueryOnceStep ==
    ASSUME IInv, QueryOnce, [Next]_vars
    PROVE  QueryOnce'
<1>1. CASE QueriesStay
  <2>1. Given' = Given /\ \A w \in Workers : wquery'[w] = wquery[w]
    BY <1>1 DEF QueriesStay, Given
  <2> QED
    BY <1>1, <2>1 DEF QueriesStay, QueryOnce
<1>2. CASE ScanQuery
  <2>1. /\ jobs \in Seq(Queries) /\ scanned \in Queries /\ scanned \in Nat
        /\ jobs' = Append(jobs, scanned) /\ scanned' = scanned + 1
        /\ UNCHANGED <<wpc, wquery>>
    BY <1>2, QueryAssumption DEF ScanQuery, IInv, TypeOK, Queries, workVars
  <2>2. /\ Len(jobs) \in Nat /\ Len(jobs') = Len(jobs) + 1
        /\ DOMAIN jobs' = 1..(Len(jobs) + 1) /\ DOMAIN jobs = 1..Len(jobs)
        /\ \A i \in DOMAIN jobs : jobs'[i] = jobs[i]
        /\ jobs'[Len(jobs) + 1] = scanned
    BY <2>1, AppendFacts
  <2>3. Given' = Given
    BY <2>1, <2>2 DEF Given
  <2>4. scanned = Given + (Len(jobs) + 1) - 1
    BY <2>1, <2>2 DEF Given
  <2>5. \A i \in DOMAIN jobs' : i \in DOMAIN jobs \/ i = Len(jobs) + 1
    BY <2>2
  <2>6. \A i \in DOMAIN jobs' : jobs'[i] = Given + i - 1
    BY <2>2, <2>4, <2>5 DEF QueryOnce
  <2>7. Len(jobs') <= scanned'
    BY <2>1, <2>2 DEF QueryOnce
  <2> QED
    BY <2>1, <2>3, <2>6, <2>7 DEF QueryOnce
<1>3. ASSUME NEW w \in Workers, Receive(w) PROVE QueryOnce'
  <2>1. /\ Given \in Nat /\ Given' = Given + 1
        /\ wquery' = [wquery EXCEPT ![w] = Given]
        /\ wpc[w] = "idle" /\ wpc' = [wpc EXCEPT ![w] = "cold"]
        /\ wpc \in [Workers -> WorkerStates] /\ wquery \in [Workers -> Nat]
        /\ Len(jobs') = Len(jobs) - 1 /\ Len(jobs) \in Nat \ {0} /\ scanned' = scanned
        /\ \A i \in DOMAIN jobs' : jobs'[i] = Given + i
    BY <1>3, ReceiveFacts
  <2>2. \A i \in DOMAIN jobs' : jobs'[i] = Given' + i - 1
    <3>1. jobs' \in Seq(Queries)
      BY <1>3, HeadTailFacts DEF Receive, IInv, TypeOK
    <3>2. \A i \in DOMAIN jobs' : i \in Nat
      BY <3>1
    <3> QED
      BY <2>1, <3>2
  <2>3. Len(jobs') <= scanned'
    <3>1. Len(jobs) <= scanned /\ scanned \in Nat
      BY DEF QueryOnce, IInv, TypeOK
    <3> QED
      BY <2>1, <3>1
  <2>4. \A v \in Workers \ {w} : wquery'[v] = wquery[v] /\ wpc'[v] = wpc[v]
    BY <2>1
  <2>5. wquery'[w] = Given
    BY <2>1
  <2>6. \A v \in Workers \ {w} : wpc[v] \in BusyStates => wquery[v] < Given /\ wquery[v] \in Nat
    BY <2>1 DEF QueryOnce
  <2>7. \A v \in Workers : wpc'[v] \in BusyStates => wquery'[v] < Given'
    BY <2>1, <2>4, <2>5, <2>6
  <2>8. \A u, v \in Workers :
            u # v /\ wpc'[u] \in BusyStates /\ wpc'[v] \in BusyStates => wquery'[u] # wquery'[v]
    <3>1. \A v \in Workers \ {w} : wpc[v] \in BusyStates => wquery[v] # Given
      BY <2>1, <2>6
    <3> QED
      BY <2>4, <2>5, <3>1 DEF QueryOnce
  <2> QED
    BY <2>2, <2>3, <2>7, <2>8 DEF QueryOnce
<1> QED
  BY <1>1, <1>2, <1>3, QuerySteps

LEMMA Invariance == Spec => [](IInv /\ QueryOnce)
<1>1. Init => IInv /\ QueryOnce
  <2> SUFFICES ASSUME Init PROVE IInv /\ QueryOnce
    OBVIOUS
  <2>1. TypeOK
    <3>1. /\ scanned \in 0..MaxQueries /\ jobs \in Seq(Queries) /\ stats \in Seq(Stats)
          /\ spWaits \in Nat /\ counter \in Nat
      BY QueryAssumption DEF Init
    <3>2. /\ wpc \in [Workers -> WorkerStates] /\ wquery \in [Workers -> Nat]
          /\ wout \in [Workers -> Seq(Stats)]
      BY DEF Init, WorkerStates
    <3> QED
      BY <3>1, <3>2 DEF Init, TypeOK, RunStates, StatStates
  <2>2. RunOrder
    <3>1. conf.limit \in Nat
      BY QueryAssumption DEF Init
    <3> QED
      BY <3>1 DEF Init, RunOrder, WorkersDone
  <2>3. StatOrder
    BY DEF Init, StatOrder, Processed
  <2>4. QueryOnce
    BY DEF Init, QueryOnce, Given, BusyStates
  <2> QED
    BY <2>1, <2>2, <2>3, <2>4 DEF IInv
<1>2. IInv /\ QueryOnce /\ [Next]_vars => (IInv /\ QueryOnce)'
  BY TypeStep, RunOrderStep, StatOrderStep, QueryOnceStep DEF IInv
<1> QED
  BY <1>1, <1>2, PTL DEF Spec
-----------------------------------------------------------------------------
(* Where a statistic is. *)

\* A worker's query is one of the file.
LEMMA WorkersQuery ==
    ASSUME IInv, QueryOnce, NEW w \in Workers, wpc[w] \in BusyStates
    PROVE  wquery[w] \in Queries
<1>1. wquery[w] \in Nat /\ wquery[w] < scanned - Len(jobs) /\ Len(jobs) \in Nat
  BY DEF IInv, TypeOK, QueryOnce, Given
<1>2. scanned \in 0..MaxQueries
  BY DEF IInv, TypeOK
<1> QED
  BY <1>1, <1>2, QueryAssumption DEF Queries

\* What is sent for a query are the statistics of its runs.
LEMMA RunsOfQuery ==
    /\ \A q, warm : warm \in Modes => RunStats(q, warm) \subseteq AllStats(q)
    /\ \A q, warm : \A s \in AllStats(q) : s.warm = warm <=> s \in RunStats(q, warm)
    /\ \A q : \A s \in AllStats(q) : s.query = q /\ s.warm \in BOOLEAN /\ (s.warm => conf.prewarm)
    /\ FALSE \in Modes /\ (conf.prewarm => TRUE \in Modes)
BY DEF RunStats, AllStats, Modes

LEMMA OutputShapeHolds == Spec => []OutputShape
<1>1. Init => OutputShape
  BY DEF Init, OutputShape, IsInjective
<1>2. IInv /\ QueryOnce /\ OutputShape /\ [Next]_vars => OutputShape'
  <2> SUFFICES ASSUME IInv, QueryOnce, OutputShape, [Next]_vars PROVE OutputShape'
    OBVIOUS
  <2>1. /\ wpc \in [Workers -> WorkerStates] /\ wquery \in [Workers -> Nat]
        /\ wout \in [Workers -> Seq(Stats)] /\ conf \in Configs
    BY DEF IInv, TypeOK
  <2>2. /\ conf' = conf
        /\ \A q, warm : RunStats(q, warm)' = RunStats(q, warm)
    BY QuerySteps DEF RunStats
  <2>3. ASSUME NEW w \in Workers,
               \A v \in Workers \ {w} :
                   wout'[v] = wout[v] /\ wquery'[v] = wquery[v] /\ wpc'[v] = wpc[v],
               IsInjective(wout'[w]),
               wpc'[w] = "sendCold" => Range(wout'[w]) \subseteq RunStats(wquery'[w], FALSE),
               wpc'[w] = "sendWarm" => Range(wout'[w]) \subseteq RunStats(wquery'[w], TRUE)
        PROVE  OutputShape'
    <3>1. ASSUME NEW v \in Workers
          PROVE  /\ IsInjective(wout'[v])
                 /\ wpc'[v] = "sendCold" => Range(wout'[v]) \subseteq RunStats(wquery'[v], FALSE)
                 /\ wpc'[v] = "sendWarm" => Range(wout'[v]) \subseteq RunStats(wquery'[v], TRUE)
      BY <2>3 DEF OutputShape
    <3>2. \A q, warm : RunStats(q, warm)' = [query : {q}, warm : {warm}, part : 0..conf.parts]
      BY <2>2 DEF RunStats
    <3> QED
      BY <2>2, <3>1, <3>2 DEF OutputShape, RunStats
  <2>4. CASE UNCHANGED workVars
    BY <2>2, <2>4 DEF OutputShape, RunStats, workVars
  <2>5. ASSUME NEW w \in Workers, Receive(w) \/ Exit(w) \/ SendOnNil(w) \/ Sent(w)
        PROVE  OutputShape'
    <3>1. /\ wout' = wout /\ wpc'[w] \notin {"sendCold", "sendWarm"}
          /\ \A v \in Workers \ {w} : wquery'[v] = wquery[v] /\ wpc'[v] = wpc[v]
      BY <2>1, <2>5 DEF Receive, Exit, SendOnNil, Sent, AfterCold
    <3> QED
      BY <2>3, <3>1 DEF OutputShape
  <2>6. ASSUME NEW w \in Workers, Execute(w) PROVE OutputShape'
    <3>1. wquery[w] \in Queries
      BY <2>6, WorkersQuery DEF Execute, BusyStates
    <3>2. \A warm \in BOOLEAN : /\ IsInjective(StatsOf(wquery[w], warm))
                                /\ Range(StatsOf(wquery[w], warm)) = RunStats(wquery[w], warm)
      BY <2>1, <3>1, StatsOfShape
    <3>3. /\ wout'[w] = StatsOf(wquery[w], wpc[w] = "warm")
          /\ wpc'[w] = IF wpc[w] = "warm" THEN "sendWarm" ELSE "sendCold"
          /\ wquery' = wquery
          /\ \A v \in Workers \ {w} : wout'[v] = wout[v] /\ wpc'[v] = wpc[v]
      BY <2>1, <2>6 DEF Execute
    <3>4. CASE wpc[w] = "warm"
      <4>1. wout'[w] = StatsOf(wquery[w], TRUE) /\ wpc'[w] = "sendWarm"
        BY <3>3, <3>4
      <4> QED
        BY <2>3, <3>2, <3>3, <4>1
    <3>5. CASE wpc[w] # "warm"
      <4>1. wout'[w] = StatsOf(wquery[w], FALSE) /\ wpc'[w] = "sendCold"
        BY <3>3, <3>5
      <4> QED
        BY <2>3, <3>2, <3>3, <4>1
    <3> QED
      BY <3>4, <3>5
  <2>7. ASSUME NEW w \in Workers, Send(w) PROVE OutputShape'
    <3>1. /\ wout[w] \in Seq(Stats) /\ wout[w] # <<>> /\ wout'[w] = Tail(wout[w])
          /\ wpc' = wpc /\ wquery' = wquery
          /\ \A v \in Workers \ {w} : wout'[v] = wout[v]
      BY <2>1, <2>7 DEF Send
    <3>2. IsInjective(wout'[w]) /\ Range(wout'[w]) \subseteq Range(wout[w])
      <4>1. IsInjective(wout[w])
        BY DEF OutputShape
      <4> QED
        BY <3>1, <4>1, TailRange
    <3> QED
      BY <2>3, <3>1, <3>2 DEF OutputShape
  <2> QED
    BY <2>4, <2>5, <2>6, <2>7 DEF Next, Run, ScanQuery, Reject, Launch, EndScan, WaitWorkers,
       CloseStats, CloseNilStats, Return, Worker, StatProcessor, MakeChannel, AddWait, Ignore,
       Record, Finish, Ended, vars
<1> QED
  BY <1>1, <1>2, Invariance, PTL DEF Spec

\* The statistic a worker sends was not sent before.
LEMMA SendFacts ==
    ASSUME IInv, OutputShape, StatOnce, NEW w \in Workers, Send(w)
    PROVE  \E h \in Stats :
             /\ h \in AllStats(wquery[w]) /\ h \notin Out
             /\ stats' = Append(stats, h)
             /\ Range(wout[w]) = {h} \cup Range(wout'[w]) /\ h \notin Range(wout'[w])
             /\ wpc[w] \in {"sendCold", "sendWarm"}
             /\ h.warm <=> wpc[w] = "sendWarm"
             /\ \A v \in Workers \ {w} : wout'[v] = wout[v]
             /\ wpc' = wpc /\ wquery' = wquery /\ Processed' = Processed
<1>1. /\ wout \in [Workers -> Seq(Stats)] /\ wout[w] # <<>>
      /\ wpc[w] \in {"sendCold", "sendWarm"}
      /\ stats' = Append(stats, Head(wout[w])) /\ wout'[w] = Tail(wout[w])
      /\ \A v \in Workers \ {w} : wout'[v] = wout[v]
      /\ wpc' = wpc /\ wquery' = wquery /\ ignored' = ignored /\ recorded' = recorded
  BY DEF Send, IInv, TypeOK
<1>2. IsInjective(wout[w]) /\ wout[w] \in Seq(Stats)
  BY <1>1 DEF OutputShape
<1> DEFINE h == Head(wout[w])
<1>3. h \in Stats /\ Range(wout[w]) = {h} \cup Range(wout'[w]) /\ h \notin Range(wout'[w])
  BY <1>1, <1>2, TailRange, HeadTailFacts
<1> HIDE DEF h
<1>4. h \in RunStats(wquery[w], wpc[w] = "sendWarm")
  <2>1. CASE wpc[w] = "sendCold"
    BY <1>3, <2>1 DEF OutputShape
  <2>2. CASE wpc[w] = "sendWarm"
    BY <1>3, <2>2 DEF OutputShape
  <2> QED
    BY <1>1, <2>1, <2>2
<1>5. h \in AllStats(wquery[w]) /\ (h.warm <=> wpc[w] = "sendWarm")
  <2>1. (wpc[w] = "sendWarm") \in Modes
    BY <1>1, RunsOfQuery DEF IInv, RunOrder, Modes
  <2>2. h.warm = (wpc[w] = "sendWarm")
    BY <1>4 DEF RunStats
  <2> QED
    BY <1>4, <2>1, <2>2, RunsOfQuery
<1>6. h \notin Out
  <2>1. Due(w, h)
    BY <1>1, <1>3 DEF Due
  <2> QED
    BY <1>1, <1>5, <2>1 DEF StatOnce, BusyStates
<1> QED
  BY <1>1, <1>3, <1>5, <1>6 DEF h, Processed

\* What the statistics goroutine takes from its channel.
LEMMA CollectFacts ==
    ASSUME IInv, StatOnce, Ignore \/ Record
    PROVE  \E h \in Stats :
             /\ h \notin Processed /\ Head(stats) = h /\ stats # <<>> /\ stats' = Tail(stats)
             /\ Processed' = Processed \cup {h} /\ h \notin Range(stats')
             /\ Range(stats) = {h} \cup Range(stats') /\ IsInjective(stats')
             /\ \/ ignored' = ignored \cup {h} /\ recorded' = recorded
                \/ ignored' = ignored /\ recorded' = recorded \cup {h}
<1>1. /\ stats \in Seq(Stats) /\ stats # <<>> /\ stats' = Tail(stats)
      /\ \/ ignored' = ignored \cup {Head(stats)} /\ recorded' = recorded
         \/ ignored' = ignored /\ recorded' = recorded \cup {Head(stats)}
  BY DEF Ignore, Record, IInv, TypeOK
<1>2. IsInjective(stats)
  BY DEF StatOnce
<1>3. /\ Head(stats) \in Stats /\ Head(stats) \notin Range(stats')
      /\ Range(stats) = {Head(stats)} \cup Range(stats') /\ IsInjective(stats')
  BY <1>1, <1>2, TailRange, HeadTailFacts
<1>4. Head(stats) \notin Processed
  BY <1>3 DEF StatOnce
<1>5. Processed' = Processed \cup {Head(stats)}
  BY <1>1 DEF Processed
<1> QED
  BY <1>1, <1>3, <1>4, <1>5

\* StatOnce after a step, with the statistics of a query as they were before.
LEMMA StatOnceNext ==
    ASSUME conf' = conf, IsInjective(stats'),
           Range(stats') \cap Processed' = {}, ignored' \cap recorded' = {},
           \A s \in Out' : s.query < Given' /\ s \in AllStats(s.query),
           \A w \in Workers : wpc'[w] \in BusyStates \ {"blocked"} =>
               \A s \in AllStats(wquery'[w]) : s \in Out' <=> ~Due(w, s)',
           \A q \in 0..(Given' - 1) :
               (\A w \in Workers : wpc'[w] \in BusyStates => wquery'[w] # q) => AllStats(q) \subseteq Out'
    PROVE  StatOnce'
BY DEF StatOnce, AllStats, Modes

\* The channel or the statistics goroutine moves on.
LEMMA StatsStay ==
    ASSUME StatOnce, conf' = conf, Given' = Given, UNCHANGED <<wpc, wquery, wout>>,
           IsInjective(stats'), Range(stats') \cap Processed' = {}, ignored' \cap recorded' = {},
           Out' = Out
    PROVE  StatOnce'
<1>1. \A w, s : Due(w, s)' <=> Due(w, s)
  BY DEF Due
<1> QED
  BY <1>1, StatOnceNext DEF StatOnce

\* A worker goes on with its query, or is done with it, without sending.
LEMMA WorkerGoesOn ==
    ASSUME StatOnce, conf' = conf, Given' = Given, wquery' = wquery,
           UNCHANGED <<stats, ignored, recorded>>, NEW w \in Workers,
           \A v \in Workers \ {w} : wpc'[v] = wpc[v] /\ wout'[v] = wout[v],
           wpc'[w] \in BusyStates => wpc[w] \in BusyStates,
           wpc'[w] \in BusyStates \ {"blocked"} =>
               wpc[w] # "blocked" /\ \A s \in AllStats(wquery[w]) : Due(w, s)' <=> Due(w, s),
           wpc[w] \in BusyStates /\ wpc'[w] \notin BusyStates =>
               wpc[w] # "blocked" /\ \A s \in AllStats(wquery[w]) : ~Due(w, s)
    PROVE  StatOnce'
<1>1. Out' = Out /\ Processed' = Processed
  BY DEF Out, Processed
<1>2. \A v \in Workers \ {w} : \A s : Due(v, s)' <=> Due(v, s)
  BY DEF Due
<1>3. ASSUME NEW v \in Workers, wpc'[v] \in BusyStates \ {"blocked"}, NEW s \in AllStats(wquery[v])
      PROVE  s \in Out <=> ~Due(v, s)'
  BY <1>2, <1>3 DEF StatOnce
<1>4. ASSUME NEW q \in 0..(Given - 1), \A v \in Workers : wpc'[v] \in BusyStates => wquery[v] # q
      PROVE  AllStats(q) \subseteq Out
  <2>1. CASE \A v \in Workers : wpc[v] \in BusyStates => wquery[v] # q
    BY <2>1 DEF StatOnce
  <2>2. CASE wpc[w] \in BusyStates /\ wquery[w] = q
    BY <1>4, <2>2 DEF StatOnce
  <2> QED
    BY <1>4, <2>1, <2>2
<1> QED
  BY <1>1, <1>3, <1>4, StatOnceNext DEF StatOnce

LEMMA StatOnceWorker ==
    ASSUME IInv, QueryOnce, OutputShape, StatOnce, NEW w \in Workers,
           Execute(w) \/ SendOnNil(w) \/ Sent(w) \/ Exit(w)
    PROVE  StatOnce'
<1>1. /\ UNCHANGED <<conf, stats, ignored, recorded, wquery, scanned, jobs>>
      /\ wpc \in [Workers -> WorkerStates] /\ wout \in [Workers -> Seq(Stats)]
      /\ \A v \in Workers \ {w} : wpc'[v] = wpc[v] /\ wout'[v] = wout[v]
  BY DEF Execute, SendOnNil, Sent, Exit, runVars, jobVars, statVars, IInv, TypeOK
<1>2. Given' = Given
  BY <1>1 DEF Given
<1>3. CASE Execute(w)
  <2>1. wquery[w] = wquery'[w] /\ wpc[w] \in {"cold", "warm"}
        /\ wpc'[w] = (IF wpc[w] = "warm" THEN "sendWarm" ELSE "sendCold")
        /\ wout'[w] = StatsOf(wquery[w], wpc[w] = "warm")
    BY <1>1, <1>3 DEF Execute
  <2>2. Range(wout'[w]) = RunStats(wquery[w], wpc[w] = "warm")
    <3>1. wquery[w] \in Queries /\ conf \in Configs
      BY <1>3, WorkersQuery DEF Execute, BusyStates, IInv, TypeOK
    <3>2. (wpc[w] = "warm") \in BOOLEAN
      OBVIOUS
    <3> QED
      BY <2>1, <3>1, <3>2, StatsOfShape
  <2>3. ASSUME NEW s \in AllStats(wquery[w]) PROVE Due(w, s)' <=> Due(w, s)
    <3>1. s.warm \in BOOLEAN
      BY RunsOfQuery
    <3>2. CASE wpc[w] = "cold"
      <4>1. s \in Range(wout'[w]) <=> s.warm = FALSE
        BY <2>2, <3>2, RunsOfQuery
      <4> QED
        BY <2>1, <3>1, <3>2, <4>1 DEF Due
    <3>3. CASE wpc[w] = "warm"
      <4>1. s \in Range(wout'[w]) <=> s.warm = TRUE
        BY <2>2, <3>3, RunsOfQuery
      <4> QED
        BY <2>1, <3>1, <3>3, <4>1 DEF Due
    <3> QED
      BY <2>1, <3>2, <3>3
  <2> QED
    BY <1>1, <1>2, <2>1, <2>3, WorkerGoesOn DEF BusyStates
<1>4. CASE SendOnNil(w)
  BY <1>1, <1>2, <1>4, WorkerGoesOn DEF SendOnNil, BusyStates
<1>5. CASE Exit(w)
  BY <1>1, <1>2, <1>5, WorkerGoesOn DEF Exit, BusyStates
<1>6. CASE Sent(w)
  <2>1. /\ wpc[w] \in {"sendCold", "sendWarm"} /\ wout[w] = <<>> /\ wout' = wout
        /\ wpc'[w] = IF wpc[w] = "sendCold" THEN AfterCold ELSE "idle"
    BY <1>1, <1>6 DEF Sent
  <2>2. Range(wout[w]) = {}
    BY <2>1 DEF Range
  <2>3. CASE wpc'[w] = "warm"
    <3>1. wpc[w] = "sendCold"
      BY <2>1, <2>3
    <3>2. \A s : Due(w, s)' <=> Due(w, s)
      BY <2>1, <2>2, <2>3, <3>1 DEF Due
    <3> QED
      BY <1>1, <1>2, <2>1, <2>3, <3>2, WorkerGoesOn DEF BusyStates
  <2>4. CASE wpc'[w] = "idle"
    <3>1. \A s \in AllStats(wquery[w]) : ~Due(w, s)
      BY <2>1, <2>2, <2>4, RunsOfQuery DEF Due, AfterCold
    <3> QED
      BY <1>1, <1>2, <2>1, <2>4, <3>1, WorkerGoesOn DEF BusyStates
  <2> QED
    BY <2>1, <2>3, <2>4 DEF AfterCold
<1> QED
  BY <1>3, <1>4, <1>5, <1>6

LEMMA StatOnceReceive ==
    ASSUME IInv, QueryOnce, StatOnce, NEW w \in Workers, Receive(w)
    PROVE  StatOnce'
<1>1. /\ Given \in Nat /\ Given' = Given + 1
      /\ wquery'[w] = Given /\ wpc[w] = "idle" /\ wpc'[w] = "cold"
      /\ \A v \in Workers \ {w} : wquery'[v] = wquery[v] /\ wpc'[v] = wpc[v]
      /\ UNCHANGED <<conf, wout, stats, ignored, recorded>>
  BY ReceiveFacts DEF Receive, runVars, statVars
<1>2. Out' = Out /\ Processed' = Processed
  BY <1>1 DEF Out, Processed
<1>3. \A v \in Workers \ {w} : \A s : Due(v, s)' <=> Due(v, s)
  BY <1>1 DEF Due
<1>4. \A s \in AllStats(Given) : s \notin Out /\ Due(w, s)'
  <2>1. \A s \in AllStats(Given) : s.query = Given
    BY RunsOfQuery
  <2>2. \A s \in Out : s.query # Given
    BY <1>1 DEF StatOnce
  <2> QED
    BY <1>1, <2>1, <2>2 DEF Due
<1>5. ASSUME NEW v \in Workers, wpc'[v] \in BusyStates \ {"blocked"}, NEW s \in AllStats(wquery'[v])
      PROVE  s \in Out <=> ~Due(v, s)'
  <2>1. CASE v = w
    BY <1>1, <1>4, <1>5, <2>1
  <2>2. CASE v # w
    BY <1>1, <1>3, <1>5, <2>2 DEF StatOnce
  <2> QED
    BY <2>1, <2>2
<1>6. ASSUME NEW q \in 0..(Given' - 1), \A v \in Workers : wpc'[v] \in BusyStates => wquery'[v] # q
      PROVE  AllStats(q) \subseteq Out
  <2>1. q # Given
    BY <1>1, <1>6 DEF BusyStates
  <2>2. q \in 0..(Given - 1)
    BY <1>1, <2>1
  <2>3. \A v \in Workers : wpc[v] \in BusyStates => wquery[v] # q
    BY <1>1, <1>6 DEF BusyStates
  <2> QED
    BY <2>2, <2>3 DEF StatOnce
<1>7. \A s \in Out : s.query < Given' /\ s \in AllStats(s.query)
  <2>1. \A s \in Out : s.query \in Int
    <3>1. \A i \in DOMAIN stats : stats[i] \in Stats
      BY DEF IInv, TypeOK
    <3>2. Out \subseteq Stats
      BY <3>1 DEF Out, Processed, IInv, TypeOK, Range
    <3> QED
      BY <3>2 DEF Stats, Queries
  <2> QED
    BY <1>1, <2>1 DEF StatOnce
<1> QED
  BY <1>1, <1>2, <1>5, <1>6, <1>7, StatOnceNext DEF StatOnce

LEMMA StatOnceSend ==
    ASSUME IInv, QueryOnce, OutputShape, StatOnce, NEW w \in Workers, Send(w)
    PROVE  StatOnce'
<1>1. PICK h \in Stats :
         /\ h \in AllStats(wquery[w]) /\ h \notin Out
         /\ stats' = Append(stats, h)
         /\ Range(wout[w]) = {h} \cup Range(wout'[w]) /\ h \notin Range(wout'[w])
         /\ wpc[w] \in {"sendCold", "sendWarm"}
         /\ h.warm <=> wpc[w] = "sendWarm"
         /\ \A v \in Workers \ {w} : wout'[v] = wout[v]
         /\ wpc' = wpc /\ wquery' = wquery /\ Processed' = Processed
  BY SendFacts
<1>2. /\ conf' = conf /\ Given' = Given /\ ignored' = ignored /\ recorded' = recorded
      /\ stats \in Seq(Stats)
  BY DEF Send, runVars, jobVars, Given, IInv, TypeOK
<1>3. Range(stats') = Range(stats) \cup {h} /\ IsInjective(stats')
  <2>1. IsInjective(stats) /\ h \notin Range(stats)
    BY <1>1 DEF StatOnce, Out
  <2> QED
    BY <1>1, <1>2, <2>1, AppendRange
<1>4. Out' = Out \cup {h}
  BY <1>1, <1>3 DEF Out
<1>5. Range(stats') \cap Processed' = {} /\ ignored' \cap recorded' = {}
  BY <1>1, <1>2, <1>3 DEF StatOnce, Out
<1>6. h.query = wquery[w]
  BY <1>1, RunsOfQuery
<1>7. \A s \in Out' : s.query < Given' /\ s \in AllStats(s.query)
  <2>1. wquery[w] < Given
    BY <1>1 DEF QueryOnce, BusyStates
  <2> QED
    BY <1>1, <1>2, <1>4, <1>6, <2>1 DEF StatOnce
<1>8. ASSUME NEW v \in Workers, wpc'[v] \in BusyStates \ {"blocked"}, NEW s \in AllStats(wquery'[v])
      PROVE  s \in Out' <=> ~Due(v, s)'
  <2>1. CASE v = w
    <3>1. s \in Out <=> ~Due(w, s)
      BY <1>1, <1>8, <2>1 DEF StatOnce
    <3>2. CASE s = h
      BY <1>1, <1>4, <2>1, <3>2 DEF Due
    <3>3. CASE s # h
      <4>1. Due(w, s)' <=> Due(w, s)
        BY <1>1, <3>3 DEF Due
      <4> QED
        BY <1>4, <2>1, <3>1, <3>3, <4>1
    <3> QED
      BY <3>2, <3>3
  <2>2. CASE v # w
    <3>1. s # h
      <4>1. wquery[v] # wquery[w]
        BY <1>1, <1>8, <2>2 DEF QueryOnce, BusyStates
      <4> QED
        BY <1>1, <1>6, <1>8, <4>1, RunsOfQuery
    <3>2. Due(v, s)' <=> Due(v, s)
      BY <1>1, <2>2 DEF Due
    <3> QED
      BY <1>1, <1>4, <1>8, <3>1, <3>2 DEF StatOnce
  <2> QED
    BY <2>1, <2>2
<1>9. ASSUME NEW q \in 0..(Given' - 1), \A v \in Workers : wpc'[v] \in BusyStates => wquery'[v] # q
      PROVE  AllStats(q) \subseteq Out'
  BY <1>1, <1>2, <1>4, <1>9 DEF StatOnce
<1> QED
  BY <1>2, <1>3, <1>5, <1>7, <1>8, <1>9, StatOnceNext

LEMMA StatOnceHolds == Spec => []StatOnce
<1>1. Init => StatOnce
  <2> SUFFICES ASSUME Init PROVE StatOnce
    OBVIOUS
  <2>1. Out = {} /\ IsInjective(stats)
    BY DEF Init, Out, Processed, Range, IsInjective
  <2>2. Given = 0
    <3>1. scanned = 0 /\ Len(jobs) = 0
      BY DEF Init
    <3>2. Given = 0 - 0
      BY <3>1 DEF Given
    <3> QED
      BY <3>2
  <2> QED
    BY <2>1, <2>2 DEF Init, StatOnce, BusyStates, Processed, Out
<1>2. IInv /\ QueryOnce /\ OutputShape /\ StatOnce /\ [Next]_vars => StatOnce'
  <2> SUFFICES ASSUME IInv, QueryOnce, OutputShape, StatOnce, [Next]_vars
               PROVE  StatOnce'
    OBVIOUS
  <2>1. CASE UNCHANGED <<conf, scanned, jobs, workVars, stats, ignored, recorded>>
    BY <2>1, StatsStay DEF StatOnce, Given, Out, Processed, workVars
  <2>2. CASE UNCHANGED vars
    BY <2>1, <2>2 DEF vars, runVars, jobVars, statVars
  <2>3. CASE Reject \/ Launch \/ EndScan \/ WaitWorkers \/ CloseStats \/ CloseNilStats \/ Return
    BY <2>1, <2>3 DEF Reject, Launch, EndScan, WaitWorkers, CloseStats, CloseNilStats, Return,
       runVars, jobVars, statVars
  <2>4. CASE MakeChannel \/ AddWait \/ Finish
    BY <2>1, <2>4 DEF MakeChannel, AddWait, Finish, runVars, jobVars
  <2>5. CASE ScanQuery
    <3>1. Given' = Given
      <4>1. jobs \in Seq(Queries) /\ scanned \in Queries /\ scanned \in Nat
            /\ jobs' = Append(jobs, scanned) /\ scanned' = scanned + 1
        BY <2>5, QueryAssumption DEF ScanQuery, IInv, TypeOK, Queries
      <4>2. Len(jobs) \in Nat /\ Len(jobs') = Len(jobs) + 1
        BY <4>1, AppendFacts
      <4> QED
        BY <4>1, <4>2 DEF Given
    <3>2. UNCHANGED <<conf, wpc, wquery, wout, stats, ignored, recorded>>
      BY <2>5 DEF ScanQuery, workVars, statVars
    <3> QED
      BY <3>1, <3>2, StatsStay DEF StatOnce, Out, Processed
  <2>6. CASE Ignore \/ Record
    <3>1. PICK h \in Stats :
             /\ h \notin Processed /\ Head(stats) = h /\ stats # <<>> /\ stats' = Tail(stats)
             /\ Processed' = Processed \cup {h} /\ h \notin Range(stats')
             /\ Range(stats) = {h} \cup Range(stats') /\ IsInjective(stats')
             /\ \/ ignored' = ignored \cup {h} /\ recorded' = recorded
                \/ ignored' = ignored /\ recorded' = recorded \cup {h}
      BY <2>6, CollectFacts
    <3>2. UNCHANGED <<conf, wpc, wquery, wout, scanned, jobs>>
      BY <2>6 DEF Ignore, Record, runVars, jobVars, workVars
    <3>3. Out' = Out /\ Range(stats') \cap Processed' = {} /\ ignored' \cap recorded' = {}
      BY <3>1 DEF Out, StatOnce, Processed
    <3> QED
      BY <3>1, <3>2, <3>3, StatsStay DEF Given
  <2> QED
    BY <2>2, <2>3, <2>4, <2>5, <2>6, StatOnceWorker, StatOnceReceive, StatOnceSend
       DEF Next, Run, Worker, StatProcessor, Ended
<1> QED
  BY <1>1, <1>2, Invariance, OutputShapeHolds, PTL DEF Spec

\* A worker sends the cold statistics of a query before it runs the query again.
LEMMA ColdFirstHolds == Spec => []ColdFirst
<1>1. Init => ColdFirst
  BY DEF Init, ColdFirst, WarmAfterCold
<1>2. IInv /\ QueryOnce /\ OutputShape /\ StatOnce /\ ColdFirst /\ [Next]_vars => ColdFirst'
  <2> SUFFICES ASSUME IInv, QueryOnce, OutputShape, StatOnce, ColdFirst, [Next]_vars
               PROVE  ColdFirst'
    OBVIOUS
  <2> DEFINE Cold(s) == [s EXCEPT !.warm = FALSE]
  <2>1. stats \in Seq(Stats) /\ DOMAIN stats = 1..Len(stats) /\ Len(stats) \in Nat
    BY DEF IInv, TypeOK
  <2>2. /\ \A s \in Processed : s.warm => Cold(s) \in Processed
        /\ \A i \in DOMAIN stats : stats[i].warm =>
               Cold(stats[i]) \in Processed \/ \E j \in 1..(i - 1) : stats[j] = Cold(stats[i])
    BY DEF ColdFirst, WarmAfterCold, Processed
  <2>3. ASSUME \A s \in Processed' : s.warm => Cold(s) \in Processed',
               \A i \in DOMAIN stats' : stats'[i].warm =>
                   Cold(stats'[i]) \in Processed' \/ \E j \in 1..(i - 1) : stats'[j] = Cold(stats'[i])
        PROVE  ColdFirst'
    BY <2>3 DEF ColdFirst, WarmAfterCold, Processed
  <2>4. CASE UNCHANGED <<stats, ignored, recorded>>
    <3>1. Processed' = Processed /\ stats' = stats
      BY <2>4 DEF Processed
    <3> QED
      BY <2>2, <2>3, <3>1
  <2> HIDE DEF Cold
  <2>5. ASSUME NEW w \in Workers, Send(w) PROVE ColdFirst'
    <3>1. PICK h \in Stats :
             /\ h \in AllStats(wquery[w]) /\ h \notin Out
             /\ stats' = Append(stats, h)
             /\ wpc[w] \in {"sendCold", "sendWarm"}
             /\ h.warm <=> wpc[w] = "sendWarm"
             /\ Processed' = Processed
      BY <2>5, SendFacts
    <3>2. /\ DOMAIN stats' = 1..(Len(stats) + 1) /\ stats'[Len(stats) + 1] = h
          /\ \A i \in DOMAIN stats : stats'[i] = stats[i]
      BY <2>1, <3>1, AppendFacts
    <3>3. ASSUME h.warm PROVE Cold(h) \in Out
      <4>1. Cold(h) \in AllStats(wquery[w]) /\ Cold(h).warm = FALSE
        BY <3>1 DEF Cold, AllStats, Modes
      <4>2. Cold(h) \notin Range(wout[w])
        BY <3>1, <3>3, <4>1 DEF OutputShape, RunStats
      <4>3. ~Due(w, Cold(h))
        BY <3>1, <3>3, <4>1, <4>2 DEF Due
      <4> QED
        BY <3>1, <4>1, <4>3 DEF StatOnce, BusyStates
    <3>4. ASSUME h.warm PROVE Cold(h) \in Processed \/ \E j \in 1..Len(stats) : stats[j] = Cold(h)
      BY <2>1, <3>3, <3>4 DEF Out, Range
    <3>5. ASSUME NEW i \in DOMAIN stats', stats'[i].warm
          PROVE  Cold(stats'[i]) \in Processed \/ \E j \in 1..(i - 1) : stats'[j] = Cold(stats'[i])
      <4>1. CASE i \in DOMAIN stats
        <5>1. \A j \in 1..(i - 1) : j \in DOMAIN stats
          BY <2>1, <4>1
        <5> QED
          BY <2>2, <3>2, <3>5, <4>1, <5>1
      <4>2. CASE i = Len(stats) + 1
        <5>1. i - 1 = Len(stats)
          BY <2>1, <4>2
        <5> QED
          BY <2>1, <3>2, <3>4, <3>5, <4>2, <5>1
      <4> QED
        BY <2>1, <3>2, <4>1, <4>2
    <3> QED
      BY <2>2, <2>3, <3>1, <3>5
  <2>6. CASE Ignore \/ Record
    <3>1. PICK h \in Stats :
             /\ Head(stats) = h /\ stats # <<>> /\ stats' = Tail(stats)
             /\ Processed' = Processed \cup {h}
      BY <2>6, CollectFacts
    <3>2. /\ h = stats[1] /\ 1 \in DOMAIN stats
          /\ \A i \in DOMAIN stats' : i + 1 \in DOMAIN stats /\ stats'[i] = stats[i + 1]
          /\ \A i \in DOMAIN stats : i = 1 \/ (i - 1 \in DOMAIN stats' /\ stats'[i - 1] = stats[i])
          /\ \A i \in DOMAIN stats' : i \in Nat \ {0}
      BY <2>1, <3>1, HeadTailFacts
    <3>3. h.warm => Cold(h) \in Processed
      BY <2>2, <3>2
    <3>4. ASSUME NEW i \in DOMAIN stats', stats'[i].warm
          PROVE  Cold(stats'[i]) \in Processed' \/ \E j \in 1..(i - 1) : stats'[j] = Cold(stats'[i])
      <4>1. CASE Cold(stats'[i]) \in Processed
        BY <3>1, <4>1
      <4>2. ASSUME NEW j \in 1..((i + 1) - 1), stats[j] = Cold(stats'[i])
            PROVE  Cold(stats'[i]) \in Processed' \/ \E k \in 1..(i - 1) : stats'[k] = Cold(stats'[i])
        <5>1. j \in DOMAIN stats /\ (j # 1 => j - 1 \in 1..(i - 1))
          BY <2>1, <3>2
        <5>2. CASE j = 1
          BY <3>1, <3>2, <4>2, <5>2
        <5>3. CASE j # 1
          BY <3>2, <4>2, <5>1, <5>3
        <5> QED
          BY <5>2, <5>3
      <4> QED
        BY <2>2, <3>2, <3>4, <4>1, <4>2
    <3> QED
      BY <2>2, <2>3, <3>1, <3>3, <3>4
  <2>7. ASSUME NEW w \in Workers, Receive(w) \/ Execute(w) \/ SendOnNil(w) \/ Sent(w) \/ Exit(w)
        PROVE  ColdFirst'
    BY <2>4, <2>7 DEF Receive, Execute, SendOnNil, Sent, Exit, statVars
  <2> QED
    BY <2>4, <2>5, <2>6, <2>7 DEF Next, Run, ScanQuery, Reject, Launch, EndScan, WaitWorkers,
       CloseStats, CloseNilStats, Return, Worker, StatProcessor, MakeChannel, AddWait, Finish,
       Ended, vars, statVars
<1> QED
  BY <1>1, <1>2, Invariance, OutputShapeHolds, StatOnceHolds, PTL DEF Spec

\* The counter passes the burn-in before anything is recorded, and then counts what is.
LEMMA CountRightHolds == Spec => []CountRight
<1>1. Init => CountRight
  <2> SUFFICES ASSUME Init PROVE CountRight
    OBVIOUS
  <2>1. CountedStats = {} /\ conf.burnIn \in Nat
    BY QueryAssumption DEF Init, CountedStats
  <2> QED
    BY <2>1, FS_EmptySet DEF Init, CountRight
<1>2. IInv /\ StatOnce /\ CountRight /\ [Next]_vars => CountRight'
  <2> SUFFICES ASSUME IInv, StatOnce, CountRight, [Next]_vars PROVE CountRight'
    OBVIOUS
  <2>1. /\ conf' = conf /\ conf.burnIn \in Nat /\ counter \in Nat
        /\ \A s : Counts(s)' <=> Counts(s)
    BY QuerySteps, QueryAssumption DEF IInv, TypeOK, Counts
  <2>2. CASE UNCHANGED <<counter, recorded>>
    BY <2>1, <2>2 DEF CountRight, CountedStats
  <2>3. CASE Ignore
    <3>1. /\ counter' = counter + 1 /\ counter < conf.burnIn /\ recorded = {} /\ recorded' = {}
      BY <2>3 DEF Ignore, BurningIn, CountRight
    <3>2. CountedStats' = {} /\ Cardinality({}) = 0 /\ IsFiniteSet({})
      BY <3>1, FS_EmptySet DEF CountedStats
    <3>3. counter + 1 >= conf.burnIn => counter + 1 = conf.burnIn + 0
      BY <2>1, <3>1
    <3> QED
      BY <2>1, <3>1, <3>2, <3>3 DEF CountRight
  <2>4. CASE Record
    <3> DEFINE h == Head(stats)
    <3>1. /\ ~(counter < conf.burnIn) /\ recorded' = recorded \cup {h}
          /\ counter' = counter + (IF Counts(h) THEN 1 ELSE 0)
      BY <2>4 DEF Record, BurningIn
    <3>2. h \notin recorded
      BY <2>4, CollectFacts DEF Processed
    <3> HIDE DEF h
    <3>3. IsFiniteSet(CountedStats) /\ counter = conf.burnIn + Cardinality(CountedStats)
      BY <2>1, <3>1 DEF CountRight
    <3>4. Cardinality(CountedStats) \in Nat
      BY <3>3, FS_CardinalityType
    <3>5. CASE Counts(h)
      <4>1. CountedStats' = CountedStats \cup {h} /\ h \notin CountedStats
        BY <2>1, <3>1, <3>2, <3>5 DEF CountedStats
      <4>2. IsFiniteSet(CountedStats') /\ Cardinality(CountedStats') = Cardinality(CountedStats) + 1
        BY <3>3, <4>1, FS_AddElement
      <4>3. counter' = conf.burnIn + (Cardinality(CountedStats) + 1) /\ ~(counter' < conf.burnIn)
        BY <2>1, <3>1, <3>3, <3>4, <3>5
      <4> QED
        BY <2>1, <4>2, <4>3 DEF CountRight
    <3>6. CASE ~Counts(h)
      <4>1. CountedStats' = CountedStats
        BY <2>1, <3>1, <3>6 DEF CountedStats
      <4>2. counter' = counter
        BY <2>1, <3>1, <3>6
      <4> QED
        BY <2>1, <3>1, <3>3, <4>1, <4>2 DEF CountRight
    <3> QED
      BY <3>5, <3>6
  <2>5. ASSUME NEW w \in Workers, Worker(w) PROVE CountRight'
    BY <2>2, <2>5 DEF Worker, Receive, Execute, Send, SendOnNil, Sent, Exit, statVars
  <2> QED
    BY <2>2, <2>3, <2>4, <2>5 DEF Next, Run, ScanQuery, Reject, Launch, EndScan, WaitWorkers,
       CloseStats, CloseNilStats, Return, StatProcessor, MakeChannel, AddWait, Finish, Ended,
       vars, statVars
<1> QED
  BY <1>1, <1>2, Invariance, StatOnceHolds, PTL DEF Spec
-----------------------------------------------------------------------------
(* What the runs check, for every value of the constants. *)

\* The state of Run, its channels, the workers and the statistics keep their types.
THEOREM TypeCorrect == Spec => []TypeOK
<1>1. IInv => TypeOK
  BY DEF IInv
<1> QED
  BY <1>1, Invariance, PTL

\* Every query read, and no more than --max-queries allows, is run as often as the flags
\* say, and each of its statistics reaches the summary once, unless it belongs to the
\* burn-in or none does because the statistics goroutine started too late.
THEOREM EveryQueryIsMeasured == Spec => []AllMeasured
<1>1. IInv /\ QueryOnce /\ StatOnce => AllMeasured
  <2> SUFFICES ASSUME IInv, QueryOnce, StatOnce PROVE AllMeasured
    OBVIOUS
  <2>1. NoSendOnClosed
    BY DEF NoSendOnClosed, IInv, RunOrder, WorkersDone, SendStates
  <2>2. (conf.limit > 0 => scanned <= conf.limit) /\ ignored \cap recorded = {}
    BY DEF IInv, RunOrder, StatOnce
  <2>3. ASSUME pc = "returned", conf.statsFirst \/ Processed # {}
        PROVE  sppc = "done" /\ Processed = Expected
    <3>1. sppc = "done" /\ stats = <<>> /\ \A w \in Workers : wpc[w] = "exited"
      BY <2>3 DEF IInv, StatOrder, RunOrder, WorkersDone, TypeOK, StatStates
    <3>2. Given = scanned /\ scanned \in Nat
      <4>1. jobs = <<>>
        <5>1. 1 \in Workers
          BY QueryAssumption DEF Workers
        <5> QED
          BY <3>1, <5>1 DEF IInv, RunOrder
      <4> QED
        BY <4>1 DEF Given, IInv, TypeOK
    <3>3. Out = Processed
      BY <3>1 DEF Out, Range
    <3>4. \A q \in 0..(scanned - 1) : AllStats(q) \subseteq Processed
      BY <3>1, <3>2, <3>3 DEF StatOnce, BusyStates
    <3>5. ASSUME NEW s \in Expected PROVE s \in Processed
      <4>1. s.query \in 0..(scanned - 1) /\ s \in AllStats(s.query)
        BY DEF Expected, AllStats, Modes
      <4> QED
        BY <3>4, <4>1
    <3>6. ASSUME NEW s \in Processed PROVE s \in Expected
      <4>1. s.query < scanned /\ s \in AllStats(s.query)
        BY <3>2, <3>3 DEF StatOnce
      <4>2. s.query \in Nat
        BY QueryAssumption DEF Processed, IInv, TypeOK, Stats, Queries
      <4>3. s.query \in 0..(scanned - 1)
        BY <3>2, <4>1, <4>2
      <4> QED
        BY <4>1, <4>3 DEF Expected, AllStats, Modes
    <3> QED
      BY <3>1, <3>5, <3>6
  <2> QED
    BY <2>1, <2>2, <2>3 DEF AllMeasured, Processed
<1> QED
  BY <1>1, Invariance, StatOnceHolds, PTL

\* No warm statistic is processed before the cold one of the same query and part.
THEOREM WarmStatisticsFollowCold == Spec => []WarmAfterCold
<1>1. ColdFirst => WarmAfterCold
  BY DEF ColdFirst
<1> QED
  BY <1>1, ColdFirstHolds, PTL

\* The count the summary and the interval reports print is the number of whole queries
\* recorded, whatever the burn-in dropped.
THEOREM ReportedCountsAreRight == Spec => []ReportedCountIsRight
<1>1. IInv /\ CountRight => ReportedCountIsRight
  <2> SUFFICES ASSUME IInv, CountRight, counter >= conf.burnIn
               PROVE  counter - conf.burnIn =
                        Cardinality({s \in recorded : s.part = 0 /\ (conf.prewarm => ~s.warm)})
    BY DEF ReportedCountIsRight
  <2>1. {s \in recorded : s.part = 0 /\ (conf.prewarm => ~s.warm)} = CountedStats
    BY DEF CountedStats, Counts
  <2>2. Cardinality(CountedStats) \in Nat /\ conf.burnIn \in Nat
    BY FS_CardinalityType, QueryAssumption DEF CountRight, IInv, TypeOK
  <2>3. counter = conf.burnIn + Cardinality(CountedStats)
    BY DEF CountRight
  <2>4. counter - conf.burnIn = Cardinality(CountedStats)
    BY <2>2, <2>3
  <2> QED
    BY <2>1, <2>4
<1> QED
  BY <1>1, Invariance, CountRightHolds, PTL
=============================================================================
