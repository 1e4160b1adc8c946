------------------------- MODULE LoadPipelineProofs -------------------------
(***************************************************************************)
(* What holds of LoadPipeline for every number of workers, queues and      *)
(* points.                                                                 *)
(*                                                                         *)
(* A batch on its way is in exactly one of a family of sequences: the      *)
(* unsent batches of a channel, its two directions, or the hands of a      *)
(* worker.  The steps of the program add a batch to one of them, move the  *)
(* first batch of one to the end of another, or remove it, and ocnt counts *)
(* the batches in the family.  That is IInv; the invariants after it are   *)
(* proved on top of it, one layer after another: how far the scanner runs  *)
(* ahead, how full a queue with unsent batches is, the shape of a batch,   *)
(* where each point that was read is, and the order: what is stored or in  *)
(* hand comes before what is in line, and this before what is being        *)
(* filled.  From these follow ReadOrder and that the pipeline implements   *)
(* PointDelivery.                                                          *)
(***************************************************************************)
EXTENDS LoadPipeline, FiniteSetTheorems, TLAPS

-----------------------------------------------------------------------------
(* Families of sequences without repetition. *)

\* Everything the sequences of family L hold.
Contents(L) == UNION {Range(L[x]) : x \in DOMAIN L}

\* No element occurs twice, in one sequence of the family or in two.
NoRepetition(L) ==
    /\ \A x \in DOMAIN L : IsInjective(L[x])
    /\ \A x, y \in DOMAIN L : x # y => Range(L[x]) \cap Range(L[y]) = {}

IsFamily(L, P, B) == L \in [P -> Seq(B)]

\* M is L with e appended to sequence x, without the first element of x, and with
\* the first element of x moved to the end of y.
Adds(L, M, P, x, e) ==
    x \in P /\ M[x] = Append(L[x], e) /\ \A z \in P \ {x} : M[z] = L[z]
Removes(L, M, P, x) ==
    x \in P /\ L[x] # <<>> /\ M[x] = Tail(L[x]) /\ \A z \in P \ {x} : M[z] = L[z]
Moves(L, M, P, x, y) ==
    /\ x \in P /\ y \in P /\ x # y /\ L[x] # <<>>
    /\ M[x] = Tail(L[x]) /\ M[y] = Append(L[y], Head(L[x]))
    /\ \A z \in P \ {x, y} : M[z] = L[z]

\* The elements of a sequence after Append, as used by dispatch and by channels.
LEMMA RangeAppend ==
    ASSUME NEW B, NEW s \in Seq(B), NEW e \in B
    PROVE  Range(Append(s, e)) = Range(s) \cup {e}
<1> DEFINE n == Len(s)
           t == Append(s, e)
<1>1. n \in Nat /\ DOMAIN s = 1..n /\ DOMAIN t = 1..(n + 1) /\ t[n + 1] = e
  OBVIOUS
<1>2. \A i \in 1..n : t[i] = s[i]
  OBVIOUS
<1>3. \A i \in 1..(n + 1) : i \in 1..n \/ i = n + 1
  BY <1>1
<1>4. 1..n \subseteq 1..(n + 1) /\ n + 1 \in 1..(n + 1)
  BY <1>1
<1> HIDE DEF n, t
<1>5. Range(t) = {t[i] : i \in 1..(n + 1)} /\ Range(s) = {s[i] : i \in 1..n}
  BY <1>1 DEF Range
<1>6. Range(t) = Range(s) \cup {e}
  BY <1>1, <1>2, <1>3, <1>4, <1>5
<1> QED
  BY <1>6 DEF t

\* Appending a new element keeps a sequence free of repetition.
LEMMA InjectiveAppend ==
    ASSUME NEW B, NEW s \in Seq(B), IsInjective(s), NEW e \in B, e \notin Range(s)
    PROVE  IsInjective(Append(s, e))
BY DEF Range, IsInjective

\* The elements of a sequence without repetition after Tail, as used by receive.
LEMMA RangeTail ==
    ASSUME NEW B, NEW s \in Seq(B), s # <<>>, IsInjective(s)
    PROVE  /\ Head(s) \in Range(s)
           /\ Range(Tail(s)) = Range(s) \ {Head(s)}
           /\ IsInjective(Tail(s))
<1> DEFINE n == Len(s)
<1>1. n \in Nat \ {0} /\ DOMAIN s = 1..n
  OBVIOUS
<1>2. Tail(s) \in Seq(B) /\ DOMAIN Tail(s) = 1..(n - 1)
  BY <1>1
<1>3. \A i \in 1..(n - 1) : Tail(s)[i] = s[i + 1]
  BY <1>1
<1>4. Head(s) = s[1]
  OBVIOUS
<1>5. \A i, j \in 1..n : s[i] = s[j] => i = j
  BY <1>1 DEF IsInjective
<1>6. IsInjective(Tail(s))
  <2> SUFFICES ASSUME NEW i \in 1..(n - 1), NEW j \in 1..(n - 1),
                      Tail(s)[i] = Tail(s)[j]
               PROVE  i = j
    BY <1>2 DEF IsInjective
  <2>1. i + 1 \in 1..n /\ j + 1 \in 1..n /\ s[i + 1] = s[j + 1]
    BY <1>1, <1>3
  <2> QED
    BY <2>1, <1>5, <1>1
<1>7. ASSUME NEW e \in Range(Tail(s)) PROVE e \in Range(s) \ {Head(s)}
  <2>1. PICK i \in 1..(n - 1) : e = Tail(s)[i]
    BY <1>7, <1>2 DEF Range
  <2>2. i + 1 \in 1..n /\ 1 \in 1..n /\ i + 1 # 1 /\ e = s[i + 1]
    BY <2>1, <1>1, <1>3
  <2> QED
    BY <2>2, <1>1, <1>4, <1>5 DEF Range
<1>8. ASSUME NEW e \in Range(s) \ {Head(s)} PROVE e \in Range(Tail(s))
  <2>1. PICK i \in 1..n : e = s[i]
    BY <1>8, <1>1 DEF Range
  <2>2. i # 1
    BY <2>1, <1>4, <1>8
  <2>3. i - 1 \in 1..(n - 1) /\ e = Tail(s)[i - 1]
    BY <2>1, <2>2, <1>1, <1>3
  <2> QED
    BY <2>3, <1>2 DEF Range
<1>9. Head(s) \in Range(s)
  BY <1>1, <1>4 DEF Range
<1> QED
  BY <1>6, <1>7, <1>8, <1>9

\* Dispatching a batch: appending an element the family does not hold.
LEMMA FamilyAdd ==
    ASSUME NEW B, NEW P, NEW L, NEW M, NEW x, NEW e,
           IsFamily(L, P, B), IsFamily(M, P, B), NoRepetition(L),
           Adds(L, M, P, x, e), e \in B, e \notin Contents(L)
    PROVE  /\ NoRepetition(M)
           /\ Contents(M) = Contents(L) \cup {e}
<1>1. /\ DOMAIN L = P /\ DOMAIN M = P
      /\ x \in P /\ M[x] = Append(L[x], e) /\ \A y \in P : y # x => M[y] = L[y]
      /\ L[x] \in Seq(B)
  BY DEF IsFamily, Adds
<1>3. Range(M[x]) = Range(L[x]) \cup {e}
  BY <1>1, RangeAppend
<1>4. \A y \in P : e \notin Range(L[y])
  BY <1>1 DEF Contents
<1>5. IsInjective(M[x])
  BY <1>1, <1>4, InjectiveAppend DEF NoRepetition
<1>6. NoRepetition(M)
  <2>1. \A y \in P : IsInjective(M[y])
    BY <1>1, <1>5 DEF NoRepetition
  <2>2. ASSUME NEW y \in P, NEW z \in P, y # z
        PROVE  Range(M[y]) \cap Range(M[z]) = {}
    <3>1. Range(L[y]) \cap Range(L[z]) = {}
      BY <1>1, <2>2 DEF NoRepetition
    <3>2. CASE y = x
      BY <1>1, <1>3, <1>4, <2>2, <3>1, <3>2
    <3>3. CASE z = x
      BY <1>1, <1>3, <1>4, <2>2, <3>1, <3>3
    <3> QED
      BY <1>1, <3>1, <3>2, <3>3
  <2> QED
    BY <1>1, <2>1, <2>2 DEF NoRepetition
<1>7. Contents(M) = Contents(L) \cup {e}
  BY <1>1, <1>3 DEF Contents
<1> QED
  BY <1>6, <1>7

\* Receiving an acknowledgement: the first element of one sequence leaves.
LEMMA FamilyRemove ==
    ASSUME NEW B, NEW P, NEW L, NEW M, NEW x,
           IsFamily(L, P, B), IsFamily(M, P, B), NoRepetition(L), Removes(L, M, P, x)
    PROVE  /\ NoRepetition(M)
           /\ Head(L[x]) \in Contents(L)
           /\ Contents(M) = Contents(L) \ {Head(L[x])}
<1> DEFINE h == Head(L[x])
<1>1. /\ DOMAIN L = P /\ DOMAIN M = P
      /\ x \in P /\ L[x] # <<>>
      /\ M[x] = Tail(L[x]) /\ \A y \in P : y # x => M[y] = L[y]
      /\ L[x] \in Seq(B) /\ IsInjective(L[x])
  BY DEF IsFamily, Removes, NoRepetition
<1>3. h \in Range(L[x]) /\ Range(M[x]) = Range(L[x]) \ {h} /\ IsInjective(M[x])
  BY <1>1, RangeTail
<1> HIDE DEF h
<1>4. \A y \in P : y # x => h \notin Range(L[y])
  BY <1>1, <1>3 DEF NoRepetition
<1>5. NoRepetition(M)
  BY <1>1, <1>3 DEF NoRepetition
<1>6. h \in Contents(L) /\ Contents(M) = Contents(L) \ {h}
  BY <1>1, <1>3, <1>4 DEF Contents
<1> QED
  BY <1>5, <1>6 DEF h

\* A batch moves on: from the front of one sequence to the end of another.
LEMMA FamilyMove ==
    ASSUME NEW B, NEW P, NEW L, NEW M, NEW x, NEW y,
           IsFamily(L, P, B), IsFamily(M, P, B), NoRepetition(L), Moves(L, M, P, x, y)
    PROVE  /\ NoRepetition(M)
           /\ Contents(M) = Contents(L)
<1> DEFINE K == [z \in P |-> IF z = y THEN L[y] ELSE M[z]]
           h == Head(L[x])
<1>1. L[x] \in Seq(B) /\ L[x] # <<>> /\ L[y] \in Seq(B)
  BY DEF IsFamily, Moves
<1>2. h \in B
  BY <1>1
<1>3. h = Head(L[x])
  OBVIOUS
<1> HIDE DEF h
<1>4. IsFamily(K, P, B) /\ Removes(L, K, P, x) /\ Adds(K, M, P, y, h)
  BY <1>1, <1>3 DEF IsFamily, Moves, Removes, Adds
<1> HIDE DEF K
<1>5. /\ NoRepetition(K) /\ h \in Contents(L)
      /\ Contents(K) = Contents(L) \ {h}
  BY <1>3, <1>4, FamilyRemove
<1>6. h \notin Contents(K)
  BY <1>5
<1>7. NoRepetition(M) /\ Contents(M) = Contents(K) \cup {h}
  BY <1>2, <1>4, <1>5, <1>6, FamilyAdd
<1> QED
  BY <1>5, <1>7
-----------------------------------------------------------------------------
(* The constants. *)

\* createChannels makes at least one channel, every worker gets one of them, and
\* its capacity is a natural number.
LEMMA ConstantFacts ==
    /\ NumChannels \in Nat \ {0}
    /\ 0 \in Channels
    /\ NoChannel \notin Channels
    /\ \A w \in Workers : ChannelOf(w) \in Channels
    /\ QueueLen \in Nat
    /\ \A c \in Channels : c + 1 # NumChannels => c + 1 \in Channels
<1>1. NumChannels \in Nat \ {0} /\ NumWorkers \in Nat \ {0}
  BY LoadAssumption DEF NumChannels
<1>2. /\ 0 \in Channels
      /\ NoChannel \notin Channels
      /\ \A c \in Channels : c + 1 # NumChannels => c + 1 \in Channels
  BY <1>1 DEF Channels, NoChannel
<1>3. \A w \in Workers : ChannelOf(w) \in Channels
  <2> TAKE w \in Workers
  <2>1. w \in Int
    BY <1>1 DEF Workers
  <2>2. \A n \in Int, d \in Nat \ {0} : n % d \in 0..(d - 1)
    OBVIOUS
  <2> QED
    BY <1>1, <2>1, <2>2 DEF ChannelOf, Channels
<1>4. QueueLen \in Nat
  <2>1. \A n \in Nat, d \in Nat \ {0} : n \div d \in Nat
    OBVIOUS
  <2>2. NumWorkers + NumChannels - 1 \in Nat
    BY <1>1
  <2> QED
    BY <1>1, <2>1, <2>2 DEF QueueLen
<1> QED
  BY <1>1, <1>2, <1>3, <1>4
-----------------------------------------------------------------------------
(* Types. *)

\* The scanner owes a send only while a batch waits for that channel.
OwedHasBatch == owed # NoChannel => unsent[owed] # <<>>

\* An acknowledgement that can be received is of a batch ocnt counts.
AcksAreCounted == \A c \in Channels : toScanner[c] # <<>> => ocnt > 0

\* A batch that is dispatched keeps the types of the two queues and the counter.
LEMMA SendOrQueueType ==
    ASSUME TypeOK, NEW c \in Channels, NEW batch \in Batch, SendOrQueue(c, batch)
    PROVE  /\ ocnt' \in Nat
           /\ unsent' \in [Channels -> Seq(Batch)]
           /\ toWorker' \in [Channels -> Seq(Batch)]
           /\ \A d \in Channels : Len(toWorker'[d]) <= QueueLen
<1>1. ocnt' \in Nat
  BY DEF TypeOK, SendOrQueue
<1>2. /\ unsent[c] \in Seq(Batch) /\ toWorker[c] \in Seq(Batch)
      /\ \A d \in Channels : toWorker[d] \in Seq(Batch) /\ Len(toWorker[d]) <= QueueLen
  BY DEF TypeOK
<1>3. CASE GoesStraight(c)
  <2>1. toWorker' = [toWorker EXCEPT ![c] = Append(@, batch)] /\ unsent' = unsent
    BY <1>3 DEF SendOrQueue
  <2>2. /\ Append(toWorker[c], batch) \in Seq(Batch)
        /\ Len(Append(toWorker[c], batch)) <= QueueLen
    BY <1>2, <1>3, ConstantFacts DEF GoesStraight, HasRoom
  <2>3. toWorker' \in [Channels -> Seq(Batch)] /\ unsent' \in [Channels -> Seq(Batch)]
    BY <2>1, <2>2 DEF TypeOK
  <2>4. \A d \in Channels : Len(toWorker'[d]) <= QueueLen
    BY <1>2, <2>1, <2>2 DEF TypeOK
  <2> QED
    BY <1>1, <2>3, <2>4
<1>4. CASE ~GoesStraight(c)
  <2>1. unsent' = [unsent EXCEPT ![c] = Append(@, batch)] /\ toWorker' = toWorker
    BY <1>4 DEF SendOrQueue
  <2>2. Append(unsent[c], batch) \in Seq(Batch)
    BY <1>2
  <2> QED
    BY <1>1, <1>2, <2>1, <2>2 DEF TypeOK
<1> QED
  BY <1>3, <1>4

\* Every step keeps the types, given what the two facts above say of the steps
\* that receive an acknowledgement or send an unsent batch.
LEMMA TypeStep ==
    ASSUME TypeOK, OwedHasBatch, AcksAreCounted, [Next]_vars
    PROVE  TypeOK'
<1>0. /\ QueueLen \in Nat
      /\ 0 \in Channels
      /\ \A w \in Workers : ChannelOf(w) \in Channels
      /\ \A c \in Channels : c + 1 # NumChannels => c + 1 \in Channels
  BY ConstantFacts
<1>1. CASE StopAtLimit
  BY <1>1 DEF TypeOK, StopAtLimit, ScannerStates, chanVars, workVars
<1>2. CASE SelectDefault
  BY <1>2 DEF TypeOK, SelectDefault, ScannerStates, chanVars, workVars
<1>3. CASE EndOfInput
  BY <1>3 DEF TypeOK, EndOfInput, ScannerStates, chanVars, workVars
<1>4. CASE SendOwed
  <2>1. /\ owed \in Channels /\ unsent[owed] \in Seq(Batch) /\ unsent[owed] # <<>>
        /\ toWorker[owed] \in Seq(Batch)
    BY <1>4 DEF TypeOK, OwedHasBatch, SendOwed
  <2>2. Head(unsent[owed]) \in Batch /\ Tail(unsent[owed]) \in Seq(Batch)
    BY <2>1
  <2>3. /\ toWorker' = [toWorker EXCEPT ![owed] = Append(@, Head(unsent[owed]))]
        /\ unsent' = [unsent EXCEPT ![owed] = Tail(@)]
        /\ Len(toWorker[owed]) < QueueLen
    BY <1>4 DEF SendOwed, RestUnsent, HasRoom
  <2>4. /\ Append(toWorker[owed], Head(unsent[owed])) \in Seq(Batch)
        /\ Len(Append(toWorker[owed], Head(unsent[owed]))) <= QueueLen
    BY <1>0, <2>1, <2>2, <2>3
  <2>5. /\ toWorker' \in [Channels -> Seq(Batch)]
        /\ unsent' \in [Channels -> Seq(Batch)]
        /\ \A d \in Channels : Len(toWorker'[d]) <= QueueLen
    BY <2>1, <2>2, <2>3, <2>4 DEF TypeOK
  <2> QED
    BY <1>4, <2>5 DEF TypeOK, SendOwed, workVars
<1>5. CASE Flush
  <2>1. filling[idx] \in Batch /\ <<>> \in Batch /\ idx \in Channels
    BY DEF TypeOK, Batch
  <2>2. /\ ocnt' \in Nat
        /\ unsent' \in [Channels -> Seq(Batch)]
        /\ toWorker' \in [Channels -> Seq(Batch)]
        /\ \A d \in Channels : Len(toWorker'[d]) <= QueueLen
    <3>1. CASE FlushNeeded(idx)
      BY <1>5, <2>1, <3>1, SendOrQueueType DEF Flush
    <3>2. CASE ~FlushNeeded(idx)
      BY <1>5, <3>2 DEF Flush, TypeOK
    <3> QED
      BY <3>1, <3>2
  <2>3. pc' \in ScannerStates /\ idx' \in Channels
    BY <1>0, <1>5, <2>1 DEF Flush, TypeOK, ScannerStates
  <2> QED
    BY <1>5, <2>1, <2>2, <2>3 DEF TypeOK, Flush, workVars
<1>6. CASE Drained
  BY <1>6 DEF TypeOK, Drained, ScannerStates, chanVars, workVars
<1>7. CASE Close
  <2>1. pc' \in ScannerStates /\ idx' \in Channels
    BY <1>0, <1>7 DEF Close, TypeOK, ScannerStates
  <2> QED
    BY <1>7, <2>1 DEF TypeOK, Close, workVars
<1>8. CASE Summary
  BY <1>8 DEF TypeOK, Summary, ScannerStates, chanVars, workVars
<1>9. ASSUME NEW c \in Channels, ReceiveAck(c), pc' \in ScannerStates
      PROVE  TypeOK'
  <2>1. toScanner[c] \in Seq(Batch) /\ toScanner[c] # <<>> /\ ocnt > 0
    BY <1>9 DEF TypeOK, ReceiveAck, AcksAreCounted
  <2>2. Tail(toScanner[c]) \in Seq(Batch) /\ Len(Tail(toScanner[c])) <= QueueLen
    <3>1. Len(toScanner[c]) <= QueueLen
      BY DEF TypeOK
    <3> QED
      BY <1>0, <2>1, <3>1
  <2>3. ocnt - 1 \in Nat
    BY <2>1 DEF TypeOK
  <2>4. toScanner' = [toScanner EXCEPT ![c] = Tail(@)]
    BY <1>9 DEF ReceiveAck
  <2>5. /\ toScanner' \in [Channels -> Seq(Batch)]
        /\ \A d \in Channels : Len(toScanner'[d]) <= QueueLen
    BY <2>2, <2>4 DEF TypeOK
  <2>6. owed' \in Channels \cup {NoChannel}
    BY <1>9 DEF ReceiveAck
  <2> QED
    BY <1>9, <2>3, <2>5, <2>6 DEF TypeOK, ReceiveAck, workVars
<1>10. ASSUME NEW c \in Channels, SelectAck(c) PROVE TypeOK'
  BY <1>10, <1>9 DEF SelectAck, ScannerStates
<1>11. ASSUME NEW c \in Channels, DrainAck(c) PROVE TypeOK'
  BY <1>11, <1>9 DEF DrainAck, TypeOK
<1>12. ASSUME NEW c \in Channels, Read(c) PROVE TypeOK'
  <2> DEFINE batch == Append(filling[c], itemsRead + 1)
  <2>1. itemsRead' \in 0..MaxPoints /\ itemsRead + 1 \in Points
    BY <1>12, LoadAssumption DEF Read, TypeOK, Points
  <2>2. batch \in Batch /\ <<>> \in Batch
    BY <2>1 DEF TypeOK, Batch
  <2> HIDE DEF batch
  <2>3. CASE Len(batch) >= BatchSize
    <3>1. SendOrQueue(c, batch) /\ filling' = [filling EXCEPT ![c] = <<>>]
      BY <1>12, <2>3 DEF Read, batch
    <3>2. /\ ocnt' \in Nat
          /\ unsent' \in [Channels -> Seq(Batch)]
          /\ toWorker' \in [Channels -> Seq(Batch)]
          /\ \A d \in Channels : Len(toWorker'[d]) <= QueueLen
      BY <2>2, <3>1, SendOrQueueType
    <3> QED
      BY <1>12, <2>1, <2>2, <3>1, <3>2 DEF TypeOK, Read, ScannerStates, workVars
  <2>4. CASE ~(Len(batch) >= BatchSize)
    <3>1. /\ filling' = [filling EXCEPT ![c] = batch]
          /\ UNCHANGED <<unsent, ocnt, toWorker>>
      BY <1>12, <2>4 DEF Read, batch
    <3> QED
      BY <1>12, <2>1, <2>2, <3>1 DEF TypeOK, Read, ScannerStates, workVars
  <2> QED
    BY <2>3, <2>4
<1>13. ASSUME NEW w \in Workers, Take(w) PROVE TypeOK'
  <2>1. /\ toWorker[ChannelOf(w)] \in Seq(Batch) /\ toWorker[ChannelOf(w)] # <<>>
        /\ Len(toWorker[ChannelOf(w)]) <= QueueLen
    BY <1>0, <1>13 DEF TypeOK, Take
  <2>2. /\ Head(toWorker[ChannelOf(w)]) \in Batch
        /\ Tail(toWorker[ChannelOf(w)]) \in Seq(Batch)
        /\ Len(Tail(toWorker[ChannelOf(w)])) <= QueueLen
    BY <1>0, <2>1
  <2> QED
    BY <1>13, <2>1, <2>2 DEF TypeOK, Take, WorkerStates, scanVars
<1>14. ASSUME NEW w \in Workers, Process(w) PROVE TypeOK'
  <2>1. stored[ChannelOf(w)] \o wbatch[w] \in Seq(Points)
    BY <1>0 DEF TypeOK, Batch
  <2> QED
    BY <1>14, <2>1 DEF TypeOK, Process, WorkerStates, scanVars, chanVars
<1>15. ASSUME NEW w \in Workers, Count(w) PROVE TypeOK'
  <2>1. Len(wbatch[w]) \in Nat
    BY DEF TypeOK, Batch
  <2> QED
    BY <1>15, <2>1 DEF TypeOK, Count, WorkerStates, scanVars, chanVars
<1>16. ASSUME NEW w \in Workers, Ack(w) PROVE TypeOK'
  <2>1. toScanner[ChannelOf(w)] \in Seq(Batch) /\ wbatch[w] \in Batch /\ <<>> \in Batch
    BY <1>0 DEF TypeOK, Batch
  <2>2. /\ Append(toScanner[ChannelOf(w)], wbatch[w]) \in Seq(Batch)
        /\ Len(Append(toScanner[ChannelOf(w)], wbatch[w])) <= QueueLen
    BY <1>0, <1>16, <2>1 DEF Ack, HasRoom
  <2> QED
    BY <1>16, <2>1, <2>2 DEF TypeOK, Ack, WorkerStates, scanVars
<1>17. ASSUME NEW w \in Workers, Exit(w) PROVE TypeOK'
  BY <1>17 DEF TypeOK, Exit, WorkerStates, scanVars, chanVars
<1>18. CASE UNCHANGED vars
  BY <1>18 DEF TypeOK, vars, scanVars, chanVars, workVars
<1> QED
  BY <1>1, <1>2, <1>3, <1>4, <1>5, <1>6, <1>7, <1>8, <1>10, <1>11, <1>12, <1>13,
     <1>14, <1>15, <1>16, <1>17, <1>18 DEF Next, Scanner, Worker, Ended
-----------------------------------------------------------------------------
(* The batches on their way as one family of sequences. *)

Places == ({"unsent", "toWorker", "toScanner"} \X Channels) \cup ({"worker"} \X Workers)

HeldBy(w) == IF wpc[w] \in BusyStates THEN <<wbatch[w]>> ELSE <<>>

Lines == [x \in Places |->
            IF x[1] = "unsent" THEN unsent[x[2]]
            ELSE IF x[1] = "toWorker" THEN toWorker[x[2]]
            ELSE IF x[1] = "toScanner" THEN toScanner[x[2]]
            ELSE HeldBy(x[2])]

\* The members of the family, by place, before and after a step.
LEMMA LinesAt ==
    /\ \A c \in Channels :
        /\ <<"unsent", c>> \in Places /\ Lines[<<"unsent", c>>] = unsent[c]
        /\ <<"toWorker", c>> \in Places /\ Lines[<<"toWorker", c>>] = toWorker[c]
        /\ <<"toScanner", c>> \in Places /\ Lines[<<"toScanner", c>>] = toScanner[c]
        /\ Lines'[<<"unsent", c>>] = unsent'[c]
        /\ Lines'[<<"toWorker", c>>] = toWorker'[c]
        /\ Lines'[<<"toScanner", c>>] = toScanner'[c]
    /\ \A w \in Workers :
        /\ <<"worker", w>> \in Places
        /\ Lines[<<"worker", w>>] = HeldBy(w)
        /\ Lines'[<<"worker", w>>] = HeldBy(w)'
    /\ DOMAIN Lines = Places /\ DOMAIN Lines' = Places
BY DEF Lines, Places

\* There are no other places.
LEMMA PlaceCases ==
    ASSUME NEW x \in Places
    PROVE  \/ \E c \in Channels : x = <<"unsent", c>>
           \/ \E c \in Channels : x = <<"toWorker", c>>
           \/ \E c \in Channels : x = <<"toScanner", c>>
           \/ \E w \in Workers : x = <<"worker", w>>
BY DEF Places

\* A member of the family keeps its value when the variable it shows does.
LEMMA SameLine ==
    ASSUME NEW z \in Places,
           \A c \in Channels : z = <<"unsent", c>> => unsent'[c] = unsent[c],
           \A c \in Channels : z = <<"toWorker", c>> => toWorker'[c] = toWorker[c],
           \A c \in Channels : z = <<"toScanner", c>> => toScanner'[c] = toScanner[c],
           \A w \in Workers : z = <<"worker", w>> => HeldBy(w)' = HeldBy(w)
    PROVE  Lines'[z] = Lines[z]
<1>1. CASE \E c \in Channels : z = <<"unsent", c>>
  BY <1>1, LinesAt
<1>2. CASE \E c \in Channels : z = <<"toWorker", c>>
  BY <1>2, LinesAt
<1>3. CASE \E c \in Channels : z = <<"toScanner", c>>
  BY <1>3, LinesAt
<1>4. CASE \E w \in Workers : z = <<"worker", w>>
  BY <1>4, LinesAt
<1> QED
  BY <1>1, <1>2, <1>3, <1>4, PlaceCases

LinesTyped == TypeOK => IsFamily(Lines, Places, Batch)
OutstandingCovered == Outstanding = Contents(Lines)

\* The types make Lines a family of sequences of batches.
LEMMA LinesType == LinesTyped
<1> SUFFICES ASSUME TypeOK, NEW x \in Places PROVE Lines[x] \in Seq(Batch)
  BY DEF IsFamily, Lines, LinesTyped
<1>1. ASSUME NEW c \in Channels
      PROVE  /\ unsent[c] \in Seq(Batch)
             /\ toWorker[c] \in Seq(Batch)
             /\ toScanner[c] \in Seq(Batch)
  BY DEF TypeOK
<1>2. ASSUME NEW w \in Workers PROVE HeldBy(w) \in Seq(Batch)
  <2>1. wbatch[w] \in Batch
    BY DEF TypeOK
  <2> QED
    BY <2>1 DEF HeldBy
<1>3. CASE \E c \in Channels : x \in {<<"unsent", c>>, <<"toWorker", c>>, <<"toScanner", c>>}
  BY <1>1, <1>3, LinesAt
<1>4. CASE \E w \in Workers : x = <<"worker", w>>
  BY <1>2, <1>4, LinesAt
<1> QED
  BY <1>3, <1>4, PlaceCases

\* The outstanding batches are what the family holds.
LEMMA OutstandingIsContents == OutstandingCovered
<1>1. \A w : Range(<<wbatch[w]>>) = {wbatch[w]}
  BY DEF Range
<1>2. Range(<<>>) = {}
  BY DEF Range
<1>3. ASSUME NEW w \in Workers
      PROVE  Range(HeldBy(w)) = IF wpc[w] \in BusyStates THEN {wbatch[w]} ELSE {}
  BY <1>1, <1>2 DEF HeldBy
<1>4. Contents(Lines) = UNION {Range(Lines[x]) : x \in Places}
  BY LinesAt DEF Contents
<1>5. ASSUME NEW b \in Queued PROVE \E x \in Places : b \in Range(Lines[x])
  <2>1. PICK c \in Channels : b \in Range(unsent[c]) \/ b \in Range(toWorker[c])
    BY <1>5 DEF Queued
  <2> QED
    BY <2>1, LinesAt
<1>6. ASSUME NEW b \in Held PROVE \E x \in Places : b \in Range(Lines[x])
  <2>1. PICK w \in Workers : wpc[w] \in BusyStates /\ b = wbatch[w]
    BY <1>6 DEF Held
  <2>2. b \in Range(HeldBy(w))
    BY <1>3, <2>1
  <2> QED
    BY <2>2, LinesAt
<1>7. ASSUME NEW b \in Acked PROVE \E x \in Places : b \in Range(Lines[x])
  <2>1. PICK c \in Channels : b \in Range(toScanner[c])
    BY <1>7 DEF Acked
  <2> QED
    BY <2>1, LinesAt
<1>8. ASSUME NEW x \in Places, NEW b \in Range(Lines[x]) PROVE b \in Outstanding
  <2>1. CASE \E c \in Channels : x = <<"unsent", c>>
    <3>1. PICK c \in Channels : x = <<"unsent", c>>
      BY <2>1
    <3>2. b \in Range(unsent[c])
      BY <1>8, <3>1, LinesAt
    <3> QED
      BY <3>2 DEF Outstanding, Queued
  <2>2. CASE \E c \in Channels : x = <<"toWorker", c>>
    <3>1. PICK c \in Channels : x = <<"toWorker", c>>
      BY <2>2
    <3>2. b \in Range(toWorker[c])
      BY <1>8, <3>1, LinesAt
    <3> QED
      BY <3>2 DEF Outstanding, Queued
  <2>3. CASE \E c \in Channels : x = <<"toScanner", c>>
    BY <1>8, <2>3, LinesAt DEF Outstanding, Acked
  <2>4. CASE \E w \in Workers : x = <<"worker", w>>
    <3>1. PICK w \in Workers : x = <<"worker", w>>
      BY <2>4
    <3>2. b \in Range(HeldBy(w))
      BY <1>8, <3>1, LinesAt
    <3>3. wpc[w] \in BusyStates /\ b = wbatch[w]
      BY <1>3, <3>2
    <3> QED
      BY <3>3 DEF Outstanding, Held
  <2> QED
    BY <2>1, <2>2, <2>3, <2>4, PlaceCases
<1>9. Outstanding \subseteq Contents(Lines)
  BY <1>4, <1>5, <1>6, <1>7 DEF Outstanding
<1>10. Contents(Lines) \subseteq Outstanding
  BY <1>4, <1>8
<1> QED
  BY <1>9, <1>10 DEF OutstandingCovered

\* Both facts hold after a step as well.
LEMMA AfterAStep == LinesTyped' /\ OutstandingCovered'
BY LinesType, OutstandingIsContents, PTL
-----------------------------------------------------------------------------
(* The inductive invariant. *)

Distinct == NoRepetition(Lines)

Counted == IsFiniteSet(Outstanding) /\ OutstandingCounted

\* Points are read in order and appended to one batch: a batch being filled
\* shares no point with another or with one already dispatched.
Fresh ==
    /\ \A b \in Outstanding : Range(b) \subseteq 1..itemsRead
    /\ \A b \in Outstanding, c \in Channels : Range(b) \cap Range(filling[c]) = {}
    /\ \A c \in Channels : Range(filling[c]) \subseteq 1..itemsRead
    /\ \A c, d \in Channels : c # d => Range(filling[c]) \cap Range(filling[d]) = {}

ClosingStates == {"close", "wait", "done"}

\* Channels are closed after the drain loop, which ends with nothing outstanding.
ShutdownOrder ==
    /\ pc \in ClosingStates => ocnt = 0
    /\ \A c \in Channels : closed[c] => pc \in ClosingStates

IInv ==
    /\ TypeOK
    /\ OwedHasBatch
    /\ Distinct
    /\ Counted
    /\ Fresh
    /\ ShutdownOrder

\* The program starts in the invariant.
LEMMA IInvInit == Init => IInv
<1> SUFFICES ASSUME Init PROVE IInv
  OBVIOUS
<1>1. TypeOK
  BY ConstantFacts, LoadAssumption DEF Init, TypeOK, Batch, ScannerStates, WorkerStates
<1>2. OwedHasBatch /\ ShutdownOrder
  BY DEF Init, OwedHasBatch, ShutdownOrder, ClosingStates
<1>3. Range(<<>>) = {} /\ IsInjective(<<>>)
  BY DEF Range, IsInjective
<1>4. \A x \in Places : Lines[x] = <<>>
  <2>1. \A c \in Channels : unsent[c] = <<>> /\ toWorker[c] = <<>> /\ toScanner[c] = <<>>
    BY DEF Init
  <2>2. \A w \in Workers : HeldBy(w) = <<>>
    BY DEF Init, HeldBy, BusyStates
  <2>3. ASSUME NEW x \in Places PROVE Lines[x] = <<>>
    <3>1. CASE \E c \in Channels : x \in {<<"unsent", c>>, <<"toWorker", c>>, <<"toScanner", c>>}
      BY <2>1, <3>1, LinesAt
    <3>2. CASE \E w \in Workers : x = <<"worker", w>>
      BY <2>2, <3>2, LinesAt
    <3> QED
      BY <3>1, <3>2, PlaceCases
  <2> QED
    BY <2>3
<1>5. Distinct
  BY <1>3, <1>4, LinesAt DEF Distinct, NoRepetition
<1>6. Outstanding = {}
  <2>1. Contents(Lines) = {}
    BY <1>3, <1>4, LinesAt DEF Contents
  <2> QED
    BY <2>1, OutstandingIsContents DEF OutstandingCovered
<1>7. Counted
  BY <1>6, FS_EmptySet DEF Counted, OutstandingCounted, Init
<1>8. Fresh
  BY <1>3, <1>6 DEF Fresh, Init
<1> QED
  BY <1>1, <1>2, <1>5, <1>7, <1>8 DEF IInv

\* An acknowledgement in a channel is of an outstanding batch, so ocnt counts it.
LEMMA AckIsCounted == IInv => AcksAreCounted
<1> SUFFICES ASSUME IInv, NEW c \in Channels, toScanner[c] # <<>> PROVE ocnt > 0
  BY DEF AcksAreCounted
<1>1. toScanner[c] \in Seq(Batch)
  BY DEF IInv, TypeOK
<1>2. Head(toScanner[c]) \in Range(toScanner[c])
  BY <1>1 DEF Range
<1>3. Outstanding # {}
  BY <1>2 DEF Outstanding, Acked
<1>4. Cardinality(Outstanding) # 0
  BY <1>3, FS_EmptySet DEF IInv, Counted
<1> QED
  BY <1>4 DEF IInv, Counted, OutstandingCounted, TypeOK

\* Dispatching a batch that is not outstanding.
LEMMA Dispatch ==
    ASSUME IInv, TypeOK', NEW c \in Channels, NEW batch \in Batch,
           batch \notin Outstanding, SendOrQueue(c, batch),
           UNCHANGED <<toScanner, wpc, wbatch>>
    PROVE  Distinct' /\ Counted' /\ Outstanding' = Outstanding \cup {batch}
<1>1. IsFamily(Lines, Places, Batch) /\ IsFamily(Lines', Places, Batch)
  BY LinesType, AfterAStep DEF IInv, LinesTyped
<1>2. \A w \in Workers : HeldBy(w)' = HeldBy(w)
  BY DEF HeldBy
<1>3. PICK x \in Places : Adds(Lines, Lines', Places, x, batch)
  <2>1. CASE GoesStraight(c)
    <3>1. toWorker' = [toWorker EXCEPT ![c] = Append(@, batch)] /\ unsent' = unsent
      BY <2>1 DEF SendOrQueue
    <3>2. toWorker'[c] = Append(toWorker[c], batch)
          /\ \A d \in Channels \ {c} : toWorker'[d] = toWorker[d]
      BY <3>1 DEF IInv, TypeOK
    <3>3. ASSUME NEW z \in Places \ {<<"toWorker", c>>} PROVE Lines'[z] = Lines[z]
      BY <1>2, <3>1, <3>2, SameLine
    <3> QED
      BY <3>2, <3>3, LinesAt DEF Adds
  <2>2. CASE ~GoesStraight(c)
    <3>1. unsent' = [unsent EXCEPT ![c] = Append(@, batch)] /\ toWorker' = toWorker
      BY <2>2 DEF SendOrQueue
    <3>2. unsent'[c] = Append(unsent[c], batch)
          /\ \A d \in Channels \ {c} : unsent'[d] = unsent[d]
      BY <3>1 DEF IInv, TypeOK
    <3>3. ASSUME NEW z \in Places \ {<<"unsent", c>>} PROVE Lines'[z] = Lines[z]
      BY <1>2, <3>1, <3>2, SameLine
    <3> QED
      BY <3>2, <3>3, LinesAt DEF Adds
  <2> QED
    BY <2>1, <2>2
<1>4. batch \notin Contents(Lines) /\ NoRepetition(Lines)
  BY OutstandingIsContents DEF IInv, Distinct, OutstandingCovered
<1>5. NoRepetition(Lines') /\ Contents(Lines') = Contents(Lines) \cup {batch}
  BY <1>1, <1>3, <1>4, FamilyAdd
<1>6. Outstanding' = Outstanding \cup {batch}
  BY <1>5, OutstandingIsContents, AfterAStep DEF OutstandingCovered
<1>7. Counted'
  <2>1. ocnt' = ocnt + 1
    BY DEF SendOrQueue
  <2> QED
    BY <1>6, <2>1, FS_AddElement DEF IInv, Counted, OutstandingCounted
<1> QED
  BY <1>5, <1>6, <1>7 DEF Distinct

\* Receiving the acknowledgement of a batch.
LEMMA Receive ==
    ASSUME IInv, TypeOK', NEW c \in Channels, ReceiveAck(c)
    PROVE  Distinct' /\ Counted' /\ Outstanding' \subseteq Outstanding
<1>1. IsFamily(Lines, Places, Batch) /\ IsFamily(Lines', Places, Batch)
  BY LinesType, AfterAStep DEF IInv, LinesTyped
<1>2. \A w \in Workers : HeldBy(w)' = HeldBy(w)
  BY DEF HeldBy, ReceiveAck, workVars
<1> DEFINE x == <<"toScanner", c>>
           h == Head(Lines[x])
<1>3. Removes(Lines, Lines', Places, x)
  <2>1. /\ toScanner' = [toScanner EXCEPT ![c] = Tail(@)] /\ toScanner[c] # <<>>
        /\ unsent' = unsent /\ toWorker' = toWorker
    BY DEF ReceiveAck
  <2>2. toScanner'[c] = Tail(toScanner[c])
        /\ \A d \in Channels \ {c} : toScanner'[d] = toScanner[d]
    BY <2>1 DEF IInv, TypeOK
  <2>3. ASSUME NEW z \in Places \ {x} PROVE Lines'[z] = Lines[z]
    BY <1>2, <2>1, <2>2, SameLine DEF x
  <2> QED
    BY <2>1, <2>2, <2>3, LinesAt DEF Removes
<1>4. h = Head(Lines[x])
  OBVIOUS
<1> HIDE DEF x, h
<1>5. NoRepetition(Lines)
  BY DEF IInv, Distinct
<1>6. /\ NoRepetition(Lines') /\ h \in Contents(Lines)
      /\ Contents(Lines') = Contents(Lines) \ {h}
  BY <1>1, <1>3, <1>4, <1>5, FamilyRemove
<1>7. h \in Outstanding /\ Outstanding' = Outstanding \ {h}
  BY <1>6, OutstandingIsContents, AfterAStep DEF OutstandingCovered
<1>8. Counted'
  <2>1. ocnt' = ocnt - 1
    BY DEF ReceiveAck
  <2> QED
    BY <1>7, <2>1, FS_RemoveElement DEF IInv, Counted, OutstandingCounted
<1> QED
  BY <1>6, <1>7, <1>8 DEF Distinct

\* A batch that moves from one place to another stays outstanding.
LEMMA MoveOn ==
    ASSUME IInv, TypeOK', ocnt' = ocnt,
           NEW x, NEW y, Moves(Lines, Lines', Places, x, y)
    PROVE  Distinct' /\ Counted' /\ Outstanding' = Outstanding
<1>1. IsFamily(Lines, Places, Batch) /\ IsFamily(Lines', Places, Batch)
  BY LinesType, AfterAStep DEF IInv, LinesTyped
<1>2. NoRepetition(Lines)
  BY DEF IInv, Distinct
<1>3. NoRepetition(Lines') /\ Contents(Lines') = Contents(Lines)
  BY <1>1, <1>2, FamilyMove
<1>4. Outstanding' = Outstanding
  BY <1>3, OutstandingIsContents, AfterAStep DEF OutstandingCovered
<1> QED
  BY <1>3, <1>4 DEF IInv, Distinct, Counted, OutstandingCounted

\* A step that leaves the queues and the busy workers alone.
LEMMA StandStill ==
    ASSUME IInv, UNCHANGED <<unsent, toWorker, toScanner, ocnt>>,
           \A w \in Workers : HeldBy(w)' = HeldBy(w)
    PROVE  Distinct' /\ Counted' /\ Outstanding' = Outstanding
<1>1. ASSUME NEW z \in Places PROVE Lines'[z] = Lines[z]
  BY SameLine
<1>2. NoRepetition(Lines') /\ Contents(Lines') = Contents(Lines)
  <2>1. NoRepetition(Lines)
    BY DEF IInv, Distinct
  <2>2. DOMAIN Lines' = Places /\ DOMAIN Lines = Places
    BY LinesAt
  <2> QED
    BY <1>1, <2>1, <2>2 DEF NoRepetition, Contents
<1>3. Outstanding' = Outstanding
  BY <1>2, OutstandingIsContents, AfterAStep DEF OutstandingCovered
<1> QED
  BY <1>2, <1>3 DEF IInv, Distinct, Counted, OutstandingCounted

\* Steps that do not read a point and dispatch nothing keep batches disjoint.
LEMMA FreshKept ==
    ASSUME Fresh, UNCHANGED <<filling, itemsRead>>, Outstanding' \subseteq Outstanding
    PROVE  Fresh'
BY DEF Fresh

\* The blocking send of an unsent batch moves it into the channel.
LEMMA SendOwedMoves ==
    ASSUME IInv, SendOwed
    PROVE  \E x, y : Moves(Lines, Lines', Places, x, y)
<1>1. /\ owed \in Channels /\ unsent[owed] # <<>>
      /\ unsent' = [unsent EXCEPT ![owed] = Tail(@)]
      /\ toWorker' = [toWorker EXCEPT ![owed] = Append(@, Head(unsent[owed]))]
      /\ toScanner' = toScanner
  BY DEF IInv, TypeOK, OwedHasBatch, SendOwed, RestUnsent
<1>2. \A w \in Workers : HeldBy(w)' = HeldBy(w)
  BY DEF HeldBy, SendOwed, workVars
<1>3. /\ unsent'[owed] = Tail(unsent[owed])
      /\ toWorker'[owed] = Append(toWorker[owed], Head(unsent[owed]))
      /\ \A d \in Channels \ {owed} : unsent'[d] = unsent[d] /\ toWorker'[d] = toWorker[d]
  BY <1>1 DEF IInv, TypeOK
<1> DEFINE x == <<"unsent", owed>>
           y == <<"toWorker", owed>>
<1>4. ASSUME NEW z \in Places \ {x, y} PROVE Lines'[z] = Lines[z]
  BY <1>1, <1>2, <1>3, <1>4, SameLine
<1>5. x \in Places /\ y \in Places /\ x # y
  BY <1>1, LinesAt
<1>6. Moves(Lines, Lines', Places, x, y)
  BY <1>1, <1>3, <1>4, <1>5, LinesAt DEF Moves
<1> QED
  BY <1>6

\* A worker that takes a batch moves it out of the channel into its hands.
LEMMA TakeMoves ==
    ASSUME IInv, NEW w \in Workers, Take(w)
    PROVE  \E x, y : Moves(Lines, Lines', Places, x, y)
<1> DEFINE c == ChannelOf(w)
           b == Head(toWorker[c])
<1>1. /\ c \in Channels /\ toWorker[c] # <<>> /\ wpc[w] = "idle"
      /\ toWorker' = [toWorker EXCEPT ![c] = Tail(@)]
      /\ wbatch' = [wbatch EXCEPT ![w] = b]
      /\ wpc' = [wpc EXCEPT ![w] = "process"]
      /\ unsent' = unsent /\ toScanner' = toScanner
  BY ConstantFacts DEF Take, scanVars
<1> HIDE DEF b, c
<1>2. /\ toWorker'[c] = Tail(toWorker[c])
      /\ \A d \in Channels \ {c} : toWorker'[d] = toWorker[d]
      /\ HeldBy(w) = <<>> /\ HeldBy(w)' = <<b>>
      /\ \A v \in Workers \ {w} : HeldBy(v)' = HeldBy(v)
  BY <1>1 DEF IInv, TypeOK, HeldBy, BusyStates
<1> DEFINE x == <<"toWorker", c>>
           y == <<"worker", w>>
<1>3. ASSUME NEW z \in Places \ {x, y} PROVE Lines'[z] = Lines[z]
  BY <1>1, <1>2, <1>3, SameLine
<1>4. x \in Places /\ y \in Places /\ x # y
  BY <1>1, LinesAt
<1>5. Lines[x] = toWorker[c] /\ Lines'[x] = Tail(Lines[x]) /\ Lines[x] # <<>>
  BY <1>1, <1>2, LinesAt
<1>6. Lines'[y] = Append(Lines[y], Head(Lines[x]))
  <2>1. Lines[y] = <<>> /\ Lines'[y] = <<b>>
    BY <1>2, LinesAt
  <2>2. Append(<<>>, b) = <<b>>
    OBVIOUS
  <2> QED
    BY <1>5, <2>1, <2>2 DEF b
<1> HIDE DEF x, y
<1>7. Moves(Lines, Lines', Places, x, y)
  BY <1>3, <1>4, <1>5, <1>6 DEF Moves
<1> QED
  BY <1>7

\* An acknowledgement moves the batch into the channel back.
LEMMA AckMoves ==
    ASSUME IInv, NEW w \in Workers, Ack(w)
    PROVE  \E x, y : Moves(Lines, Lines', Places, x, y)
<1> DEFINE c == ChannelOf(w)
<1>1. /\ c \in Channels /\ wpc[w] = "ack"
      /\ toScanner' = [toScanner EXCEPT ![c] = Append(@, wbatch[w])]
      /\ wpc' = [wpc EXCEPT ![w] = "idle"]
      /\ wbatch' = [wbatch EXCEPT ![w] = <<>>]
      /\ unsent' = unsent /\ toWorker' = toWorker
  BY ConstantFacts DEF Ack, scanVars
<1> HIDE DEF c
<1>2. /\ toScanner'[c] = Append(toScanner[c], wbatch[w])
      /\ \A d \in Channels \ {c} : toScanner'[d] = toScanner[d]
      /\ HeldBy(w) = <<wbatch[w]>> /\ HeldBy(w)' = <<>>
      /\ \A v \in Workers \ {w} : HeldBy(v)' = HeldBy(v)
  BY <1>1 DEF IInv, TypeOK, HeldBy, BusyStates
<1> DEFINE x == <<"worker", w>>
           y == <<"toScanner", c>>
<1>3. ASSUME NEW z \in Places \ {x, y} PROVE Lines'[z] = Lines[z]
  BY <1>1, <1>2, <1>3, SameLine
<1>4. x \in Places /\ y \in Places /\ x # y
  BY <1>1, LinesAt
<1>5. Lines[x] = <<wbatch[w]>> /\ Lines'[x] = <<>>
  BY <1>2, LinesAt
<1>6. Lines'[x] = Tail(Lines[x]) /\ Lines[x] # <<>> /\ Head(Lines[x]) = wbatch[w]
  BY <1>5
<1>7. Lines'[y] = Append(Lines[y], Head(Lines[x]))
  BY <1>1, <1>2, <1>6, LinesAt
<1> HIDE DEF x, y
<1>8. Moves(Lines, Lines', Places, x, y)
  BY <1>3, <1>4, <1>6, <1>7 DEF Moves
<1> QED
  BY <1>8

\* What is left of the invariant after a step that changes neither what is being
\* filled nor the control the shutdown depends on.
LEMMA QuietStep ==
    ASSUME IInv, TypeOK', Distinct', Counted', Outstanding' \subseteq Outstanding,
           UNCHANGED <<filling, itemsRead, ocnt, owed, pc, closed>>,
           owed # NoChannel => unsent'[owed] # <<>>
    PROVE  IInv'
BY FreshKept DEF IInv, OwedHasBatch, ShutdownOrder

\* Reading a point keeps the invariant: the point is new, so the batch it
\* completes is none of the outstanding ones.
LEMMA ReadStep ==
    ASSUME IInv, TypeOK', NEW c \in Channels, Read(c)
    PROVE  IInv'
<1> DEFINE p == itemsRead + 1
           batch == Append(filling[c], p)
<1>1. /\ itemsRead \in Nat /\ itemsRead' = p /\ p \notin 1..itemsRead
      /\ 1..p = (1..itemsRead) \cup {p}
      /\ filling[c] \in Seq(Points) /\ p \in Points
  <2>1. itemsRead \in 0..MaxPoints /\ itemsRead < MaxPoints /\ itemsRead' = p
    BY DEF Read, IInv, TypeOK
  <2>2. itemsRead \in Nat /\ p \in Points
    BY <2>1, LoadAssumption DEF Points
  <2>3. 1..p = (1..itemsRead) \cup {p} /\ p \notin 1..itemsRead
    BY <2>2
  <2>4. filling[c] \in Seq(Points)
    BY DEF IInv, TypeOK, Batch
  <2> QED
    BY <2>1, <2>2, <2>3, <2>4
<1>2. batch \in Batch /\ Range(batch) = Range(filling[c]) \cup {p}
  BY <1>1, RangeAppend DEF Batch
<1>3. owed' = NoChannel /\ pc' = "select" /\ pc = "decode" /\ closed' = closed
  BY DEF Read
<1>4. OwedHasBatch' /\ ShutdownOrder'
  BY <1>3 DEF OwedHasBatch, ShutdownOrder, IInv, ClosingStates
<1>5. \A w \in Workers : HeldBy(w)' = HeldBy(w)
  BY DEF HeldBy, Read, workVars
<1> HIDE DEF batch
<1>6. CASE Len(batch) >= BatchSize
  <2>1. /\ SendOrQueue(c, batch) /\ filling' = [filling EXCEPT ![c] = <<>>]
        /\ UNCHANGED <<toScanner, wpc, wbatch>>
    BY <1>6 DEF Read, workVars, batch
  <2>2. batch \notin Outstanding
    BY <1>1, <1>2 DEF IInv, Fresh
  <2>3. Distinct' /\ Counted' /\ Outstanding' = Outstanding \cup {batch}
    BY <1>2, <2>1, <2>2, Dispatch
  <2>4. /\ Range(filling'[c]) = {}
        /\ \A d \in Channels \ {c} : filling'[d] = filling[d]
    BY <2>1 DEF Range, IInv, TypeOK
  <2>5. Fresh'
    <3>1. \A b \in Outstanding' : Range(b) \subseteq 1..itemsRead'
      BY <1>1, <1>2, <2>3 DEF IInv, Fresh
    <3>2. ASSUME NEW b \in Outstanding', NEW d \in Channels
          PROVE  Range(b) \cap Range(filling'[d]) = {}
      <4>1. CASE d = c
        BY <2>4, <4>1
      <4>2. CASE d # c /\ b = batch
        BY <1>1, <1>2, <2>4, <4>2 DEF IInv, Fresh
      <4>3. CASE d # c /\ b \in Outstanding
        BY <2>4, <4>3 DEF IInv, Fresh
      <4> QED
        BY <2>3, <3>2, <4>1, <4>2, <4>3
    <3>3. \A d \in Channels : Range(filling'[d]) \subseteq 1..itemsRead'
      BY <1>1, <2>4 DEF IInv, Fresh
    <3>4. \A d, e \in Channels : d # e => Range(filling'[d]) \cap Range(filling'[e]) = {}
      BY <2>4 DEF IInv, Fresh
    <3> QED
      BY <3>1, <3>2, <3>3, <3>4 DEF Fresh
  <2> QED
    BY <1>4, <2>3, <2>5 DEF IInv
<1>7. CASE ~(Len(batch) >= BatchSize)
  <2>1. /\ filling' = [filling EXCEPT ![c] = batch]
        /\ UNCHANGED <<unsent, toWorker, toScanner, ocnt>>
    BY <1>7 DEF Read, batch
  <2>2. Distinct' /\ Counted' /\ Outstanding' = Outstanding
    BY <1>5, <2>1, StandStill
  <2>3. /\ Range(filling'[c]) = Range(filling[c]) \cup {p}
        /\ \A d \in Channels \ {c} : filling'[d] = filling[d]
    BY <1>2, <2>1 DEF IInv, TypeOK
  <2>4. Fresh'
    <3>1. \A b \in Outstanding : p \notin Range(b)
      BY <1>1 DEF IInv, Fresh
    <3>2. \A d \in Channels : p \notin Range(filling[d])
      BY <1>1 DEF IInv, Fresh
    <3>3. \A b \in Outstanding' : Range(b) \subseteq 1..itemsRead'
      BY <1>1, <2>2 DEF IInv, Fresh
    <3>4. ASSUME NEW b \in Outstanding', NEW d \in Channels
          PROVE  Range(b) \cap Range(filling'[d]) = {}
      <4>1. Range(b) \cap Range(filling[d]) = {} /\ p \notin Range(b)
        BY <2>2, <3>1 DEF IInv, Fresh
      <4> QED
        BY <2>3, <4>1
    <3>5. \A d \in Channels : Range(filling'[d]) \subseteq 1..itemsRead'
      BY <1>1, <2>3 DEF IInv, Fresh
    <3>6. ASSUME NEW d \in Channels, NEW e \in Channels, d # e
          PROVE  Range(filling'[d]) \cap Range(filling'[e]) = {}
      <4>1. Range(filling[d]) \cap Range(filling[e]) = {}
        BY <3>6 DEF IInv, Fresh
      <4> QED
        BY <2>3, <3>2, <3>6, <4>1
    <3> QED
      BY <3>3, <3>4, <3>5, <3>6 DEF Fresh
  <2> QED
    BY <1>4, <2>2, <2>4 DEF IInv
<1> QED
  BY <1>6, <1>7

\* So does dispatching what is left in the batches being filled.
LEMMA FlushStep ==
    ASSUME IInv, TypeOK', Flush
    PROVE  IInv'
<1> DEFINE batch == filling[idx]
<1>1. /\ idx \in Channels /\ batch \in Batch
      /\ filling' = [filling EXCEPT ![idx] = <<>>]
      /\ UNCHANGED <<owed, itemsRead, toScanner, closed, wpc, wbatch>>
      /\ pc = "flush" /\ pc' \in {"flush", "drain"}
  BY DEF Flush, IInv, TypeOK, workVars
<1>2. /\ Range(filling'[idx]) = {}
      /\ \A d \in Channels \ {idx} : filling'[d] = filling[d]
  BY <1>1 DEF Range, IInv, TypeOK
<1>3. ShutdownOrder'
  BY <1>1 DEF ShutdownOrder, IInv, ClosingStates
<1>4. \A w \in Workers : HeldBy(w)' = HeldBy(w)
  BY <1>1 DEF HeldBy
<1>5. CASE FlushNeeded(idx)
  <2>1. SendOrQueue(idx, batch) /\ batch # <<>>
    BY <1>5 DEF Flush, FlushNeeded
  <2>2. batch \notin Outstanding
    <3>1. batch[1] \in Range(batch)
      BY <1>1, <2>1 DEF Batch, Range
    <3> QED
      BY <1>1, <3>1 DEF IInv, Fresh
  <2>3. Distinct' /\ Counted' /\ Outstanding' = Outstanding \cup {batch}
    BY <1>1, <2>1, <2>2, Dispatch
  <2>4. OwedHasBatch'
    <3>1. ASSUME owed # NoChannel PROVE unsent'[owed] # <<>>
      <4>1. unsent[owed] # <<>> /\ owed \in Channels /\ unsent[owed] \in Seq(Batch)
        BY <3>1 DEF IInv, OwedHasBatch, TypeOK
      <4>2. unsent' = unsent \/ unsent' = [unsent EXCEPT ![idx] = Append(@, batch)]
        BY <2>1 DEF SendOrQueue
      <4>3. unsent'[owed] = unsent[owed] \/ unsent'[owed] = Append(unsent[owed], batch)
        BY <4>1, <4>2 DEF IInv, TypeOK
      <4>4. Len(Append(unsent[owed], batch)) > 0
        BY <1>1, <4>1
      <4> QED
        BY <4>1, <4>3, <4>4
    <3> QED
      BY <1>1, <3>1 DEF OwedHasBatch
  <2>5. Fresh'
    <3>1. ASSUME NEW b \in Outstanding', NEW d \in Channels
          PROVE  Range(b) \cap Range(filling'[d]) = {}
      <4>1. CASE d = idx
        BY <1>2, <4>1
      <4>2. CASE d # idx /\ b = batch
        BY <1>1, <1>2, <4>2 DEF IInv, Fresh
      <4>3. CASE d # idx /\ b \in Outstanding
        BY <1>2, <4>3 DEF IInv, Fresh
      <4> QED
        BY <2>3, <3>1, <4>1, <4>2, <4>3
    <3>2. \A b \in Outstanding' : Range(b) \subseteq 1..itemsRead'
      BY <1>1, <2>3 DEF IInv, Fresh
    <3>3. \A d \in Channels : Range(filling'[d]) \subseteq 1..itemsRead'
      BY <1>1, <1>2 DEF IInv, Fresh
    <3>4. \A d, e \in Channels : d # e => Range(filling'[d]) \cap Range(filling'[e]) = {}
      BY <1>2 DEF IInv, Fresh
    <3> QED
      BY <3>1, <3>2, <3>3, <3>4 DEF Fresh
  <2> QED
    BY <1>3, <2>3, <2>4, <2>5 DEF IInv
<1>6. CASE ~FlushNeeded(idx)
  <2>1. UNCHANGED <<unsent, ocnt, toWorker>> /\ batch = <<>>
    BY <1>6 DEF Flush, FlushNeeded
  <2>2. filling' = filling
    BY <1>1, <2>1 DEF IInv, TypeOK
  <2>3. Distinct' /\ Counted' /\ Outstanding' = Outstanding
    BY <1>1, <1>4, <2>1, StandStill
  <2> QED
    BY <1>1, <1>3, <2>1, <2>2, <2>3, FreshKept DEF IInv, OwedHasBatch
<1> QED
  BY <1>5, <1>6

\* Every step keeps the invariant.
LEMMA IInvStep == IInv /\ [Next]_vars => IInv'
<1> SUFFICES ASSUME IInv, [Next]_vars PROVE IInv'
  OBVIOUS
<1>1. TypeOK'
  BY AckIsCounted, TypeStep DEF IInv
<1>2. ASSUME UNCHANGED <<unsent, toWorker, toScanner, ocnt, filling, itemsRead, owed>>,
             \A w \in Workers : HeldBy(w)' = HeldBy(w),
             ShutdownOrder'
      PROVE  IInv'
  BY <1>1, <1>2, StandStill, FreshKept DEF IInv, OwedHasBatch
<1>3. ASSUME UNCHANGED <<scanVars, closed>>, UNCHANGED <<toWorker, toScanner>>,
             NEW w \in Workers, wbatch' = wbatch,
             \E s \in WorkerStates : /\ wpc' = [wpc EXCEPT ![w] = s]
                                     /\ s \in BusyStates <=> wpc[w] \in BusyStates
      PROVE  IInv'
  <2>1. \A v \in Workers : HeldBy(v)' = HeldBy(v)
    BY <1>3 DEF HeldBy, IInv, TypeOK
  <2>2. ShutdownOrder'
    BY <1>3 DEF ShutdownOrder, IInv, scanVars
  <2> QED
    BY <1>2, <1>3, <2>1, <2>2 DEF scanVars
<1>4. ASSUME UNCHANGED workVars PROVE \A w \in Workers : HeldBy(w)' = HeldBy(w)
  BY <1>4 DEF HeldBy, workVars
<1>5. CASE StopAtLimit
  BY <1>2, <1>4, <1>5 DEF StopAtLimit, ShutdownOrder, IInv, ClosingStates, chanVars
<1>6. CASE SelectDefault
  BY <1>2, <1>4, <1>6 DEF SelectDefault, ShutdownOrder, IInv, ClosingStates, chanVars
<1>7. CASE EndOfInput
  BY <1>2, <1>4, <1>7 DEF EndOfInput, ShutdownOrder, IInv, ClosingStates, chanVars
<1>8. CASE Drained
  BY <1>2, <1>4, <1>8 DEF Drained, AllAcked, ShutdownOrder, IInv, ClosingStates, chanVars
<1>9. CASE Summary
  BY <1>2, <1>4, <1>9 DEF Summary, ShutdownOrder, IInv, ClosingStates, chanVars
<1>10. CASE Close
  <2>1. ShutdownOrder'
    BY <1>10 DEF Close, ShutdownOrder, IInv, ClosingStates, TypeOK
  <2> QED
    BY <1>2, <1>4, <1>10, <2>1 DEF Close
<1>11. CASE SendOwed
  <2>1. /\ UNCHANGED <<pc, filling, ocnt, itemsRead, closed>> /\ owed' = NoChannel
    BY <1>11 DEF SendOwed
  <2>2. Distinct' /\ Counted' /\ Outstanding' = Outstanding
    BY <1>1, <1>11, <2>1, SendOwedMoves, MoveOn
  <2> QED
    BY <1>1, <2>1, <2>2, FreshKept DEF IInv, OwedHasBatch, ShutdownOrder
<1>12. CASE Flush
  BY <1>1, <1>12, FlushStep
<1>13. ASSUME NEW c \in Channels, ReceiveAck(c), closed' = closed,
              pc \notin ClosingStates, pc' \notin ClosingStates
       PROVE  IInv'
  <2>1. Distinct' /\ Counted' /\ Outstanding' \subseteq Outstanding
    BY <1>1, <1>13, Receive
  <2>2. OwedHasBatch'
    BY <1>13 DEF ReceiveAck, OwedHasBatch
  <2>3. ShutdownOrder'
    BY <1>13 DEF ShutdownOrder, IInv
  <2>4. Fresh'
    BY <1>13, <2>1, FreshKept DEF ReceiveAck, IInv
  <2> QED
    BY <1>1, <2>1, <2>2, <2>3, <2>4 DEF IInv
<1>14. ASSUME NEW c \in Channels, SelectAck(c) PROVE IInv'
  BY <1>13, <1>14 DEF SelectAck, ReceiveAck, ClosingStates
<1>15. ASSUME NEW c \in Channels, DrainAck(c) PROVE IInv'
  BY <1>13, <1>15 DEF DrainAck, ReceiveAck, ClosingStates
<1>16. ASSUME NEW c \in Channels, Read(c) PROVE IInv'
  BY <1>1, <1>16, ReadStep
<1>17. ASSUME NEW w \in Workers, Take(w) PROVE IInv'
  <2>1. UNCHANGED <<filling, itemsRead, ocnt, owed, pc, closed, unsent>>
    BY <1>17 DEF Take, scanVars
  <2>2. Distinct' /\ Counted' /\ Outstanding' = Outstanding
    BY <1>1, <1>17, <2>1, TakeMoves, MoveOn
  <2> QED
    BY <1>1, <2>1, <2>2, QuietStep DEF IInv, OwedHasBatch
<1>18. ASSUME NEW w \in Workers, Ack(w) PROVE IInv'
  <2>1. UNCHANGED <<filling, itemsRead, ocnt, owed, pc, closed, unsent>>
    BY <1>18 DEF Ack, scanVars
  <2>2. Distinct' /\ Counted' /\ Outstanding' = Outstanding
    BY <1>1, <1>18, <2>1, AckMoves, MoveOn
  <2> QED
    BY <1>1, <2>1, <2>2, QuietStep DEF IInv, OwedHasBatch
<1>19. ASSUME NEW w \in Workers, Process(w) PROVE IInv'
  BY <1>3, <1>19 DEF Process, chanVars, WorkerStates, BusyStates
<1>20. ASSUME NEW w \in Workers, Count(w) PROVE IInv'
  BY <1>3, <1>20 DEF Count, chanVars, WorkerStates, BusyStates
<1>21. ASSUME NEW w \in Workers, Exit(w) PROVE IInv'
  BY <1>3, <1>21 DEF Exit, chanVars, WorkerStates, BusyStates
<1>22. CASE UNCHANGED vars
  <2>1. UNCHANGED <<unsent, toWorker, toScanner, ocnt, filling, itemsRead, owed, pc, closed, workVars>>
    BY <1>22 DEF vars, scanVars, chanVars
  <2>2. ShutdownOrder'
    BY <2>1 DEF ShutdownOrder, IInv
  <2> QED
    BY <1>2, <1>4, <2>1, <2>2
<1> QED
  BY <1>5, <1>6, <1>7, <1>8, <1>9, <1>10, <1>11, <1>12, <1>14, <1>15, <1>16, <1>17,
     <1>18, <1>19, <1>20, <1>21, <1>22 DEF Next, Scanner, Worker, Ended

\* The invariant holds in every reachable state, for all constants.
LEMMA Invariance == Spec => []IInv
BY IInvInit, IInvStep, PTL DEF Spec

-----------------------------------------------------------------------------
(* What follows. *)

\* The Go variables of the scanner, the channels and the workers keep their types
\* and no channel ever holds more than its capacity.
THEOREM TypeCorrect == Spec => []TypeOK
<1>1. IInv => TypeOK
  BY DEF IInv
<1> QED
  BY <1>1, Invariance, PTL

\* The counter the drain loop of scanWithIndexer relies on is exact: it is the
\* number of batches queued, held or acknowledged and not yet received.
THEOREM OutstandingIsCounted == Spec => []OutstandingCounted
<1>1. IInv => OutstandingCounted
  BY DEF IInv, Counted
<1> QED
  BY <1>1, Invariance, PTL

\* RunBenchmark closes a channel only when nothing is left in it and no worker has
\* a batch to acknowledge, so no worker sends on a closed channel.
THEOREM ShutdownIsSafe == Spec => []NoSendOnClosed
<1>1. IInv => NoSendOnClosed
  <2> SUFFICES ASSUME IInv, NEW c \in Channels, closed[c]
               PROVE  /\ unsent[c] = <<>> /\ toWorker[c] = <<>> /\ toScanner[c] = <<>>
                      /\ \A w \in Workers : wpc[w] \notin BusyStates
    BY DEF NoSendOnClosed
  <2>1. Outstanding = {}
    BY FS_EmptySet DEF IInv, ShutdownOrder, Counted, OutstandingCounted
  <2>2. \A s \in Seq(Batch) : Range(s) = {} => s = <<>>
    <3>1. ASSUME NEW s \in Seq(Batch), s # <<>> PROVE s[1] \in Range(s)
      BY <3>1 DEF Range
    <3> QED
      BY <3>1
  <2>3. unsent[c] \in Seq(Batch) /\ toWorker[c] \in Seq(Batch) /\ toScanner[c] \in Seq(Batch)
    BY DEF IInv, TypeOK
  <2>4. Range(unsent[c]) = {} /\ Range(toWorker[c]) = {} /\ Range(toScanner[c]) = {}
    BY <2>1 DEF Outstanding, Queued, Acked
  <2>5. \A w \in Workers : wpc[w] \notin BusyStates
    BY <2>1 DEF Outstanding, Held
  <2> QED
    BY <2>2, <2>3, <2>4, <2>5
<1> QED
  BY <1>1, Invariance, PTL
-----------------------------------------------------------------------------
(* How far the scanner runs ahead. *)

\* The default case of the select needs room below olimit, and the other case has
\* just received an acknowledgement; each turn of the flush adds one batch.
FlowControl ==
    /\ pc = "select" => ocnt <= OutstandingLimit
    /\ pc = "decode" => ocnt < OutstandingLimit
    /\ pc = "flush" => ocnt <= OutstandingLimit + idx
    /\ ocnt <= OutstandingLimit + NumChannels

\* The limit on outstanding batches is a natural number.
LEMMA OutstandingLimitType == OutstandingLimit \in Nat
<1>1. NumChannels \in Nat /\ QueueLen \in Nat
  BY ConstantFacts
<1>2. \A m, n \in Nat : m * n * 3 \in Nat
  OBVIOUS
<1> QED
  BY <1>1, <1>2 DEF OutstandingLimit

\* Flow control holds from the start and is kept by every step.
LEMMA FlowControlHolds == Spec => []FlowControl
<1>1. OutstandingLimit \in Nat /\ NumChannels \in Nat \ {0}
  BY OutstandingLimitType, ConstantFacts
<1>2. Init => FlowControl
  BY <1>1 DEF Init, FlowControl
<1>3. IInv /\ FlowControl /\ [Next]_vars => FlowControl'
  <2> SUFFICES ASSUME IInv, FlowControl, [Next]_vars PROVE FlowControl'
    OBVIOUS
  <2>1. ocnt \in Nat /\ idx \in 0..(NumChannels - 1)
    BY DEF IInv, TypeOK, Channels
  <2>2. CASE UNCHANGED <<pc, idx, ocnt>>
    BY <2>2 DEF FlowControl
  <2>3. CASE StopAtLimit \/ EndOfInput
    BY <1>1, <2>1, <2>3 DEF StopAtLimit, EndOfInput, FlowControl
  <2>4. CASE SelectDefault
    BY <1>1, <2>1, <2>4 DEF SelectDefault, MayRunAhead, FlowControl
  <2>5. CASE Flush
    <3>1. ocnt' \in {ocnt, ocnt + 1} /\ ocnt <= OutstandingLimit + idx
      BY <2>5 DEF Flush, SendOrQueue, FlowControl
    <3>2. \/ pc' = "flush" /\ idx' = idx + 1
          \/ pc' = "drain" /\ idx + 1 = NumChannels
      BY <2>5 DEF Flush
    <3> QED
      BY <1>1, <2>1, <3>1, <3>2 DEF FlowControl
  <2>6. CASE Drained \/ Close \/ Summary
    BY <2>6 DEF Drained, Close, Summary, FlowControl
  <2>7. ASSUME NEW c \in Channels, SelectAck(c) PROVE FlowControl'
    BY <1>1, <2>1, <2>7 DEF SelectAck, ReceiveAck, FlowControl
  <2>8. ASSUME NEW c \in Channels, DrainAck(c) PROVE FlowControl'
    BY <1>1, <2>1, <2>8 DEF DrainAck, ReceiveAck, FlowControl
  <2>9. ASSUME NEW c \in Channels, Read(c) PROVE FlowControl'
    <3>1. ocnt' \in {ocnt, ocnt + 1} /\ pc = "decode" /\ pc' = "select"
      BY <2>9 DEF Read, SendOrQueue
    <3> QED
      BY <1>1, <2>1, <3>1 DEF FlowControl
  <2>10. CASE SendOwed
    BY <2>2, <2>10 DEF SendOwed
  <2>11. ASSUME NEW w \in Workers, Worker(w) PROVE FlowControl'
    BY <2>2, <2>11 DEF Worker, Take, Process, Count, Ack, Exit, scanVars
  <2>12. CASE UNCHANGED vars
    BY <2>2, <2>12 DEF vars, scanVars
  <2> QED
    BY <2>3, <2>4, <2>5, <2>6, <2>7, <2>8, <2>9, <2>10, <2>11, <2>12
       DEF Next, Scanner, Ended
<1> QED
  BY <1>2, <1>3, Invariance, PTL DEF Spec

\* scanWithIndexer never leaves more than olimit batches outstanding, and the flush
\* of the partly filled batches adds at most one per channel.
THEOREM BackpressureHolds == Spec => []Backpressure
<1>1. IInv /\ FlowControl => Backpressure
  BY OutstandingLimitType DEF IInv, TypeOK, FlowControl, Backpressure
<1> QED
  BY <1>1, FlowControlHolds, Invariance, PTL
-----------------------------------------------------------------------------
(* A queue with unsent batches. *)

WorkersOf(c) == {w \in Workers : ChannelOf(w) = c}
BusyWorkers(c) == {w \in Workers : ChannelOf(w) = c /\ wpc[w] \in BusyStates}

\* Batches of channel c that are in one of its directions, with a worker, or
\* promised by an acknowledgement the scanner has received.
Busy(c) == Cardinality(BusyWorkers(c))
Promised(c) == IF owed = c THEN 1 ELSE 0
InUse(c) == Len(toWorker[c]) + Busy(c) + Len(toScanner[c]) + Promised(c)

\* Batches wait in unsentBatches only while as many as the channel can hold are
\* on their way: whoever takes one gives it back as an acknowledgement, and the
\* acknowledgement makes the scanner send another.
SlotsInUse == \A c \in Channels : unsent[c] # <<>> => InUse(c) >= QueueLen

\* createChannels gives a channel at least as many slots as workers.
LEMMA EnoughSlots ==
    ASSUME NEW c \in Channels
    PROVE  IsFiniteSet(WorkersOf(c)) /\ Cardinality(WorkersOf(c)) <= QueueLen
<1> DEFINE N == NumWorkers
           K == NumChannels
           Q == QueueLen
           f == [w \in WorkersOf(c) |-> w \div K]
<1>1. N \in Nat \ {0} /\ K \in Nat \ {0} /\ Q \in Nat
  BY ConstantFacts, LoadAssumption
<1>2. \A a \in Int : a = K * (a \div K) + (a % K) /\ a % K \in 0..(K - 1) /\ a \div K \in Int
  BY <1>1
<1>3. ASSUME NEW w \in WorkersOf(c)
      PROVE  w \div K \in 0..(Q - 1) /\ w = K * (w \div K) + c
  <2>1. w \in 0..(N - 1) /\ w % K = c
    BY <1>1 DEF WorkersOf, Workers, ChannelOf
  <2>2. w = K * (w \div K) + c /\ w \div K \in Nat
    <3>1. w = K * (w \div K) + c
      BY <1>2, <2>1
    <3>2. \A n \in Nat : n \div K \in Nat
      BY <1>1
    <3> QED
      BY <1>1, <2>1, <3>1, <3>2
  <2>3. N + K - 1 <= K * Q + (K - 1)
    <3>1. N + K - 1 \in Int /\ Q = (N + K - 1) \div K
      BY <1>1 DEF QueueLen
    <3>2. N + K - 1 = K * Q + ((N + K - 1) % K)
      BY <1>2, <3>1
    <3>3. (N + K - 1) % K <= K - 1 /\ (N + K - 1) % K \in Int
      BY <1>1, <1>2, <3>1
    <3>4. K * Q \in Int
      BY <1>1
    <3> QED
      BY <1>1, <3>2, <3>3, <3>4
  <2>4. w \div K < Q
    <3>1. SUFFICES ASSUME w \div K >= Q PROVE FALSE
      BY <1>1, <2>2
    <3>2. \A a, b \in Nat : a >= b => K * a >= K * b
      BY <1>1
    <3>3. K * (w \div K) >= K * Q /\ K * (w \div K) \in Int /\ K * Q \in Int
      BY <1>1, <2>2, <3>1, <3>2
    <3>4. c >= 0 /\ c \in Int
      BY <1>1 DEF Channels
    <3> QED
      BY <1>1, <2>1, <2>2, <2>3, <3>3, <3>4
  <2> QED
    BY <1>1, <2>2, <2>4
<1>4. f \in Injection(WorkersOf(c), 0..(Q - 1))
  <2>1. f \in [WorkersOf(c) -> 0..(Q - 1)]
    BY <1>3
  <2>2. ASSUME NEW v \in WorkersOf(c), NEW w \in WorkersOf(c), f[v] = f[w]
        PROVE  v = w
    BY <1>3, <2>2
  <2> QED
    BY <2>1, <2>2 DEF Injection, IsInjective
<1>5. IsFiniteSet(0..(Q - 1)) /\ Cardinality(0..(Q - 1)) = Q
  BY <1>1, FS_Interval
<1> HIDE DEF f
<1> QED
  BY <1>4, <1>5, FS_Injection

\* The busy workers of a channel can be counted.
LEMMA BusyType ==
    \A c \in Channels : IsFiniteSet(BusyWorkers(c)) /\ Cardinality(BusyWorkers(c)) \in Nat
<1> TAKE c \in Channels
<1>1. BusyWorkers(c) \in SUBSET WorkersOf(c)
  BY DEF BusyWorkers, WorkersOf
<1> QED
  BY <1>1, EnoughSlots, FS_Subset, FS_CardinalityType

\* The same, after a step.
LEMMA BusyTypeNext ==
    \A c \in Channels : IsFiniteSet(BusyWorkers(c)') /\ Cardinality(BusyWorkers(c)') \in Nat
<1> TAKE c \in Channels
<1>1. BusyWorkers(c)' \in SUBSET WorkersOf(c)
  BY DEF BusyWorkers, WorkersOf
<1> QED
  BY <1>1, EnoughSlots, FS_Subset, FS_CardinalityType

\* A queue with unsent batches has all its slots in use, in every state.
LEMMA SlotsInUseHolds == Spec => []SlotsInUse
<1>1. Init => SlotsInUse
  BY DEF Init, SlotsInUse
<1>2. IInv /\ SlotsInUse /\ [Next]_vars => SlotsInUse'
  <2> SUFFICES ASSUME IInv, SlotsInUse, [Next]_vars, NEW c \in Channels, unsent'[c] # <<>>
               PROVE  InUse(c)' >= QueueLen
    BY DEF SlotsInUse
  <2>1. /\ QueueLen \in Nat /\ Busy(c) \in Nat /\ Busy(c)' \in Nat
        /\ Len(toWorker[c]) \in Nat /\ Len(toScanner[c]) \in Nat
        /\ Promised(c) \in 0..1 /\ Promised(c)' \in 0..1
        /\ InUse(c) = Len(toWorker[c]) + Busy(c) + Len(toScanner[c]) + Promised(c)
        /\ InUse(c)' = Len(toWorker'[c]) + Busy(c)' + Len(toScanner'[c]) + Promised(c)'
        /\ unsent[c] # <<>> => InUse(c) >= QueueLen
        /\ owed' = owed => Promised(c)' = Promised(c)
        /\ owed = c => Promised(c) = 1
        /\ owed # c => Promised(c) = 0
        /\ owed' = c => Promised(c)' = 1
        /\ owed' # c => Promised(c)' = 0
    <3>1. toWorker[c] \in Seq(Batch) /\ toScanner[c] \in Seq(Batch)
      BY DEF IInv, TypeOK
    <3>2. Len(toWorker[c]) \in Nat /\ Len(toScanner[c]) \in Nat
      BY <3>1
    <3>3. unsent[c] # <<>> => InUse(c) >= QueueLen
      BY DEF SlotsInUse
    <3>4. QueueLen \in Nat /\ Busy(c) \in Nat /\ Busy(c)' \in Nat
      BY ConstantFacts, BusyType, BusyTypeNext DEF Busy
    <3> QED
      BY <3>2, <3>3, <3>4 DEF InUse, Promised
  <2>0. toWorker[c] \in Seq(Batch) /\ toScanner[c] \in Seq(Batch) /\ unsent[c] \in Seq(Batch)
    BY DEF IInv, TypeOK
  <2>2. ASSUME UNCHANGED <<toWorker, toScanner, unsent, owed>>, Busy(c)' = Busy(c)
        PROVE  InUse(c)' >= QueueLen
    BY <2>1, <2>2
  <2>3. ASSUME UNCHANGED wpc PROVE Busy(c)' = Busy(c)
    BY <2>3 DEF Busy, BusyWorkers
  <2>4. ASSUME NEW d \in Channels, NEW batch \in Batch, SendOrQueue(d, batch),
               UNCHANGED <<toScanner, owed, wpc>>
        PROVE  InUse(c)' >= QueueLen
    <3>1. CASE GoesStraight(d)
      <4>1. toWorker' = [toWorker EXCEPT ![d] = Append(@, batch)] /\ unsent' = unsent
        BY <2>4, <3>1 DEF SendOrQueue
      <4>2. toWorker'[c] = toWorker[c] \/ toWorker'[c] = Append(toWorker[c], batch)
        BY <4>1 DEF IInv, TypeOK
      <4>3. Len(toWorker'[c]) >= Len(toWorker[c]) /\ Len(toWorker'[c]) \in Nat
        BY <2>0, <4>2
      <4>4. /\ Len(toScanner'[c]) = Len(toScanner[c]) /\ Promised(c)' = Promised(c) /\ Busy(c)' = Busy(c)
            /\ InUse(c) >= QueueLen
        BY <2>1, <2>3, <2>4, <4>1
      <4> QED
        BY <2>1, <4>3, <4>4
    <3>2. CASE ~GoesStraight(d)
      <4>1. unsent' = [unsent EXCEPT ![d] = Append(@, batch)] /\ toWorker' = toWorker
        BY <2>4, <3>2 DEF SendOrQueue
      <4>2. CASE unsent[c] # <<>>
        BY <2>1, <2>3, <2>4, <4>1, <4>2
      <4>3. CASE unsent[c] = <<>>
        <5>1. c = d
          BY <4>1, <4>3 DEF IInv, TypeOK
        <5>2. Len(toWorker[c]) >= QueueLen
          BY <2>1, <3>2, <4>3, <5>1 DEF GoesStraight, HasRoom
        <5> QED
          BY <2>1, <2>3, <2>4, <4>1, <5>2
      <4> QED
        BY <4>2, <4>3
    <3> QED
      BY <3>1, <3>2
  <2>5. ASSUME NEW d \in Channels, ReceiveAck(d) PROVE InUse(c)' >= QueueLen
    <3>1. /\ toWorker' = toWorker /\ unsent' = unsent /\ owed = NoChannel /\ wpc' = wpc
          /\ toScanner' = [toScanner EXCEPT ![d] = Tail(@)] /\ toScanner[d] # <<>>
          /\ owed' = IF unsent[d] # <<>> THEN d ELSE NoChannel
      BY <2>5 DEF ReceiveAck, workVars
    <3>2. owed # c
      BY <3>1, ConstantFacts
    <3>3. CASE c = d
      <4>1. Len(toScanner'[c]) = Len(toScanner[c]) - 1
        BY <2>0, <3>1, <3>3 DEF IInv, TypeOK
      <4>2. owed' = c
        BY <3>1, <3>3
      <4> QED
        BY <2>1, <2>3, <3>1, <3>2, <4>1, <4>2
    <3>4. CASE c # d
      BY <2>1, <2>3, <3>1, <3>2, <3>4 DEF IInv, TypeOK
    <3> QED
      BY <3>3, <3>4
  <2>6. CASE SendOwed
    <3>1. /\ owed \in Channels /\ owed' = NoChannel /\ toScanner' = toScanner /\ wpc' = wpc
          /\ toWorker' = [toWorker EXCEPT ![owed] = Append(@, Head(unsent[owed]))]
          /\ unsent' = [unsent EXCEPT ![owed] = Tail(unsent[owed])]
      BY <2>6 DEF SendOwed, RestUnsent, workVars, IInv, TypeOK
    <3>2. owed' # c
      BY <3>1, ConstantFacts
    <3>3. CASE owed = c
      <4>1. unsent[c] # <<>>
        BY <3>1, <3>3, ConstantFacts DEF IInv, OwedHasBatch
      <4>2. toWorker'[c] = Append(toWorker[c], Head(unsent[c]))
        BY <3>1, <3>3 DEF IInv, TypeOK
      <4>3. Len(toWorker'[c]) = Len(toWorker[c]) + 1
        BY <2>0, <4>1, <4>2
      <4> QED
        BY <2>1, <2>3, <3>1, <3>2, <3>3, <4>1, <4>3
    <3>4. CASE owed # c
      <4>1. toWorker'[c] = toWorker[c] /\ unsent'[c] = unsent[c]
        BY <3>1, <3>4 DEF IInv, TypeOK
      <4> QED
        BY <2>1, <2>3, <3>1, <3>2, <3>4, <4>1
    <3> QED
      BY <3>3, <3>4
  <2>7. CASE StopAtLimit \/ SelectDefault \/ EndOfInput \/ Drained \/ Close \/ Summary
    BY <2>2, <2>3, <2>7 DEF StopAtLimit, SelectDefault, EndOfInput, Drained, Close, Summary,
       chanVars, workVars
  <2>8. CASE Flush
    <3>1. CASE FlushNeeded(idx)
      BY <2>4, <2>8, <3>1 DEF Flush, workVars, IInv, TypeOK
    <3>2. CASE ~FlushNeeded(idx)
      BY <2>2, <2>3, <2>8, <3>2 DEF Flush, workVars
    <3> QED
      BY <3>1, <3>2
  <2>9. ASSUME NEW d \in Channels, Read(d) PROVE InUse(c)' >= QueueLen
    <3> DEFINE batch == Append(filling[d], itemsRead + 1)
    <3>1. batch \in Batch
      <4>1. itemsRead + 1 \in Points /\ filling[d] \in Seq(Points)
        BY <2>9, LoadAssumption DEF Read, IInv, TypeOK, Points, Batch
      <4> QED
        BY <4>1 DEF Batch
    <3>2. CASE Len(batch) >= BatchSize
      BY <2>4, <2>9, <3>1, <3>2 DEF Read, workVars
    <3>3. CASE ~(Len(batch) >= BatchSize)
      BY <2>2, <2>3, <2>9, <3>3 DEF Read, workVars
    <3> QED
      BY <3>2, <3>3
  <2>10. ASSUME NEW d \in Channels, SelectAck(d) \/ DrainAck(d) PROVE InUse(c)' >= QueueLen
    BY <2>5, <2>10 DEF SelectAck, DrainAck
  <2>11. ASSUME NEW w \in Workers, Take(w) PROVE InUse(c)' >= QueueLen
    <3>1. /\ unsent' = unsent /\ toScanner' = toScanner /\ owed' = owed
          /\ toWorker' = [toWorker EXCEPT ![ChannelOf(w)] = Tail(@)]
          /\ toWorker[ChannelOf(w)] # <<>>
          /\ wpc[w] = "idle" /\ wpc' = [wpc EXCEPT ![w] = "process"]
      BY <2>11 DEF Take, scanVars
    <3>2. CASE ChannelOf(w) = c
      <4>1. Len(toWorker'[c]) = Len(toWorker[c]) - 1
        BY <2>0, <3>1, <3>2 DEF IInv, TypeOK
      <4>2. w \notin BusyWorkers(c) /\ BusyWorkers(c)' = BusyWorkers(c) \cup {w}
        BY <3>1, <3>2 DEF BusyWorkers, BusyStates, IInv, TypeOK
      <4>3. Busy(c)' = Busy(c) + 1
        BY <4>2, BusyType, FS_AddElement DEF Busy
      <4> QED
        BY <2>1, <3>1, <4>1, <4>3
    <3>3. CASE ChannelOf(w) # c
      <4>1. toWorker'[c] = toWorker[c]
        BY <3>1, <3>3 DEF IInv, TypeOK
      <4>2. BusyWorkers(c)' = BusyWorkers(c)
        BY <3>1, <3>3 DEF BusyWorkers, BusyStates, IInv, TypeOK
      <4> QED
        BY <2>1, <3>1, <4>1, <4>2 DEF Busy
    <3> QED
      BY <3>2, <3>3
  <2>12. ASSUME NEW w \in Workers, Ack(w) PROVE InUse(c)' >= QueueLen
    <3>1. /\ unsent' = unsent /\ toWorker' = toWorker /\ owed' = owed
          /\ toScanner' = [toScanner EXCEPT ![ChannelOf(w)] = Append(@, wbatch[w])]
          /\ wpc[w] = "ack" /\ wpc' = [wpc EXCEPT ![w] = "idle"]
      BY <2>12 DEF Ack, scanVars
    <3>2. CASE ChannelOf(w) = c
      <4>1. Len(toScanner'[c]) = Len(toScanner[c]) + 1
        BY <2>0, <3>1, <3>2 DEF IInv, TypeOK
      <4>2. w \in BusyWorkers(c) /\ BusyWorkers(c)' = BusyWorkers(c) \ {w}
        BY <3>1, <3>2 DEF BusyWorkers, BusyStates, IInv, TypeOK
      <4>3. Busy(c)' = Busy(c) - 1
        BY <4>2, BusyType, FS_RemoveElement DEF Busy
      <4> QED
        BY <2>1, <3>1, <4>1, <4>3
    <3>3. CASE ChannelOf(w) # c
      <4>1. toScanner'[c] = toScanner[c]
        BY <3>1, <3>3 DEF IInv, TypeOK
      <4>2. BusyWorkers(c)' = BusyWorkers(c)
        BY <3>1, <3>3 DEF BusyWorkers, BusyStates, IInv, TypeOK
      <4> QED
        BY <2>1, <3>1, <4>1, <4>2 DEF Busy
    <3> QED
      BY <3>2, <3>3
  <2>13. ASSUME NEW w \in Workers, Process(w) \/ Count(w) \/ Exit(w)
         PROVE  InUse(c)' >= QueueLen
    <3>1. BusyWorkers(c)' = BusyWorkers(c)
      BY <2>13 DEF Process, Count, Exit, BusyWorkers, BusyStates, IInv, TypeOK
    <3> QED
      BY <2>2, <2>13, <3>1 DEF Process, Count, Exit, scanVars, chanVars, Busy
  <2>14. CASE UNCHANGED vars
    BY <2>2, <2>3, <2>14 DEF vars, scanVars, chanVars, workVars
  <2> QED
    BY <2>6, <2>7, <2>8, <2>9, <2>10, <2>11, <2>12, <2>13, <2>14
       DEF Next, Scanner, Worker, Ended
<1> QED
  BY <1>1, <1>2, Invariance, PTL DEF Spec

\* No worker starves: an idle worker with an empty channel, while a batch of that
\* channel waits in unsentBatches, has an acknowledgement on the way, because the
\* other workers of the channel alone cannot hold as many batches as it has slots.
THEOREM IdleWorkersAreServed == Spec => []IdleWorkerIsServed
<1>1. IInv /\ SlotsInUse => IdleWorkerIsServed
  <2> SUFFICES ASSUME IInv, SlotsInUse, NEW w \in Workers, NEW c \in Channels,
                      c = ChannelOf(w), wpc[w] = "idle", toWorker[c] = <<>>, unsent[c] # <<>>,
                      owed # c, toScanner[c] = <<>>
               PROVE  FALSE
    BY ConstantFacts DEF IdleWorkerIsServed
  <2>1. Cardinality(BusyWorkers(c)) >= QueueLen
    BY BusyType, ConstantFacts DEF SlotsInUse, InUse, Busy, Promised
  <2>2. BusyWorkers(c) \in SUBSET (WorkersOf(c) \ {w}) /\ w \in WorkersOf(c)
    BY DEF BusyWorkers, WorkersOf, BusyStates
  <2>3. /\ IsFiniteSet(WorkersOf(c) \ {w})
        /\ Cardinality(WorkersOf(c) \ {w}) = Cardinality(WorkersOf(c)) - 1
        /\ Cardinality(WorkersOf(c)) \in Nat
    BY <2>2, EnoughSlots, FS_RemoveElement, FS_CardinalityType
  <2>4. Cardinality(BusyWorkers(c)) <= Cardinality(WorkersOf(c)) - 1
    BY <2>2, <2>3, FS_Subset
  <2> QED
    BY <2>1, <2>3, <2>4, BusyType, EnoughSlots, ConstantFacts
<1> QED
  BY <1>1, SlotsInUseHolds, Invariance, PTL
-----------------------------------------------------------------------------
(* Sequences. *)

Ascending(s) == \A i, j \in DOMAIN s : i < j => s[i] < s[j]
Before(S, T) == \A p \in S, q \in T : p < q

\* How a line of batches changes when one is appended behind it, when its first
\* batch is taken, and when the border between its two parts moves.
LEMMA AppendToLine ==
    ASSUME NEW B, NEW t \in Seq(B), NEW u \in Seq(B), NEW b \in B
    PROVE  /\ t \o u \in Seq(B)
           /\ t \o Append(u, b) = Append(t \o u, b)
           /\ u = <<>> => Append(t, b) \o u = Append(t \o u, b)
OBVIOUS

LEMMA FrontOfLine ==
    ASSUME NEW B, NEW t \in Seq(B), NEW u \in Seq(B), t # <<>>
    PROVE  t \o u # <<>> /\ Head(t \o u) = Head(t) /\ Tail(t \o u) = Tail(t) \o u
OBVIOUS

LEMMA ShiftBorder ==
    ASSUME NEW B, NEW t \in Seq(B), NEW u \in Seq(B), u # <<>>
    PROVE  Append(t, Head(u)) \o Tail(u) = t \o u
OBVIOUS

\* The elements of two sequences one behind the other.
LEMMA RangeConcat ==
    ASSUME NEW B, NEW t \in Seq(B), NEW u \in Seq(B)
    PROVE  Range(t \o u) = Range(t) \cup Range(u)
<1> DEFINE m == Len(t)
           n == Len(u)
           s == t \o u
<1>1. /\ m \in Nat /\ n \in Nat /\ DOMAIN t = 1..m /\ DOMAIN u = 1..n /\ DOMAIN s = 1..(m + n)
      /\ \A i \in 1..m : s[i] = t[i]
      /\ \A i \in 1..n : s[m + i] = u[i]
  OBVIOUS
<1>2. \A i \in 1..(m + n) : i \in 1..m \/ (i - m \in 1..n /\ i = m + (i - m))
  BY <1>1
<1>3. \A i \in 1..m : i \in 1..(m + n)
  BY <1>1
<1>4. \A i \in 1..n : m + i \in 1..(m + n)
  BY <1>1
<1> HIDE DEF s, m, n
<1>5. Range(s) \subseteq Range(t) \cup Range(u)
  BY <1>1, <1>2 DEF Range
<1>6. Range(t) \subseteq Range(s) /\ Range(u) \subseteq Range(s)
  BY <1>1, <1>3, <1>4 DEF Range
<1> QED
  BY <1>5, <1>6 DEF s

\* The first element of a sequence and the others.
LEMMA RangeHeadTail ==
    ASSUME NEW B, NEW s \in Seq(B), s # <<>>
    PROVE  Range(s) = {Head(s)} \cup Range(Tail(s))
<1> DEFINE h == <<Head(s)>>
           t == Tail(s)
<1>1. s = h \o t /\ h \in Seq(B) /\ t \in Seq(B)
  OBVIOUS
<1>2. Range(h) = {Head(s)}
  BY DEF Range
<1> HIDE DEF h, t
<1>3. Range(h \o t) = Range(h) \cup Range(t)
  BY <1>1, RangeConcat
<1> QED
  BY <1>1, <1>2, <1>3 DEF t

\* A larger point behind an ascending batch, and two ascending runs one behind
\* the other.
LEMMA AscendingAppend ==
    ASSUME NEW s \in Seq(Points), Ascending(s), NEW p \in Points, \A q \in Range(s) : q < p
    PROVE  Ascending(Append(s, p))
BY DEF Ascending, Range, Points

LEMMA AscendingConcat ==
    ASSUME NEW s \in Seq(Points), NEW t \in Seq(Points),
           Ascending(s), Ascending(t), Before(Range(s), Range(t))
    PROVE  Ascending(s \o t)
<1> DEFINE u == s \o t
           m == Len(s)
           n == Len(t)
<1>1. /\ m \in Nat /\ n \in Nat /\ DOMAIN s = 1..m /\ DOMAIN t = 1..n /\ DOMAIN u = 1..(m + n)
      /\ \A i \in 1..m : u[i] = s[i]
      /\ \A i \in (m + 1)..(m + n) : i - m \in 1..n /\ u[i] = t[i - m]
  OBVIOUS
<1>2. SUFFICES ASSUME NEW i \in 1..(m + n), NEW j \in 1..(m + n), i < j PROVE u[i] < u[j]
  BY <1>1 DEF Ascending
<1> HIDE DEF u, m, n
<1>3. CASE i \in 1..m /\ j \in 1..m
  BY <1>1, <1>2, <1>3 DEF Ascending
<1>4. CASE i \in 1..m /\ j \in (m + 1)..(m + n)
  <2>1. s[i] \in Range(s) /\ t[j - m] \in Range(t)
    BY <1>1, <1>4 DEF Range
  <2> QED
    BY <1>1, <1>4, <2>1 DEF Before
<1>5. CASE i \in (m + 1)..(m + n) /\ j \in (m + 1)..(m + n)
  <2>1. i - m < j - m
    BY <1>1, <1>2
  <2> QED
    BY <1>1, <1>5, <2>1 DEF Ascending
<1> QED
  BY <1>1, <1>2, <1>3, <1>4, <1>5

\* No point occurs twice in an ascending batch.
LEMMA AscendingInjective ==
    ASSUME NEW s \in Seq(Points), Ascending(s) PROVE IsInjective(s)
<1> SUFFICES ASSUME NEW i \in DOMAIN s, NEW j \in DOMAIN s, s[i] = s[j] PROVE i = j
  BY DEF IsInjective
<1>1. DOMAIN s = 1..Len(s) /\ Len(s) \in Nat /\ s[i] \in Points
  OBVIOUS
<1>2. i \in Int /\ j \in Int /\ s[i] \in Int
  BY <1>1 DEF Points
<1> QED
  BY <1>2 DEF Ascending

LEMMA InjectiveConcat ==
    ASSUME NEW B, NEW s \in Seq(B), NEW t \in Seq(B),
           IsInjective(s), IsInjective(t), Range(s) \cap Range(t) = {}
    PROVE  IsInjective(s \o t)
<1> DEFINE u == s \o t
           m == Len(s)
           n == Len(t)
<1>1. /\ m \in Nat /\ n \in Nat /\ DOMAIN s = 1..m /\ DOMAIN t = 1..n /\ DOMAIN u = 1..(m + n)
      /\ \A i \in 1..m : u[i] = s[i]
      /\ \A i \in (m + 1)..(m + n) : i - m \in 1..n /\ u[i] = t[i - m]
  OBVIOUS
<1>2. SUFFICES ASSUME NEW i \in 1..(m + n), NEW j \in 1..(m + n), u[i] = u[j] PROVE i = j
  BY <1>1 DEF IsInjective
<1> HIDE DEF u, m, n
<1>3. i \in 1..m \/ i \in (m + 1)..(m + n)
  BY <1>1
<1>4. j \in 1..m \/ j \in (m + 1)..(m + n)
  BY <1>1
<1>5. \A k \in 1..m : u[k] \in Range(s)
  BY <1>1 DEF Range
<1>6. \A k \in (m + 1)..(m + n) : u[k] \in Range(t)
  BY <1>1 DEF Range
<1>7. CASE i \in 1..m /\ j \in 1..m
  BY <1>1, <1>2, <1>7 DEF IsInjective
<1>8. CASE i \in (m + 1)..(m + n) /\ j \in (m + 1)..(m + n)
  <2>1. i - m = j - m
    BY <1>1, <1>2, <1>8 DEF IsInjective
  <2> QED
    BY <1>1, <2>1
<1> QED
  BY <1>2, <1>3, <1>4, <1>5, <1>6, <1>7, <1>8

\* A sequence without repetition has as many elements as places.
LEMMA RangeCardinality ==
    ASSUME NEW B, NEW s \in Seq(B), IsInjective(s)
    PROVE  IsFiniteSet(Range(s)) /\ Cardinality(Range(s)) = Len(s)
<1>1. Len(s) \in Nat /\ DOMAIN s = 1..Len(s)
  OBVIOUS
<1>2. IsFiniteSet(1..Len(s)) /\ Cardinality(1..Len(s)) = Len(s)
  BY <1>1, FS_Interval
<1>3. s \in Surjection(1..Len(s), Range(s)) /\ s \in Injection(1..Len(s), Range(s))
  BY <1>1 DEF Surjection, Injection, Range, IsInjective
<1> QED
  BY <1>2, <1>3, FS_Surjection
-----------------------------------------------------------------------------
(* What a step does to the batches of a channel. *)

\* The batches of channel c no worker has taken, oldest first.
LineOf(c) == toWorker[c] \o unsent[c]

NewBatch(c) == Append(filling[c], itemsRead + 1)

SameLines == \A c \in Channels : LineOf(c)' = LineOf(c)

\* A point is read and its batch is not full yet.
Fills(c) ==
    /\ itemsRead' = itemsRead + 1
    /\ itemsRead < MaxPoints
    /\ Len(NewBatch(c)) < BatchSize
    /\ filling' = [filling EXCEPT ![c] = NewBatch(c)]
    /\ Outstanding' = Outstanding
    /\ SameLines
    /\ UNCHANGED workVars

\* A batch joins the line of its channel, on reading its last point or at the end.
Dispatches(c, batch) ==
    /\ \/ batch = NewBatch(c) /\ itemsRead' = itemsRead + 1 /\ itemsRead < MaxPoints
       \/ batch = filling[c] /\ itemsRead' = itemsRead
    /\ batch \in Batch /\ batch # <<>>
    /\ filling' = [filling EXCEPT ![c] = <<>>]
    /\ Outstanding' = Outstanding \cup {batch}
    /\ LineOf(c)' = Append(LineOf(c), batch)
    /\ \A d \in Channels \ {c} : LineOf(d)' = LineOf(d)
    /\ UNCHANGED workVars

\* A worker takes the first batch of its line.
Takes(w) ==
    /\ wpc[w] = "idle" /\ LineOf(ChannelOf(w)) # <<>>
    /\ wpc' = [wpc EXCEPT ![w] = "process"]
    /\ wbatch' = [wbatch EXCEPT ![w] = Head(LineOf(ChannelOf(w)))]
    /\ LineOf(ChannelOf(w))' = Tail(LineOf(ChannelOf(w)))
    /\ \A d \in Channels \ {ChannelOf(w)} : LineOf(d)' = LineOf(d)
    /\ Outstanding' = Outstanding
    /\ UNCHANGED <<filling, itemsRead, stored, rowCnt>>

\* A worker processes or counts its batch.
Works(w) ==
    /\ Process(w) \/ Count(w)
    /\ Outstanding' = Outstanding
    /\ SameLines

\* Nothing happens to a point: the scanner or a worker moves on, a batch passes
\* from unsentBatches to the channel, an acknowledgement is sent or received.
Rests ==
    /\ UNCHANGED <<filling, itemsRead, stored, rowCnt>>
    /\ Outstanding' \subseteq Outstanding
    /\ SameLines
    /\ \A w \in Workers :
        \/ wpc'[w] = wpc[w] /\ wbatch'[w] = wbatch[w]
        \/ wpc[w] \notin {"process", "count"} /\ wpc'[w] \notin {"process", "count"}

\* The lines are sequences of batches, and every batch in one is outstanding.
LEMMA LineType ==
    ASSUME IInv, NEW c \in Channels
    PROVE  /\ LineOf(c) \in Seq(Batch)
           /\ \A i \in DOMAIN LineOf(c) : LineOf(c)[i] \in Outstanding
           /\ Range(LineOf(c)) = Range(toWorker[c]) \cup Range(unsent[c])
<1>1. toWorker[c] \in Seq(Batch) /\ unsent[c] \in Seq(Batch)
  BY DEF IInv, TypeOK
<1>2. LineOf(c) \in Seq(Batch) /\ Range(LineOf(c)) = Range(toWorker[c]) \cup Range(unsent[c])
  BY <1>1, RangeConcat DEF LineOf
<1>3. Range(LineOf(c)) \subseteq Outstanding
  BY <1>2 DEF Outstanding, Queued
<1>4. \A i \in DOMAIN LineOf(c) : LineOf(c)[i] \in Range(LineOf(c))
  BY DEF Range
<1> QED
  BY <1>2, <1>3, <1>4

\* A batch that is dispatched joins the end of its line, whether it goes straight
\* to the channel or waits in unsentBatches.
LEMMA SendOrQueueLine ==
    ASSUME IInv, NEW c \in Channels, NEW batch \in Batch, SendOrQueue(c, batch)
    PROVE  /\ LineOf(c)' = Append(LineOf(c), batch)
           /\ \A d \in Channels \ {c} : LineOf(d)' = LineOf(d)
<1>1. /\ toWorker[c] \in Seq(Batch) /\ unsent[c] \in Seq(Batch)
      /\ toWorker \in [Channels -> Seq(Batch)] /\ unsent \in [Channels -> Seq(Batch)]
  BY DEF IInv, TypeOK
<1>2. CASE GoesStraight(c)
  <2>1. /\ toWorker'[c] = Append(toWorker[c], batch) /\ unsent' = unsent /\ unsent[c] = <<>>
        /\ \A d \in Channels \ {c} : toWorker'[d] = toWorker[d]
    BY <1>1, <1>2 DEF SendOrQueue, GoesStraight
  <2>2. Append(toWorker[c], batch) \o unsent[c] = Append(toWorker[c] \o unsent[c], batch)
    BY <1>1, <2>1, AppendToLine
  <2> QED
    BY <2>1, <2>2 DEF LineOf
<1>3. CASE ~GoesStraight(c)
  <2>1. /\ unsent'[c] = Append(unsent[c], batch) /\ toWorker' = toWorker
        /\ \A d \in Channels \ {c} : unsent'[d] = unsent[d]
    BY <1>1, <1>3 DEF SendOrQueue
  <2>2. toWorker[c] \o Append(unsent[c], batch) = Append(toWorker[c] \o unsent[c], batch)
    BY <1>1, AppendToLine
  <2> QED
    BY <2>1, <2>2 DEF LineOf
<1> QED
  BY <1>2, <1>3

\* The blocking send moves a batch past the border of the line.
LEMMA SendOwedLine ==
    ASSUME IInv, SendOwed
    PROVE  SameLines
<1>1. /\ owed \in Channels /\ unsent[owed] # <<>>
      /\ unsent' = [unsent EXCEPT ![owed] = Tail(unsent[owed])]
      /\ toWorker' = [toWorker EXCEPT ![owed] = Append(@, Head(unsent[owed]))]
  BY DEF IInv, TypeOK, OwedHasBatch, SendOwed, RestUnsent
<1>2. \A d \in Channels : toWorker[d] \in Seq(Batch) /\ unsent[d] \in Seq(Batch)
  BY DEF IInv, TypeOK
<1>3. ASSUME NEW d \in Channels, d = owed PROVE LineOf(d)' = LineOf(d)
  <2>1. toWorker'[d] = Append(toWorker[d], Head(unsent[d])) /\ unsent'[d] = Tail(unsent[d])
    BY <1>1, <1>3 DEF IInv, TypeOK
  <2>2. Append(toWorker[d], Head(unsent[d])) \o Tail(unsent[d]) = toWorker[d] \o unsent[d]
    BY <1>1, <1>2, <1>3, ShiftBorder
  <2> QED
    BY <2>1, <2>2 DEF LineOf
<1>4. ASSUME NEW d \in Channels \ {owed} PROVE LineOf(d)' = LineOf(d)
  BY <1>1 DEF LineOf, IInv, TypeOK
<1> QED
  BY <1>3, <1>4 DEF SameLines

\* Reading a point.
LEMMA ReadEffect ==
    ASSUME IInv, IInv', NEW c \in Channels, Read(c)
    PROVE  Fills(c) \/ \E batch \in Batch : Dispatches(c, batch)
<1>1. /\ itemsRead' = itemsRead + 1 /\ itemsRead < MaxPoints /\ UNCHANGED workVars
      /\ toScanner' = toScanner
  BY DEF Read
<1>2. NewBatch(c) \in Batch /\ NewBatch(c) # <<>> /\ itemsRead + 1 \in Range(NewBatch(c))
  <2>1. itemsRead + 1 \in Points /\ filling[c] \in Seq(Points)
    BY LoadAssumption DEF Read, IInv, TypeOK, Points, Batch
  <2>2. NewBatch(c) \in Seq(Points) /\ Len(NewBatch(c)) = Len(filling[c]) + 1 /\ Len(filling[c]) \in Nat
    BY <2>1 DEF NewBatch
  <2>3. Range(NewBatch(c)) = Range(filling[c]) \cup {itemsRead + 1}
    BY <2>1, RangeAppend DEF NewBatch
  <2> QED
    BY <2>2, <2>3 DEF Batch
<1>3. CASE Len(NewBatch(c)) >= BatchSize
  <2>1. SendOrQueue(c, NewBatch(c)) /\ filling' = [filling EXCEPT ![c] = <<>>]
    BY <1>3 DEF Read, NewBatch
  <2>2. NewBatch(c) \notin Outstanding
    <3>1. itemsRead + 1 \notin 1..itemsRead
      BY DEF IInv, TypeOK
    <3> QED
      BY <1>2, <3>1 DEF IInv, Fresh
  <2>3. Outstanding' = Outstanding \cup {NewBatch(c)}
    BY <1>1, <1>2, <2>1, <2>2, Dispatch DEF IInv, workVars
  <2> QED
    BY <1>1, <1>2, <2>1, <2>3, SendOrQueueLine DEF Dispatches
<1>4. CASE ~(Len(NewBatch(c)) >= BatchSize)
  <2>1. filling' = [filling EXCEPT ![c] = NewBatch(c)] /\ UNCHANGED <<unsent, ocnt, toWorker>>
    BY <1>4 DEF Read, NewBatch
  <2>2. Outstanding' = Outstanding
    BY <1>1, <2>1, StandStill DEF HeldBy, workVars
  <2>3. SameLines
    BY <2>1 DEF SameLines, LineOf
  <2>4. Len(NewBatch(c)) < BatchSize
    <3>1. Len(NewBatch(c)) \in Nat
      BY <1>2 DEF Batch
    <3> QED
      BY <1>4, <3>1, LoadAssumption
  <2> QED
    BY <1>1, <2>1, <2>2, <2>3, <2>4 DEF Fills
<1> QED
  BY <1>3, <1>4

\* One turn of the flush.
LEMMA FlushEffect ==
    ASSUME IInv, IInv', Flush
    PROVE  Rests \/ \E c \in Channels, batch \in Batch : Dispatches(c, batch)
<1>1. /\ idx \in Channels /\ filling[idx] \in Batch /\ itemsRead' = itemsRead
      /\ filling' = [filling EXCEPT ![idx] = <<>>]
      /\ UNCHANGED workVars /\ toScanner' = toScanner
  BY DEF Flush, IInv, TypeOK
<1>2. CASE FlushNeeded(idx)
  <2>1. SendOrQueue(idx, filling[idx]) /\ filling[idx] # <<>>
    BY <1>2 DEF Flush, FlushNeeded
  <2>2. filling[idx] \notin Outstanding
    <3>1. filling[idx][1] \in Range(filling[idx])
      BY <1>1, <2>1 DEF Batch, Range
    <3> QED
      BY <1>1, <3>1 DEF IInv, Fresh
  <2>3. Outstanding' = Outstanding \cup {filling[idx]}
    BY <1>1, <2>1, <2>2, Dispatch DEF IInv, workVars
  <2> QED
    BY <1>1, <2>1, <2>3, SendOrQueueLine DEF Dispatches
<1>3. CASE ~FlushNeeded(idx)
  <2>1. UNCHANGED <<unsent, ocnt, toWorker>> /\ filling' = filling
    BY <1>1, <1>3 DEF Flush, FlushNeeded, IInv, TypeOK
  <2>2. Outstanding' = Outstanding
    BY <1>1, <2>1, StandStill DEF HeldBy, workVars
  <2> QED
    BY <1>1, <2>1, <2>2 DEF Rests, SameLines, LineOf, workVars
<1> QED
  BY <1>2, <1>3

\* A step of a worker.
LEMMA WorkerEffect ==
    ASSUME IInv, IInv', NEW w \in Workers, Worker(w)
    PROVE  Takes(w) \/ Works(w) \/ Rests
<1>1. ChannelOf(w) \in Channels /\ wpc \in [Workers -> WorkerStates]
  BY ConstantFacts DEF IInv, TypeOK
<1>2. CASE Take(w)
  <2>1. /\ toWorker[ChannelOf(w)] # <<>> /\ wpc[w] = "idle"
        /\ wpc' = [wpc EXCEPT ![w] = "process"]
        /\ wbatch' = [wbatch EXCEPT ![w] = Head(toWorker[ChannelOf(w)])]
        /\ toWorker' = [toWorker EXCEPT ![ChannelOf(w)] = Tail(@)]
        /\ unsent' = unsent /\ ocnt' = ocnt
        /\ UNCHANGED <<filling, itemsRead, stored, rowCnt>>
    BY <1>2 DEF Take, scanVars
  <2>2. Outstanding' = Outstanding
    BY <1>2, <2>1, TakeMoves, MoveOn DEF IInv
  <2>3. /\ toWorker'[ChannelOf(w)] = Tail(toWorker[ChannelOf(w)])
        /\ \A d \in Channels \ {ChannelOf(w)} : toWorker'[d] = toWorker[d]
        /\ toWorker[ChannelOf(w)] \in Seq(Batch) /\ unsent[ChannelOf(w)] \in Seq(Batch)
    BY <1>1, <2>1 DEF IInv, TypeOK
  <2>4. /\ toWorker[ChannelOf(w)] \o unsent[ChannelOf(w)] # <<>>
        /\ Head(toWorker[ChannelOf(w)] \o unsent[ChannelOf(w)]) = Head(toWorker[ChannelOf(w)])
        /\ Tail(toWorker[ChannelOf(w)] \o unsent[ChannelOf(w)])
                = Tail(toWorker[ChannelOf(w)]) \o unsent[ChannelOf(w)]
    BY <2>1, <2>3, FrontOfLine
  <2>5. /\ LineOf(ChannelOf(w)) # <<>>
        /\ Head(LineOf(ChannelOf(w))) = Head(toWorker[ChannelOf(w)])
        /\ LineOf(ChannelOf(w))' = Tail(LineOf(ChannelOf(w)))
    BY <2>1, <2>3, <2>4 DEF LineOf
  <2>6. \A d \in Channels \ {ChannelOf(w)} : LineOf(d)' = LineOf(d)
    BY <2>1, <2>3 DEF LineOf
  <2> QED
    BY <2>1, <2>2, <2>5, <2>6 DEF Takes
<1>3. CASE Process(w) \/ Count(w)
  <2>1. UNCHANGED <<unsent, toWorker, toScanner, ocnt>>
    BY <1>3 DEF Process, Count, scanVars, chanVars
  <2>2. \A v \in Workers : HeldBy(v)' = HeldBy(v)
    BY <1>1, <1>3 DEF Process, Count, HeldBy, BusyStates
  <2>3. Outstanding' = Outstanding
    BY <2>1, <2>2, StandStill
  <2>4. SameLines
    BY <2>1 DEF SameLines, LineOf
  <2> QED
    BY <1>3, <2>3, <2>4 DEF Works
<1>4. CASE Ack(w)
  <2>1. /\ UNCHANGED <<filling, itemsRead, stored, rowCnt, ocnt, unsent, toWorker>>
        /\ wpc[w] = "ack" /\ wpc' = [wpc EXCEPT ![w] = "idle"]
        /\ wbatch' = [wbatch EXCEPT ![w] = <<>>]
    BY <1>4 DEF Ack, scanVars
  <2>2. Outstanding' = Outstanding
    BY <1>4, <2>1, AckMoves, MoveOn DEF IInv
  <2>3. SameLines
    BY <2>1 DEF SameLines, LineOf
  <2>4. \A v \in Workers :
            \/ wpc'[v] = wpc[v] /\ wbatch'[v] = wbatch[v]
            \/ wpc[v] \notin {"process", "count"} /\ wpc'[v] \notin {"process", "count"}
    BY <1>1, <2>1 DEF IInv, TypeOK
  <2> QED
    BY <2>1, <2>2, <2>3, <2>4 DEF Rests
<1>5. CASE Exit(w)
  <2>1. /\ UNCHANGED <<filling, itemsRead, stored, rowCnt, ocnt, unsent, toWorker, toScanner>>
        /\ wpc[w] = "idle" /\ wpc' = [wpc EXCEPT ![w] = "exited"] /\ wbatch' = wbatch
    BY <1>5 DEF Exit, scanVars, chanVars
  <2>2. \A v \in Workers : HeldBy(v)' = HeldBy(v)
    BY <1>1, <2>1 DEF HeldBy, BusyStates
  <2>3. Outstanding' = Outstanding
    BY <2>1, <2>2, StandStill
  <2>4. SameLines
    BY <2>1 DEF SameLines, LineOf
  <2>5. \A v \in Workers :
            \/ wpc'[v] = wpc[v] /\ wbatch'[v] = wbatch[v]
            \/ wpc[v] \notin {"process", "count"} /\ wpc'[v] \notin {"process", "count"}
    BY <1>1, <2>1
  <2> QED
    BY <2>1, <2>3, <2>4, <2>5 DEF Rests
<1> QED
  BY <1>2, <1>3, <1>4, <1>5 DEF Worker

\* Every step has one of these effects.
LEMMA StepEffects ==
    ASSUME IInv, IInv', [Next]_vars
    PROVE  \/ \E c \in Channels : Fills(c)
           \/ \E c \in Channels, batch \in Batch : Dispatches(c, batch)
           \/ \E w \in Workers : Takes(w) \/ Works(w)
           \/ Rests
<1>1. ASSUME UNCHANGED <<filling, itemsRead, unsent, toWorker, toScanner, ocnt, workVars>>
      PROVE  Rests
  BY <1>1, StandStill DEF Rests, SameLines, LineOf, HeldBy, workVars
<1>2. CASE StopAtLimit \/ SelectDefault \/ EndOfInput \/ Drained \/ Close \/ Summary \/ UNCHANGED vars
  BY <1>1, <1>2 DEF StopAtLimit, SelectDefault, EndOfInput, Drained, Close, Summary,
     vars, scanVars, chanVars
<1>3. CASE SendOwed
  <2>1. UNCHANGED <<filling, itemsRead, ocnt, workVars>>
    BY <1>3 DEF SendOwed
  <2>2. Outstanding' = Outstanding
    BY <1>3, <2>1, SendOwedMoves, MoveOn DEF IInv
  <2> QED
    BY <1>3, <2>1, <2>2, SendOwedLine DEF Rests, workVars
<1>4. ASSUME NEW c \in Channels, ReceiveAck(c) PROVE Rests
  <2>1. UNCHANGED <<filling, itemsRead, unsent, toWorker, workVars>>
    BY <1>4 DEF ReceiveAck
  <2>2. Outstanding' \subseteq Outstanding
    BY <1>4, Receive DEF IInv
  <2> QED
    BY <2>1, <2>2 DEF Rests, SameLines, LineOf, workVars
<1> QED
  BY <1>2, <1>3, <1>4, ReadEffect, FlushEffect, WorkerEffect
     DEF Next, Scanner, Ended, SelectAck, DrainAck
-----------------------------------------------------------------------------
(* Shape of a batch. *)

\* Points are appended in the order they are read, a batch is dispatched as soon as
\* it is full, and an empty one is not dispatched.
BatchShape ==
    /\ \A c \in Channels : Ascending(filling[c]) /\ Len(filling[c]) < BatchSize
    /\ \A b \in Outstanding : b # <<>> /\ Len(b) <= BatchSize /\ Ascending(b)

\* What the point being read adds to its batch: a point larger than any before.
LEMMA NewBatchFacts ==
    ASSUME IInv, BatchShape, NEW c \in Channels, itemsRead < MaxPoints
    PROVE  /\ NewBatch(c) \in Batch
           /\ Range(NewBatch(c)) = Range(filling[c]) \cup {itemsRead + 1}
           /\ Len(NewBatch(c)) = Len(filling[c]) + 1
           /\ Ascending(NewBatch(c))
<1>1. /\ itemsRead \in Nat /\ itemsRead + 1 \in Points
      /\ filling[c] \in Seq(Points)
      /\ \A q \in Range(filling[c]) : q < itemsRead + 1
  <2>1. itemsRead \in Nat /\ itemsRead + 1 \in Points
    BY LoadAssumption DEF IInv, TypeOK, Points
  <2>2. filling[c] \in Seq(Points)
    BY DEF IInv, TypeOK, Batch
  <2>3. \A q \in Range(filling[c]) : q \in 1..itemsRead
    BY DEF IInv, Fresh
  <2> QED
    BY <2>1, <2>2, <2>3
<1>2. Range(NewBatch(c)) = Range(filling[c]) \cup {itemsRead + 1}
  BY <1>1, RangeAppend DEF NewBatch
<1>3. Ascending(NewBatch(c))
  BY <1>1, AscendingAppend DEF NewBatch, BatchShape
<1> QED
  BY <1>1, <1>2, <1>3 DEF NewBatch, Batch

\* Every batch in flight has a point, at most BatchSize of them, in read order.
LEMMA BatchShapeHolds == Spec => []BatchShape
<1>1. Init => BatchShape
  <2> SUFFICES ASSUME Init PROVE BatchShape
    OBVIOUS
  <2>1. Outstanding = {}
    BY IInvInit, FS_EmptySet DEF IInv, Counted, OutstandingCounted, Init
  <2> QED
    BY <2>1, LoadAssumption DEF Init, BatchShape, Ascending
<1>2. IInv /\ IInv' /\ BatchShape /\ [Next]_vars => BatchShape'
  <2> SUFFICES ASSUME IInv, IInv', BatchShape, [Next]_vars PROVE BatchShape'
    OBVIOUS
  <2>1. \A c \in Channels : filling[c] \in Seq(Points) /\ Len(filling[c]) \in Nat
    BY DEF IInv, TypeOK, Batch
  <2>2. ASSUME NEW c \in Channels, Fills(c) PROVE BatchShape'
    <3>1. filling'[c] = NewBatch(c) /\ \A d \in Channels \ {c} : filling'[d] = filling[d]
      BY <2>2 DEF Fills, IInv, TypeOK
    <3> QED
      BY <2>2, <3>1, NewBatchFacts DEF Fills, BatchShape
  <2>3. ASSUME NEW c \in Channels, NEW batch \in Batch, Dispatches(c, batch)
        PROVE  BatchShape'
    <3>1. filling'[c] = <<>> /\ \A d \in Channels \ {c} : filling'[d] = filling[d]
      BY <2>3 DEF Dispatches, IInv, TypeOK
    <3>2. Len(<<>>) < BatchSize /\ Ascending(<<>>)
      BY LoadAssumption DEF Ascending
    <3>3. Ascending(batch) /\ Len(batch) <= BatchSize
      <4>1. CASE batch = NewBatch(c) /\ itemsRead < MaxPoints
        BY <2>1, <4>1, NewBatchFacts, LoadAssumption DEF BatchShape
      <4>2. CASE batch = filling[c]
        BY <2>1, <4>2, LoadAssumption DEF BatchShape
      <4> QED
        BY <2>3, <4>1, <4>2 DEF Dispatches
    <3> QED
      BY <2>3, <3>1, <3>2, <3>3 DEF Dispatches, BatchShape
  <2>4. ASSUME filling' = filling, Outstanding' \subseteq Outstanding PROVE BatchShape'
    BY <2>4 DEF BatchShape
  <2>5. ASSUME NEW w \in Workers, Takes(w) \/ Works(w) PROVE BatchShape'
    BY <2>4, <2>5 DEF Takes, Works, Process, Count, scanVars
  <2>6. CASE Rests
    BY <2>4, <2>6 DEF Rests
  <2> QED
    BY <2>2, <2>3, <2>5, <2>6, StepEffects
<1> QED
  BY <1>1, <1>2, Invariance, PTL DEF Spec
-----------------------------------------------------------------------------
(* Where a point is. *)

LineBatches == UNION {Range(LineOf(c)) : c \in Channels}
HandBatches == {wbatch[w] : w \in {v \in Workers : wpc[v] = "process"}}
PendingBatches == LineBatches \cup HandBatches

FillingPoints == UNION {Range(filling[c]) : c \in Channels}
PendingPoints == UNION {Range(b) : b \in PendingBatches}
StoredPoints == UNION {Range(stored[c]) : c \in Channels}

\* Batches share no point, a pending batch or one being filled holds no point that
\* was stored, a point is stored at one place, and every point read is somewhere.
PointsOnce ==
    /\ \A b, d \in Outstanding : b # d => Range(b) \cap Range(d) = {}
    /\ PendingPoints \cap StoredPoints = {}
    /\ FillingPoints \cap StoredPoints = {}
    /\ StoredPoints \subseteq 1..itemsRead
    /\ \A c \in Channels : IsInjective(stored[c])
    /\ \A c, d \in Channels : c # d => Range(stored[c]) \cap Range(stored[d]) = {}
    /\ 1..itemsRead \subseteq FillingPoints \cup PendingPoints \cup StoredPoints

\* A batch is pending when it is in a line or a worker is about to process it.
LEMMA PendingMembers ==
    \A b : b \in PendingBatches <=>
        \/ \E c \in Channels : b \in Range(LineOf(c))
        \/ \E w \in Workers : wpc[w] = "process" /\ b = wbatch[w]
<1> TAKE b
<1>1. b \in LineBatches <=> \E c \in Channels : b \in Range(LineOf(c))
  BY DEF LineBatches
<1>2. b \in HandBatches <=> \E w \in Workers : wpc[w] = "process" /\ b = wbatch[w]
  BY DEF HandBatches
<1> QED
  BY <1>1, <1>2 DEF PendingBatches

\* The same, after a step.
LEMMA PendingMembersNext ==
    \A b : b \in PendingBatches' <=>
        \/ \E c \in Channels : b \in Range(LineOf(c)')
        \/ \E w \in Workers : wpc'[w] = "process" /\ b = wbatch'[w]
<1> TAKE b
<1>1. b \in LineBatches' <=> \E c \in Channels : b \in Range(LineOf(c)')
  BY DEF LineBatches
<1>2. b \in HandBatches' <=> \E w \in Workers : wpc'[w] = "process" /\ b = wbatch'[w]
  BY DEF HandBatches
<1> QED
  BY <1>1, <1>2 DEF PendingBatches

\* A pending batch is one of those on their way.
LEMMA PendingIsOutstanding == IInv => PendingBatches \subseteq Outstanding
<1> SUFFICES ASSUME IInv, NEW b \in PendingBatches PROVE b \in Outstanding
  OBVIOUS
<1>1. CASE \E c \in Channels : b \in Range(LineOf(c))
  BY <1>1, LineType DEF Outstanding, Queued
<1>2. CASE \E w \in Workers : wpc[w] = "process" /\ b = wbatch[w]
  BY <1>2 DEF Outstanding, Held, BusyStates
<1> QED
  BY <1>1, <1>2, PendingMembers

\* The batch a worker holds is in no line and not with another worker.
LEMMA HeldOnce ==
    ASSUME IInv, NEW w \in Workers, wpc[w] \in BusyStates
    PROVE  /\ wbatch[w] \in Outstanding
           /\ \A c \in Channels : wbatch[w] \notin Range(LineOf(c))
           /\ \A v \in Workers \ {w} : wpc[v] \in BusyStates => wbatch[v] # wbatch[w]
<1>1. \A v : Range(<<wbatch[v]>>) = {wbatch[v]}
  BY DEF Range
<1>2. \A v \in Workers : wpc[v] \in BusyStates => Range(Lines[<<"worker", v>>]) = {wbatch[v]}
  BY <1>1, LinesAt DEF HeldBy
<1>3. ASSUME NEW c \in Channels PROVE wbatch[w] \notin Range(LineOf(c))
  <2>1. <<"worker", w>> # <<"unsent", c>> /\ <<"worker", w>> # <<"toWorker", c>>
    OBVIOUS
  <2>2. Range(Lines[<<"worker", w>>]) \cap Range(unsent[c]) = {}
    BY <2>1, LinesAt DEF IInv, Distinct, NoRepetition
  <2>3. Range(Lines[<<"worker", w>>]) \cap Range(toWorker[c]) = {}
    BY <2>1, LinesAt DEF IInv, Distinct, NoRepetition
  <2> QED
    BY <1>2, <2>2, <2>3, LineType
<1>4. ASSUME NEW v \in Workers \ {w}, wpc[v] \in BusyStates PROVE wbatch[v] # wbatch[w]
  <2>1. <<"worker", w>> # <<"worker", v>>
    BY <1>4
  <2>2. Range(Lines[<<"worker", w>>]) \cap Range(Lines[<<"worker", v>>]) = {}
    BY <2>1, LinesAt DEF IInv, Distinct, NoRepetition
  <2> QED
    BY <1>2, <1>4, <2>2
<1> QED
  BY <1>3, <1>4 DEF Outstanding, Held

\* Nothing is taken away from the points on their way but by processing them.
LEMMA PendingStep ==
    ASSUME IInv, IInv'
    PROVE  /\ SameLines /\ (\A w \in Workers :
                 \/ wpc'[w] = wpc[w] /\ wbatch'[w] = wbatch[w]
                 \/ wpc[w] # "process" /\ wpc'[w] # "process")
              => PendingBatches' = PendingBatches
           /\ \A c \in Channels, batch \in Batch :
                 Dispatches(c, batch) => PendingBatches' = PendingBatches \cup {batch}
           /\ \A w \in Workers : Takes(w) => PendingBatches' = PendingBatches
           /\ \A w \in Workers : Works(w) /\ Process(w) =>
                 /\ wbatch[w] \in PendingBatches
                 /\ PendingBatches' = PendingBatches \ {wbatch[w]}
<1> DEFINE InLines(b) == \E c \in Channels : b \in Range(LineOf(c))
           InHands(b) == \E w \in Workers : wpc[w] = "process" /\ b = wbatch[w]
<1>1. \A b : b \in PendingBatches <=> InLines(b) \/ InHands(b)
  BY PendingMembers
<1>2. \A b : b \in PendingBatches' <=> \/ \E c \in Channels : b \in Range(LineOf(c)')
                                       \/ \E w \in Workers : wpc'[w] = "process" /\ b = wbatch'[w]
  BY PendingMembersNext
<1>3. ASSUME SameLines,
             \A w \in Workers :
                 \/ wpc'[w] = wpc[w] /\ wbatch'[w] = wbatch[w]
                 \/ wpc[w] # "process" /\ wpc'[w] # "process"
      PROVE  PendingBatches' = PendingBatches
  <2>1. ASSUME NEW b \in PendingBatches PROVE b \in PendingBatches'
    BY <1>1, <1>2, <1>3 DEF SameLines
  <2>2. ASSUME NEW b \in PendingBatches' PROVE b \in PendingBatches
    BY <1>1, <1>2, <1>3, <2>2 DEF SameLines
  <2> QED
    BY <2>1, <2>2
<1>4. ASSUME NEW c \in Channels, NEW batch \in Batch, Dispatches(c, batch)
      PROVE  PendingBatches' = PendingBatches \cup {batch}
  <2>1. Range(LineOf(c)') = Range(LineOf(c)) \cup {batch}
    <3>1. LineOf(c)' = Append(LineOf(c), batch) /\ LineOf(c) \in Seq(Batch)
      BY <1>4, LineType DEF Dispatches
    <3>2. Range(Append(LineOf(c), batch)) = Range(LineOf(c)) \cup {batch}
      BY <3>1, RangeAppend
    <3> QED
      BY <3>1, <3>2
  <2>2. /\ wpc' = wpc /\ wbatch' = wbatch
        /\ \A d \in Channels \ {c} : LineOf(d)' = LineOf(d)
    BY <1>4 DEF Dispatches, workVars
  <2>3. ASSUME NEW b \in PendingBatches PROVE b \in PendingBatches'
    <3>1. CASE InLines(b)
      BY <1>2, <2>1, <2>2, <3>1
    <3>2. CASE InHands(b)
      BY <1>2, <2>2, <3>2
    <3> QED
      BY <1>1, <3>1, <3>2
  <2>4. batch \in PendingBatches'
    BY <1>2, <2>1
  <2>5. ASSUME NEW b \in PendingBatches' PROVE b \in PendingBatches \cup {batch}
    BY <1>1, <1>2, <2>1, <2>2, <2>5
  <2> QED
    BY <2>3, <2>4, <2>5
<1>5. ASSUME NEW w \in Workers, Takes(w) PROVE PendingBatches' = PendingBatches
  <2> DEFINE c == ChannelOf(w)
             h == Head(LineOf(c))
  <2>1. c \in Channels /\ wpc \in [Workers -> WorkerStates] /\ wbatch \in [Workers -> Batch]
    BY ConstantFacts DEF IInv, TypeOK
  <2>2. Range(LineOf(c)) = {h} \cup Range(LineOf(c)')
    <3>1. LineOf(c) \in Seq(Batch) /\ LineOf(c) # <<>> /\ LineOf(c)' = Tail(LineOf(c))
      BY <1>5, <2>1, LineType DEF Takes
    <3> QED
      BY <3>1, RangeHeadTail
  <2>3. /\ \A d \in Channels \ {c} : LineOf(d)' = LineOf(d)
        /\ wpc[w] = "idle" /\ wpc'[w] = "process" /\ wbatch'[w] = h
        /\ \A v \in Workers \ {w} : wpc'[v] = wpc[v] /\ wbatch'[v] = wbatch[v]
    BY <1>5, <2>1 DEF Takes
  <2> HIDE DEF c, h
  <2>4. ASSUME NEW b \in PendingBatches PROVE b \in PendingBatches'
    <3>1. CASE InLines(b)
      BY <1>2, <2>2, <2>3, <3>1
    <3>2. CASE InHands(b)
      BY <1>2, <2>3, <3>2
    <3> QED
      BY <1>1, <3>1, <3>2
  <2>5. ASSUME NEW b \in PendingBatches' PROVE b \in PendingBatches
    <3>1. CASE \E d \in Channels : b \in Range(LineOf(d)')
      BY <1>1, <2>2, <2>3, <3>1
    <3>2. CASE \E v \in Workers : wpc'[v] = "process" /\ b = wbatch'[v]
      BY <1>1, <2>1, <2>2, <2>3, <3>2
    <3> QED
      BY <1>2, <2>5, <3>1, <3>2
  <2> QED
    BY <2>4, <2>5
<1>6. ASSUME NEW w \in Workers, Works(w), Process(w)
      PROVE  wbatch[w] \in PendingBatches /\ PendingBatches' = PendingBatches \ {wbatch[w]}
  <2>1. /\ wpc \in [Workers -> WorkerStates] /\ wpc[w] = "process"
        /\ wpc' = [wpc EXCEPT ![w] = "count"] /\ wbatch' = wbatch
        /\ \A c \in Channels : LineOf(c)' = LineOf(c)
    BY <1>6 DEF IInv, TypeOK, Process, Works, SameLines
  <2>2. /\ \A c \in Channels : wbatch[w] \notin Range(LineOf(c))
        /\ \A v \in Workers \ {w} : wpc[v] = "process" => wbatch[v] # wbatch[w]
    BY <2>1, HeldOnce DEF BusyStates
  <2>3. wbatch[w] \in PendingBatches
    BY <1>1, <2>1
  <2>4. ASSUME NEW b \in PendingBatches \ {wbatch[w]} PROVE b \in PendingBatches'
    BY <1>1, <1>2, <2>1, <2>4
  <2>5. ASSUME NEW b \in PendingBatches' PROVE b \in PendingBatches \ {wbatch[w]}
    BY <1>1, <1>2, <2>1, <2>2, <2>5
  <2> QED
    BY <2>3, <2>4, <2>5
<1> QED
  BY <1>3, <1>4, <1>5, <1>6
\* The points in the three conditions, one by one.
LEMMA PointMembers ==
    \A p : /\ p \in FillingPoints <=> \E c \in Channels : p \in Range(filling[c])
           /\ p \in PendingPoints <=> \E b \in PendingBatches : p \in Range(b)
           /\ p \in StoredPoints <=> \E c \in Channels : p \in Range(stored[c])
BY DEF FillingPoints, PendingPoints, StoredPoints

LEMMA PointMembersNext ==
    \A p : /\ p \in FillingPoints' <=> \E c \in Channels : p \in Range(filling'[c])
           /\ p \in PendingPoints' <=> \E b \in PendingBatches' : p \in Range(b)
           /\ p \in StoredPoints' <=> \E c \in Channels : p \in Range(stored'[c])
BY DEF FillingPoints, PendingPoints, StoredPoints

\* The number of the next point.
LEMMA NextPoint ==
    ASSUME NEW n \in Nat
    PROVE  n + 1 \notin 1..n /\ 1..(n + 1) = (1..n) \cup {n + 1}
OBVIOUS

\* A step that leaves every point in its condition.
LEMMA PointsStay ==
    ASSUME PointsOnce, UNCHANGED <<filling, stored, itemsRead>>,
           PendingBatches' = PendingBatches, Outstanding' \subseteq Outstanding
    PROVE  PointsOnce'
<1>1. /\ FillingPoints' = FillingPoints /\ StoredPoints' = StoredPoints
      /\ PendingPoints' = PendingPoints
  BY DEF FillingPoints, StoredPoints, PendingPoints
<1> QED
  BY <1>1 DEF PointsOnce

\* Reading a point that does not complete its batch.
LEMMA PointsOnceFill ==
    ASSUME IInv, IInv', BatchShape, PointsOnce, NEW c \in Channels, Fills(c)
    PROVE  PointsOnce'
<1> DEFINE p == itemsRead + 1
<1>1. /\ itemsRead \in Nat /\ itemsRead' = p /\ p \notin 1..itemsRead
      /\ 1..p = (1..itemsRead) \cup {p}
      /\ stored' = stored /\ Outstanding' = Outstanding
  <2>1. itemsRead \in Nat
    BY DEF IInv, TypeOK
  <2> QED
    BY <2>1, NextPoint DEF Fills, workVars
<1>2. PendingBatches' = PendingBatches
  BY PendingStep DEF Fills, workVars
<1>3. StoredPoints' = StoredPoints /\ PendingPoints' = PendingPoints
  BY <1>1, <1>2 DEF StoredPoints, PendingPoints
<1>4. /\ Range(filling'[c]) = Range(filling[c]) \cup {p}
      /\ \A d \in Channels \ {c} : filling'[d] = filling[d]
  BY NewBatchFacts DEF Fills, IInv, TypeOK
<1>5. FillingPoints' = FillingPoints \cup {p}
  BY <1>4, PointMembers, PointMembersNext
<1> QED
  BY <1>1, <1>3, <1>5 DEF PointsOnce

\* Dispatching a batch.
LEMMA PointsOnceDispatch ==
    ASSUME IInv, IInv', BatchShape, PointsOnce,
           NEW c \in Channels, NEW batch \in Batch, Dispatches(c, batch)
    PROVE  PointsOnce'
<1> DEFINE p == itemsRead + 1
           R == Range(filling[c])
<1>1. /\ itemsRead \in Nat /\ p \notin 1..itemsRead /\ 1..p = (1..itemsRead) \cup {p}
      /\ stored' = stored /\ Outstanding' = Outstanding \cup {batch}
  <2>1. itemsRead \in Nat
    BY DEF IInv, TypeOK
  <2> QED
    BY <2>1, NextPoint DEF Dispatches, workVars
<1>2. PendingBatches' = PendingBatches \cup {batch}
  BY PendingStep
<1>3. PendingPoints' = PendingPoints \cup Range(batch)
  BY <1>2, PointMembers, PointMembersNext
<1>4. StoredPoints' = StoredPoints
  BY <1>1 DEF StoredPoints
<1>5. FillingPoints' \subseteq FillingPoints /\ FillingPoints \subseteq FillingPoints' \cup R
  <2>1. Range(filling'[c]) = {} /\ \A d \in Channels \ {c} : filling'[d] = filling[d]
    BY DEF Dispatches, Range, IInv, TypeOK
  <2> QED
    BY <2>1, PointMembers, PointMembersNext
<1>6. \A b \in Outstanding : Range(b) \cap R = {} /\ p \notin Range(b)
  BY <1>1 DEF IInv, Fresh
<1>7. R \subseteq FillingPoints
  BY PointMembers
<1>8. \/ Range(batch) = R \cup {p} /\ itemsRead' = p
      \/ Range(batch) = R /\ itemsRead' = itemsRead
  BY NewBatchFacts DEF Dispatches
<1>9. \A b \in Outstanding : Range(b) \cap Range(batch) = {}
  BY <1>6, <1>8
<1>10. \A b, d \in Outstanding' : b # d => Range(b) \cap Range(d) = {}
  BY <1>1, <1>9 DEF PointsOnce
<1>11. p \notin StoredPoints
  BY <1>1 DEF PointsOnce
<1>12. PendingPoints' \cap StoredPoints' = {} /\ FillingPoints' \cap StoredPoints' = {}
  BY <1>3, <1>4, <1>5, <1>7, <1>8, <1>11 DEF PointsOnce
<1>13. 1..itemsRead' \subseteq FillingPoints' \cup PendingPoints' \cup StoredPoints'
  BY <1>1, <1>3, <1>4, <1>5, <1>8 DEF PointsOnce
<1>14. StoredPoints' \subseteq 1..itemsRead'
  BY <1>1, <1>4, <1>8 DEF PointsOnce
<1> QED
  BY <1>1, <1>10, <1>12, <1>13, <1>14 DEF PointsOnce

\* A batch reaches the database.
LEMMA PointsOnceProcess ==
    ASSUME IInv, IInv', BatchShape, PointsOnce, NEW w \in Workers, Works(w), Process(w)
    PROVE  /\ PointsOnce'
           /\ Range(wbatch[w]) \cap StoredPoints = {}
           /\ StoredPoints' = StoredPoints \cup Range(wbatch[w])
<1> DEFINE c == ChannelOf(w)
           b == wbatch[w]
           R == Range(b)
<1>1. /\ c \in Channels /\ wpc[w] = "process" /\ b \in Batch
      /\ stored' = [stored EXCEPT ![c] = @ \o b]
      /\ UNCHANGED <<filling, itemsRead>> /\ Outstanding' = Outstanding
      /\ stored[c] \in Seq(Points)
  BY ConstantFacts DEF IInv, TypeOK, Process, Works, scanVars
<1>2. b \in PendingBatches /\ PendingBatches' = PendingBatches \ {b}
  BY PendingStep
<1>3. b \in Outstanding /\ PendingBatches \subseteq Outstanding
  BY <1>2, PendingIsOutstanding
<1>4. \A d \in PendingBatches' : Range(d) \cap R = {}
  BY <1>2, <1>3 DEF PointsOnce
<1>5. /\ Range(stored'[c]) = Range(stored[c]) \cup R
      /\ \A d \in Channels \ {c} : stored'[d] = stored[d]
  <2>1. stored'[c] = stored[c] \o b /\ \A d \in Channels \ {c} : stored'[d] = stored[d]
    BY <1>1 DEF IInv, TypeOK
  <2>2. Range(stored[c] \o b) = Range(stored[c]) \cup R
    BY <1>1, RangeConcat DEF Batch
  <2> QED
    BY <2>1, <2>2
<1>6. StoredPoints' = StoredPoints \cup R
  BY <1>1, <1>5, PointMembers, PointMembersNext
<1>7. R \subseteq PendingPoints /\ PendingPoints' \subseteq PendingPoints
      /\ PendingPoints \subseteq PendingPoints' \cup R /\ PendingPoints' \cap R = {}
  BY <1>2, <1>4, PointMembers, PointMembersNext
<1>8. FillingPoints' = FillingPoints
  BY <1>1 DEF FillingPoints
<1>9. R \subseteq 1..itemsRead /\ R \cap FillingPoints = {}
  BY <1>3, PointMembers DEF IInv, Fresh
<1>10. R \cap StoredPoints = {}
  BY <1>7 DEF PointsOnce
<1>11. IsInjective(stored'[c])
  <2>1. IsInjective(b)
    BY <1>1, <1>3, AscendingInjective DEF BatchShape, Batch
  <2>2. Range(stored[c]) \cap R = {}
    BY <1>1, <1>10, PointMembers
  <2>3. IsInjective(stored[c] \o b)
    BY <1>1, <2>1, <2>2, InjectiveConcat DEF PointsOnce, Batch
  <2> QED
    BY <1>1, <2>3 DEF IInv, TypeOK
<1>12. \A d \in Channels \ {c} : Range(stored[d]) \cap R = {}
  BY <1>10, PointMembers
<1>13. \A d, e \in Channels : d # e => Range(stored'[d]) \cap Range(stored'[e]) = {}
  BY <1>1, <1>5, <1>12 DEF PointsOnce
<1>14. \A d \in Channels : IsInjective(stored'[d])
  BY <1>5, <1>11 DEF PointsOnce
<1> HIDE DEF c, b, R
<1>15. PendingPoints' \cap StoredPoints' = {} /\ FillingPoints' \cap StoredPoints' = {}
  BY <1>6, <1>7, <1>8, <1>9 DEF PointsOnce
<1>16. 1..itemsRead' \subseteq FillingPoints' \cup PendingPoints' \cup StoredPoints'
  BY <1>1, <1>6, <1>7, <1>8 DEF PointsOnce
<1>17. StoredPoints' \subseteq 1..itemsRead'
  BY <1>1, <1>6, <1>9 DEF PointsOnce
<1>18. \A d, e \in Outstanding' : d # e => Range(d) \cap Range(e) = {}
  BY <1>1 DEF PointsOnce
<1>19. PointsOnce'
  BY <1>13, <1>14, <1>15, <1>16, <1>17, <1>18 DEF PointsOnce
<1> QED
  BY <1>6, <1>10, <1>19 DEF b, R

\* No step loses a point or puts one in two places.
LEMMA PointsOnceHolds == Spec => []PointsOnce
<1>1. Init => PointsOnce
  <2> SUFFICES ASSUME Init PROVE PointsOnce
    OBVIOUS
  <2>1. Outstanding = {} /\ PendingBatches \subseteq Outstanding
    BY IInvInit, PendingIsOutstanding, FS_EmptySet
       DEF IInv, Counted, OutstandingCounted, Init
  <2>2. \A c \in Channels : stored[c] = <<>> /\ Range(stored[c]) = {} /\ IsInjective(stored[c])
    BY DEF Init, Range, IsInjective
  <2>3. StoredPoints = {} /\ PendingPoints = {}
    BY <2>1, <2>2, PointMembers
  <2>4. 1..itemsRead = {}
    BY DEF Init
  <2> QED
    BY <2>1, <2>2, <2>3, <2>4 DEF PointsOnce
<1>2. IInv /\ IInv' /\ BatchShape /\ PointsOnce /\ [Next]_vars => PointsOnce'
  <2> SUFFICES ASSUME IInv, IInv', BatchShape, PointsOnce, [Next]_vars PROVE PointsOnce'
    OBVIOUS
  <2>1. ASSUME NEW w \in Workers, Takes(w) PROVE PointsOnce'
    BY <2>1, PendingStep, PointsStay DEF Takes
  <2>2. ASSUME NEW w \in Workers, Works(w) PROVE PointsOnce'
    <3>1. CASE Process(w)
      BY <2>2, <3>1, PointsOnceProcess
    <3>2. CASE Count(w)
      <4>1. /\ UNCHANGED <<filling, stored, itemsRead>> /\ wbatch' = wbatch
            /\ \A v \in Workers : wpc'[v] = wpc[v] \/ (wpc[v] # "process" /\ wpc'[v] # "process")
        BY <3>2 DEF Count, scanVars, IInv, TypeOK
      <4> QED
        BY <2>2, <4>1, PendingStep, PointsStay DEF Works
    <3> QED
      BY <2>2, <3>1, <3>2 DEF Works
  <2>3. CASE Rests
    BY <2>3, PendingStep, PointsStay DEF Rests
  <2> QED
    BY <2>1, <2>2, <2>3, StepEffects, PointsOnceFill, PointsOnceDispatch
<1> QED
  BY <1>1, <1>2, Invariance, BatchShapeHolds, PTL DEF Spec
-----------------------------------------------------------------------------
(* The counter of rows and the end of the scan. *)

\* Points stored by workers that have not yet added them to the counter.
UncountedBatches == {wbatch[w] : w \in {v \in Workers : wpc[v] = "count"}}
Uncounted == UNION {Range(b) : b \in UncountedBatches}

CountExact ==
    /\ Uncounted \subseteq StoredPoints
    /\ rowCnt = Cardinality(StoredPoints \ Uncounted)

LEMMA UncountedMembers ==
    \A p : p \in Uncounted <=> \E w \in Workers : wpc[w] = "count" /\ p \in Range(wbatch[w])
<1>1. \A b : b \in UncountedBatches <=> \E w \in Workers : wpc[w] = "count" /\ b = wbatch[w]
  BY DEF UncountedBatches
<1>2. \A p : p \in Uncounted <=> \E b \in UncountedBatches : p \in Range(b)
  BY DEF Uncounted
<1> QED
  BY <1>1, <1>2

\* The same, after a step.
LEMMA UncountedMembersNext ==
    \A p : p \in Uncounted' <=> \E w \in Workers : wpc'[w] = "count" /\ p \in Range(wbatch'[w])
<1>1. \A b : b \in UncountedBatches' <=> \E w \in Workers : wpc'[w] = "count" /\ b = wbatch'[w]
  BY DEF UncountedBatches
<1>2. \A p : p \in Uncounted' <=> \E b \in UncountedBatches' : p \in Range(b)
  BY DEF Uncounted
<1> QED
  BY <1>1, <1>2

\* A step after which the same points are stored and the same are uncounted.
LEMMA CountStays ==
    ASSUME CountExact, UNCHANGED <<stored, rowCnt>>,
           \A w \in Workers : \/ wpc'[w] = wpc[w] /\ wbatch'[w] = wbatch[w]
                              \/ wpc[w] # "count" /\ wpc'[w] # "count"
    PROVE  CountExact'
<1>1. StoredPoints' = StoredPoints
  BY DEF StoredPoints
<1>2. Uncounted' = Uncounted
  BY UncountedMembers, UncountedMembersNext
<1> QED
  BY <1>1, <1>2 DEF CountExact

\* The counter is exact but for the batches between ProcessBatch and the addition.
LEMMA CountExactHolds == Spec => []CountExact
<1>1. Init => CountExact
  <2> SUFFICES ASSUME Init PROVE CountExact
    OBVIOUS
  <2>1. \A c \in Channels : Range(stored[c]) = {}
    BY DEF Init, Range
  <2>2. StoredPoints = {} /\ Uncounted = {}
    BY <2>1, PointMembers, UncountedMembers DEF Init
  <2> QED
    BY <2>2, FS_EmptySet DEF CountExact, Init
<1>2. /\ IInv /\ IInv' /\ BatchShape /\ PointsOnce /\ CountExact /\ [Next]_vars
      => CountExact'
  <2> SUFFICES ASSUME IInv, IInv', BatchShape, PointsOnce, CountExact, [Next]_vars
               PROVE  CountExact'
    OBVIOUS
  <2>1. ASSUME NEW w \in Workers, Takes(w) PROVE CountExact'
    <3>1. \A v \in Workers : \/ wpc'[v] = wpc[v] /\ wbatch'[v] = wbatch[v]
                             \/ wpc[v] # "count" /\ wpc'[v] # "count"
      BY <2>1 DEF Takes, IInv, TypeOK
    <3> QED
      BY <2>1, <3>1, CountStays DEF Takes
  <2>2. ASSUME NEW w \in Workers, Works(w), Process(w) PROVE CountExact'
    <3> DEFINE R == Range(wbatch[w])
    <3>1. R \cap StoredPoints = {} /\ StoredPoints' = StoredPoints \cup R
      BY <2>2, PointsOnceProcess
    <3>2. /\ wpc[w] = "process" /\ wpc'[w] = "count" /\ wbatch' = wbatch /\ rowCnt' = rowCnt
          /\ \A v \in Workers \ {w} : wpc'[v] = wpc[v]
      BY <2>2 DEF Process, IInv, TypeOK
    <3>3. Uncounted' = Uncounted \cup R
      BY <3>2, UncountedMembers, UncountedMembersNext
    <3>4. StoredPoints' \ Uncounted' = StoredPoints \ Uncounted
      BY <3>1, <3>3
    <3>5. Uncounted' \subseteq StoredPoints'
      BY <3>1, <3>3 DEF CountExact
    <3> QED
      BY <3>2, <3>4, <3>5 DEF CountExact
  <2>3. ASSUME NEW w \in Workers, Works(w), Count(w) PROVE CountExact'
    <3> DEFINE R == Range(wbatch[w])
    <3>1. /\ wpc[w] = "count" /\ wpc'[w] = "ack" /\ wbatch' = wbatch /\ stored' = stored
          /\ rowCnt' = rowCnt + Len(wbatch[w])
          /\ \A v \in Workers \ {w} : wpc'[v] = wpc[v]
      BY <2>3 DEF Count, IInv, TypeOK
    <3>2. StoredPoints' = StoredPoints
      BY <3>1 DEF StoredPoints
    <3>3. R \subseteq Uncounted
      BY <3>1, UncountedMembers
    <3>4. R \cap Uncounted' = {}
      <4>1. ASSUME NEW v \in Workers, wpc'[v] = "count" PROVE Range(wbatch[v]) \cap R = {}
        <5>1. v # w /\ wpc[v] = "count"
          BY <3>1, <4>1
        <5>2. wbatch[v] # wbatch[w] /\ wbatch[v] \in Outstanding /\ wbatch[w] \in Outstanding
          BY <3>1, <5>1, HeldOnce DEF BusyStates
        <5> QED
          BY <5>2 DEF PointsOnce
      <4> QED
        BY <3>1, <4>1, UncountedMembersNext
    <3>5. Uncounted' \subseteq Uncounted /\ Uncounted \subseteq Uncounted' \cup R
      BY <3>1, UncountedMembers, UncountedMembersNext
    <3>6. /\ StoredPoints' \ Uncounted' = (StoredPoints \ Uncounted) \cup R
          /\ (StoredPoints \ Uncounted) \cap R = {}
      BY <3>2, <3>3, <3>4, <3>5 DEF CountExact
    <3>7. IsFiniteSet(R) /\ Cardinality(R) = Len(wbatch[w])
      <4>1. wbatch[w] \in Seq(Points) /\ wbatch[w] \in Outstanding
        BY <3>1, HeldOnce DEF BusyStates, IInv, TypeOK, Batch
      <4>2. IsInjective(wbatch[w])
        BY <4>1, AscendingInjective DEF BatchShape
      <4> QED
        BY <4>1, <4>2, RangeCardinality
    <3>8. IsFiniteSet(StoredPoints \ Uncounted)
      <4>1. IsFiniteSet(1..itemsRead)
        BY FS_Interval DEF IInv, TypeOK
      <4> QED
        BY <4>1, FS_Subset DEF PointsOnce
    <3>9. Cardinality((StoredPoints \ Uncounted) \cup R) = rowCnt + Len(wbatch[w])
      <4>1. Cardinality((StoredPoints \ Uncounted) \cup R)
                = rowCnt + Len(wbatch[w]) - Cardinality((StoredPoints \ Uncounted) \cap R)
        BY <3>7, <3>8, FS_Union DEF CountExact
      <4>2. Len(wbatch[w]) \in Nat /\ rowCnt \in Nat
        BY DEF IInv, TypeOK, Batch
      <4>3. Cardinality((StoredPoints \ Uncounted) \cap R) = 0
        BY <3>6, FS_EmptySet
      <4> QED
        BY <4>1, <4>2, <4>3
    <3> QED
      BY <3>1, <3>2, <3>5, <3>6, <3>9 DEF CountExact
  <2>4. CASE Rests
    BY <2>4, CountStays DEF Rests
  <2>5. ASSUME UNCHANGED workVars PROVE CountExact'
    BY <2>5, CountStays DEF workVars
  <2> QED
    BY <2>1, <2>2, <2>3, <2>4, <2>5, StepEffects DEF Fills, Dispatches, Works
<1> QED
  BY <1>1, <1>2, Invariance, BatchShapeHolds, PointsOnceHolds, PTL DEF Spec

\* The flush empties the batches being filled one channel after the other, and the
\* limit is looked at before every point.
ScanProgress ==
    /\ pc \in {"select", "decode"} => idx = 0
    /\ pc = "flush" => \A c \in Channels : c < idx => filling[c] = <<>>
    /\ pc \in {"drain"} \cup ClosingStates => \A c \in Channels : filling[c] = <<>>
    /\ Limit > 0 => itemsRead <= Limit /\ (pc = "decode" => itemsRead < Limit)

LEMMA ScanProgressHolds == Spec => []ScanProgress
<1>1. Init => ScanProgress
  BY LoadAssumption DEF Init, ScanProgress, ClosingStates
<1>2. IInv /\ ScanProgress /\ [Next]_vars => ScanProgress'
  <2> SUFFICES ASSUME IInv, ScanProgress, [Next]_vars PROVE ScanProgress'
    OBVIOUS
  <2>1. /\ itemsRead \in Nat /\ idx \in 0..(NumChannels - 1) /\ NumChannels \in Nat
        /\ Limit \in Nat /\ filling \in [Channels -> Batch]
        /\ \A c \in Channels : c \in 0..(NumChannels - 1)
    BY ConstantFacts, LoadAssumption DEF IInv, TypeOK, Channels
  <2>2. CASE UNCHANGED <<pc, idx, filling, itemsRead>>
    BY <2>2 DEF ScanProgress
  <2>3. CASE StopAtLimit \/ EndOfInput
    BY <2>1, <2>3 DEF StopAtLimit, EndOfInput, ScanProgress, ClosingStates
  <2>4. ASSUME pc = "select", pc' = "decode", ~LimitReached, UNCHANGED <<idx, filling, itemsRead>>
        PROVE  ScanProgress'
    BY <2>1, <2>4 DEF LimitReached, ScanProgress, ClosingStates
  <2>5. ASSUME NEW c \in Channels, Read(c) PROVE ScanProgress'
    BY <2>1, <2>5 DEF Read, ScanProgress, ClosingStates
  <2>6. CASE Flush
    <3>1. /\ filling'[idx] = <<>> /\ \A c \in Channels \ {idx} : filling'[c] = filling[c]
          /\ itemsRead' = itemsRead /\ pc = "flush"
      BY <2>6 DEF Flush, IInv, TypeOK
    <3>2. \A c \in Channels : c < idx + 1 => c < idx \/ c = idx
      BY <2>1
    <3>3. \A c \in Channels : c < idx + 1 => filling'[c] = <<>>
      BY <3>1, <3>2 DEF ScanProgress
    <3>4. CASE idx + 1 = NumChannels
      <4>1. \A c \in Channels : c < idx + 1
        BY <2>1, <3>4
      <4> QED
        BY <2>6, <3>1, <3>3, <3>4, <4>1 DEF Flush, ScanProgress
    <3>5. CASE idx + 1 # NumChannels
      BY <2>6, <3>1, <3>3, <3>5 DEF Flush, ScanProgress, ClosingStates
    <3> QED
      BY <3>4, <3>5
  <2>7. CASE Drained \/ Close \/ Summary
    BY <2>7 DEF Drained, Close, Summary, ScanProgress, ClosingStates
  <2>8. ASSUME NEW c \in Channels, SelectAck(c) \/ DrainAck(c) PROVE ScanProgress'
    BY <2>2, <2>4, <2>8 DEF SelectAck, DrainAck, ReceiveAck
  <2>9. CASE SelectDefault
    BY <2>4, <2>9 DEF SelectDefault
  <2>10. CASE SendOwed
    BY <2>2, <2>10 DEF SendOwed
  <2>11. ASSUME NEW w \in Workers, Worker(w) PROVE ScanProgress'
    BY <2>2, <2>11 DEF Worker, Take, Process, Count, Ack, Exit, scanVars
  <2>12. CASE UNCHANGED vars
    BY <2>2, <2>12 DEF vars, scanVars
  <2> QED
    BY <2>3, <2>5, <2>6, <2>7, <2>8, <2>9, <2>10, <2>11, <2>12 DEF Next, Scanner, Ended
<1> QED
  BY <1>1, <1>2, Invariance, PTL DEF Spec

\* No point is lost or loaded twice between the decoder and ProcessBatch, whichever
\* way it goes, and the summary is printed when every point read was stored and
\* counted.
THEOREM PointsLoadedOnce == Spec => []ExactlyOnce
<1>1. IInv /\ PointsOnce /\ CountExact /\ ScanProgress => ExactlyOnce
  <2> SUFFICES ASSUME IInv, PointsOnce, CountExact, ScanProgress PROVE ExactlyOnce
    OBVIOUS
  <2>1. /\ \A p : Filling(p) <=> p \in FillingPoints
        /\ \A p : Stored(p) <=> p \in StoredPoints
    BY PointMembers DEF Filling, Stored
  <2>2. \A b : b \in Queued <=> \E c \in Channels : b \in Range(LineOf(c))
    BY LineType DEF Queued
  <2>3. ASSUME NEW p PROVE Pending(p) <=> p \in PendingPoints
    BY <2>2, PointMembers, PendingMembers DEF Pending
  <2>4. PendingPoints \cap FillingPoints = {}
    <3>1. ASSUME NEW p \in PendingPoints, NEW c \in Channels PROVE p \notin Range(filling[c])
      <4>1. PICK b \in PendingBatches : p \in Range(b)
        BY <3>1, PointMembers
      <4>2. b \in Outstanding
        BY <4>1, PendingIsOutstanding
      <4> QED
        BY <4>1, <4>2 DEF IInv, Fresh
    <3> QED
      BY <3>1, PointMembers
  <2>5. \A p \in 1..itemsRead :
            /\ Filling(p) \/ Pending(p) \/ Stored(p)
            /\ ~(Filling(p) /\ Pending(p))
            /\ ~(Pending(p) /\ Stored(p))
            /\ ~(Stored(p) /\ Filling(p))
    BY <2>1, <2>3, <2>4 DEF PointsOnce
  <2>6. \A c \in Channels :
            /\ IsInjective(stored[c])
            /\ Range(stored[c]) \subseteq 1..itemsRead
            /\ \A d \in Channels \ {c} : Range(stored[c]) \cap Range(stored[d]) = {}
    BY PointMembers DEF PointsOnce
  <2>7. ASSUME pc = "done"
        PROVE  /\ \A p \in 1..itemsRead : Stored(p)
               /\ rowCnt = itemsRead
               /\ Limit > 0 => itemsRead <= Limit
    <3>1. Outstanding = {}
      BY <2>7, FS_EmptySet DEF IInv, ShutdownOrder, ClosingStates, Counted, OutstandingCounted
    <3>2. PendingPoints = {}
      BY <3>1, PendingIsOutstanding, PointMembers
    <3>3. FillingPoints = {}
      <4>1. \A c \in Channels : Range(filling[c]) = {}
        BY <2>7 DEF ScanProgress, ClosingStates, Range
      <4> QED
        BY <4>1, PointMembers
    <3>4. StoredPoints = 1..itemsRead
      BY <3>2, <3>3 DEF PointsOnce
    <3>5. Uncounted = {}
      <4>1. \A w \in Workers : wpc[w] # "count"
        BY <3>1 DEF Outstanding, Held, BusyStates
      <4> QED
        BY <4>1, UncountedMembers
    <3>6. rowCnt = itemsRead
      <4>1. itemsRead \in Nat
        BY DEF IInv, TypeOK
      <4>2. Cardinality(1..itemsRead) = itemsRead
        BY <4>1, FS_Interval
      <4>3. StoredPoints \ Uncounted = 1..itemsRead
        BY <3>4, <3>5
      <4> QED
        BY <4>2, <4>3 DEF CountExact
    <3> QED
      BY <2>1, <3>4, <3>6 DEF ScanProgress
  <2> QED
    BY <2>5, <2>6, <2>7 DEF ExactlyOnce
<1> QED
  BY <1>1, Invariance, PointsOnceHolds, CountExactHolds, ScanProgressHolds, PTL
-----------------------------------------------------------------------------
(* Points taken, a line of batches and a batch being filled, in this order. *)

InOrder(T, L, F) ==
    /\ Before(T, F)
    /\ \A i \in DOMAIN L : Before(T, Range(L[i])) /\ Before(Range(L[i]), F)
    /\ \A i, j \in DOMAIN L : i < j => Before(Range(L[i]), Range(L[j]))

\* Everything in it is below n.
AllBelow(T, L, n) ==
    /\ \A p \in T : p < n
    /\ \A i \in DOMAIN L : \A p \in Range(L[i]) : p < n

\* The next point joins the batch being filled.
LEMMA FillInOrder ==
    ASSUME NEW T, NEW L, NEW F, NEW n, InOrder(T, L, F), AllBelow(T, L, n)
    PROVE  InOrder(T, L, F \cup {n})
BY DEF InOrder, AllBelow, Before

\* The batch being filled, perhaps with the next point, joins the line.
LEMMA JoinInOrder ==
    ASSUME NEW T, NEW B, NEW L \in Seq(B), NEW F, NEW n, NEW b \in B,
           InOrder(T, L, F), AllBelow(T, L, n), Range(b) \subseteq F \cup {n}
    PROVE  InOrder(T, Append(L, b), {})
<1>1. /\ DOMAIN L = 1..Len(L) /\ Len(L) \in Nat
      /\ DOMAIN Append(L, b) = 1..(Len(L) + 1)
      /\ \A i \in 1..Len(L) : Append(L, b)[i] = L[i]
      /\ Append(L, b)[Len(L) + 1] = b
  OBVIOUS
<1>2. InOrder(T, L, F \cup {n})
  BY FillInOrder
<1>3. Before(T, Range(b)) /\ \A i \in 1..Len(L) : Before(Range(L[i]), Range(b))
  BY <1>1, <1>2 DEF InOrder, Before
<1>4. ASSUME NEW i \in 1..(Len(L) + 1)
      PROVE  Before(T, Range(Append(L, b)[i])) /\ Before(Range(Append(L, b)[i]), {})
  <2>1. CASE i \in 1..Len(L)
    BY <1>1, <1>2, <2>1 DEF InOrder, Before
  <2>2. CASE i = Len(L) + 1
    BY <1>1, <1>3, <2>2 DEF Before
  <2> QED
    BY <1>1, <2>1, <2>2
<1>5. ASSUME NEW i \in 1..(Len(L) + 1), NEW j \in 1..(Len(L) + 1), i < j
      PROVE  Before(Range(Append(L, b)[i]), Range(Append(L, b)[j]))
  <2>1. i \in 1..Len(L)
    BY <1>1, <1>5
  <2>2. CASE j \in 1..Len(L)
    BY <1>1, <1>2, <1>5, <2>1, <2>2 DEF InOrder
  <2>3. CASE j = Len(L) + 1
    BY <1>1, <1>3, <2>1, <2>3
  <2> QED
    BY <1>1, <2>2, <2>3
<1>6. Before(T, {})
  BY DEF Before
<1> QED
  BY <1>1, <1>4, <1>5, <1>6 DEF InOrder

\* The first batch of the line is taken.
LEMMA TakeInOrder ==
    ASSUME NEW T, NEW B, NEW L \in Seq(B), NEW F, InOrder(T, L, F), L # <<>>
    PROVE  /\ InOrder(T \cup Range(Head(L)), Tail(L), F)
           /\ Before(T, Range(Head(L)))
<1>1. /\ DOMAIN L = 1..Len(L) /\ Len(L) \in Nat /\ 1 \in DOMAIN L
      /\ DOMAIN Tail(L) = 1..(Len(L) - 1)
      /\ \A i \in DOMAIN Tail(L) : i + 1 \in DOMAIN L /\ 1 < i + 1 /\ Tail(L)[i] = L[i + 1]
      /\ Head(L) = L[1]
  OBVIOUS
<1>2. Before(T, Range(Head(L))) /\ Before(Range(Head(L)), F)
  BY <1>1 DEF InOrder
<1>3. ASSUME NEW i \in DOMAIN Tail(L)
      PROVE  /\ Before(T \cup Range(Head(L)), Range(Tail(L)[i]))
             /\ Before(Range(Tail(L)[i]), F)
  <2>1. Before(T, Range(L[i + 1])) /\ Before(Range(L[i + 1]), F)
    BY <1>1 DEF InOrder
  <2>2. Before(Range(L[1]), Range(L[i + 1]))
    BY <1>1 DEF InOrder
  <2> QED
    BY <1>1, <2>1, <2>2 DEF Before
<1>4. ASSUME NEW i \in DOMAIN Tail(L), NEW j \in DOMAIN Tail(L), i < j
      PROVE  Before(Range(Tail(L)[i]), Range(Tail(L)[j]))
  <2>1. i + 1 < j + 1
    BY <1>1, <1>4
  <2>2. Before(Range(L[i + 1]), Range(L[j + 1]))
    BY <1>1, <2>1 DEF InOrder
  <2> QED
    BY <1>1, <2>2
<1>5. Before(T \cup Range(Head(L)), F)
  BY <1>2 DEF InOrder, Before
<1> QED
  BY <1>2, <1>3, <1>4, <1>5 DEF InOrder
-----------------------------------------------------------------------------
(* Order within a channel. *)

\* Points of channel c a worker is about to store, and those it has taken.
InHand(c) == UNION {Range(wbatch[w]) : w \in {v \in WorkersOf(c) : wpc[v] = "process"}}
Taken(c) == Range(stored[c]) \cup InHand(c)

LineOrder == \A c \in Channels : InOrder(Taken(c), LineOf(c), Range(filling[c]))

LEMMA HandMembers ==
    ASSUME NEW c
    PROVE  \A p : p \in InHand(c) <=> \E w \in Workers : /\ ChannelOf(w) = c
                                                         /\ wpc[w] = "process"
                                                         /\ p \in Range(wbatch[w])
BY DEF InHand, WorkersOf

LEMMA HandMembersNext ==
    ASSUME NEW c
    PROVE  \A p : p \in InHand(c)' <=> \E w \in Workers : /\ ChannelOf(w) = c
                                                          /\ wpc'[w] = "process"
                                                          /\ p \in Range(wbatch'[w])
BY DEF InHand, WorkersOf

\* Nothing is taken or in line but points that were read.
LEMMA ReadIsBelow ==
    ASSUME IInv, PointsOnce, NEW c \in Channels
    PROVE  AllBelow(Taken(c), LineOf(c), itemsRead + 1)
<1>1. itemsRead \in Nat /\ \A p \in 1..itemsRead : p < itemsRead + 1
  BY DEF IInv, TypeOK
<1>2. Range(stored[c]) \subseteq 1..itemsRead
  BY PointMembers DEF PointsOnce
<1>3. InHand(c) \subseteq 1..itemsRead
  <2> SUFFICES ASSUME NEW p \in InHand(c) PROVE p \in 1..itemsRead
    OBVIOUS
  <2>1. PICK w \in Workers : wpc[w] = "process" /\ p \in Range(wbatch[w])
    BY HandMembers
  <2>2. wbatch[w] \in Outstanding
    BY <2>1, HeldOnce DEF BusyStates
  <2> QED
    BY <2>1, <2>2 DEF IInv, Fresh
<1>4. \A i \in DOMAIN LineOf(c) : Range(LineOf(c)[i]) \subseteq 1..itemsRead
  BY LineType DEF IInv, Fresh
<1> QED
  BY <1>1, <1>2, <1>3, <1>4 DEF AllBelow, Taken

\* Points taken change by taking a batch only: processing moves them from the
\* hands of a worker to the store.
LEMMA TakenStep ==
    ASSUME IInv, IInv'
    PROVE  /\ UNCHANGED workVars => \A c \in Channels : InHand(c)' = InHand(c) /\ Taken(c)' = Taken(c)
           /\ Rests => \A c \in Channels : InHand(c)' = InHand(c) /\ Taken(c)' = Taken(c)
           /\ \A w \in Workers : Takes(w) =>
                \A c \in Channels :
                    IF c = ChannelOf(w)
                    THEN /\ InHand(c)' = InHand(c) \cup Range(Head(LineOf(c)))
                         /\ Taken(c)' = Taken(c) \cup Range(Head(LineOf(c)))
                    ELSE InHand(c)' = InHand(c) /\ Taken(c)' = Taken(c)
           /\ \A w \in Workers : Works(w) =>
                \A c \in Channels : InHand(c)' \subseteq InHand(c) /\ Taken(c)' = Taken(c)
<1>1. /\ wpc \in [Workers -> WorkerStates] /\ wbatch \in [Workers -> Batch]
      /\ stored \in [Channels -> Seq(Points)]
      /\ \A w \in Workers : ChannelOf(w) \in Channels
  BY ConstantFacts DEF IInv, TypeOK
<1>2. ASSUME stored' = stored,
             \A w \in Workers :
                 \/ wpc'[w] = wpc[w] /\ wbatch'[w] = wbatch[w]
                 \/ wpc[w] # "process" /\ wpc'[w] # "process",
             NEW c \in Channels
      PROVE  InHand(c)' = InHand(c) /\ Taken(c)' = Taken(c)
  <2>1. ASSUME NEW p PROVE p \in InHand(c)' <=> p \in InHand(c)
    <3>1. CASE p \in InHand(c)
      BY <1>2, <3>1, HandMembers, HandMembersNext
    <3>2. CASE p \in InHand(c)'
      BY <1>2, <3>2, HandMembers, HandMembersNext
    <3> QED
      BY <3>1, <3>2
  <2>2. InHand(c)' = InHand(c)
    BY <2>1
  <2> QED
    BY <1>2, <2>2 DEF Taken
<1>3. UNCHANGED workVars => \A c \in Channels : InHand(c)' = InHand(c) /\ Taken(c)' = Taken(c)
  BY <1>2 DEF workVars
<1>4. Rests => \A c \in Channels : InHand(c)' = InHand(c) /\ Taken(c)' = Taken(c)
  BY <1>2 DEF Rests
<1>5. ASSUME NEW w \in Workers, Takes(w), NEW c \in Channels
      PROVE  IF c = ChannelOf(w)
             THEN /\ InHand(c)' = InHand(c) \cup Range(Head(LineOf(c)))
                  /\ Taken(c)' = Taken(c) \cup Range(Head(LineOf(c)))
             ELSE InHand(c)' = InHand(c) /\ Taken(c)' = Taken(c)
  <2>1. /\ wpc[w] = "idle" /\ wpc'[w] = "process"
        /\ wbatch'[w] = Head(LineOf(ChannelOf(w))) /\ stored' = stored
        /\ \A v \in Workers \ {w} : wpc'[v] = wpc[v] /\ wbatch'[v] = wbatch[v]
    BY <1>1, <1>5 DEF Takes
  <2>2. CASE c = ChannelOf(w)
    <3>1. ASSUME NEW p PROVE p \in InHand(c)' <=> p \in InHand(c) \/ p \in Range(wbatch'[w])
      <4>1. CASE p \in InHand(c)
        BY <2>1, <4>1, HandMembers, HandMembersNext
      <4>2. CASE p \in InHand(c)'
        BY <2>1, <4>2, HandMembers, HandMembersNext
      <4>3. CASE p \in Range(wbatch'[w])
        BY <2>1, <2>2, <4>3, HandMembersNext
      <4> QED
        BY <4>1, <4>2, <4>3
    <3>2. InHand(c)' = InHand(c) \cup Range(Head(LineOf(c)))
      BY <2>1, <2>2, <3>1
    <3> QED
      BY <2>1, <2>2, <3>2 DEF Taken
  <2>3. CASE c # ChannelOf(w)
    <3>1. ASSUME NEW p PROVE p \in InHand(c)' <=> p \in InHand(c)
      <4>1. CASE p \in InHand(c)
        BY <2>1, <4>1, HandMembers, HandMembersNext
      <4>2. CASE p \in InHand(c)'
        BY <2>1, <2>3, <4>2, HandMembers, HandMembersNext
      <4> QED
        BY <4>1, <4>2
    <3>2. InHand(c)' = InHand(c)
      BY <3>1
    <3> QED
      BY <2>1, <2>3, <3>2 DEF Taken
  <2> QED
    BY <2>2, <2>3
<1>6. ASSUME NEW w \in Workers, Works(w), NEW c \in Channels
      PROVE  InHand(c)' \subseteq InHand(c) /\ Taken(c)' = Taken(c)
  <2>1. CASE Count(w)
    <3>1. /\ wpc[w] = "count" /\ wpc'[w] = "ack" /\ wbatch' = wbatch /\ stored' = stored
          /\ \A v \in Workers \ {w} : wpc'[v] = wpc[v]
      BY <1>1, <2>1 DEF Count
    <3> QED
      BY <1>2, <3>1
  <2>2. CASE Process(w)
    <3>1. /\ wpc[w] = "process" /\ wpc'[w] = "count" /\ wbatch' = wbatch
          /\ stored' = [stored EXCEPT ![ChannelOf(w)] = @ \o wbatch[w]]
          /\ \A v \in Workers \ {w} : wpc'[v] = wpc[v]
      BY <1>1, <2>2 DEF Process
    <3>2. InHand(c)' \subseteq InHand(c)
      <4>1. ASSUME NEW p \in InHand(c)' PROVE p \in InHand(c)
        BY <3>1, <4>1, HandMembers, HandMembersNext
      <4> QED
        BY <4>1
    <3>3. \A p \in InHand(c) : p \in InHand(c)' \/ (c = ChannelOf(w) /\ p \in Range(wbatch[w]))
      BY <3>1, HandMembers, HandMembersNext
    <3>4. CASE c = ChannelOf(w)
      <4>1. stored'[c] = stored[c] \o wbatch[w]
        BY <1>1, <3>1, <3>4
      <4>2. Range(stored'[c]) = Range(stored[c]) \cup Range(wbatch[w])
        <5>1. stored[c] \in Seq(Points) /\ wbatch[w] \in Seq(Points)
          BY <1>1 DEF Batch
        <5> QED
          BY <4>1, <5>1, RangeConcat
      <4>3. \A p \in Range(wbatch[w]) : p \in InHand(c)
        BY <3>1, <3>4, HandMembers
      <4> QED
        BY <3>2, <3>3, <4>2, <4>3 DEF Taken
    <3>5. CASE c # ChannelOf(w)
      <4>1. stored'[c] = stored[c]
        BY <1>1, <3>1, <3>5
      <4> QED
        BY <3>2, <3>3, <3>5, <4>1 DEF Taken
    <3> QED
      BY <3>2, <3>4, <3>5
  <2> QED
    BY <1>6, <2>1, <2>2 DEF Works
<1> QED
  BY <1>3, <1>4, <1>5, <1>6

\* Points move from the batch being filled to the line, from its front to a worker,
\* and to the store, in the order they were read.
LEMMA LineOrderHolds == Spec => []LineOrder
<1>1. Init => LineOrder
  <2> SUFFICES ASSUME Init, NEW c \in Channels PROVE InOrder(Taken(c), LineOf(c), Range(filling[c]))
    BY DEF LineOrder
  <2>1. LineOf(c) = <<>> /\ filling[c] = <<>> /\ stored[c] = <<>>
    BY DEF Init, LineOf
  <2>2. InHand(c) = {}
    BY HandMembers DEF Init
  <2>3. Taken(c) = {} /\ Range(filling[c]) = {} /\ DOMAIN LineOf(c) = {}
    BY <2>1, <2>2 DEF Taken, Range
  <2> QED
    BY <2>3 DEF InOrder, Before
<1>2. IInv /\ IInv' /\ BatchShape /\ PointsOnce /\ LineOrder /\ [Next]_vars => LineOrder'
  <2> SUFFICES ASSUME IInv, IInv', BatchShape, PointsOnce, LineOrder, [Next]_vars,
                      NEW d \in Channels
               PROVE  InOrder(Taken(d)', LineOf(d)', Range(filling'[d]))
    BY DEF LineOrder
  <2>1. /\ InOrder(Taken(d), LineOf(d), Range(filling[d]))
        /\ AllBelow(Taken(d), LineOf(d), itemsRead + 1)
        /\ LineOf(d) \in Seq(Batch)
        /\ filling \in [Channels -> Batch]
    BY ReadIsBelow, LineType DEF LineOrder, IInv, TypeOK
  <2>2. ASSUME NEW c \in Channels, Fills(c)
        PROVE  InOrder(Taken(d)', LineOf(d)', Range(filling'[d]))
    <3>1. Taken(d)' = Taken(d) /\ LineOf(d)' = LineOf(d)
      BY <2>2, TakenStep DEF Fills, SameLines
    <3>2. CASE d = c
      <4>1. Range(filling'[d]) = Range(filling[d]) \cup {itemsRead + 1}
        BY <2>1, <2>2, <3>2, NewBatchFacts DEF Fills
      <4> QED
        BY <2>1, <3>1, <4>1, FillInOrder
    <3>3. CASE d # c
      BY <2>1, <2>2, <3>1, <3>3 DEF Fills
    <3> QED
      BY <3>2, <3>3
  <2>3. ASSUME NEW c \in Channels, NEW batch \in Batch, Dispatches(c, batch)
        PROVE  InOrder(Taken(d)', LineOf(d)', Range(filling'[d]))
    <3>1. Taken(d)' = Taken(d)
      BY <2>3, TakenStep DEF Dispatches
    <3>2. CASE d = c
      <4>1. filling'[d] = <<>> /\ LineOf(d)' = Append(LineOf(d), batch)
        BY <2>1, <2>3, <3>2 DEF Dispatches
      <4>2. Range(filling'[d]) = {}
        BY <4>1 DEF Range
      <4>3. Range(batch) \subseteq Range(filling[d]) \cup {itemsRead + 1}
        BY <2>3, <3>2, NewBatchFacts DEF Dispatches
      <4>4. InOrder(Taken(d), Append(LineOf(d), batch), {})
        BY <2>1, <4>3, JoinInOrder
      <4> QED
        BY <3>1, <4>1, <4>2, <4>4
    <3>3. CASE d # c
      BY <2>1, <2>3, <3>1, <3>3 DEF Dispatches
    <3> QED
      BY <3>2, <3>3
  <2>4. ASSUME NEW w \in Workers, Takes(w)
        PROVE  InOrder(Taken(d)', LineOf(d)', Range(filling'[d]))
    <3>1. filling' = filling
      BY <2>4 DEF Takes
    <3>2. CASE d = ChannelOf(w)
      <4>1. LineOf(d) # <<>> /\ LineOf(d)' = Tail(LineOf(d))
        BY <2>4, <3>2 DEF Takes
      <4>2. Taken(d)' = Taken(d) \cup Range(Head(LineOf(d)))
        BY <2>4, <3>2, TakenStep
      <4>3. InOrder(Taken(d) \cup Range(Head(LineOf(d))), Tail(LineOf(d)), Range(filling[d]))
        BY <2>1, <4>1, TakeInOrder
      <4> QED
        BY <3>1, <4>1, <4>2, <4>3
    <3>3. CASE d # ChannelOf(w)
      <4>1. LineOf(d)' = LineOf(d)
        BY <2>4, <3>3 DEF Takes
      <4>2. Taken(d)' = Taken(d)
        BY <2>4, <3>3, TakenStep
      <4> QED
        BY <2>1, <3>1, <4>1, <4>2
    <3> QED
      BY <3>2, <3>3
  <2>5. ASSUME NEW w \in Workers, Works(w)
        PROVE  InOrder(Taken(d)', LineOf(d)', Range(filling'[d]))
    <3>1. filling' = filling /\ LineOf(d)' = LineOf(d)
      BY <2>5 DEF Works, SameLines, Process, Count, scanVars
    <3>2. Taken(d)' = Taken(d)
      BY <2>5, TakenStep
    <3> QED
      BY <2>1, <3>1, <3>2
  <2>6. CASE Rests
    <3>1. filling' = filling /\ LineOf(d)' = LineOf(d)
      BY <2>6 DEF Rests, SameLines
    <3>2. Taken(d)' = Taken(d)
      BY <2>6, TakenStep
    <3> QED
      BY <2>1, <3>1, <3>2
  <2> QED
    BY <2>2, <2>3, <2>4, <2>5, <2>6, StepEffects
<1> QED
  BY <1>1, <1>2, Invariance, BatchShapeHolds, PointsOnceHolds, PTL DEF Spec

\* A queue of one worker.
Alone(c) == Cardinality(WorkersOf(c)) = 1

\* The only worker of a queue stores each batch before it takes the next.
StoreOrder ==
    \A c \in Channels : Alone(c) =>
        Ascending(stored[c]) /\ Before(Range(stored[c]), InHand(c))

\* Which worker that is.
LEMMA AloneMeans ==
    ASSUME NEW c \in Channels, Alone(c), NEW w \in Workers, ChannelOf(w) = c
    PROVE  \A v \in Workers : ChannelOf(v) = c => v = w
<1>1. IsFiniteSet(WorkersOf(c))
  BY EnoughSlots
<1>2. PICK x : WorkersOf(c) = {x}
  BY <1>1, FS_Singleton DEF Alone
<1> QED
  BY <1>2 DEF WorkersOf

LEMMA StoreOrderHolds == Spec => []StoreOrder
<1>1. Init => StoreOrder
  <2> SUFFICES ASSUME Init, NEW c \in Channels
               PROVE  Ascending(stored[c]) /\ Before(Range(stored[c]), InHand(c))
    BY DEF StoreOrder
  <2>1. stored[c] = <<>>
    BY DEF Init
  <2> QED
    BY <2>1 DEF Ascending, Before, Range
<1>2. IInv /\ IInv' /\ BatchShape /\ LineOrder /\ StoreOrder /\ [Next]_vars => StoreOrder'
  <2> SUFFICES ASSUME IInv, IInv', BatchShape, LineOrder, StoreOrder, [Next]_vars,
                      NEW d \in Channels, Alone(d)
               PROVE  Ascending(stored'[d]) /\ Before(Range(stored'[d]), InHand(d)')
    BY DEF StoreOrder, Alone, WorkersOf
  <2>1. /\ Ascending(stored[d]) /\ Before(Range(stored[d]), InHand(d))
        /\ LineOf(d) \in Seq(Batch)
        /\ stored \in [Channels -> Seq(Points)]
    BY LineType DEF StoreOrder, IInv, TypeOK
  <2>2. ASSUME stored'[d] = stored[d], InHand(d)' \subseteq InHand(d)
        PROVE  Ascending(stored'[d]) /\ Before(Range(stored'[d]), InHand(d)')
    BY <2>1, <2>2 DEF Before
  <2>3. ASSUME NEW c \in Channels, Fills(c)
        PROVE  Ascending(stored'[d]) /\ Before(Range(stored'[d]), InHand(d)')
    BY <2>2, <2>3, TakenStep DEF Fills, workVars
  <2>4. ASSUME NEW c \in Channels, NEW batch \in Batch, Dispatches(c, batch)
        PROVE  Ascending(stored'[d]) /\ Before(Range(stored'[d]), InHand(d)')
    BY <2>2, <2>4, TakenStep DEF Dispatches, workVars
  <2>5. CASE Rests
    BY <2>2, <2>5, TakenStep DEF Rests
  <2>6. ASSUME NEW w \in Workers, Takes(w)
        PROVE  Ascending(stored'[d]) /\ Before(Range(stored'[d]), InHand(d)')
    <3>1. stored' = stored
      BY <2>6 DEF Takes
    <3>2. CASE d = ChannelOf(w)
      <4>1. InHand(d)' = InHand(d) \cup Range(Head(LineOf(d)))
        BY <2>6, <3>2, TakenStep
      <4>2. LineOf(d) # <<>> /\ InOrder(Taken(d), LineOf(d), Range(filling[d]))
        BY <2>6, <3>2 DEF Takes, LineOrder
      <4>3. Before(Taken(d), Range(Head(LineOf(d))))
        BY <2>1, <4>2, TakeInOrder
      <4> QED
        BY <2>1, <3>1, <4>1, <4>3 DEF Before, Taken
    <3>3. CASE d # ChannelOf(w)
      BY <2>2, <2>6, <3>1, <3>3, TakenStep
    <3> QED
      BY <3>2, <3>3
  <2>7. ASSUME NEW w \in Workers, Works(w)
        PROVE  Ascending(stored'[d]) /\ Before(Range(stored'[d]), InHand(d)')
    <3>1. InHand(d)' \subseteq InHand(d)
      BY <2>7, TakenStep
    <3>2. CASE Count(w) \/ (Process(w) /\ ChannelOf(w) # d)
      BY <2>1, <2>2, <3>1, <3>2 DEF Count, Process
    <3>3. CASE Process(w) /\ ChannelOf(w) = d
      <4>1. /\ wpc[w] = "process" /\ stored'[d] = stored[d] \o wbatch[w]
            /\ wpc'[w] = "count"
        BY <2>1, <3>3 DEF Process, IInv, TypeOK
      <4>2. wbatch[w] \in Seq(Points) /\ Ascending(wbatch[w]) /\ stored[d] \in Seq(Points)
        BY <2>1, <4>1, HeldOnce DEF BusyStates, BatchShape, IInv, TypeOK, Batch
      <4>3. Range(wbatch[w]) \subseteq InHand(d)
        BY <3>3, <4>1, HandMembers
      <4>4. Ascending(stored'[d])
        BY <2>1, <4>1, <4>2, <4>3, AscendingConcat DEF Before
      <4>5. InHand(d)' = {}
        BY <3>3, <4>1, AloneMeans, HandMembersNext
      <4> QED
        BY <4>4, <4>5 DEF Before
    <3> QED
      BY <2>7, <3>2, <3>3 DEF Works
  <2> QED
    BY <2>3, <2>4, <2>5, <2>6, <2>7, StepEffects
<1> QED
  BY <1>1, <1>2, Invariance, BatchShapeHolds, LineOrderHolds, PTL DEF Spec

\* The points of a queue with a single worker reach the database in the order the
\* scanner read them, whatever waits in unsentBatches meanwhile.
THEOREM StoredInReadOrder == Spec => []ReadOrder
<1>1. StoreOrder => ReadOrder
  BY DEF StoreOrder, ReadOrder, Alone, WorkersOf, Ascending
<1> QED
  BY <1>1, StoreOrderHolds, PTL
-----------------------------------------------------------------------------
(* The pipeline implements PointDelivery. *)

\* The points waiting for channel c are those in its line and being filled.
LEMMA WaitingMembers ==
    ASSUME IInv, NEW c \in Channels
    PROVE  \A p : p \in WaitingPoints(c) <=>
               \/ p \in Range(filling[c])
               \/ \E i \in DOMAIN LineOf(c) : p \in Range(LineOf(c)[i])
<1> TAKE p
<1>1. p \in WaitingPoints(c) <=>
          \/ p \in Range(filling[c])
          \/ \E b \in Range(toWorker[c]) \cup Range(unsent[c]) : p \in Range(b)
  BY DEF WaitingPoints
<1>2. (\E b \in Range(toWorker[c]) \cup Range(unsent[c]) : p \in Range(b))
          <=> \E b \in Range(LineOf(c)) : p \in Range(b)
  BY LineType
<1>3. (\E b \in Range(LineOf(c)) : p \in Range(b))
          <=> \E i \in DOMAIN LineOf(c) : p \in Range(LineOf(c)[i])
  BY DEF Range
<1> QED
  BY <1>1, <1>2, <1>3

LEMMA WaitingMembersNext ==
    ASSUME IInv', NEW c \in Channels
    PROVE  \A p : p \in WaitingPoints(c)' <=>
               \/ p \in Range(filling'[c])
               \/ \E i \in DOMAIN LineOf(c)' : p \in Range(LineOf(c)'[i])
<1> TAKE p
<1>1. p \in WaitingPoints(c)' <=>
          \/ p \in Range(filling'[c])
          \/ \E b \in Range(toWorker'[c]) \cup Range(unsent'[c]) : p \in Range(b)
  BY DEF WaitingPoints
<1>2. Range(LineOf(c)') = Range(toWorker'[c]) \cup Range(unsent'[c])
  <2>1. toWorker'[c] \in Seq(Batch) /\ unsent'[c] \in Seq(Batch)
    BY DEF IInv, TypeOK
  <2> QED
    BY <2>1, RangeConcat DEF LineOf
<1>3. (\E b \in Range(LineOf(c)') : p \in Range(b))
          <=> \E i \in DOMAIN LineOf(c)' : p \in Range(LineOf(c)'[i])
  BY DEF Range
<1> QED
  BY <1>1, <1>2, <1>3

\* The run of points a worker is delivering.
RunOf(w) == IF wpc[w] = "process" THEN wbatch[w] ELSE <<>>

LEMMA DeliveryStarts == Init => Delivery!Init
<1> SUFFICES ASSUME Init PROVE Delivery!Init
  OBVIOUS
<1>1. \A c \in Channels : WaitingPoints(c) = {}
  BY DEF Init, WaitingPoints, Range
<1> QED
  BY <1>1 DEF Init, Delivery!Init

\* Channels and batches, where nothing changes for the points of any channel.
LEMMA WaitingStays ==
    ASSUME IInv, IInv', NEW c \in Channels, filling'[c] = filling[c], LineOf(c)' = LineOf(c)
    PROVE  WaitingPoints(c)' = WaitingPoints(c)
<1>1. \A p : p \in WaitingPoints(c)' <=> p \in WaitingPoints(c)
  BY WaitingMembers, WaitingMembersNext
<1> QED
  BY <1>1

\* The other steps are no step of the abstract specification.
LEMMA DeliveryRests ==
    ASSUME UNCHANGED <<itemsRead, stored>>, (pc' = "done") <=> (pc = "done"),
           \A c \in Channels : WaitingPoints(c)' = WaitingPoints(c),
           \A w \in Workers : RunOf(w)' = RunOf(w)
    PROVE  UNCHANGED Delivery!vars
BY DEF Delivery!vars, RunOf

\* Reading a point accepts it, in a batch that grows or one that is dispatched.
LEMMA ReadAccepts ==
    ASSUME IInv, IInv', BatchShape, NEW c \in Channels, Read(c)
    PROVE  Delivery!Accept(c)
<1>1. /\ pc = "decode" /\ pc' = "select" /\ itemsRead < MaxPoints
      /\ itemsRead' = itemsRead + 1 /\ UNCHANGED workVars
  BY DEF Read
<1>2. ASSUME NEW d \in Channels \ {c} PROVE WaitingPoints(d)' = WaitingPoints(d)
  <2>1. filling'[d] = filling[d]
    BY DEF Read, IInv, TypeOK
  <2>2. LineOf(d)' = LineOf(d)
    BY ReadEffect DEF Fills, SameLines, Dispatches
  <2> QED
    BY <2>1, <2>2, WaitingStays
<1>3. WaitingPoints(c)' = WaitingPoints(c) \cup {itemsRead + 1}
  <2>1. Range(NewBatch(c)) = Range(filling[c]) \cup {itemsRead + 1}
    BY <1>1, NewBatchFacts
  <2>2. CASE Fills(c)
    <3>1. filling'[c] = NewBatch(c) /\ LineOf(c)' = LineOf(c)
      BY <2>2 DEF Fills, SameLines, IInv, TypeOK
    <3>2. \A p : p \in WaitingPoints(c)' <=> p \in WaitingPoints(c) \/ p = itemsRead + 1
      BY <2>1, <3>1, WaitingMembers, WaitingMembersNext
    <3> QED
      BY <3>2
  <2>3. ASSUME NEW batch \in Batch, Dispatches(c, batch)
        PROVE  WaitingPoints(c)' = WaitingPoints(c) \cup {itemsRead + 1}
    <3>1. filling'[c] = <<>> /\ LineOf(c)' = Append(LineOf(c), batch) /\ batch = NewBatch(c)
      <4>1. itemsRead' # itemsRead
        BY <1>1 DEF IInv, TypeOK
      <4> QED
        BY <2>3, <4>1 DEF Dispatches, IInv, TypeOK
    <3>2. /\ DOMAIN LineOf(c)' = DOMAIN LineOf(c) \cup {Len(LineOf(c)) + 1}
          /\ \A i \in DOMAIN LineOf(c) : LineOf(c)'[i] = LineOf(c)[i]
          /\ LineOf(c)'[Len(LineOf(c)) + 1] = batch
      <4>1. LineOf(c) \in Seq(Batch)
        BY LineType
      <4> QED
        BY <3>1, <4>1
    <3>3. Range(filling'[c]) = {}
      BY <3>1 DEF Range
    <3>4. \A p : p \in WaitingPoints(c)' <=>
                     \/ p \in Range(batch)
                     \/ \E i \in DOMAIN LineOf(c) : p \in Range(LineOf(c)[i])
      BY <3>2, <3>3, WaitingMembersNext
    <3>5. \A p : p \in WaitingPoints(c)' <=> p \in WaitingPoints(c) \/ p = itemsRead + 1
      BY <2>1, <3>1, <3>4, WaitingMembers
    <3> QED
      BY <3>5
  <2> QED
    BY <2>2, <2>3, ReadEffect
<1> QED
  BY <1>1, <1>2, <1>3 DEF Delivery!Accept, workVars

\* A turn of the flush moves points from a filling batch to its line.
LEMMA FlushRests ==
    ASSUME IInv, IInv', Flush
    PROVE  UNCHANGED Delivery!vars
<1>1. pc = "flush" /\ pc' # "done" /\ itemsRead' = itemsRead /\ UNCHANGED workVars
  BY DEF Flush
<1>2. CASE Rests
  BY <1>1, <1>2, WaitingStays, DeliveryRests DEF Rests, SameLines, RunOf, workVars
<1>3. ASSUME NEW c \in Channels, NEW batch \in Batch, Dispatches(c, batch)
      PROVE  \A d \in Channels : WaitingPoints(d)' = WaitingPoints(d)
  <2>1. /\ filling'[c] = <<>> /\ LineOf(c)' = Append(LineOf(c), batch) /\ batch = filling[c]
        /\ \A d \in Channels \ {c} : filling'[d] = filling[d] /\ LineOf(d)' = LineOf(d)
    <3>1. itemsRead' # itemsRead + 1
      BY <1>1 DEF IInv, TypeOK
    <3> QED
      BY <1>3, <3>1 DEF Dispatches, IInv, TypeOK
  <2>2. /\ DOMAIN LineOf(c)' = DOMAIN LineOf(c) \cup {Len(LineOf(c)) + 1}
        /\ \A i \in DOMAIN LineOf(c) : LineOf(c)'[i] = LineOf(c)[i]
        /\ LineOf(c)'[Len(LineOf(c)) + 1] = batch
    <3>1. LineOf(c) \in Seq(Batch)
      BY LineType
    <3> QED
      BY <2>1, <3>1
  <2>3. Range(filling'[c]) = {}
    BY <2>1 DEF Range
  <2>4. \A p : p \in WaitingPoints(c)' <=> p \in WaitingPoints(c)
    BY <2>1, <2>2, <2>3, WaitingMembers, WaitingMembersNext
  <2>5. WaitingPoints(c)' = WaitingPoints(c)
    BY <2>4
  <2>6. \A d \in Channels \ {c} : WaitingPoints(d)' = WaitingPoints(d)
    BY <2>1, WaitingStays
  <2> QED
    BY <2>5, <2>6
<1> QED
  BY <1>1, <1>2, <1>3, FlushEffect, DeliveryRests DEF RunOf, workVars

\* The batches of a line behind the first.
LEMMA LinePositions ==
    ASSUME NEW B, NEW L \in Seq(B), L # <<>>
    PROVE  /\ 1 \in DOMAIN L /\ L[1] = Head(L)
           /\ \A i \in DOMAIN Tail(L) : i + 1 \in DOMAIN L /\ i + 1 > 1 /\ Tail(L)[i] = L[i + 1]
           /\ \A i \in DOMAIN L : i # 1 => i - 1 \in DOMAIN Tail(L) /\ Tail(L)[i - 1] = L[i]
OBVIOUS

\* A worker that takes a batch takes the oldest points of its channel.
LEMMA TakeTakes ==
    ASSUME IInv, IInv', BatchShape, LineOrder, NEW w \in Workers, Takes(w), pc' = pc
    PROVE  Delivery!Take(w)
<1> DEFINE c == ChannelOf(w)
           L == LineOf(c)
           h == Head(L)
<1>1. /\ c \in Channels /\ L \in Seq(Batch) /\ L # <<>> /\ h \in Batch
      /\ LineOf(c)' = Tail(L) /\ filling' = filling
      /\ \A d \in Channels \ {c} : LineOf(d)' = LineOf(d)
      /\ UNCHANGED <<itemsRead, stored>>
  BY ConstantFacts, LineType DEF Takes
<1>2. /\ Len(h) \in 1..BatchSize /\ h \in [1..Len(h) -> Range(h)] /\ Ascending(h)
      /\ DOMAIN h = 1..Len(h)
  <2>1. h \in Outstanding
    BY <1>1, LineType
  <2>2. h # <<>> /\ Len(h) <= BatchSize /\ Ascending(h)
    BY <2>1 DEF BatchShape
  <2>3. h \in Seq(Points)
    BY <1>1 DEF Batch
  <2>4. Len(h) \in Nat /\ Len(h) # 0 /\ DOMAIN h = 1..Len(h)
    BY <2>2, <2>3
  <2>5. h \in [1..Len(h) -> Range(h)]
    <3>1. h = [i \in 1..Len(h) |-> h[i]]
      BY <2>3
    <3> HIDE DEF h
    <3> QED
      BY <2>4, <3>1 DEF Range
  <2> QED
    BY <2>2, <2>4, <2>5, LoadAssumption
<1>3. /\ 1 \in DOMAIN L /\ L[1] = h
      /\ \A i \in DOMAIN Tail(L) : i + 1 \in DOMAIN L /\ i + 1 > 1 /\ Tail(L)[i] = L[i + 1]
      /\ \A i \in DOMAIN L : i # 1 => i - 1 \in DOMAIN Tail(L) /\ Tail(L)[i - 1] = L[i]
  BY <1>1, LinePositions
<1>4. /\ Before(Range(h), Range(filling[c]))
      /\ \A i \in DOMAIN L : i > 1 => Before(Range(h), Range(L[i]))
  <2>1. InOrder(Taken(c), L, Range(filling[c])) /\ 1 \in DOMAIN L
    BY <1>1, <1>3 DEF LineOrder
  <2> HIDE DEF L
  <2> QED
    BY <1>3, <2>1 DEF InOrder
<1>5. \A p \in Range(h) : p \in Int
  <2>1. h \in [1..Len(h) -> Points]
    BY <1>1 DEF Batch
  <2> HIDE DEF h
  <2> QED
    BY <1>2, <2>1 DEF Points, Range
<1>6. Range(h) \subseteq WaitingPoints(c)
  BY <1>1, <1>3, WaitingMembers
<1>7. \A p \in WaitingPoints(c)' : p \in WaitingPoints(c) /\ \A q \in Range(h) : q < p
  <2> TAKE p \in WaitingPoints(c)'
  <2>1. CASE p \in Range(filling[c])
    BY <1>1, <1>4, <2>1, WaitingMembers DEF Before
  <2>2. ASSUME NEW i \in DOMAIN Tail(L), p \in Range(Tail(L)[i])
        PROVE  p \in WaitingPoints(c) /\ \A q \in Range(h) : q < p
    <3>1. i + 1 \in DOMAIN L /\ p \in Range(L[i + 1]) /\ i + 1 > 1
      BY <1>3, <2>2
    <3> QED
      BY <1>1, <1>4, <3>1, WaitingMembers DEF Before
  <2> QED
    BY <1>1, <2>1, <2>2, WaitingMembersNext
<1>8. \A p \in WaitingPoints(c) : p \in Range(h) \/ p \in WaitingPoints(c)'
  <2> TAKE p \in WaitingPoints(c)
  <2>1. CASE p \in Range(filling[c])
    BY <1>1, <2>1, WaitingMembersNext
  <2>2. ASSUME NEW i \in DOMAIN L, p \in Range(L[i])
        PROVE  p \in Range(h) \/ p \in WaitingPoints(c)'
    <3>1. CASE i = 1
      BY <1>3, <2>2, <3>1
    <3>2. CASE i # 1
      <4>1. i - 1 \in DOMAIN LineOf(c)' /\ p \in Range(LineOf(c)'[i - 1])
        BY <1>1, <1>3, <2>2, <3>2
      <4> QED
        BY <1>1, <4>1, WaitingMembersNext
    <3> QED
      BY <3>1, <3>2
  <2> QED
    BY <1>1, <2>1, <2>2, WaitingMembers
<1>9. WaitingPoints(c)' = WaitingPoints(c) \ Range(h)
  <2>1. \A p \in Range(h) : ~(p < p)
    BY <1>5
  <2>2. \A p : p \in WaitingPoints(c)' <=> p \in WaitingPoints(c) /\ p \notin Range(h)
    BY <1>7, <1>8, <2>1
  <2> QED
    BY <2>2
<1>10. \A d \in Channels \ {c} : WaitingPoints(d)' = WaitingPoints(d)
  BY <1>1, WaitingStays
<1>11. /\ RunOf(w) = <<>> /\ RunOf(w)' = h
       /\ \A v \in Workers \ {w} : RunOf(v)' = RunOf(v)
  <2>1. wpc \in [Workers -> WorkerStates] /\ wbatch \in [Workers -> Batch]
    BY DEF IInv, TypeOK
  <2> QED
    BY <2>1 DEF Takes, RunOf
<1>12. h \in Delivery!OldestRuns(WaitingPoints(c), Len(h))
  <2>1. h \in [1..Len(h) -> WaitingPoints(c)]
    BY <1>2, <1>6
  <2>2. \A i \in 1..Len(h) : h[i] \in Range(h)
    BY <1>2 DEF Range
  <2>3. \A p \in WaitingPoints(c) \ Range(h), i \in 1..Len(h) : h[i] < p
    BY <1>7, <1>8, <2>2
  <2> HIDE DEF h
  <2> QED
    BY <1>2, <2>1, <2>3 DEF Delivery!OldestRuns, Delivery!Range, Range, Ascending
<1> HIDE DEF h, c
<1>13. [v \in Workers |-> RunOf(v)'] = [[v \in Workers |-> RunOf(v)] EXCEPT ![w] = h]
  BY <1>11
<1>14. [d \in Channels |-> WaitingPoints(d)']
           = [[d \in Channels |-> WaitingPoints(d)] EXCEPT ![c] = @ \ Range(h)]
  BY <1>9, <1>10
<1>15. Delivery!Range(h) = Range(h)
  BY DEF Delivery!Range, Range
<1>16. (pc' = "done") = (pc = "done")
  OBVIOUS
<1>17. [v \in Workers |-> IF wpc[v] = "process" THEN wbatch[v] ELSE <<>>]' =
           [[v \in Workers |-> IF wpc[v] = "process" THEN wbatch[v] ELSE <<>>] EXCEPT ![w] = h]
  BY <1>13 DEF RunOf
<1>18. [v \in Workers |-> IF wpc[v] = "process" THEN wbatch[v] ELSE <<>>][w] = <<>>
  BY <1>11 DEF RunOf
<1>19. [d \in Channels |-> WaitingPoints(d)][c] = WaitingPoints(c)
  BY <1>1
<1> DEFINE held == [v \in Workers |-> IF wpc[v] = "process" THEN wbatch[v] ELSE <<>>]
           waiting == [d \in Channels |-> WaitingPoints(d)]
<1>20. \E n \in 1..BatchSize : \E run \in Delivery!OldestRuns(waiting[c], n) :
          /\ held' = [held EXCEPT ![w] = run]
          /\ waiting' = [waiting EXCEPT ![c] = @ \ Delivery!Range(run)]
  <2>1. Len(h) \in 1..BatchSize /\ h \in Delivery!OldestRuns(waiting[c], Len(h))
    BY <1>2, <1>12, <1>19
  <2>2. held' = [held EXCEPT ![w] = h]
    BY <1>17
  <2>3. waiting' = [waiting EXCEPT ![c] = @ \ Delivery!Range(h)]
    BY <1>14, <1>15
  <2> HIDE DEF held, waiting
  <2> QED
    BY <2>1, <2>2, <2>3
<1>21. UNCHANGED <<itemsRead, stored, pc = "done">>
  BY <1>1, <1>16
<1> QED
  BY <1>18, <1>20, <1>21 DEF Delivery!Take, c

\* ProcessBatch delivers the run the worker took.
LEMMA ProcessDelivers ==
    ASSUME IInv, IInv', BatchShape, NEW w \in Workers, Works(w), Process(w)
    PROVE  Delivery!Deliver(w)
<1>1. /\ wpc[w] = "process" /\ wpc' = [wpc EXCEPT ![w] = "count"] /\ wbatch' = wbatch
      /\ stored' = [stored EXCEPT ![ChannelOf(w)] = @ \o wbatch[w]]
      /\ filling' = filling /\ itemsRead' = itemsRead /\ pc' = pc
      /\ \A c \in Channels : LineOf(c)' = LineOf(c)
      /\ wpc \in [Workers -> WorkerStates]
  BY DEF Process, Works, SameLines, scanVars, IInv, TypeOK
<1>2. wbatch[w] # <<>>
  BY <1>1, HeldOnce DEF BusyStates, BatchShape
<1>3. \A c \in Channels : WaitingPoints(c)' = WaitingPoints(c)
  BY <1>1, WaitingStays
<1>4. /\ RunOf(w) = wbatch[w] /\ RunOf(w)' = <<>>
      /\ \A v \in Workers \ {w} : RunOf(v)' = RunOf(v)
  BY <1>1 DEF RunOf
<1> QED
  BY <1>1, <1>2, <1>3, <1>4 DEF Delivery!Deliver, RunOf

\* The summary comes when nothing waits and no worker holds a run.
LEMMA SummaryFinishes ==
    ASSUME IInv, IInv', ScanProgress, Summary
    PROVE  Delivery!Finish
<1>1. /\ pc = "wait" /\ pc' = "done"
      /\ UNCHANGED <<filling, unsent, toWorker, itemsRead, wpc, wbatch, stored>>
  BY DEF Summary, chanVars, workVars
<1>2. Outstanding = {}
  BY <1>1, FS_EmptySet DEF IInv, ShutdownOrder, ClosingStates, Counted, OutstandingCounted
<1>3. \A c \in Channels : WaitingPoints(c) = {}
  <2> TAKE c \in Channels
  <2>1. Range(filling[c]) = {}
    BY <1>1 DEF ScanProgress, ClosingStates, Range
  <2>2. \A p : p \notin WaitingPoints(c)
    BY <1>2, <2>1, WaitingMembers, LineType
  <2> QED
    BY <2>2
<1>4. \A w \in Workers : RunOf(w) = <<>>
  BY <1>2 DEF RunOf, Outstanding, Held, BusyStates
<1>5. \A c \in Channels : WaitingPoints(c)' = WaitingPoints(c)
  BY <1>1 DEF WaitingPoints
<1> QED
  BY <1>1, <1>3, <1>4, <1>5 DEF Delivery!Finish, RunOf

\* Every step of the pipeline is a step of the abstract specification or changes
\* nothing it speaks of.
LEMMA DeliverySteps ==
    IInv /\ IInv' /\ BatchShape /\ ScanProgress /\ LineOrder /\ [Next]_vars
        => [Delivery!Next]_(Delivery!vars)
<1> SUFFICES ASSUME IInv, IInv', BatchShape, ScanProgress, LineOrder, [Next]_vars
             PROVE  Delivery!Next \/ UNCHANGED Delivery!vars
  OBVIOUS
<1>1. ASSUME Rests, pc' = "done" <=> pc = "done" PROVE UNCHANGED Delivery!vars
  <2>1. UNCHANGED <<filling, itemsRead, stored>> /\ \A c \in Channels : LineOf(c)' = LineOf(c)
    BY <1>1 DEF Rests, SameLines
  <2>2. \A w \in Workers : RunOf(w)' = RunOf(w)
    BY <1>1 DEF Rests, RunOf
  <2> QED
    BY <1>1, <2>1, <2>2, WaitingStays, DeliveryRests
<1>2. ASSUME UNCHANGED <<filling, itemsRead, workVars>>, pc' = "done" <=> pc = "done", SameLines
      PROVE  UNCHANGED Delivery!vars
  BY <1>2, WaitingStays, DeliveryRests DEF SameLines, RunOf, workVars
<1>3. CASE StopAtLimit \/ SelectDefault \/ EndOfInput \/ Drained \/ Close \/ UNCHANGED vars
  BY <1>2, <1>3 DEF StopAtLimit, SelectDefault, EndOfInput, Drained, Close,
     vars, scanVars, chanVars, SameLines, LineOf
<1>4. CASE SendOwed
  BY <1>2, <1>4, SendOwedLine DEF SendOwed
<1>5. ASSUME NEW c \in Channels, SelectAck(c) \/ DrainAck(c) PROVE UNCHANGED Delivery!vars
  <2>1. /\ UNCHANGED <<filling, unsent, toWorker, itemsRead, workVars>>
        /\ pc' # "done" /\ pc # "done"
    BY <1>5 DEF SelectAck, DrainAck, ReceiveAck
  <2>2. SameLines
    BY <2>1 DEF SameLines, LineOf
  <2> QED
    BY <1>2, <2>1, <2>2
<1>6. ASSUME NEW w \in Workers, Worker(w) PROVE Delivery!Next \/ UNCHANGED Delivery!vars
  <2>1. pc' = pc
    BY <1>6 DEF Worker, Take, Process, Count, Ack, Exit, scanVars
  <2>2. CASE Takes(w)
    BY <2>1, <2>2, TakeTakes DEF Delivery!Next
  <2>3. CASE Works(w) /\ Process(w)
    BY <2>3, ProcessDelivers DEF Delivery!Next
  <2>4. CASE Works(w) /\ Count(w)
    <3>1. /\ UNCHANGED <<filling, itemsRead, stored>> /\ SameLines
          /\ wpc[w] = "count" /\ wpc' = [wpc EXCEPT ![w] = "ack"] /\ wbatch' = wbatch
          /\ wpc \in [Workers -> WorkerStates]
      BY <2>4 DEF Works, Count, scanVars, IInv, TypeOK
    <3>2. \A v \in Workers : RunOf(v)' = RunOf(v)
      BY <3>1 DEF RunOf
    <3> QED
      BY <2>1, <3>1, <3>2, WaitingStays, DeliveryRests DEF SameLines
  <2>5. CASE Rests
    BY <1>1, <2>1, <2>5
  <2> QED
    BY <1>6, <2>2, <2>3, <2>4, <2>5, WorkerEffect DEF Works
<1>7. CASE Flush
  BY <1>7, FlushRests
<1>8. CASE Summary
  BY <1>8, SummaryFinishes DEF Delivery!Next
<1>9. ASSUME NEW c \in Channels, Read(c) PROVE Delivery!Next
  BY <1>9, ReadAccepts DEF Delivery!Next
<1> QED
  BY <1>3, <1>4, <1>5, <1>6, <1>7, <1>8, <1>9 DEF Next, Scanner, Ended

\* Batches, channels of any capacity, acknowledgements and the shutdown put together
\* do what PointDelivery says: the points of a channel leave it in the order they
\* were read, in runs of at most a batch, each once, and the load ends after the last.
THEOREM PipelineDelivers == Spec => ImplementsDelivery
<1> QED
  BY DeliveryStarts, DeliverySteps, Invariance, BatchShapeHolds, ScanProgressHolds,
     LineOrderHolds, PTL DEF Spec, ImplementsDelivery, Delivery!Spec
=============================================================================
