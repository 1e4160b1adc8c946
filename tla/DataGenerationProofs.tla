------------------------ MODULE DataGenerationProofs ------------------------
(***************************************************************************)
(* Data generation, for every scale, number of measurements, epochs and    *)
(* groups, and every size of a batch: each point is in one place once,     *)
(* whatever the simulator holds back, a group writes its share, and the    *)
(* fleet of a devops run grows evenly to its scale.                        *)
(*                                                                         *)
(* The points of the base simulator are numbered in the order in which it  *)
(* makes them; madePoints is the number of the next one.  So a point it    *)
(* makes is new, and the simulators only move it from place to place.      *)
(***************************************************************************)
EXTENDS DataGeneration, FiniteSetTheorems, TLAPS

-----------------------------------------------------------------------------
(* Sequences without repetition. *)

\* A new element at the end of a batch, or of the entries held back.
LEMMA AppendNew ==
    ASSUME NEW S, NEW s \in Seq(S), NEW e \in S, IsInjective(s), e \notin ToSet(s)
    PROVE  /\ Append(s, e) \in Seq(S)
           /\ ToSet(Append(s, e)) = ToSet(s) \cup {e}
           /\ IsInjective(Append(s, e))
<1> DEFINE n == Len(s)
           t == Append(s, e)
<1>1. /\ n \in Nat /\ DOMAIN s = 1..n /\ t \in Seq(S)
      /\ DOMAIN t = 1..(n + 1) /\ t[n + 1] = e
  OBVIOUS
<1>2. \A i \in 1..n : t[i] = s[i]
  OBVIOUS
<1>3. \A i \in 1..(n + 1) : i \in 1..n \/ i = n + 1
  BY <1>1
<1>4. 1..n \subseteq 1..(n + 1) /\ n + 1 \in 1..(n + 1)
  BY <1>1
<1> HIDE DEF n, t
<1>5. ToSet(t) = {t[i] : i \in 1..(n + 1)} /\ ToSet(s) = {s[i] : i \in 1..n}
  BY <1>1 DEF ToSet
<1>6. ToSet(t) = ToSet(s) \cup {e}
  BY <1>1, <1>2, <1>3, <1>4, <1>5
<1>7. \A i \in 1..n : s[i] # e
  BY <1>5
<1>8. IsInjective(t)
  BY <1>1, <1>2, <1>3, <1>7 DEF IsInjective
<1> QED
  BY <1>1, <1>6, <1>8 DEF t

\* A sequence cut in two, as the pending entries are.
LEMMA CutInTwo ==
    ASSUME NEW S, NEW s \in Seq(S), IsInjective(s), NEW n \in 0..Len(s)
    PROVE  LET a == SubSeq(s, 1, n)
               b == SubSeq(s, n + 1, Len(s))
           IN  /\ a \in Seq(S) /\ b \in Seq(S)
               /\ IsInjective(a) /\ IsInjective(b)
               /\ ToSet(a) \cup ToSet(b) = ToSet(s)
               /\ ToSet(a) \cap ToSet(b) = {}
<1> DEFINE a == SubSeq(s, 1, n)
           b == SubSeq(s, n + 1, Len(s))
           m == Len(s)
<1>1. m \in Nat /\ DOMAIN s = 1..m /\ n \in Nat /\ n <= m
  OBVIOUS
<1>2. a \in Seq(S) /\ b \in Seq(S)
  BY <1>1
<1>3. DOMAIN a = 1..n /\ \A i \in 1..n : a[i] = s[i]
  BY <1>1
<1>4. DOMAIN b = 1..(m - n) /\ \A i \in 1..(m - n) : b[i] = s[i + n]
  BY <1>1
<1> HIDE DEF a, b, m
<1>5. \A i, j \in 1..m : s[i] = s[j] => i = j
  BY <1>1 DEF IsInjective
<1>6. \A i \in 1..n : i \in 1..m
  BY <1>1
<1>7. \A i \in 1..(m - n) : i + n \in 1..m /\ i + n \notin 1..n
  BY <1>1
<1>8. \A i \in 1..m : i \in 1..n \/ (i - n \in 1..(m - n) /\ (i - n) + n = i)
  BY <1>1
<1>9. IsInjective(a)
  BY <1>3, <1>5, <1>6 DEF IsInjective
<1>10. IsInjective(b)
  <2> SUFFICES ASSUME NEW i \in 1..(m - n), NEW j \in 1..(m - n), b[i] = b[j]
               PROVE  i = j
    BY <1>4 DEF IsInjective
  <2>1. i + n = j + n
    BY <1>4, <1>5, <1>7
  <2> QED
    BY <1>1, <2>1
<1>11. ToSet(a) = {s[i] : i \in 1..n} /\ ToSet(b) = {s[i + n] : i \in 1..(m - n)}
       /\ ToSet(s) = {s[i] : i \in 1..m}
  BY <1>1, <1>3, <1>4 DEF ToSet
<1>12. ToSet(a) \cap ToSet(b) = {}
  BY <1>5, <1>6, <1>7, <1>11
<1>13. ToSet(a) \subseteq ToSet(s) /\ ToSet(b) \subseteq ToSet(s)
  BY <1>6, <1>7, <1>11
<1>14. ASSUME NEW x \in ToSet(s) PROVE x \in ToSet(a) \cup ToSet(b)
  <2>1. PICK i \in 1..m : x = s[i]
    BY <1>11, <1>14
  <2>2. CASE i \in 1..n
    BY <1>11, <2>1, <2>2
  <2>3. CASE i - n \in 1..(m - n) /\ (i - n) + n = i
    BY <1>11, <2>1, <2>3
  <2> QED
    BY <1>8, <2>2, <2>3
<1> QED
  BY <1>2, <1>9, <1>10, <1>12, <1>13, <1>14 DEF a, b, m

\* The first element of a sequence taken.
LEMMA TakeFirst ==
    ASSUME NEW S, NEW s \in Seq(S), s # <<>>, IsInjective(s)
    PROVE  /\ Head(s) \in S /\ Tail(s) \in Seq(S)
           /\ Head(s) \in ToSet(s)
           /\ ToSet(Tail(s)) = ToSet(s) \ {Head(s)}
           /\ IsInjective(Tail(s))
           /\ Len(Tail(s)) = Len(s) - 1
<1> DEFINE m == Len(s)
           h == Head(s)
           t == Tail(s)
<1>1. /\ m \in Nat \ {0} /\ DOMAIN s = 1..m /\ h = s[1] /\ h \in S
      /\ t \in Seq(S) /\ DOMAIN t = 1..(m - 1) /\ Len(t) = m - 1
  OBVIOUS
<1>2. \A i \in 1..(m - 1) : t[i] = s[i + 1]
  OBVIOUS
<1> HIDE DEF m, h, t
<1>3. \A i, j \in 1..m : s[i] = s[j] => i = j
  BY <1>1 DEF IsInjective
<1>4. \A i \in 1..(m - 1) : i + 1 \in 1..m /\ i + 1 # 1
  BY <1>1
<1>5. \A i \in 1..m : i = 1 \/ (i - 1 \in 1..(m - 1) /\ (i - 1) + 1 = i)
  BY <1>1
<1>6. IsInjective(t)
  <2> SUFFICES ASSUME NEW i \in 1..(m - 1), NEW j \in 1..(m - 1), t[i] = t[j]
               PROVE  i = j
    BY <1>1 DEF IsInjective
  <2>1. i + 1 = j + 1
    BY <1>2, <1>3, <1>4
  <2> QED
    BY <1>1, <2>1
<1>7. ToSet(t) = {s[i + 1] : i \in 1..(m - 1)} /\ ToSet(s) = {s[i] : i \in 1..m}
  BY <1>1, <1>2 DEF ToSet
<1>8. h \in ToSet(s) /\ 1 \in 1..m
  BY <1>1, <1>7
<1>9. ASSUME NEW x \in ToSet(t) PROVE x \in ToSet(s) \ {h}
  <2>1. PICK i \in 1..(m - 1) : x = s[i + 1]
    BY <1>7, <1>9
  <2> QED
    BY <1>1, <1>3, <1>4, <1>7, <1>8, <2>1
<1>10. ASSUME NEW x \in ToSet(s) \ {h} PROVE x \in ToSet(t)
  <2>1. PICK i \in 1..m : x = s[i]
    BY <1>7, <1>10
  <2>2. i - 1 \in 1..(m - 1) /\ (i - 1) + 1 = i
    BY <1>1, <1>5, <1>10, <2>1
  <2> QED
    BY <1>7, <2>1, <2>2
<1> QED
  BY <1>1, <1>6, <1>8, <1>9, <1>10 DEF h, t, m
-----------------------------------------------------------------------------
(* The base simulator. *)

Points == [epoch : Nat,
           measurement : 0..(conf.measurements - 1),
           generator : 0..(conf.hosts - 1)]

\* The points of a run in the order in which they are made: a row for each measurement of
\* each epoch, and in it the generators.
Row(e, m) == e * conf.measurements + m
Position(p) == Row(p.epoch, p.measurement) * conf.hosts + p.generator

Reports(p) == p.generator < IF p.epoch = 0 THEN conf.init ELSE ReportingIn(p.epoch)

BaseTypes ==
    /\ conf \in Configs
    /\ made \in Nat /\ epoch \in Nat
    /\ measurement \in 0..(conf.measurements - 1)
    /\ generator \in 0..conf.hosts

\* madePoints numbers the next point, and epochGenerators belongs to the epoch.
BaseRuns ==
    /\ made = Row(epoch, measurement) * conf.hosts + generator
    /\ reporting = IF epoch = 0 THEN conf.init ELSE ReportingIn(epoch)

LEMMA FlagTypes ==
    ASSUME conf \in Configs
    PROVE  /\ conf.hosts \in Nat \ {0} /\ conf.measurements \in Nat \ {0}
           /\ conf.groups \in Nat \ {0} /\ conf.group \in 0..(conf.groups - 1)
           /\ BatchSize \in Nat \ {0}
BY GenerationAssumption

\* Numbers of two digits are ordered by the first, then by the second.
LEMMA TwoDigits ==
    ASSUME NEW w \in Nat \ {0}, NEW a \in Nat, NEW b \in Nat,
           NEW x \in 0..(w - 1), NEW y \in 0..(w - 1)
    PROVE  /\ a * w + x \in Nat
           /\ a < b => a * w + x < b * w + y
           /\ a * w + x = b * w + y => a = b /\ x = y
<1>1. \A i, j \in Nat : i < j => i * w + w <= j * w
  <2> SUFFICES ASSUME NEW i \in Nat, NEW j \in Nat, i < j PROVE i * w + w <= j * w
    OBVIOUS
  <2>1. (i + 1) * w <= j * w
    OBVIOUS
  <2>2. (i + 1) * w = i * w + w
    OBVIOUS
  <2> QED
    BY <2>1, <2>2
<1>2. a * w \in Nat /\ b * w \in Nat
  OBVIOUS
<1>3. a < b => a * w + w <= b * w
  BY <1>1
<1>4. b < a => b * w + w <= a * w
  BY <1>1
<1> DEFINE aw == a * w
           bw == b * w
<1> HIDE DEF aw, bw
<1>5. /\ aw \in Nat /\ bw \in Nat
      /\ a < b => aw + w <= bw
      /\ b < a => bw + w <= aw
      /\ a = b => aw = bw
  BY <1>2, <1>3, <1>4 DEF aw, bw
<1>6. /\ aw + x \in Nat
      /\ a < b => aw + x < bw + y
      /\ aw + x = bw + y => a = b /\ x = y
  BY <1>5
<1> QED
  BY <1>6 DEF aw, bw

\* Two points with one number are the same.
LEMMA PositionsDiffer ==
    ASSUME conf \in Configs, NEW p \in Points, NEW q \in Points
    PROVE  /\ Position(p) \in Nat
           /\ Position(p) = Position(q) => p = q
<1>1. /\ p.epoch \in Nat /\ q.epoch \in Nat
      /\ p.measurement \in 0..(conf.measurements - 1) /\ q.measurement \in 0..(conf.measurements - 1)
      /\ p.generator \in 0..(conf.hosts - 1) /\ q.generator \in 0..(conf.hosts - 1)
  BY DEF Points
<1>2. /\ Row(p.epoch, p.measurement) \in Nat /\ Row(q.epoch, q.measurement) \in Nat
      /\ Row(p.epoch, p.measurement) = Row(q.epoch, q.measurement)
             => p.epoch = q.epoch /\ p.measurement = q.measurement
  <2>1. conf.measurements \in Nat \ {0}
    BY FlagTypes
  <2>2. \A a, b \in Nat, x, y \in 0..(conf.measurements - 1) :
            /\ Row(a, x) \in Nat
            /\ Row(a, x) = Row(b, y) => a = b /\ x = y
    BY <2>1, TwoDigits DEF Row
  <2> QED
    BY <1>1, <2>2
<1>3. /\ Position(p) \in Nat
      /\ Position(p) = Position(q)
             => /\ Row(p.epoch, p.measurement) = Row(q.epoch, q.measurement)
                /\ p.generator = q.generator
  <2>1. conf.hosts \in Nat \ {0}
    BY FlagTypes
  <2>2. \A a, b \in Nat, x, y \in 0..(conf.hosts - 1) :
            /\ a * conf.hosts + x \in Nat
            /\ a * conf.hosts + x = b * conf.hosts + y => a = b /\ x = y
    BY <2>1, TwoDigits
  <2> DEFINE number(a, x) == a * conf.hosts + x
  <2>3. \A a, b \in Nat, x, y \in 0..(conf.hosts - 1) :
            number(a, x) \in Nat /\ (number(a, x) = number(b, y) => a = b /\ x = y)
    BY <2>2
  <2>4. /\ Position(p) = number(Row(p.epoch, p.measurement), p.generator)
        /\ Position(q) = number(Row(q.epoch, q.measurement), q.generator)
    BY DEF Position
  <2> HIDE DEF number
  <2> QED
    BY <1>1, <1>2, <2>3, <2>4
<1>4. p.epoch = q.epoch /\ p.measurement = q.measurement /\ p.generator = q.generator => p = q
  BY DEF Points
<1> QED
  BY <1>2, <1>3, <1>4

\* The point made next has the next number.
LEMMA NextIsMade ==
    ASSUME BaseTypes, BaseRuns
    PROVE  /\ NextPoint \in Points
           /\ Position(NextPoint) = made
           /\ NextReports <=> Reports(NextPoint)
           /\ NextPoint.epoch \in {epoch, epoch + 1}
<1> DEFINE M == conf.measurements
           H == conf.hosts
<1>1. M \in Nat \ {0} /\ H \in Nat \ {0}
  BY FlagTypes DEF BaseTypes
<1>2. /\ made \in Nat /\ epoch \in Nat /\ measurement \in 0..(M - 1) /\ generator \in 0..H
      /\ made = Row(epoch, measurement) * H + generator
  BY DEF BaseTypes, BaseRuns
<1>3. Row(epoch, measurement) \in Nat
  BY <1>1, <1>2, TwoDigits DEF Row
<1>4. NextPoint \in Points
  BY <1>1, <1>2 DEF NextPoint, Points, GeneratorsDone, EpochDone
<1>5. CASE ~GeneratorsDone
  <2>1. /\ NextPoint = [epoch |-> epoch, measurement |-> measurement, generator |-> generator]
        /\ NextReporting = reporting
    BY <1>5 DEF NextPoint, EpochDone, NextReporting
  <2> QED
    BY <1>2, <1>4, <2>1 DEF Position, NextReports, Reports, BaseRuns
<1>6. CASE GeneratorsDone /\ ~EpochDone
  <2>1. /\ NextPoint = [epoch |-> epoch, measurement |-> measurement + 1, generator |-> 0]
        /\ NextReporting = reporting
    BY <1>6 DEF NextPoint, NextReporting
  <2>2. Row(epoch, measurement + 1) = Row(epoch, measurement) + 1
    BY <1>1, <1>2 DEF Row
  <2>3. (Row(epoch, measurement) + 1) * H + 0 = Row(epoch, measurement) * H + H
    BY <1>1, <1>3
  <2> QED
    BY <1>2, <1>4, <1>6, <2>1, <2>2, <2>3
       DEF Position, NextReports, Reports, BaseRuns, GeneratorsDone
<1>7. CASE EpochDone
  <2>1. /\ NextPoint = [epoch |-> epoch + 1, measurement |-> 0, generator |-> 0]
        /\ NextReporting = ReportingIn(epoch + 1)
    BY <1>7 DEF NextPoint, NextReporting, EpochDone
  <2>2. Row(epoch + 1, 0) = Row(epoch, measurement) + 1
    <3>1. measurement = M - 1
      BY <1>1, <1>2, <1>7 DEF EpochDone
    <3> DEFINE em == epoch * M
    <3>2. em \in Nat /\ (epoch + 1) * M = em + M
      BY <1>1, <1>2
    <3>3. Row(epoch + 1, 0) = (epoch + 1) * M + 0 /\ Row(epoch, measurement) = em + (M - 1)
      BY <3>1 DEF Row
    <3> HIDE DEF em
    <3> QED
      BY <1>1, <3>2, <3>3
  <2>3. (Row(epoch, measurement) + 1) * H + 0 = Row(epoch, measurement) * H + H
    BY <1>1, <1>3
  <2>4. Position(NextPoint) = made
    BY <1>2, <1>7, <2>1, <2>2, <2>3 DEF Position, EpochDone, GeneratorsDone
  <2>5. epoch + 1 # 0
    BY <1>2
  <2> QED
    BY <1>4, <2>1, <2>4, <2>5 DEF NextReports, Reports
<1> QED
  BY <1>5, <1>6, <1>7 DEF EpochDone

\* The points before the n-th that their generators report.
Reported(n) == {p \in Points : Position(p) < n /\ Reports(p)}

\* Points made are of the epochs up to the present one.
LEMMA PastPoints ==
    ASSUME conf \in Configs, NEW e \in Nat, NEW m \in 0..(conf.measurements - 1),
           NEW g \in 0..conf.hosts, NEW p \in Points,
           Position(p) < Row(e, m) * conf.hosts + g
    PROVE  p.epoch \in 0..e
<1> DEFINE H == conf.hosts
           r == Row(e, m)
           pr == Row(p.epoch, p.measurement)
<1>1. /\ p.epoch \in Nat /\ p.measurement \in 0..(conf.measurements - 1)
      /\ p.generator \in 0..(H - 1) /\ H \in Nat \ {0} /\ conf.measurements \in Nat \ {0}
  BY FlagTypes DEF Points
<1>2. r \in Nat /\ pr \in Nat /\ (e < p.epoch => r < pr)
  BY <1>1, TwoDigits DEF Row
<1>3. Position(p) = pr * H + p.generator
  BY DEF Position
<1> HIDE DEF H, r, pr
<1>4. H - 1 \in 0..(H - 1)
  BY <1>1
<1>5. r < pr => r * H + (H - 1) < pr * H + p.generator
  BY <1>1, <1>2, <1>4, TwoDigits
<1>6. r * H \in Nat /\ pr * H \in Nat
  BY <1>1, <1>2
<1>7. pr * H + p.generator < r * H + g /\ g \in 0..H
  BY <1>3 DEF H, r
<1>8. ~(r < pr)
  <2> DEFINE rh == r * H
             ph == pr * H
  <2>1. /\ rh \in Nat /\ ph \in Nat /\ ph + p.generator < rh + g
        /\ r < pr => rh + (H - 1) < ph + p.generator
    BY <1>5, <1>6, <1>7
  <2> HIDE DEF rh, ph
  <2> QED
    BY <1>1, <1>7, <2>1
<1> QED
  BY <1>1, <1>2, <1>8

LEMMA ReportedAre ==
    ASSUME conf \in Configs, NEW e \in Nat, NEW m \in 0..(conf.measurements - 1),
           NEW g \in 0..conf.hosts, NEW n, n = Row(e, m) * conf.hosts + g
    PROVE  {p \in [epoch : 0..e, measurement : 0..(conf.measurements - 1),
                   generator : 0..(conf.hosts - 1)] :
               Position(p) < n /\ Reports(p)} = Reported(n)
<1> DEFINE early == [epoch : 0..e, measurement : 0..(conf.measurements - 1),
                     generator : 0..(conf.hosts - 1)]
<1>1. early \subseteq Points
  BY DEF Points
<1>2. \A p \in Points : p.epoch \in 0..e => p \in early
  BY DEF Points
<1>3. \A p \in Points : Position(p) < n => p.epoch \in 0..e
  BY PastPoints
<1> QED
  BY <1>1, <1>2, <1>3 DEF Reported

LEMMA ReportedSoFar ==
    ASSUME BaseTypes, BaseRuns
    PROVE  ReportedPoints = Reported(made)
<1>1. ReportedPoints = {p \in [epoch : 0..epoch, measurement : 0..(conf.measurements - 1),
                               generator : 0..(conf.hosts - 1)] :
                           Position(p) < made /\ Reports(p)}
  BY DEF ReportedPoints, Position, Row, Reports
<1> QED
  BY <1>1, ReportedAre DEF BaseTypes, BaseRuns

\* The base goes on to the next point.
LEMMA BaseGoesOn ==
    ASSUME BaseTypes, BaseRuns, BaseNext, conf' = conf
    PROVE  /\ BaseTypes' /\ BaseRuns'
           /\ NextPoint \in Points /\ NextPoint \notin ReportedPoints
           /\ ReportedPoints' = ReportedPoints \cup (IF NextReports THEN {NextPoint} ELSE {})
<1> DEFINE q == NextPoint
<1>1. /\ q \in Points /\ Position(q) = made
      /\ NextReports <=> Reports(q)
  BY NextIsMade
<1>2. /\ made' = made + 1 /\ generator' = q.generator + 1 /\ measurement' = q.measurement
      /\ epoch' = q.epoch /\ reporting' = NextReporting
  BY DEF BaseNext
<1>3. reporting' = IF epoch' = 0 THEN conf.init ELSE ReportingIn(epoch')
  <2>1. epoch \in Nat
    BY DEF BaseTypes
  <2> QED
    BY <1>2, <2>1 DEF NextReporting, NextPoint, EpochDone, BaseRuns
<1> HIDE DEF q
<1>4. /\ conf \in Configs /\ conf.hosts \in Nat \ {0} /\ made \in Nat
  BY FlagTypes DEF BaseTypes
<1>5. /\ epoch' \in Nat /\ measurement' \in 0..(conf.measurements - 1)
      /\ generator' \in 0..conf.hosts /\ made' \in Nat
  BY <1>1, <1>2, <1>4 DEF Points
<1>6. made' = Row(epoch', measurement') * conf.hosts + generator'
  <2> DEFINE rh == Row(q.epoch, q.measurement) * conf.hosts
  <2>1. made = rh + q.generator
    BY <1>1 DEF Position
  <2>2. rh \in Nat
    <3>1. q.epoch \in Nat /\ q.measurement \in Nat /\ conf.measurements \in Nat
      BY <1>1, <1>4, FlagTypes DEF Points
    <3>2. Row(q.epoch, q.measurement) \in Nat
      BY <3>1 DEF Row
    <3> QED
      BY <1>4, <3>2
  <2> HIDE DEF rh
  <2>3. made' = rh + generator'
    <3>1. q.generator \in Nat
      BY <1>1 DEF Points
    <3> QED
      BY <1>2, <2>1, <2>2, <3>1
  <2> QED
    BY <1>2, <2>3 DEF rh
<1>7. BaseTypes'
  BY <1>4, <1>5 DEF BaseTypes
<1>8. BaseRuns'
  BY <1>3, <1>6 DEF BaseRuns, Row, ReportingIn
<1>9. ReportedPoints = Reported(made)
  BY ReportedSoFar
<1>10. ReportedPoints' = Reported(made')
  <2>1. ReportedPoints' = {p \in [epoch : 0..epoch', measurement : 0..(conf.measurements - 1),
                                  generator : 0..(conf.hosts - 1)] :
                              Position(p) < made' /\ Reports(p)}
    BY DEF ReportedPoints, Position, Row, Reports, ReportingIn
  <2> QED
    BY <1>4, <1>5, <1>6, <2>1, ReportedAre
<1>11. \A p \in Points : Position(p) < made + 1 <=> Position(p) < made \/ p = q
  <2> TAKE p \in Points
  <2>1. Position(p) \in Nat /\ (Position(p) = made => p = q)
    BY <1>1, <1>4, PositionsDiffer
  <2> QED
    BY <1>1, <1>4, <2>1
<1>12. q \notin Reported(made)
  BY <1>1, <1>4 DEF Reported
<1>13. Reported(made') = Reported(made) \cup (IF NextReports THEN {q} ELSE {})
  BY <1>1, <1>2, <1>11 DEF Reported
<1> QED
  BY <1>1, <1>7, <1>8, <1>9, <1>10, <1>12, <1>13 DEF q
-----------------------------------------------------------------------------
(* Batches held back. *)

HeldIn(bs) == UNION {ToSet(bs[i]) : i \in DOMAIN bs}

BatchesOnce(bs) ==
    /\ \A i \in DOMAIN bs : IsInjective(bs[i])
    /\ \A i, j \in DOMAIN bs : i # j => ToSet(bs[i]) \cap ToSet(bs[j]) = {}

\* One more is held back.
LEMMA HoldBatch ==
    ASSUME NEW S, NEW bs \in Seq(Seq(S)), NEW b \in Seq(S), BatchesOnce(bs),
           IsInjective(b), ToSet(b) \cap HeldIn(bs) = {}
    PROVE  /\ Append(bs, b) \in Seq(Seq(S))
           /\ BatchesOnce(Append(bs, b))
           /\ HeldIn(Append(bs, b)) = HeldIn(bs) \cup ToSet(b)
<1> DEFINE n == Len(bs)
           cs == Append(bs, b)
<1>1. /\ n \in Nat /\ DOMAIN bs = 1..n /\ cs \in Seq(Seq(S))
      /\ DOMAIN cs = 1..(n + 1) /\ cs[n + 1] = b
  OBVIOUS
<1>2. \A i \in 1..n : cs[i] = bs[i]
  OBVIOUS
<1>3. \A i \in 1..(n + 1) : i \in 1..n \/ i = n + 1
  BY <1>1
<1>4. 1..n \subseteq 1..(n + 1) /\ n + 1 \in 1..(n + 1) /\ n + 1 \notin 1..n
  BY <1>1
<1> HIDE DEF n, cs
<1>5. \A i \in 1..n : ToSet(b) \cap ToSet(bs[i]) = {}
  BY <1>1 DEF HeldIn
<1>6. \A i \in 1..(n + 1) : IsInjective(cs[i])
  BY <1>1, <1>2, <1>3 DEF BatchesOnce
<1>7. \A i, j \in 1..(n + 1) : i # j => ToSet(cs[i]) \cap ToSet(cs[j]) = {}
  <2> SUFFICES ASSUME NEW i \in 1..(n + 1), NEW j \in 1..(n + 1), i # j
               PROVE  ToSet(cs[i]) \cap ToSet(cs[j]) = {}
    OBVIOUS
  <2>1. CASE i \in 1..n /\ j \in 1..n
    BY <1>1, <1>2, <2>1 DEF BatchesOnce
  <2>2. CASE i \in 1..n /\ j = n + 1
    BY <1>1, <1>2, <1>5, <2>2
  <2>3. CASE i = n + 1 /\ j \in 1..n
    BY <1>1, <1>2, <1>5, <2>3
  <2> QED
    BY <1>3, <2>1, <2>2, <2>3
<1>8. HeldIn(cs) = HeldIn(bs) \cup ToSet(b)
  <2>1. HeldIn(cs) = UNION {ToSet(cs[i]) : i \in 1..(n + 1)}
        /\ HeldIn(bs) = UNION {ToSet(bs[i]) : i \in 1..n}
    BY <1>1 DEF HeldIn
  <2>2. ASSUME NEW x \in HeldIn(cs) PROVE x \in HeldIn(bs) \cup ToSet(b)
    BY <1>1, <1>2, <1>3, <2>1, <2>2
  <2>3. ASSUME NEW x \in HeldIn(bs) PROVE x \in HeldIn(cs)
    BY <1>2, <1>4, <2>1, <2>3
  <2>4. ASSUME NEW x \in ToSet(b) PROVE x \in HeldIn(cs)
    BY <1>1, <1>4, <2>1, <2>4
  <2> QED
    BY <2>2, <2>3, <2>4
<1> QED
  BY <1>1, <1>6, <1>7, <1>8 DEF BatchesOnce, cs

\* The first of them is taken.
LEMMA TakeBatch ==
    ASSUME NEW S, NEW bs \in Seq(Seq(S)), bs # <<>>, BatchesOnce(bs)
    PROVE  /\ Head(bs) \in Seq(S) /\ Tail(bs) \in Seq(Seq(S))
           /\ IsInjective(Head(bs)) /\ BatchesOnce(Tail(bs))
           /\ ToSet(Head(bs)) \cup HeldIn(Tail(bs)) = HeldIn(bs)
           /\ ToSet(Head(bs)) \cap HeldIn(Tail(bs)) = {}
<1> DEFINE n == Len(bs)
           h == Head(bs)
           t == Tail(bs)
<1>1. /\ n \in Nat \ {0} /\ DOMAIN bs = 1..n /\ h = bs[1] /\ h \in Seq(S)
      /\ t \in Seq(Seq(S)) /\ DOMAIN t = 1..(n - 1)
  OBVIOUS
<1>2. \A i \in 1..(n - 1) : t[i] = bs[i + 1]
  OBVIOUS
<1> HIDE DEF n, h, t
<1>3. \A i \in 1..(n - 1) : i + 1 \in 1..n /\ i + 1 # 1
  BY <1>1
<1>4. \A i \in 1..n : i = 1 \/ (i - 1 \in 1..(n - 1) /\ (i - 1) + 1 = i)
  BY <1>1
<1>5. 1 \in 1..n
  BY <1>1
<1>6. IsInjective(h)
  BY <1>1, <1>5 DEF BatchesOnce
<1>7. BatchesOnce(t)
  <2>1. \A i \in 1..(n - 1) : IsInjective(t[i])
    BY <1>1, <1>2, <1>3 DEF BatchesOnce
  <2>2. ASSUME NEW i \in 1..(n - 1), NEW j \in 1..(n - 1), i # j
        PROVE  ToSet(t[i]) \cap ToSet(t[j]) = {}
    <3>1. i + 1 # j + 1
      BY <1>1, <2>2
    <3> QED
      BY <1>1, <1>2, <1>3, <3>1 DEF BatchesOnce
  <2> QED
    BY <1>1, <2>1, <2>2 DEF BatchesOnce
<1>8. HeldIn(t) = UNION {ToSet(bs[i + 1]) : i \in 1..(n - 1)}
      /\ HeldIn(bs) = UNION {ToSet(bs[i]) : i \in 1..n}
  BY <1>1, <1>2 DEF HeldIn
<1>9. ASSUME NEW x \in ToSet(h) PROVE x \in HeldIn(bs) /\ x \notin HeldIn(t)
  <2>1. x \in HeldIn(bs)
    BY <1>1, <1>5, <1>8, <1>9
  <2>2. \A i \in 1..(n - 1) : ToSet(h) \cap ToSet(bs[i + 1]) = {}
    BY <1>1, <1>3, <1>5 DEF BatchesOnce
  <2> QED
    BY <1>8, <1>9, <2>1, <2>2
<1>10. ASSUME NEW x \in HeldIn(t) PROVE x \in HeldIn(bs)
  BY <1>3, <1>8, <1>10
<1>11. ASSUME NEW x \in HeldIn(bs) PROVE x \in ToSet(h) \cup HeldIn(t)
  <2>1. PICK i \in 1..n : x \in ToSet(bs[i])
    BY <1>8, <1>11
  <2>2. CASE i = 1
    BY <1>1, <2>1, <2>2
  <2>3. CASE i - 1 \in 1..(n - 1) /\ (i - 1) + 1 = i
    BY <1>8, <2>1, <2>3
  <2> QED
    BY <1>4, <2>2, <2>3
<1> QED
  BY <1>1, <1>6, <1>7, <1>9, <1>10, <1>11 DEF h, t
-----------------------------------------------------------------------------
(* The invariant. *)

Jobs == [kind : {"idle", "flush", "generate"}, late : BOOLEAN, batch : Seq(Points),
         slot : Nat, again : BOOLEAN, previous : Nat]

PlaceTypes ==
    /\ emitted \in Seq(Points) /\ currBatch \in Seq(Points)
    /\ outOfOrderEntries \in Seq(Points) /\ outOfOrderBatches \in Seq(Seq(Points))
    /\ job \in Jobs

\* There is no current batch while the next is made, and enough entries to insert.
JobFits ==
    /\ job.kind # "idle" => currBatch = <<>>
    /\ job.kind # "generate" => job.batch = <<>>
    /\ job.kind = "generate" => job.previous <= Len(outOfOrderEntries)

\* Five places and the points dropped have no point in common, and R between them.
Split(E, C, J, O, B, X, R) ==
    /\ C \cap E = {}
    /\ J \cap (C \cup E) = {}
    /\ O \cap (J \cup C \cup E) = {}
    /\ B \cap (O \cup J \cup C \cup E) = {}
    /\ X \cap (B \cup O \cup J \cup C \cup E) = {}
    /\ X \cup B \cup O \cup J \cup C \cup E = R

NoneTwice ==
    /\ IsInjective(emitted) /\ IsInjective(currBatch)
    /\ IsInjective(job.batch) /\ IsInjective(outOfOrderEntries)
    /\ BatchesOnce(outOfOrderBatches)

SplitUp ==
    Split(ToSet(emitted), ToSet(currBatch), ToSet(job.batch), ToSet(outOfOrderEntries),
          HeldIn(outOfOrderBatches), missing, ReportedPoints)

Once == PlaceTypes /\ JobFits /\ NoneTwice /\ SplitUp

IInv == BaseTypes /\ BaseRuns /\ Once

LEMMA PointsStay == conf' = conf => Points' = Points
BY DEF Points

\* Steps that make no point.
LEMMA BaseRests ==
    ASSUME BaseTypes, BaseRuns, UNCHANGED <<conf, baseVars>>
    PROVE  BaseTypes' /\ BaseRuns' /\ ReportedPoints' = ReportedPoints
<1>1. BaseTypes' /\ BaseRuns'
  BY DEF baseVars, BaseTypes, BaseRuns, Row, ReportingIn
<1>2. ReportedPoints' = ReportedPoints
  BY DEF baseVars, ReportedPoints, ReportingIn
<1> QED
  BY <1>1, <1>2

\* What is the same for all places.
LEMMA PlacesStay ==
    ASSUME Once, UNCHANGED <<conf, emitted, iotVars>>, ReportedPoints' = ReportedPoints
    PROVE  Once'
<1>1. PlaceTypes'
  BY PointsStay DEF Once, PlaceTypes, Jobs, iotVars
<1>2. JobFits' /\ NoneTwice'
  BY DEF Once, JobFits, NoneTwice, BatchesOnce, iotVars
<1>3. SplitUp'
  BY DEF Once, SplitUp, Split, HeldIn, iotVars
<1> QED
  BY <1>1, <1>2, <1>3 DEF Once

\* A round of runSimulator with a devops simulator.
LEMMA DevopsNextKeeps ==
    ASSUME IInv, DevopsNext
    PROVE  IInv'
<1>1. BaseNext /\ conf' = conf /\ UNCHANGED iotVars
      /\ emitted' = IF NextReports THEN Append(emitted, NextPoint) ELSE emitted
  BY DEF DevopsNext, Output
<1>2. /\ BaseTypes' /\ BaseRuns'
      /\ NextPoint \in Points /\ NextPoint \notin ReportedPoints
      /\ ReportedPoints' = ReportedPoints \cup (IF NextReports THEN {NextPoint} ELSE {})
  BY <1>1, BaseGoesOn DEF IInv
<1>3. CASE ~NextReports
  <2>1. ReportedPoints' = ReportedPoints /\ emitted' = emitted
    BY <1>1, <1>2, <1>3
  <2> QED
    BY <1>1, <1>2, <2>1, PlacesStay DEF IInv
<1>4. CASE NextReports
  <2>1. emitted \in Seq(Points) /\ IsInjective(emitted) /\ NextPoint \notin ToSet(emitted)
    BY <1>2 DEF IInv, Once, PlaceTypes, NoneTwice, SplitUp, Split
  <2>2. /\ emitted' \in Seq(Points) /\ IsInjective(emitted')
        /\ ToSet(emitted') = ToSet(emitted) \cup {NextPoint}
    BY <1>1, <1>2, <1>4, <2>1, AppendNew
  <2>3. PlaceTypes'
    BY <1>1, <2>2, PointsStay DEF IInv, Once, PlaceTypes, Jobs, iotVars
  <2>4. JobFits' /\ NoneTwice'
    BY <1>1, <2>2 DEF IInv, Once, JobFits, NoneTwice, BatchesOnce, iotVars
  <2>5. SplitUp'
    <3>1. Split(ToSet(emitted) \cup {NextPoint}, ToSet(currBatch), ToSet(job.batch),
                ToSet(outOfOrderEntries), HeldIn(outOfOrderBatches), missing,
                ReportedPoints \cup {NextPoint})
      BY <1>2 DEF IInv, Once, SplitUp, Split
    <3>2. ReportedPoints' = ReportedPoints \cup {NextPoint}
      BY <1>2, <1>4
    <3>3. UNCHANGED <<currBatch, job, outOfOrderEntries, outOfOrderBatches, missing>>
      BY <1>1 DEF iotVars
    <3> QED
      BY <2>2, <3>1, <3>2, <3>3 DEF SplitUp
  <2> QED
    BY <1>2, <2>3, <2>4, <2>5 DEF IInv, Once
<1> QED
  BY <1>3, <1>4

\* A round with the IoT simulator while its batch lasts.
LEMMA IoTNextKeeps ==
    ASSUME IInv, IoTNext
    PROVE  IInv'
<1> DEFINE p == Head(currBatch)
<1>1. /\ currBatch # <<>> /\ currBatch' = Tail(currBatch) /\ emitted' = Append(emitted, p)
      /\ job.kind = "idle"
      /\ UNCHANGED <<conf, baseVars, outOfOrderBatches, outOfOrderEntries, job, missing>>
  BY DEF IoTNext, Output
<1>2. BaseTypes' /\ BaseRuns' /\ ReportedPoints' = ReportedPoints
  BY <1>1, BaseRests DEF IInv
<1>3. currBatch \in Seq(Points) /\ IsInjective(currBatch)
      /\ emitted \in Seq(Points) /\ IsInjective(emitted)
  BY DEF IInv, Once, PlaceTypes, NoneTwice
<1>4. /\ p \in Points /\ currBatch' \in Seq(Points) /\ IsInjective(currBatch')
      /\ p \in ToSet(currBatch) /\ ToSet(currBatch') = ToSet(currBatch) \ {p}
  BY <1>1, <1>3, TakeFirst
<1> HIDE DEF p
<1>5. p \notin ToSet(emitted)
  BY <1>4 DEF IInv, Once, SplitUp, Split
<1>6. /\ emitted' \in Seq(Points) /\ IsInjective(emitted')
      /\ ToSet(emitted') = ToSet(emitted) \cup {p}
  BY <1>1, <1>3, <1>4, <1>5, AppendNew
<1>7. PlaceTypes'
  BY <1>1, <1>4, <1>6, PointsStay DEF IInv, Once, PlaceTypes, Jobs
<1>8. JobFits' /\ NoneTwice'
  BY <1>1, <1>4, <1>6 DEF IInv, Once, JobFits, NoneTwice, BatchesOnce
<1>9. SplitUp'
  <2>1. Split(ToSet(emitted) \cup {p}, ToSet(currBatch) \ {p}, ToSet(job.batch),
              ToSet(outOfOrderEntries), HeldIn(outOfOrderBatches), missing, ReportedPoints)
    BY <1>4 DEF IInv, Once, SplitUp, Split
  <2> QED
    BY <1>1, <1>2, <1>4, <1>6, <2>1 DEF SplitUp
<1> QED
  BY <1>2, <1>7, <1>8, <1>9 DEF IInv, Once

\* A batch held back becomes the current one (batchPending, bc.InsertPrevious).
LEMMA InsertedBatchKeeps ==
    ASSUME IInv, currBatch = <<>>, outOfOrderBatches # <<>>, job.kind = "idle",
           currBatch' = Head(outOfOrderBatches), outOfOrderBatches' = Tail(outOfOrderBatches),
           UNCHANGED <<conf, baseVars, outOfOrderEntries, job, missing, emitted>>
    PROVE  IInv'
<1>1. BaseTypes' /\ BaseRuns' /\ ReportedPoints' = ReportedPoints
  BY BaseRests DEF IInv
<1>2. outOfOrderBatches \in Seq(Seq(Points)) /\ BatchesOnce(outOfOrderBatches)
  BY DEF IInv, Once, PlaceTypes, NoneTwice
<1>3. /\ currBatch' \in Seq(Points) /\ outOfOrderBatches' \in Seq(Seq(Points))
      /\ IsInjective(currBatch') /\ BatchesOnce(outOfOrderBatches')
      /\ ToSet(currBatch') \cup HeldIn(outOfOrderBatches') = HeldIn(outOfOrderBatches)
      /\ ToSet(currBatch') \cap HeldIn(outOfOrderBatches') = {}
  BY <1>2, TakeBatch
<1>4. PlaceTypes'
  BY <1>3, PointsStay DEF IInv, Once, PlaceTypes, Jobs
<1>5. JobFits' /\ NoneTwice'
  BY <1>3 DEF IInv, Once, JobFits, NoneTwice, BatchesOnce
<1>6. SplitUp'
  <2>1. ToSet(currBatch) = {}
    BY DEF ToSet
  <2>2. Split(ToSet(emitted), ToSet(currBatch'), ToSet(job.batch), ToSet(outOfOrderEntries),
              HeldIn(outOfOrderBatches'), missing, ReportedPoints)
    BY <1>3, <2>1 DEF IInv, Once, SplitUp, Split
  <2> QED
    BY <1>1, <2>2 DEF SplitUp, HeldIn
<1> QED
  BY <1>1, <1>4, <1>5, <1>6 DEF IInv, Once

\* Entries held back become the current batch when the base has finished (batchPending).
LEMMA PendingEntriesKeep ==
    ASSUME IInv, currBatch = <<>>, job.kind = "idle",
           currBatch' = SubSeq(outOfOrderEntries, 1, PendingBatchLen),
           outOfOrderEntries' = RestOfEntries(PendingBatchLen),
           UNCHANGED <<conf, baseVars, outOfOrderBatches, job, missing, emitted>>
    PROVE  IInv'
<1>1. BaseTypes' /\ BaseRuns' /\ ReportedPoints' = ReportedPoints
  BY BaseRests DEF IInv
<1>2. outOfOrderEntries \in Seq(Points) /\ IsInjective(outOfOrderEntries)
  BY DEF IInv, Once, PlaceTypes, NoneTwice
<1>3. PendingBatchLen \in 0..Len(outOfOrderEntries)
  <2>1. BatchSize \in Nat /\ Len(outOfOrderEntries) \in Nat
    BY <1>2, FlagTypes DEF IInv, BaseTypes
  <2> QED
    BY <2>1 DEF PendingBatchLen
<1>4. /\ currBatch' \in Seq(Points) /\ outOfOrderEntries' \in Seq(Points)
      /\ IsInjective(currBatch') /\ IsInjective(outOfOrderEntries')
      /\ ToSet(currBatch') \cup ToSet(outOfOrderEntries') = ToSet(outOfOrderEntries)
      /\ ToSet(currBatch') \cap ToSet(outOfOrderEntries') = {}
  BY <1>2, <1>3, CutInTwo DEF RestOfEntries
<1>5. PlaceTypes'
  BY <1>4, PointsStay DEF IInv, Once, PlaceTypes, Jobs
<1>6. JobFits' /\ NoneTwice'
  BY <1>4 DEF IInv, Once, JobFits, NoneTwice, BatchesOnce
<1>7. SplitUp'
  <2>1. ToSet(currBatch) = {}
    BY DEF ToSet
  <2>2. Split(ToSet(emitted), ToSet(currBatch'), ToSet(job.batch), ToSet(outOfOrderEntries'),
              HeldIn(outOfOrderBatches), missing, ReportedPoints)
    BY <1>4, <2>1 DEF IInv, Once, SplitUp, Split
  <2> QED
    BY <1>1, <2>2 DEF SplitUp, HeldIn
<1> QED
  BY <1>1, <1>5, <1>6, <1>7 DEF IInv, Once

\* A new batch is started; nothing is in it.
LEMMA StartBatchKeeps ==
    ASSUME IInv, StartBatch
    PROVE  IInv'
<1>1. /\ currBatch = <<>> /\ job.kind = "idle"
      /\ UNCHANGED <<conf, baseVars, emitted, currBatch, outOfOrderBatches, outOfOrderEntries, missing>>
  BY DEF StartBatch, NeedsBatch, outVars
<1>2. BaseTypes' /\ BaseRuns' /\ ReportedPoints' = ReportedPoints
  BY <1>1, BaseRests DEF IInv
<1>3. Len(outOfOrderEntries) \in Nat
  BY DEF IInv, Once, PlaceTypes
<1>4. PICK kind \in {"flush", "generate"}, late \in BOOLEAN, previous \in {0, Len(outOfOrderEntries)} :
          job' = [kind |-> kind, late |-> late, batch |-> <<>>, slot |-> 0, again |-> FALSE,
                  previous |-> previous]
  BY DEF StartBatch, Idle
<1>5. job' \in Jobs
  <2>1. <<>> \in Seq(Points) /\ 0 \in Nat
    OBVIOUS
  <2> QED
    BY <1>3, <1>4, <2>1 DEF Jobs
<1>6. PlaceTypes'
  BY <1>1, <1>5, PointsStay DEF IInv, Once, PlaceTypes, Jobs
<1>7. job.batch = <<>> /\ job'.batch = job.batch
  BY <1>1, <1>4 DEF IInv, Once, JobFits
<1>8. JobFits'
  BY <1>1, <1>3, <1>4 DEF JobFits
<1>9. NoneTwice'
  BY <1>1, <1>7 DEF IInv, Once, NoneTwice, BatchesOnce
<1>10. SplitUp'
  BY <1>1, <1>2, <1>7 DEF IInv, Once, SplitUp, HeldIn
<1> QED
  BY <1>2, <1>6, <1>8, <1>9, <1>10 DEF IInv, Once

\* A point is dropped with its batch.
LEMMA FlushEntryKeeps ==
    ASSUME IInv, FlushEntry
    PROVE  IInv'
<1>1. /\ job.kind = "flush" /\ BaseNext /\ conf' = conf
      /\ missing' = IF NextReports THEN missing \cup {NextPoint} ELSE missing
      /\ UNCHANGED <<emitted, currBatch, outOfOrderBatches, outOfOrderEntries>>
  BY DEF FlushEntry, outVars
<1>2. /\ BaseTypes' /\ BaseRuns'
      /\ NextPoint \in Points /\ NextPoint \notin ReportedPoints
      /\ ReportedPoints' = ReportedPoints \cup (IF NextReports THEN {NextPoint} ELSE {})
  BY <1>1, BaseGoesOn DEF IInv
<1>3. job \in Jobs /\ job.batch = <<>> /\ currBatch = <<>>
  BY <1>1 DEF IInv, Once, PlaceTypes, JobFits
<1>4. job' \in Jobs /\ job'.kind # "generate" /\ job'.batch = <<>>
  <2>1. Idle \in Jobs /\ Idle.kind = "idle" /\ Idle.batch = <<>>
    <3>1. <<>> \in Seq(Points) /\ 0 \in Nat
      OBVIOUS
    <3> QED
      BY <3>1 DEF Idle, Jobs
  <2>2. CASE job' = Idle
    BY <2>1, <2>2
  <2>3. CASE job' = [job EXCEPT !.slot = @ + 1]
    BY <1>1, <1>3, <2>3 DEF Jobs
  <2> QED
    BY <2>2, <2>3 DEF FlushEntry
<1>5. PlaceTypes'
  BY <1>1, <1>4, PointsStay DEF IInv, Once, PlaceTypes, Jobs
<1>6. JobFits' /\ NoneTwice'
  BY <1>1, <1>3, <1>4 DEF IInv, Once, JobFits, NoneTwice, BatchesOnce
<1>7. SplitUp'
  <2>1. Split(ToSet(emitted), ToSet(currBatch), ToSet(job.batch), ToSet(outOfOrderEntries),
              HeldIn(outOfOrderBatches), missing', ReportedPoints')
    BY <1>1, <1>2 DEF IInv, Once, SplitUp, Split
  <2> QED
    BY <1>1, <1>3, <1>4, <2>1 DEF SplitUp
<1> QED
  BY <1>2, <1>5, <1>6, <1>7 DEF IInv, Once

\* The generated batch becomes the current one, or is held back.
LEMMA DeliverBatchKeeps ==
    ASSUME IInv, job.kind = "generate", DeliverBatch, BaseTypes', BaseRuns',
           ReportedPoints' = ReportedPoints,
           UNCHANGED <<conf, emitted, outOfOrderEntries, missing>>
    PROVE  IInv'
<1>1. /\ currBatch = <<>> /\ job \in Jobs /\ job.batch \in Seq(Points) /\ IsInjective(job.batch)
      /\ outOfOrderBatches \in Seq(Seq(Points)) /\ BatchesOnce(outOfOrderBatches)
      /\ ToSet(job.batch) \cap HeldIn(outOfOrderBatches) = {}
  BY DEF IInv, Once, PlaceTypes, Jobs, JobFits, NoneTwice, SplitUp, Split
<1>2. job' \in Jobs /\ job'.kind = "idle" /\ job'.batch = <<>>
  <2>1. <<>> \in Seq(Points) /\ 0 \in Nat
    OBVIOUS
  <2> QED
    BY <2>1 DEF DeliverBatch, Idle, Jobs
<1>3. ToSet(<<>>) = {} /\ IsInjective(<<>>) /\ <<>> \in Seq(Points)
  BY DEF ToSet, IsInjective
<1>4. CASE job.late /\ job.batch # <<>>
  <2>1. currBatch' = <<>> /\ outOfOrderBatches' = Append(outOfOrderBatches, job.batch)
    BY <1>1, <1>4 DEF DeliverBatch
  <2>2. /\ outOfOrderBatches' \in Seq(Seq(Points)) /\ BatchesOnce(outOfOrderBatches')
        /\ HeldIn(outOfOrderBatches') = HeldIn(outOfOrderBatches) \cup ToSet(job.batch)
    BY <1>1, <2>1, HoldBatch
  <2>3. PlaceTypes'
    BY <1>2, <1>3, <2>1, <2>2, PointsStay DEF IInv, Once, PlaceTypes, Jobs
  <2>4. JobFits' /\ NoneTwice'
    BY <1>2, <1>3, <2>1, <2>2 DEF IInv, Once, JobFits, NoneTwice
  <2>5. SplitUp'
    <3>1. Split(ToSet(emitted), {}, {}, ToSet(outOfOrderEntries),
                HeldIn(outOfOrderBatches) \cup ToSet(job.batch), missing, ReportedPoints)
      BY <1>1, <1>3 DEF IInv, Once, SplitUp, Split
    <3> QED
      BY <1>2, <1>3, <2>1, <2>2, <3>1 DEF SplitUp
  <2> QED
    BY <2>3, <2>4, <2>5 DEF IInv, Once
<1>5. CASE ~(job.late /\ job.batch # <<>>)
  <2>1. currBatch' = job.batch /\ outOfOrderBatches' = outOfOrderBatches
    BY <1>1, <1>5 DEF DeliverBatch
  <2>2. PlaceTypes'
    BY <1>1, <1>2, <2>1, PointsStay DEF IInv, Once, PlaceTypes, Jobs
  <2>3. JobFits' /\ NoneTwice'
    BY <1>1, <1>2, <1>3, <2>1 DEF IInv, Once, JobFits, NoneTwice
  <2>4. SplitUp'
    <3>1. Split(ToSet(emitted), ToSet(job.batch), {}, ToSet(outOfOrderEntries),
                HeldIn(outOfOrderBatches), missing, ReportedPoints)
      BY <1>1, <1>3 DEF IInv, Once, SplitUp, Split
    <3> QED
      BY <1>2, <1>3, <2>1, <3>1 DEF SplitUp
  <2> QED
    BY <2>2, <2>3, <2>4 DEF IInv, Once
<1> QED
  BY <1>4, <1>5

\* What the configuration does with an entry p, taken from the base or from those held back.
LEMMA FateKeeps ==
    ASSUME IInv, job.kind = "generate", BaseTypes', BaseRuns',
           NEW p \in Points, NEW entries \in Seq(Points), NEW previous \in Nat,
           IsInjective(entries), p \notin ToSet(entries), previous <= Len(entries),
           Split(ToSet(emitted), ToSet(currBatch), ToSet(job.batch), ToSet(entries) \cup {p},
                 HeldIn(outOfOrderBatches), missing, ReportedPoints'),
           Fate(p, entries, previous),
           UNCHANGED <<conf, emitted, currBatch, outOfOrderBatches>>
    PROVE  IInv'
<1>1. /\ job \in Jobs /\ job.batch \in Seq(Points) /\ IsInjective(job.batch)
      /\ currBatch = <<>> /\ p \notin ToSet(job.batch) /\ job.slot \in Nat
  BY DEF IInv, Once, PlaceTypes, Jobs, JobFits, NoneTwice, Split
<1>2. /\ Append(entries, p) \in Seq(Points) /\ IsInjective(Append(entries, p))
      /\ ToSet(Append(entries, p)) = ToSet(entries) \cup {p}
      /\ Len(Append(entries, p)) = Len(entries) + 1 /\ Len(entries) \in Nat
  BY AppendNew
<1>3. ASSUME Kept(p, previous), outOfOrderEntries' = entries, missing' = missing PROVE IInv'
  <2> DEFINE b == Append(job.batch, p)
  <2>1. b \in Seq(Points) /\ IsInjective(b) /\ ToSet(b) = ToSet(job.batch) \cup {p}
    BY <1>1, AppendNew
  <2>2. job' = [job EXCEPT !.batch = b, !.slot = @ + 1, !.again = FALSE, !.previous = previous]
    BY <1>3 DEF Kept
  <2> HIDE DEF b
  <2>3. job' \in Jobs /\ job'.batch = b /\ job'.kind = "generate" /\ job'.previous = previous
    <3>1. job' = [kind |-> "generate", late |-> job.late, batch |-> b, slot |-> job.slot + 1,
                  again |-> FALSE, previous |-> previous]
      BY <1>1, <2>2 DEF Jobs
    <3>2. job.slot + 1 \in Nat /\ job.late \in BOOLEAN
      BY <1>1 DEF Jobs
    <3> QED
      BY <2>1, <3>1, <3>2 DEF Jobs
  <2>4. PlaceTypes'
    BY <1>3, <2>3, PointsStay DEF IInv, Once, PlaceTypes, Jobs
  <2>5. JobFits' /\ NoneTwice'
    BY <1>1, <1>3, <2>1, <2>3 DEF IInv, Once, JobFits, NoneTwice
  <2>6. SplitUp'
    <3>1. Split(ToSet(emitted), ToSet(currBatch), ToSet(job.batch) \cup {p}, ToSet(entries),
                HeldIn(outOfOrderBatches), missing, ReportedPoints')
      BY DEF Split
    <3> QED
      BY <1>3, <2>1, <2>3, <3>1 DEF SplitUp
  <2> QED
    BY <2>4, <2>5, <2>6 DEF IInv, Once
<1>4. ASSUME Skipped(previous),
             \/ outOfOrderEntries' = entries /\ missing' = missing \cup {p}
             \/ outOfOrderEntries' = Append(entries, p) /\ missing' = missing
      PROVE  IInv'
  <2>1. job' = [job EXCEPT !.slot = job.slot + 1, !.again = TRUE, !.previous = previous]
    BY <1>4 DEF Skipped, SlotAfterSkip
  <2>2. /\ job' \in Jobs /\ job'.batch = job.batch /\ job'.kind = "generate"
        /\ job'.previous = previous
    <3>1. job' = [kind |-> "generate", late |-> job.late, batch |-> job.batch,
                  slot |-> job.slot + 1, again |-> TRUE, previous |-> previous]
      BY <1>1, <2>1 DEF Jobs
    <3>2. job.slot + 1 \in Nat /\ job.late \in BOOLEAN
      BY <1>1 DEF Jobs
    <3> QED
      BY <1>1, <3>1, <3>2 DEF Jobs
  <2>3. /\ outOfOrderEntries' \in Seq(Points) /\ IsInjective(outOfOrderEntries')
        /\ previous <= Len(outOfOrderEntries')
    <3> DEFINE longer == Append(entries, p)
    <3>1. /\ longer \in Seq(Points) /\ IsInjective(longer)
          /\ previous <= Len(entries) /\ previous <= Len(longer)
      BY <1>2
    <3>2. outOfOrderEntries' \in {entries, longer}
      BY <1>4
    <3> HIDE DEF longer
    <3> QED
      BY <3>1, <3>2
  <2>4. PlaceTypes'
    BY <2>2, <2>3, PointsStay DEF IInv, Once, PlaceTypes, Jobs
  <2>5. JobFits' /\ NoneTwice'
    BY <1>1, <2>2, <2>3 DEF IInv, Once, JobFits, NoneTwice
  <2>6. Split(ToSet(emitted), ToSet(currBatch), ToSet(job.batch), ToSet(outOfOrderEntries'),
              HeldIn(outOfOrderBatches), missing', ReportedPoints')
    <3>1. CASE outOfOrderEntries' = entries /\ missing' = missing \cup {p}
      BY <3>1 DEF Split
    <3>2. CASE outOfOrderEntries' = Append(entries, p) /\ missing' = missing
      BY <1>2, <3>2
    <3> QED
      BY <1>4, <3>1, <3>2
  <2>7. SplitUp'
    BY <2>2, <2>6 DEF SplitUp
  <2> QED
    BY <2>4, <2>5, <2>7 DEF IInv, Once
<1> QED
  BY <1>3, <1>4 DEF Fate

\* An entry held back is inserted.
LEMMA EntryHeldBackKeeps ==
    ASSUME IInv, EntryHeldBack
    PROVE  IInv'
<1> DEFINE p == Head(outOfOrderEntries)
           entries == Tail(outOfOrderEntries)
<1>1. /\ job.kind = "generate" /\ outOfOrderEntries # <<>> /\ job.previous > 0
      /\ Fate(p, entries, job.previous - 1)
      /\ UNCHANGED <<conf, baseVars, emitted, currBatch, outOfOrderBatches>>
  BY DEF EntryHeldBack, MayInsertEntry, PreviousLeft, outVars
<1>2. BaseTypes' /\ BaseRuns' /\ ReportedPoints' = ReportedPoints
  BY <1>1, BaseRests DEF IInv
<1>3. outOfOrderEntries \in Seq(Points) /\ IsInjective(outOfOrderEntries)
      /\ job.previous \in Nat /\ job.previous <= Len(outOfOrderEntries)
      /\ Len(outOfOrderEntries) \in Nat
  BY <1>1 DEF IInv, Once, PlaceTypes, Jobs, NoneTwice, JobFits
<1>4. /\ p \in Points /\ entries \in Seq(Points) /\ IsInjective(entries)
      /\ p \in ToSet(outOfOrderEntries) /\ ToSet(entries) = ToSet(outOfOrderEntries) \ {p}
      /\ Len(entries) = Len(outOfOrderEntries) - 1
  BY <1>1, <1>3, TakeFirst
<1> HIDE DEF p, entries
<1>5. job.previous - 1 \in Nat /\ job.previous - 1 <= Len(entries)
  BY <1>1, <1>3, <1>4
<1>6. p \notin ToSet(entries) /\ ToSet(entries) \cup {p} = ToSet(outOfOrderEntries)
  BY <1>4
<1>7. Split(ToSet(emitted), ToSet(currBatch), ToSet(job.batch), ToSet(entries) \cup {p},
            HeldIn(outOfOrderBatches), missing, ReportedPoints')
  BY <1>2, <1>6 DEF IInv, Once, SplitUp
<1> QED
  BY <1>1, <1>2, <1>4, <1>5, <1>6, <1>7, FateKeeps

\* A point of the base is used for an entry, or ends the batch.
LEMMA EntryOfBaseKeeps ==
    ASSUME IInv, EntryOfBase
    PROVE  IInv'
<1>1. job.kind = "generate" /\ BaseNext /\ UNCHANGED <<conf, emitted>>
  BY DEF EntryOfBase, outVars
<1>2. /\ BaseTypes' /\ BaseRuns'
      /\ NextPoint \in Points /\ NextPoint \notin ReportedPoints
      /\ ReportedPoints' = ReportedPoints \cup (IF NextReports THEN {NextPoint} ELSE {})
  BY <1>1, BaseGoesOn DEF IInv
<1>3. CASE NextReports
  <2>1. Fate(NextPoint, outOfOrderEntries, job.previous)
        /\ UNCHANGED <<currBatch, outOfOrderBatches>>
    BY <1>3 DEF EntryOfBase
  <2>2. /\ outOfOrderEntries \in Seq(Points) /\ IsInjective(outOfOrderEntries)
        /\ job.previous \in Nat /\ job.previous <= Len(outOfOrderEntries)
    BY <1>1 DEF IInv, Once, PlaceTypes, Jobs, NoneTwice, JobFits
  <2>3. /\ NextPoint \notin ToSet(outOfOrderEntries)
        /\ Split(ToSet(emitted), ToSet(currBatch), ToSet(job.batch),
                 ToSet(outOfOrderEntries) \cup {NextPoint},
                 HeldIn(outOfOrderBatches), missing, ReportedPoints')
    BY <1>2, <1>3 DEF IInv, Once, SplitUp, Split
  <2> QED
    BY <1>1, <1>2, <2>1, <2>2, <2>3, FateKeeps
<1>4. CASE ~NextReports
  <2>1. DeliverBatch /\ UNCHANGED <<outOfOrderEntries, missing>>
    BY <1>4 DEF EntryOfBase
  <2>2. ReportedPoints' = ReportedPoints
    BY <1>2, <1>4
  <2> QED
    BY <1>1, <1>2, <2>1, <2>2, DeliverBatchKeeps
<1> QED
  BY <1>3, <1>4

\* No step loses a point or puts it in two places.
LEMMA IInvHolds == Spec => []IInv
<1>1. Init => IInv
  <2> SUFFICES ASSUME Init PROVE IInv
    OBVIOUS
  <2>1. conf \in Configs /\ conf.hosts \in Nat \ {0} /\ conf.measurements \in Nat \ {0}
    BY FlagTypes DEF Init
  <2>2. BaseTypes
    BY <2>1 DEF Init, BaseTypes
  <2>3. BaseRuns
    <3>1. 0 * conf.measurements + 0 = 0 /\ 0 * conf.hosts + 0 = 0
      BY <2>1
    <3> QED
      BY <3>1 DEF Init, BaseRuns, Row
  <2>4. ReportedPoints = {}
    <3>1. ReportedPoints = Reported(0)
      BY <2>2, <2>3, ReportedSoFar DEF Init
    <3>2. \A p \in Points : Position(p) \in Nat
      BY <2>1, PositionsDiffer
    <3> QED
      BY <3>1, <3>2 DEF Reported
  <2>5. ToSet(<<>>) = {} /\ IsInjective(<<>>) /\ <<>> \in Seq(Points) /\ <<>> \in Seq(Seq(Points))
        /\ HeldIn(<<>>) = {} /\ BatchesOnce(<<>>)
    BY DEF ToSet, IsInjective, HeldIn, BatchesOnce
  <2>6. job \in Jobs /\ job.batch = <<>> /\ job.kind = "idle"
    BY <2>5 DEF Init, Idle, Jobs
  <2>7. PlaceTypes /\ JobFits /\ NoneTwice
    BY <2>5, <2>6 DEF Init, PlaceTypes, JobFits, NoneTwice
  <2>8. SplitUp
    BY <2>4, <2>5, <2>6 DEF Init, SplitUp, Split
  <2> QED
    BY <2>2, <2>3, <2>7, <2>8 DEF IInv, Once
<1>2. IInv /\ [Next]_vars => IInv'
  <2> SUFFICES ASSUME IInv, [Next]_vars PROVE IInv'
    OBVIOUS
  <2>1. CASE UNCHANGED vars \/ AskMaxPoints \/ Ended
    <3>1. UNCHANGED <<conf, baseVars, emitted, iotVars>>
      BY <2>1 DEF vars, AskMaxPoints, Ended, outVars
    <3>2. BaseTypes' /\ BaseRuns' /\ ReportedPoints' = ReportedPoints
      BY <3>1, BaseRests DEF IInv
    <3> QED
      BY <3>1, <3>2, PlacesStay DEF IInv
  <2>2. CASE DevopsNext
    BY <2>2, DevopsNextKeeps
  <2>3. CASE IoTNext
    BY <2>3, IoTNextKeeps
  <2>4. CASE TakePending \/ InsertPrevious
    <3>1. /\ currBatch = <<>> /\ job.kind = "idle"
          /\ UNCHANGED <<conf, baseVars, job, missing, emitted>>
      BY <2>4 DEF TakePending, InsertPrevious, NeedsBatch, outVars
    <3>2. CASE outOfOrderBatches # <<>>
      <4>1. /\ currBatch' = Head(outOfOrderBatches) /\ outOfOrderBatches' = Tail(outOfOrderBatches)
            /\ UNCHANGED outOfOrderEntries
        BY <2>4, <3>2 DEF TakePending, InsertPrevious
      <4> QED
        BY <3>1, <3>2, <4>1, InsertedBatchKeeps
    <3>3. CASE outOfOrderBatches = <<>>
      <4>1. /\ currBatch' = SubSeq(outOfOrderEntries, 1, PendingBatchLen)
            /\ outOfOrderEntries' = RestOfEntries(PendingBatchLen)
            /\ UNCHANGED outOfOrderBatches
        BY <2>4, <3>3 DEF TakePending, InsertPrevious
      <4> QED
        BY <3>1, <4>1, PendingEntriesKeep
    <3> QED
      BY <3>2, <3>3
  <2>5. CASE StartBatch
    BY <2>5, StartBatchKeeps
  <2>6. CASE FlushEntry
    BY <2>6, FlushEntryKeeps
  <2>7. CASE EndBatch
    <3>1. job.kind = "generate" /\ DeliverBatch
          /\ UNCHANGED <<conf, baseVars, emitted, outOfOrderEntries, missing>>
      BY <2>7 DEF EndBatch, outVars
    <3>2. BaseTypes' /\ BaseRuns' /\ ReportedPoints' = ReportedPoints
      BY <3>1, BaseRests DEF IInv
    <3> QED
      BY <3>1, <3>2, DeliverBatchKeeps
  <2>8. CASE EntryHeldBack
    BY <2>8, EntryHeldBackKeeps
  <2>9. CASE EntryOfBase
    BY <2>9, EntryOfBaseKeeps
  <2> QED
    BY <2>1, <2>2, <2>3, <2>4, <2>5, <2>6, <2>7, <2>8, <2>9 DEF Next, Work
<1> QED
  BY <1>1, <1>2, PTL DEF Spec
-----------------------------------------------------------------------------
(* What follows. *)

LEMMA OneBehindTheOther ==
    ASSUME NEW S, NEW s \in Seq(S), NEW t \in Seq(S)
    PROVE  /\ DOMAIN (s \o t) = 1..(Len(s) + Len(t))
           /\ \A i \in 1..(Len(s) + Len(t)) :
                  (s \o t)[i] = IF i <= Len(s) THEN s[i] ELSE t[i - Len(s)]
OBVIOUS

\* The places one by one.
LEMMA PlacesAre ==
    ASSUME PlaceTypes
    PROVE  /\ DOMAIN Places = 1..(4 + Len(outOfOrderBatches)) /\ Len(outOfOrderBatches) \in Nat
           /\ Places[1] = emitted /\ Places[2] = currBatch
           /\ Places[3] = job.batch /\ Places[4] = outOfOrderEntries
           /\ \A i \in 1..Len(outOfOrderBatches) : Places[i + 4] = outOfOrderBatches[i]
<1> DEFINE four == <<emitted, currBatch, job.batch, outOfOrderEntries>>
           S == Seq(Points)
<1>1. four \in Seq(S) /\ outOfOrderBatches \in Seq(S)
  BY DEF PlaceTypes, Jobs
<1>2. /\ Len(four) = 4
      /\ four[1] = emitted /\ four[2] = currBatch
      /\ four[3] = job.batch /\ four[4] = outOfOrderEntries
  OBVIOUS
<1>3. Places = four \o outOfOrderBatches
  BY DEF Places
<1> HIDE DEF four, S
<1>4. Len(outOfOrderBatches) \in Nat
  BY <1>1
<1> DEFINE all == four \o outOfOrderBatches
<1>5. /\ DOMAIN all = 1..(Len(four) + Len(outOfOrderBatches))
      /\ \A i \in 1..(Len(four) + Len(outOfOrderBatches)) :
             all[i] = IF i <= Len(four) THEN four[i] ELSE outOfOrderBatches[i - Len(four)]
  BY <1>1, OneBehindTheOther
<1> HIDE DEF all
<1>6. /\ DOMAIN Places = 1..(4 + Len(outOfOrderBatches))
      /\ \A i \in 1..(4 + Len(outOfOrderBatches)) :
             Places[i] = IF i <= 4 THEN four[i] ELSE outOfOrderBatches[i - 4]
  BY <1>2, <1>3, <1>5 DEF all
<1>7. \A i \in 1..4 : Places[i] = four[i]
  BY <1>4, <1>6
<1>8. \A i \in 1..Len(outOfOrderBatches) : Places[i + 4] = outOfOrderBatches[i]
  <2> TAKE i \in 1..Len(outOfOrderBatches)
  <2>1. i + 4 \in 1..(4 + Len(outOfOrderBatches)) /\ ~(i + 4 <= 4) /\ (i + 4) - 4 = i
    BY <1>4
  <2> QED
    BY <1>6, <2>1
<1> QED
  BY <1>2, <1>4, <1>6, <1>7, <1>8

\* However batches and entries are held back, inserted, held again and dropped
\* (simulateNextBatch, iot/simulator.go:153), each point is dropped on purpose or in one place
\* once: none is lost, none written twice.
THEOREM PointsAreGeneratedOnce == Spec => []EachPointOnce
<1>1. IInv => EachPointOnce
  <2> SUFFICES ASSUME IInv PROVE EachPointOnce
    OBVIOUS
  <2> DEFINE n == Len(outOfOrderBatches)
  <2>1. PlaceTypes /\ NoneTwice /\ SplitUp /\ outOfOrderBatches \in Seq(Seq(Points))
    BY DEF IInv, Once, PlaceTypes
  <2>2. /\ DOMAIN Places = 1..(4 + n) /\ n \in Nat /\ DOMAIN outOfOrderBatches = 1..n
        /\ Places[1] = emitted /\ Places[2] = currBatch
        /\ Places[3] = job.batch /\ Places[4] = outOfOrderEntries
        /\ \A i \in 1..n : Places[i + 4] = outOfOrderBatches[i]
    BY <2>1, PlacesAre
  <2> HIDE DEF n
  <2>3. \A i \in 1..(4 + n) : i \in {1, 2, 3, 4} \/ (i - 4 \in 1..n /\ (i - 4) + 4 = i)
    BY <2>2
  <2>4. \A i \in 1..n : i + 4 \in 1..(4 + n)
    BY <2>2
  <2>5. {1, 2, 3, 4} \subseteq 1..(4 + n)
    BY <2>2
  <2>6. \A i \in 1..(4 + n) : i \notin {1, 2, 3, 4} =>
            Places[i] = outOfOrderBatches[i - 4] /\ ToSet(Places[i]) \subseteq HeldIn(outOfOrderBatches)
    <3> SUFFICES ASSUME NEW i \in 1..(4 + n), i \notin {1, 2, 3, 4}
                 PROVE  Places[i] = outOfOrderBatches[i - 4]
                        /\ ToSet(Places[i]) \subseteq HeldIn(outOfOrderBatches)
      OBVIOUS
    <3>1. i - 4 \in 1..n /\ Places[i] = outOfOrderBatches[i - 4]
      BY <2>2, <2>3
    <3> QED
      BY <2>2, <3>1 DEF HeldIn
  <2>7. \A i \in 1..(4 + n) : IsInjective(Places[i])
    <3> TAKE i \in 1..(4 + n)
    <3>1. CASE i \in {1, 2, 3, 4}
      BY <2>1, <2>2, <3>1 DEF NoneTwice
    <3>2. CASE i \notin {1, 2, 3, 4}
      BY <2>1, <2>2, <2>3, <2>6, <3>2 DEF NoneTwice, BatchesOnce
    <3> QED
      BY <3>1, <3>2
  <2>8. \A i, j \in 1..(4 + n) : i # j => ToSet(Places[i]) \cap ToSet(Places[j]) = {}
    <3> SUFFICES ASSUME NEW i \in 1..(4 + n), NEW j \in 1..(4 + n), i # j
                 PROVE  ToSet(Places[i]) \cap ToSet(Places[j]) = {}
      OBVIOUS
    <3>1. \A x, y \in {1, 2, 3, 4} : x # y => ToSet(Places[x]) \cap ToSet(Places[y]) = {}
      BY <2>1, <2>2 DEF SplitUp, Split
    <3>2. \A x \in {1, 2, 3, 4} : ToSet(Places[x]) \cap HeldIn(outOfOrderBatches) = {}
      BY <2>1, <2>2 DEF SplitUp, Split
    <3>3. CASE i \in {1, 2, 3, 4} /\ j \in {1, 2, 3, 4}
      BY <3>1, <3>3
    <3>4. CASE i \in {1, 2, 3, 4} /\ j \notin {1, 2, 3, 4}
      BY <2>6, <3>2, <3>4
    <3>5. CASE i \notin {1, 2, 3, 4} /\ j \in {1, 2, 3, 4}
      BY <2>6, <3>2, <3>5
    <3>6. CASE i \notin {1, 2, 3, 4} /\ j \notin {1, 2, 3, 4}
      <4>1. i - 4 \in 1..n /\ j - 4 \in 1..n /\ i - 4 # j - 4
        BY <2>2, <2>3, <3>6
      <4>2. \A x, y \in 1..n : x # y =>
                ToSet(outOfOrderBatches[x]) \cap ToSet(outOfOrderBatches[y]) = {}
        BY <2>1, <2>2 DEF NoneTwice, BatchesOnce
      <4> QED
        BY <2>6, <3>6, <4>1, <4>2
    <3> QED
      BY <3>3, <3>4, <3>5, <3>6
  <2>9. Everywhere = ToSet(emitted) \cup ToSet(currBatch) \cup ToSet(job.batch)
                         \cup ToSet(outOfOrderEntries) \cup HeldIn(outOfOrderBatches)
    <3>1. Everywhere = UNION {ToSet(Places[i]) : i \in 1..(4 + n)}
      BY <2>2 DEF Everywhere
    <3>2. HeldIn(outOfOrderBatches) = UNION {ToSet(outOfOrderBatches[i]) : i \in 1..n}
      BY <2>2 DEF HeldIn
    <3>3. HeldIn(outOfOrderBatches) \subseteq Everywhere
      <4>1. \A i \in 1..n : ToSet(outOfOrderBatches[i]) = ToSet(Places[i + 4])
        BY <2>2
      <4> QED
        BY <2>4, <3>1, <3>2, <4>1
    <3>4. \A i \in {1, 2, 3, 4} : ToSet(Places[i]) \subseteq Everywhere
      BY <2>5, <3>1
    <3>5. Everywhere \subseteq ToSet(Places[1]) \cup ToSet(Places[2]) \cup ToSet(Places[3])
                                   \cup ToSet(Places[4]) \cup HeldIn(outOfOrderBatches)
      <4> SUFFICES ASSUME NEW x \in Everywhere
                   PROVE  x \in ToSet(Places[1]) \cup ToSet(Places[2]) \cup ToSet(Places[3])
                                    \cup ToSet(Places[4]) \cup HeldIn(outOfOrderBatches)
        OBVIOUS
      <4>1. PICK i \in 1..(4 + n) : x \in ToSet(Places[i])
        BY <3>1
      <4> QED
        BY <2>6, <4>1
    <3> QED
      BY <2>2, <3>3, <3>4, <3>5
  <2>10. Everywhere \cap missing = {} /\ Everywhere \cup missing = ReportedPoints
    BY <2>1, <2>9 DEF SplitUp, Split
  <2> QED
    BY <2>2, <2>7, <2>8, <2>10 DEF EachPointOnce
<1> QED
  BY <1>1, IInvHolds, PTL

\* getNextEntry never finds the entries empty that its batchConfig inserts from
\* (the panic of iot/simulator.go:237): they were counted when it was made, and since then
\* only it has taken any.
THEOREM InsertedEntriesAreThere == Spec => []NeverPanics
<1>1. IInv => NeverPanics
  <2> SUFFICES ASSUME IInv, job.kind = "generate", job.previous > 0, outOfOrderEntries = <<>>
               PROVE  FALSE
    BY DEF NeverPanics, MayInsertEntry
  <2>1. job.previous \in Nat /\ job.previous <= Len(outOfOrderEntries)
    BY DEF IInv, Once, PlaceTypes, Jobs, JobFits
  <2>2. Len(outOfOrderEntries) = 0
    OBVIOUS
  <2> QED
    BY <2>1, <2>2
<1> QED
  BY <1>1, IInvHolds, PTL
-----------------------------------------------------------------------------
(* Groups. *)

\* What is left of a division.
LEMMA Remainder ==
    ASSUME NEW w \in Nat \ {0}, NEW q \in Nat, NEW r \in 0..(w - 1), NEW n, n = q * w + r
    PROVE  n % w = r
<1> DEFINE k == n \div w
           m == n % w
<1>1. n \in Nat
  BY TwoDigits
<1>2. k \in Nat /\ m \in 0..(w - 1)
  BY <1>1
<1>3. n - w * k = m
  BY <1>1, SMTT(30)
<1> HIDE DEF k, m
<1>4. w * k = k * w /\ k * w \in Nat
  BY <1>2
<1>5. n = k * w + m
  <2> DEFINE kw == k * w
  <2>1. kw \in Nat /\ n - kw = m
    BY <1>3, <1>4
  <2> HIDE DEF kw
  <2>2. n = kw + m
    BY <1>1, <1>2, <2>1
  <2> QED
    BY <2>2 DEF kw
<1> DEFINE number(a, x) == a * w + x
<1>6. \A a, b \in Nat, x, y \in 0..(w - 1) : number(a, x) = number(b, y) => x = y
  BY TwoDigits
<1>7. number(k, m) = number(q, r)
  BY <1>5
<1> HIDE DEF number
<1>8. m = r
  BY <1>2, <1>6, <1>7
<1> QED
  BY <1>8 DEF m

\* currGroupID goes round with the points.
LEMMA GroupGoesRound ==
    ASSUME NEW w \in Nat \ {0}, NEW n \in Nat
    PROVE  ((n % w) + 1) % w = (n + 1) % w
<1> DEFINE q == n \div w
           r == n % w
<1>1. q \in Nat /\ r \in 0..(w - 1)
  OBVIOUS
<1>2. n - w * q = r
  BY SMTT(30)
<1> HIDE DEF q, r
<1> DEFINE number(a, x) == a * w + x
<1>3. \A a \in Nat, x \in 0..(w - 1) : number(a, x) % w = x
  BY Remainder
<1> DEFINE qw == q * w
<1>4. qw \in Nat /\ w * q = qw /\ (q + 1) * w = qw + w /\ 0 * w = 0 /\ 1 * w = w
  BY <1>1
<1>5. n = qw + r
  <2> HIDE DEF qw
  <2> QED
    BY <1>1, <1>2, <1>4
<1>6. CASE r + 1 < w
  <2>1. r + 1 \in 0..(w - 1) /\ r + 1 = 0 * w + (r + 1)
    BY <1>1, <1>4, <1>6
  <2>2. n + 1 = q * w + (r + 1)
    <3>1. n + 1 = qw + (r + 1)
      <4> HIDE DEF qw
      <4> QED
        BY <1>1, <1>4, <1>5
    <3> QED
      BY <3>1
  <2>3. r + 1 = number(0, r + 1) /\ n + 1 = number(q, r + 1)
    BY <2>1, <2>2
  <2> HIDE DEF number
  <2>4. (r + 1) % w = r + 1 /\ (n + 1) % w = r + 1
    BY <1>1, <1>3, <2>1, <2>3
  <2> QED
    BY <2>4 DEF r
<1>7. CASE r + 1 = w
  <2>1. 0 \in 0..(w - 1) /\ w = 1 * w + 0
    BY <1>4
  <2>2. n + 1 = (q + 1) * w + 0
    <3>1. n + 1 = qw + w
      <4> HIDE DEF qw
      <4> QED
        BY <1>1, <1>4, <1>5, <1>7
    <3> QED
      BY <1>4, <3>1
  <2>3. q + 1 \in Nat
    BY <1>1
  <2>4. w = number(1, 0) /\ n + 1 = number(q + 1, 0)
    BY <2>1, <2>2
  <2> HIDE DEF number
  <2>5. w % w = 0 /\ (n + 1) % w = 0
    BY <1>3, <2>1, <2>3, <2>4
  <2> QED
    BY <1>7, <2>5 DEF r
<1> QED
  BY <1>1, <1>6, <1>7

\* The points due to this group are those written; the next is due to currGroupID.
Shares ==
    /\ written \in Seq(Points) /\ IsInjective(written) /\ ToSet(written) \subseteq ToSet(emitted)
    /\ group = Len(emitted) % conf.groups
    /\ \A i \in DOMAIN emitted : emitted[i] \in ToSet(written) <=> (i - 1) % conf.groups = conf.group

\* A point that Next returns for the first time.
LEMMA OutputShares ==
    ASSUME conf \in Configs, emitted \in Seq(Points), Shares, conf' = conf,
           NEW p \in Points, p \notin ToSet(emitted), Output(p, TRUE)
    PROVE  Shares'
<1> DEFINE n == Len(emitted)
           w == conf.groups
<1>1. n \in Nat /\ DOMAIN emitted = 1..n /\ w \in Nat \ {0}
  BY FlagTypes
<1>2. /\ emitted' = Append(emitted, p) /\ group' = (group + 1) % w
      /\ written' = IF group = conf.group THEN Append(written, p) ELSE written
  BY DEF Output, Counts
<1>3. /\ Len(emitted') = n + 1 /\ DOMAIN emitted' = 1..(n + 1) /\ emitted'[n + 1] = p
      /\ \A i \in 1..n : emitted'[i] = emitted[i]
  BY <1>2
<1>4. group' = Len(emitted') % conf.groups'
  BY <1>1, <1>2, <1>3, GroupGoesRound DEF Shares
<1>5. group = n % w /\ (n + 1) - 1 = n
  BY <1>1 DEF Shares
<1>6. p \notin ToSet(written) /\ written \in Seq(Points) /\ IsInjective(written)
  BY DEF Shares
<1>7. /\ written' \in Seq(Points) /\ IsInjective(written')
      /\ ToSet(written') = IF group = conf.group THEN ToSet(written) \cup {p} ELSE ToSet(written)
  <2>1. CASE group = conf.group
    BY <1>2, <1>6, <2>1, AppendNew
  <2>2. CASE group # conf.group
    BY <1>2, <1>6, <2>2
  <2> QED
    BY <2>1, <2>2
<1> HIDE DEF n, w
<1>8. \A i \in 1..(n + 1) : i \in 1..n \/ i = n + 1
  BY <1>1
<1>9. \A i \in 1..n : i \in 1..(n + 1)
  BY <1>1
<1>10. n + 1 \in 1..(n + 1)
  BY <1>1
<1>11. ToSet(emitted) \cup {p} \subseteq ToSet(emitted')
  BY <1>1, <1>3, <1>9, <1>10 DEF ToSet
<1>12. \A i \in 1..n : emitted[i] # p
  BY <1>1 DEF ToSet
<1>13. ASSUME NEW i \in 1..(n + 1)
       PROVE  emitted'[i] \in ToSet(written') <=> (i - 1) % w = conf.group
  <2>1. CASE i \in 1..n
    <3>1. emitted'[i] \in ToSet(written') <=> emitted[i] \in ToSet(written)
      BY <1>3, <1>7, <1>12, <2>1
    <3>2. emitted[i] \in ToSet(written) <=> (i - 1) % w = conf.group
      BY <1>1, <2>1 DEF Shares, w
    <3> QED
      BY <3>1, <3>2
  <2>2. CASE i = n + 1
    <3>1. emitted'[i] = p /\ (p \in ToSet(written') <=> group = conf.group)
      BY <1>3, <1>6, <1>7, <2>2
    <3>2. (i - 1) % w = group
      BY <1>5, <2>2
    <3> QED
      BY <3>1, <3>2
  <2> QED
    BY <1>8, <2>1, <2>2
<1>14. ToSet(written') \subseteq ToSet(emitted')
  BY <1>7, <1>11 DEF Shares
<1>15. written' \in Seq(Points')
  BY <1>7, PointsStay
<1>16. \A i \in DOMAIN emitted' :
           emitted'[i] \in ToSet(written') <=> (i - 1) % conf.groups = conf.group
  BY <1>3, <1>13 DEF w
<1> QED
  BY <1>4, <1>7, <1>14, <1>15, <1>16 DEF Shares

\* Processes with the same seed, one for each group, write each point once between them
\* (runSimulator, generator_data.go:170): this one writes those it is due, wherever hosts that
\* do not report lie between, and none twice.
THEOREM GroupsWriteTheirShares == Spec => []GroupWritesItsShare
<1>1. Init => Shares
  <2> SUFFICES ASSUME Init PROVE Shares
    OBVIOUS
  <2>1. conf.groups \in Nat \ {0} /\ 0 \in 0..(conf.groups - 1)
    BY FlagTypes DEF Init
  <2>2. 0 = 0 * conf.groups + 0
    BY <2>1
  <2>3. 0 % conf.groups = 0
    BY <2>1, <2>2, Remainder
  <2>4. <<>> \in Seq(Points) /\ ToSet(<<>>) = {} /\ IsInjective(<<>>)
        /\ DOMAIN <<>> = {} /\ Len(<<>>) = 0
    BY DEF ToSet, IsInjective
  <2> QED
    BY <2>3, <2>4 DEF Init, Shares
<1>2. IInv /\ Shares /\ [Next]_vars => Shares'
  <2> SUFFICES ASSUME IInv, Shares, [Next]_vars PROVE Shares'
    OBVIOUS
  <2>1. conf \in Configs /\ emitted \in Seq(Points)
    BY DEF IInv, BaseTypes, Once, PlaceTypes
  <2>2. ASSUME UNCHANGED <<conf, outVars>> PROVE Shares'
    BY <2>2, PointsStay DEF outVars, Shares
  <2>3. CASE DevopsNext
    <3>1. BaseNext /\ conf' = conf /\ Output(NextPoint, NextReports)
      BY <2>3 DEF DevopsNext
    <3>2. CASE NextReports
      <4>1. Output(NextPoint, TRUE)
        BY <3>1, <3>2 DEF Output, Counts
      <4>2. NextPoint \in Points /\ NextPoint \notin ReportedPoints
        BY <3>1, BaseGoesOn DEF IInv
      <4>3. NextPoint \notin ToSet(emitted)
        BY <4>2 DEF IInv, Once, SplitUp, Split
      <4> QED
        BY <2>1, <3>1, <4>1, <4>2, <4>3, OutputShares
    <3>3. CASE ~NextReports
      BY <2>2, <3>1, <3>3 DEF Output, Counts, outVars
    <3> QED
      BY <3>2, <3>3
  <2>4. CASE IoTNext
    <3>1. currBatch # <<>> /\ conf' = conf /\ Output(Head(currBatch), TRUE)
      BY <2>4 DEF IoTNext
    <3>2. currBatch \in Seq(Points) /\ IsInjective(currBatch)
      BY DEF IInv, Once, PlaceTypes, NoneTwice
    <3>3. Head(currBatch) \in Points /\ Head(currBatch) \in ToSet(currBatch)
      BY <3>1, <3>2, TakeFirst
    <3>4. Head(currBatch) \notin ToSet(emitted)
      BY <3>3 DEF IInv, Once, SplitUp, Split
    <3> QED
      BY <2>1, <3>1, <3>3, <3>4, OutputShares
  <2>5. CASE ~(DevopsNext \/ IoTNext)
    <3>1. UNCHANGED <<conf, outVars>>
      BY <2>5 DEF vars, Next, Work, Ended, AskMaxPoints, TakePending, InsertPrevious, StartBatch,
                  FlushEntry, EndBatch, EntryHeldBack, EntryOfBase
    <3> QED
      BY <2>2, <3>1
  <2> QED
    BY <2>3, <2>4, <2>5
<1>3. Shares => GroupWritesItsShare
  BY DEF Shares, GroupWritesItsShare
<1> QED
  BY <1>1, <1>2, <1>3, IInvHolds, PTL DEF Spec
-----------------------------------------------------------------------------
(* The fleet. *)

\* A division of whole numbers, rounded down.
LEMMA Quotient ==
    ASSUME NEW w \in Nat \ {0}, NEW x \in Nat
    PROVE  LET k == x \div w IN k \in Nat /\ k * w \in Nat /\ k * w <= x /\ x < k * w + w
<1> DEFINE k == x \div w
           m == x % w
<1>1. k \in Nat /\ m \in 0..(w - 1)
  OBVIOUS
<1>2. x - w * k = m
  BY SMTT(30)
<1> HIDE DEF k, m
<1> DEFINE kw == k * w
<1>3. w * k = kw /\ kw \in Nat
  BY <1>1
<1> HIDE DEF kw
<1>4. kw <= x /\ x < kw + w
  BY <1>1, <1>2, <1>3
<1> QED
  BY <1>1, <1>3, <1>4 DEF k, kw

\* A smaller multiple is one of a smaller number.
LEMMA MultiplesGrow ==
    ASSUME NEW w \in Nat \ {0}, NEW a \in Int, NEW b \in Int, a * w < b * w
    PROVE  a < b
<1> SUFFICES ASSUME b <= a PROVE FALSE
  OBVIOUS
<1>1. b * w <= a * w
  BY SMTT(30)
<1>2. a * w \in Int /\ b * w \in Int
  OBVIOUS
<1> DEFINE aw == a * w
           bw == b * w
<1>3. aw < bw /\ bw <= aw /\ aw \in Int /\ bw \in Int
  BY <1>1, <1>2
<1> HIDE DEF aw, bw
<1> QED
  BY <1>3

\* What n steps of a in all add up to after e of them, in whole numbers.
Share(a, n, e) == (a * e) \div n

\* The steps differ by one at most, from nothing to all.
LEMMA SharesGrowEvenly ==
    ASSUME NEW n \in Nat \ {0}, NEW a \in Nat
    PROVE  /\ \A e \in 0..n : Share(a, n, e) \in 0..a
           /\ Share(a, n, 0) = 0 /\ Share(a, n, n) = a
           /\ \A e, d \in 1..n :
                  /\ Share(a, n, e) - Share(a, n, e - 1) >= 0
                  /\ Share(a, n, e) - Share(a, n, e - 1) <= (Share(a, n, d) - Share(a, n, d - 1)) + 1
<1> DEFINE f(e) == Share(a, n, e)
           fn(e) == f(e) * n
           ae(e) == a * e
<1>1. \A e \in 0..n : f(e) \in Nat /\ fn(e) \in Nat /\ ae(e) \in Nat
                      /\ fn(e) <= ae(e) /\ ae(e) < fn(e) + n
  <2> TAKE e \in 0..n
  <2>1. ae(e) \in Nat
    OBVIOUS
  <2>2. f(e) = ae(e) \div n
    BY DEF Share
  <2> HIDE DEF ae, f
  <2> QED
    BY <2>1, <2>2, Quotient
<1>2. ae(0) = 0 /\ \A e \in 1..n : e - 1 \in 0..n /\ e \in 0..n /\ ae(e) = ae(e - 1) + a
  <2>1. ae(0) = 0
    OBVIOUS
  <2>2. \A e \in 1..n : e - 1 \in 0..n /\ e \in 0..n
    OBVIOUS
  <2>3. \A e \in 1..n : a * e = a * (e - 1) + a
    OBVIOUS
  <2> QED
    BY <2>1, <2>2, <2>3
<1>3. \A e \in 0..n : ae(e) <= a * n
  <2> TAKE e \in 0..n
  <2> QED
    BY SMTT(30)
<1>4. ae(n) = a * n
  OBVIOUS
<1> HIDE DEF f, ae
<1>5. ASSUME NEW e \in 0..n PROVE f(e) <= a
  <2> DEFINE x == f(e)
             xn == x * n
             an == a * n
  <2>1. x \in Nat /\ xn \in Nat /\ an \in Nat /\ xn <= an
    <3>1. fn(e) <= a * n
      <4> DEFINE y == fn(e)
                 z == ae(e)
                 an2 == a * n
      <4>1. y \in Nat /\ z \in Nat /\ an2 \in Nat /\ y <= z /\ z <= an2
        BY <1>1, <1>3
      <4> HIDE DEF y, z, an2
      <4>2. y <= an2
        BY <4>1
      <4> QED
        BY <4>2 DEF y, an2
    <3> QED
      BY <1>1, <3>1
  <2>2. (a + 1) * n = an + n
    OBVIOUS
  <2>3. xn < an + n
    <3> HIDE DEF xn, an
    <3> QED
      BY <2>1
  <2>4. x * n < (a + 1) * n
    BY <2>2, <2>3
  <2> HIDE DEF x
  <2>5. x < a + 1
    BY <2>1, <2>4, MultiplesGrow
  <2>6. x <= a
    BY <2>1, <2>5
  <2> QED
    BY <2>6 DEF x
<1>6. f(0) = 0
  <2>1. f(0) \in Nat /\ fn(0) <= 0
    BY <1>1, <1>2
  <2> DEFINE x == f(0)
  <2>2. x * n < 1 * n
    BY <2>1
  <2> HIDE DEF x
  <2>3. x \in Nat
    BY <2>1 DEF x
  <2>4. x < 1
    BY <2>2, <2>3, MultiplesGrow
  <2> QED
    BY <2>3, <2>4 DEF x
<1>7. f(n) = a
  <2>1. n \in 0..n
    OBVIOUS
  <2> DEFINE x == f(n)
             an == a * n
             xn == x * n
  <2>2. x \in Nat /\ xn \in Nat /\ an \in Nat /\ an < xn + n
    BY <1>1, <1>4, <2>1
  <2>3. (x + 1) * n = xn + n
    BY <2>2
  <2>4. a * n < (x + 1) * n
    BY <2>2, <2>3
  <2>5. x <= a
    BY <1>5, <2>1
  <2> HIDE DEF x
  <2>6. a < x + 1
    BY <2>2, <2>4, MultiplesGrow
  <2> QED
    BY <2>2, <2>5, <2>6 DEF x
<1> DEFINE s(e) == f(e) - f(e - 1)
<1>8. ASSUME NEW e \in 1..n
      PROVE  s(e) \in Int /\ s(e) * n \in Int /\ a - n < s(e) * n /\ s(e) * n < a + n
  <2> DEFINE x == f(e)
             y == f(e - 1)
             xn == x * n
             yn == y * n
             p == ae(e)
             q == ae(e - 1)
  <2>1. /\ x \in Nat /\ y \in Nat /\ xn \in Nat /\ yn \in Nat /\ p \in Nat /\ q \in Nat
        /\ xn <= p /\ p < xn + n /\ yn <= q /\ q < yn + n /\ p = q + a
    BY <1>1, <1>2
  <2>2. (x - y) * n = xn - yn
    BY <2>1
  <2> HIDE DEF xn, yn, p, q
  <2>3. a - n < xn - yn /\ xn - yn < a + n /\ xn - yn \in Int
    BY <2>1
  <2>4. x - y \in Int
    BY <2>1
  <2>5. s(e) = x - y
    OBVIOUS
  <2> HIDE DEF x, y, s
  <2> QED
    BY <2>2, <2>3, <2>4, <2>5
<1> HIDE DEF s
<1>9. ASSUME NEW e \in 1..n PROVE s(e) >= 0
  <2> DEFINE x == s(e)
             xn == x * n
  <2>1. x \in Int /\ xn \in Int /\ a - n < xn
    BY <1>8
  <2>2. (-1) * n = -n
    OBVIOUS
  <2>3. -n < xn
    <3> HIDE DEF xn
    <3> QED
      BY <2>1
  <2>4. (-1) * n < x * n
    BY <2>2, <2>3
  <2> HIDE DEF x
  <2>5. -1 < x
    BY <2>1, <2>4, MultiplesGrow
  <2>6. x >= 0
    BY <2>1, <2>5
  <2> QED
    BY <2>6 DEF x
<1>10. ASSUME NEW e \in 1..n, NEW d \in 1..n PROVE s(e) <= s(d) + 1
  <2> DEFINE x == s(e)
             y == s(d)
             xn == x * n
             yn == y * n
  <2>1. x \in Int /\ y \in Int /\ xn \in Int /\ yn \in Int /\ xn < a + n /\ a - n < yn
    BY <1>8
  <2> HIDE DEF x, y
  <2>2. (y + 2) * n = yn + 2 * n
    BY <2>1
  <2>3. xn < yn + 2 * n
    <3> HIDE DEF xn, yn
    <3> QED
      BY <2>1
  <2>4. x * n < (y + 2) * n
    BY <2>2, <2>3
  <2>5. y + 2 \in Int
    BY <2>1
  <2>6. x < y + 2
    BY <2>1, <2>4, <2>5, MultiplesGrow
  <2>7. x <= y + 1
    BY <2>1, <2>6
  <2> QED
    BY <2>7 DEF x, y
<1>11. \A e \in 0..n : f(e) \in 0..a
  BY <1>1, <1>5
<1>12. \A e, d \in 1..n : s(e) >= 0 /\ s(e) <= s(d) + 1
  BY <1>9, <1>10
<1> QED
  BY <1>6, <1>7, <1>11, <1>12 DEF f, s

\* A devops run holds nothing back, and stops at its last point.
StraightOn ==
    conf.use = "devops" =>
        /\ job = Idle /\ currBatch = <<>> /\ outOfOrderBatches = <<>> /\ outOfOrderEntries = <<>>
        /\ missing = {}
        /\ made <= MaxPoints

LEMMA MaxPointsAre ==
    ASSUME conf \in Configs
    PROVE  /\ MaxPoints \in Nat
           /\ conf.limit = 0 => MaxPoints = conf.epochs * conf.hosts * conf.measurements
<1>1. /\ conf.epochs \in Nat /\ conf.hosts \in Nat /\ conf.measurements \in Nat
      /\ conf.limit \in Nat
  BY GenerationAssumption
<1>2. conf.epochs * conf.hosts \in Nat
  BY <1>1
<1>3. conf.epochs * conf.hosts * conf.measurements \in Nat
  BY <1>1, <1>2
<1> QED
  BY <1>1, <1>3 DEF MaxPoints

LEMMA DevopsGoesStraightOn == Spec => []StraightOn
<1>1. Init => StraightOn
  <2> SUFFICES ASSUME Init PROVE StraightOn
    OBVIOUS
  <2> QED
    BY MaxPointsAre DEF Init, StraightOn
<1>2. IInv /\ StraightOn /\ [Next]_vars => StraightOn'
  <2> SUFFICES ASSUME IInv, StraightOn, [Next]_vars, conf'.use = "devops" PROVE StraightOn'
    BY DEF StraightOn
  <2>1. conf' = conf
    BY DEF vars, Next, Work, Ended, AskMaxPoints, DevopsNext, IoTNext, TakePending, InsertPrevious,
           StartBatch, FlushEntry, EndBatch, EntryHeldBack, EntryOfBase
  <2>2. job.kind = "idle" /\ conf.use = "devops"
    BY <2>1 DEF StraightOn, Idle
  <2>3. MaxPoints' = MaxPoints /\ MaxPoints \in Nat /\ made \in Nat
    BY <2>1, MaxPointsAre DEF MaxPoints, IInv, BaseTypes
  <2>4. CASE UNCHANGED vars \/ AskMaxPoints \/ Ended
    BY <2>1, <2>2, <2>3, <2>4
       DEF StraightOn, vars, AskMaxPoints, Ended, baseVars, iotVars, Idle
  <2>5. CASE DevopsNext
    <3>1. made' = made + 1 /\ ~(made >= MaxPoints) /\ UNCHANGED iotVars
      BY <2>5 DEF DevopsNext, BaseNext, BaseFinished
    <3>2. made' <= MaxPoints
      BY <2>3, <3>1
    <3> QED
      BY <2>2, <2>3, <3>1, <3>2 DEF StraightOn, iotVars, Idle
  <2>6. ~IoTNext /\ ~TakePending /\ ~InsertPrevious /\ ~StartBatch /\ ~FlushEntry
        /\ ~EndBatch /\ ~EntryHeldBack /\ ~EntryOfBase
    BY <2>2 DEF IoTNext, TakePending, InsertPrevious, StartBatch, NeedsBatch, FlushEntry, EndBatch,
                EntryHeldBack, EntryOfBase
  <2> QED
    BY <2>4, <2>5, <2>6 DEF Next, Work
<1> QED
  BY <1>1, <1>2, IInvHolds, PTL DEF Spec

\* The points of a run without a limit are those of its epochs.
LEMMA PointsOfEpochs ==
    ASSUME conf \in Configs, NEW p \in Points
    PROVE  Position(p) < conf.epochs * conf.hosts * conf.measurements <=> p.epoch < conf.epochs
<1> DEFINE N == conf.epochs
           H == conf.hosts
           M == conf.measurements
           r == Row(p.epoch, p.measurement)
           rows == Row(N, 0)
<1>1. /\ N \in Nat /\ H \in Nat \ {0} /\ M \in Nat \ {0} /\ 0 \in 0..(M - 1) /\ 0 \in 0..(H - 1)
      /\ p.epoch \in Nat /\ p.measurement \in 0..(M - 1) /\ p.generator \in 0..(H - 1)
  BY GenerationAssumption DEF Points
<1>2. \A a, b \in Nat, x, y \in 0..(M - 1) :
          /\ Row(a, x) \in Nat
          /\ a < b => Row(a, x) < Row(b, y)
  BY <1>1, TwoDigits DEF Row
<1>3. r \in Nat /\ rows \in Nat /\ (p.epoch < N => r < rows) /\ (N < p.epoch => rows < r)
  BY <1>1, <1>2
<1>4. p.epoch = N => rows <= r
  <2> SUFFICES ASSUME p.epoch = N PROVE rows <= r
    OBVIOUS
  <2> DEFINE nm == N * M
  <2>1. nm \in Nat /\ r = nm + p.measurement /\ rows = nm + 0
    BY <1>1 DEF Row
  <2> HIDE DEF nm, r, rows
  <2> QED
    BY <1>1, <2>1
<1>5. p.epoch < N <=> r < rows
  <2> HIDE DEF r, rows
  <2> QED
    BY <1>1, <1>3, <1>4
<1> DEFINE number(a, x) == a * H + x
<1>6. \A a, b \in Nat, x, y \in 0..(H - 1) :
          number(a, x) \in Nat /\ (a < b => number(a, x) < number(b, y))
  BY <1>1, TwoDigits
<1>7. N * H * M = number(rows, 0)
  <2>1. rows = N * M
    BY <1>1 DEF Row
  <2>2. N * H * M = (N * M) * H
    BY <1>1
  <2>3. (N * M) * H \in Nat
    BY <1>1
  <2> QED
    BY <2>1, <2>2, <2>3
<1>8. Position(p) = number(r, p.generator)
  BY DEF Position
<1>9. r < rows => number(r, p.generator) < number(rows, 0)
  BY <1>1, <1>3, <1>6
<1>10. rows <= r => number(rows, 0) <= number(r, p.generator)
  <2>1. rows < r => number(rows, 0) < number(r, p.generator)
    BY <1>1, <1>3, <1>6
  <2>2. r = rows => number(rows, 0) <= number(r, p.generator)
    <3> SUFFICES ASSUME r = rows PROVE number(rows, 0) <= number(rows, p.generator)
      OBVIOUS
    <3> DEFINE rh == rows * H
    <3>1. rh \in Nat
      BY <1>1, <1>3
    <3> HIDE DEF rh
    <3>2. rh + 0 <= rh + p.generator
      BY <1>1, <3>1
    <3> QED
      BY <3>2 DEF rh
  <2>3. number(rows, 0) \in Nat /\ number(r, p.generator) \in Nat
    BY <1>1, <1>3, <1>6
  <2> HIDE DEF number, r, rows
  <2> QED
    BY <1>3, <2>1, <2>2, <2>3
<1>11. number(rows, 0) \in Nat /\ number(r, p.generator) \in Nat
  BY <1>1, <1>3, <1>6
<1> HIDE DEF number, r, rows
<1>12. r < rows <=> number(r, p.generator) < number(rows, 0)
  BY <1>3, <1>9, <1>10, <1>11
<1> QED
  BY <1>5, <1>7, <1>8, <1>12

\* How many generators report in an epoch.
FleetSize(e) == IF e = 0 THEN conf.init ELSE ReportingIn(e)

LEMMA FleetSizes ==
    ASSUME conf \in Configs, conf.epochs > 0
    PROVE  /\ \A e \in 0..(conf.epochs - 1) : FleetSize(e) \in 1..conf.hosts
           /\ FleetSize(0) = conf.init
           /\ conf.epochs > 1 => FleetSize(conf.epochs - 1) = conf.hosts
           /\ \A e, d \in (0..(conf.epochs - 1)) \ {0} :
                  /\ FleetSize(e) - FleetSize(e - 1) >= 0
                  /\ FleetSize(e) - FleetSize(e - 1) <= (FleetSize(d) - FleetSize(d - 1)) + 1
<1> DEFINE n == conf.epochs - 1
           a == conf.hosts - conf.init
<1>1. /\ n \in Nat /\ conf.hosts \in Nat /\ conf.init \in 1..conf.hosts
      /\ a \in Nat /\ conf.init + a = conf.hosts
  BY GenerationAssumption
<1>2. CASE n = 0
  BY <1>1, <1>2 DEF FleetSize
<1>3. CASE n # 0
  <2>1. /\ \A e \in 0..n : Share(a, n, e) \in 0..a
        /\ Share(a, n, 0) = 0 /\ Share(a, n, n) = a
        /\ \A e, d \in 1..n :
               /\ Share(a, n, e) - Share(a, n, e - 1) >= 0
               /\ Share(a, n, e) - Share(a, n, e - 1) <= (Share(a, n, d) - Share(a, n, d - 1)) + 1
    BY <1>1, <1>3, SharesGrowEvenly
  <2>2. \A e \in 0..n : FleetSize(e) = conf.init + Share(a, n, e)
    <3>1. \A e \in 0..n : e # 0 => FleetSize(e) = conf.init + Share(a, n, e)
      BY DEF FleetSize, ReportingIn, Share
    <3>2. FleetSize(0) = conf.init
      BY DEF FleetSize
    <3> QED
      BY <1>1, <2>1, <3>1, <3>2
  <2>3. (0..n) \ {0} = 1..n /\ \A e \in 1..n : e \in 0..n /\ e - 1 \in 0..n
    BY <1>1
  <2>4. n \in 0..n /\ 0 \in 0..n
    BY <1>1
  <2> HIDE DEF n, a
  <2>5. \A e \in 0..n : FleetSize(e) \in 1..conf.hosts
    BY <1>1, <2>1, <2>2
  <2>6. FleetSize(0) = conf.init /\ FleetSize(n) = conf.hosts
    BY <1>1, <2>1, <2>2, <2>4
  <2>7. ASSUME NEW e \in 1..n, NEW d \in 1..n
        PROVE  /\ FleetSize(e) - FleetSize(e - 1) >= 0
               /\ FleetSize(e) - FleetSize(e - 1) <= (FleetSize(d) - FleetSize(d - 1)) + 1
    <3>1. /\ FleetSize(e) = conf.init + Share(a, n, e)
          /\ FleetSize(e - 1) = conf.init + Share(a, n, e - 1)
          /\ FleetSize(d) = conf.init + Share(a, n, d)
          /\ FleetSize(d - 1) = conf.init + Share(a, n, d - 1)
      BY <2>2, <2>3
    <3>2. /\ Share(a, n, e) \in Int /\ Share(a, n, e - 1) \in Int
          /\ Share(a, n, d) \in Int /\ Share(a, n, d - 1) \in Int /\ conf.init \in Int
      BY <1>1, <2>1, <2>3
    <3>3. /\ Share(a, n, e) - Share(a, n, e - 1) >= 0
          /\ Share(a, n, e) - Share(a, n, e - 1) <= (Share(a, n, d) - Share(a, n, d - 1)) + 1
      BY <2>1
    <3> QED
      BY <3>1, <3>2, <3>3
  <2>8. conf.epochs - 1 = n
    BY DEF n
  <2> QED
    BY <2>3, <2>5, <2>6, <2>7, <2>8
<1> QED
  BY <1>2, <1>3

\* adjustNumHostsForEpoch (common/simulator.go:217): without a limit, a devops run has the
\* initial scale in its first epoch and the whole scale in its last, the steps between differ
\* by one at most, and every host of an epoch reports every measurement once.
THEOREM FleetReachesScale == Spec => []FleetGrowsToScale
<1>1. IInv /\ StraightOn => FleetGrowsToScale
  <2> SUFFICES ASSUME IInv, StraightOn,
                      conf.use = "devops", conf.limit = 0, Finished, conf.epochs > 0
               PROVE  FleetGrowsToScale
    BY DEF FleetGrowsToScale
  <2> DEFINE E == 0..(conf.epochs - 1)
             M == conf.measurements
             H == conf.hosts
             fleet == [e \in E |-> Cardinality(Fleet(e))]
  <2>1. /\ conf \in Configs /\ conf.epochs \in Nat /\ M \in Nat \ {0} /\ H \in Nat \ {0}
    BY GenerationAssumption DEF IInv, BaseTypes
  <2>2. made = conf.epochs * H * M
    <3>1. made >= MaxPoints /\ made <= MaxPoints /\ made \in Nat /\ MaxPoints \in Nat
      BY <2>1, MaxPointsAre DEF Finished, BaseFinished, StraightOn, IInv, BaseTypes
    <3>2. made = MaxPoints
      BY <3>1
    <3> QED
      BY <2>1, <3>2, MaxPointsAre
  <2>3. ToSet(emitted) = Reported(made)
    <3>1. ReportedPoints = Reported(made)
      BY ReportedSoFar DEF IInv
    <3>2. ToSet(<<>>) = {} /\ HeldIn(<<>>) = {} /\ job.batch = <<>>
      BY DEF ToSet, HeldIn, StraightOn, Idle
    <3> QED
      BY <3>1, <3>2 DEF IInv, Once, SplitUp, Split, StraightOn
  <2>4. \A p : p \in ToSet(emitted) <=>
            p \in Points /\ p.epoch < conf.epochs /\ p.generator < FleetSize(p.epoch)
    BY <2>1, <2>2, <2>3, PointsOfEpochs DEF Reported, Reports, FleetSize
  <2>5. \A p : p \in Points /\ p.epoch < conf.epochs <=>
            p \in [epoch : E, measurement : 0..(M - 1), generator : 0..(H - 1)]
    <3>1. \A e \in Nat : e < conf.epochs <=> e \in E
      BY <2>1
    <3>2. E \subseteq Nat
      OBVIOUS
    <3> HIDE DEF E
    <3> QED
      BY <3>1, <3>2 DEF Points
  <2>6. ASSUME NEW e \in E
        PROVE  Fleet(e) = 0..(FleetSize(e) - 1) /\ fleet[e] = FleetSize(e)
    <3>1. FleetSize(e) \in 1..H
      BY <2>1, FleetSizes
    <3>2. 0..(FleetSize(e) - 1) \subseteq 0..(H - 1)
          /\ \A g \in 0..(H - 1) : g < FleetSize(e) <=> g \in 0..(FleetSize(e) - 1)
      BY <2>1, <3>1
    <3>3. ASSUME NEW g \in 0..(FleetSize(e) - 1) PROVE g \in Fleet(e)
      <4> DEFINE p == [epoch |-> e, measurement |-> 0, generator |-> g]
      <4>1. p \in [epoch : E, measurement : 0..(M - 1), generator : 0..(H - 1)]
        BY <2>1, <3>2
      <4>2. p \in ToSet(emitted)
        BY <2>4, <2>5, <3>2, <4>1
      <4> QED
        BY <4>2 DEF Fleet
    <3>4. ASSUME NEW g \in Fleet(e) PROVE g \in 0..(FleetSize(e) - 1)
      <4>1. PICK p \in ToSet(emitted) : p.epoch = e /\ p.generator = g
        BY <3>4 DEF Fleet
      <4>2. p \in Points /\ p.generator < FleetSize(e)
        BY <2>4, <4>1
      <4> QED
        BY <3>2, <4>1, <4>2 DEF Points
    <3>5. Fleet(e) = 0..(FleetSize(e) - 1)
      BY <3>3, <3>4
    <3>6. Cardinality(0..(FleetSize(e) - 1)) = FleetSize(e)
      BY <3>1, FS_Interval
    <3> QED
      BY <3>5, <3>6
  <2> HIDE DEF fleet
  <2>7. /\ \A e \in E : Fleet(e) = 0..(fleet[e] - 1)
        /\ \A e \in E : fleet[e] = FleetSize(e)
    BY <2>6
  <2>8. 0 \in E /\ conf.epochs - 1 \in E /\ \A e \in E \ {0} : e - 1 \in E
    BY <2>1
  <2>9. fleet[0] = conf.init /\ (conf.epochs > 1 => fleet[conf.epochs - 1] = H)
    BY <2>1, <2>7, <2>8, FleetSizes
  <2>10. \A e, d \in E \ {0} :
             fleet[e] - fleet[e - 1] >= 0 /\ fleet[e] - fleet[e - 1] <= (fleet[d] - fleet[d - 1]) + 1
    <3>1. \A e, d \in E \ {0} :
              /\ FleetSize(e) - FleetSize(e - 1) >= 0
              /\ FleetSize(e) - FleetSize(e - 1) <= (FleetSize(d) - FleetSize(d - 1)) + 1
      BY <2>1, FleetSizes
    <3> HIDE DEF E
    <3> QED
      BY <2>7, <2>8, <3>1
  <2>11. IsInjective(emitted)
    BY DEF IInv, Once, NoneTwice
  <2>12. ToSet(emitted) = {p \in [epoch : E, measurement : 0..(M - 1), generator : 0..(H - 1)] :
                               p.generator < fleet[p.epoch]}
    <3>1. \A p : p \in ToSet(emitted) <=>
              /\ p \in [epoch : E, measurement : 0..(M - 1), generator : 0..(H - 1)]
              /\ p.generator < FleetSize(p.epoch)
      BY <2>4, <2>5
    <3>2. \A p \in [epoch : E, measurement : 0..(M - 1), generator : 0..(H - 1)] : p.epoch \in E
      OBVIOUS
    <3> HIDE DEF E, M, H
    <3> QED
      BY <2>7, <3>1, <3>2
  <2> DEFINE step == [e \in E \ {0} |-> fleet[e] - fleet[e - 1]]
  <2>13. \A e, d \in E \ {0} : step[e] >= 0 /\ step[e] <= step[d] + 1
    <3> HIDE DEF E
    <3> QED
      BY <2>10
  <2> QED
    BY <2>7, <2>9, <2>11, <2>12, <2>13 DEF FleetGrowsToScale, fleet
<1> QED
  BY <1>1, IInvHolds, DevopsGoesStraightOn, PTL
=============================================================================
