----------------------- MODULE QueryGenerationProofs -----------------------
(***************************************************************************)
(* Proofs about QueryGeneration.                                           *)
(*                                                                         *)
(* What a run draws is decided by its task (what its method draws, and     *)
(* from what) and by the stream of numbers that the seed yields.  The      *)
(* moments a task and a stream lay down are their Course, the least set    *)
(* that holds the beginning and goes on; there is one moment in it after   *)
(* each number of steps, so one query of each number.  The invariant says  *)
(* that the run that is going on is on its course, that what the runs have *)
(* written lies on theirs, and what a run has got past when it ends.       *)
(***************************************************************************)
EXTENDS QueryGeneration, FiniteSetTheorems, TLAPS

---------------------------------------------------------------------------
(* Divisions.                                                              *)

\* A smaller multiple is one of a smaller number.
LEMMA MultiplesGrow ==
    ASSUME NEW w \in Nat \ {0}, NEW a \in Int, NEW b \in Int, a * w < b * w
    PROVE  a < b
<1> SUFFICES ASSUME b <= a PROVE FALSE
  OBVIOUS
<1>1. b * w <= a * w
  BY SMTT(30)
<1>2. a * w \in Int /\ b * w \in Int
  OBVIOUS
<1> DEFINE aw == a * w
           bw == b * w
<1>3. aw < bw /\ bw <= aw /\ aw \in Int /\ bw \in Int
  BY <1>1, <1>2
<1> HIDE DEF aw, bw
<1> QED
  BY <1>3

\* A whole number is so many times another and a rest.
LEMMA Quotient ==
    ASSUME NEW w \in Nat \ {0}, NEW n \in Int
    PROVE  /\ n \div w \in Int /\ n % w \in 0..(w - 1)
           /\ n = (n \div w) * w + (n % w)
<1> DEFINE k == n \div w
           m == n % w
<1>1. k \in Int /\ m \in 0..(w - 1)
  OBVIOUS
<1>2. n - w * k = m
  BY SMTT(30)
<1> HIDE DEF k, m
<1> DEFINE kw == k * w
<1>3. w * k = kw /\ kw \in Int
  BY <1>1
<1> HIDE DEF kw
<1>4. n = kw + m
  BY <1>1, <1>2, <1>3
<1>5. n = k * w + m
  BY <1>4 DEF kw
<1> QED
  BY <1>1, <1>5, Zenon DEF k, m

\* There is one way to divide.
LEMMA Divided ==
    ASSUME NEW w \in Nat \ {0}, NEW q \in Int, NEW r \in 0..(w - 1), NEW n \in Int, n = q * w + r
    PROVE  n \div w = q /\ n % w = r
<1> DEFINE k == n \div w
           m == n % w
           kw == k * w
           qw == q * w
<1>1. k \in Int /\ m \in 0..(w - 1) /\ n = kw + m
  BY Quotient
<1> HIDE DEF k, m
<1>2. kw \in Int /\ qw \in Int /\ n = qw + r
  BY <1>1
<1>3. (k - q) * w = kw - qw
  BY <1>1
<1>4. (-1) * w = -w /\ 1 * w = w
  OBVIOUS
<1> HIDE DEF kw, qw
<1>5. -w < kw - qw /\ kw - qw < w
  BY <1>1, <1>2
<1>6. (-1) * w < (k - q) * w /\ (k - q) * w < 1 * w /\ k - q \in Int
  BY <1>1, <1>3, <1>4, <1>5
<1>7. -1 < k - q /\ k - q < 1
  BY <1>6, MultiplesGrow
<1>8. k = q
  BY <1>1, <1>7
<1>9. kw = qw
  BY <1>8 DEF kw, qw
<1>10. m = r
  BY <1>1, <1>2, <1>9
<1> QED
  BY <1>8, <1>10 DEF k, m

\* The same, for a number made of a multiple and a rest.
LEMMA Rest ==
    ASSUME NEW w \in Nat \ {0}, NEW q \in Int, NEW r \in 0..(w - 1)
    PROVE  (q * w + r) \div w = q /\ (q * w + r) % w = r
<1> DEFINE n == q * w + r
<1>1. n \in Int
  OBVIOUS
<1> HIDE DEF n
<1>2. n = q * w + r
  BY DEF n
<1>3. n \div w = q /\ n % w = r
  BY <1>1, <1>2, Divided
<1> QED
  BY <1>3, Zenon DEF n

\* The group after a group.
LEMMA NextInTurn ==
    ASSUME NEW w \in Nat \ {0}, NEW n \in Nat
    PROVE  (n + 1) % w = NextGroup(n % w, w)
<1> DEFINE k == n \div w
           m == n % w
           kw == k * w
<1>1. k \in Int /\ m \in 0..(w - 1) /\ n = kw + m /\ kw \in Int
  BY Quotient
<1> HIDE DEF k, m
<1>2. CASE m + 1 = w
  <2>1. (k + 1) * w = kw + w
    BY <1>1
  <2> HIDE DEF kw
  <2>2. n + 1 = kw + w + 0 /\ 0 \in 0..(w - 1)
    BY <1>1, <1>2
  <2>3. n + 1 = (k + 1) * w + 0 /\ k + 1 \in Int /\ n + 1 \in Int
    BY <1>1, <2>1, <2>2
  <2>4. (n + 1) % w = 0
    BY <2>2, <2>3, Divided
  <2> QED
    BY <1>2, <2>4 DEF NextGroup, m
<1>3. CASE m + 1 # w
  <2>1. n + 1 = kw + (m + 1) /\ m + 1 \in 0..(w - 1)
    <3> HIDE DEF kw
    <3> QED
      BY <1>1, <1>3
  <2>2. n + 1 = k * w + (m + 1) /\ n + 1 \in Int
    BY <2>1
  <2>3. (n + 1) % w = m + 1
    BY <1>1, <2>1, <2>2, Divided
  <2> QED
    BY <1>3, <2>3 DEF NextGroup, m
<1> QED
  BY <1>2, <1>3
---------------------------------------------------------------------------
(* What is drawn for the queries of a run, as one stream yields it.        *)

Agendas ==
    {<<>>, <<"window">>, <<"hosts">>, <<"fleet">>,
     <<"window", "hosts">>, <<"hosts", "window">>, <<"window", "fleet">>}

AllHosts(t) == t.kind = "HighCPUForHosts" /\ t.hosts = 0

\* What a command line draws and from what.  No hosts are drawn for all hosts: the databases
\* that would draw them panic or go on.
TaskOf(c) ==
    [draws |-> IF AllHosts(c.type) THEN <<"window">> ELSE Draws(c.db, c.type),
     window |-> c.type.window, hosts |-> c.type.hosts, end |-> c.end]

Tasks == [draws : Agendas, window : Nat, hosts : Nat, end : Nat]

Uses == 0..(MaxDraws + Len(Numbers) - 1)

Streams == {s \in Seq(Nat) : Len(s) <= MaxDraws}

Draughts == [window : [start : Int, end : Int], hosts : SUBSET Nat, fleet : SUBSET Nat]

\* The moments of a run: how many steps it has taken, and what it has used and drawn.
Moments == [steps : Nat, used : Uses, filled : Nat, todo : Agendas, drawn : Draughts]

\* What the stream yields where some run has read it already.
InStream(s, u) == u >= MaxDraws \/ u < Len(s)
NumberAt(s, u) == IF u < MaxDraws THEN s[u + 1] ELSE Numbers[u - MaxDraws + 1]
UsedNext(u) == IF u = MaxDraws + Len(Numbers) - 1 THEN MaxDraws ELSE u + 1

Possible(c, s, a) ==
    a.todo # <<>> =>
        /\ InStream(s, a.used)
        /\ Head(a.todo) = "window" => Room(c.end, c.window) > 0
        /\ Head(a.todo) = "hosts" => HostsAvailable(c.hosts)

HostsWith(a, n) == a.drawn.hosts \cup {n % Scale}

WindowAt(c, n) ==
    LET start == DataStart + (n % Room(c.end, c.window))
    IN  Interval(start, start + c.window)

DrawnWith(c, a, n) ==
    IF Head(a.todo) = "window" THEN [a.drawn EXCEPT !.window = WindowAt(c, n)]
    ELSE IF Head(a.todo) = "hosts" THEN [a.drawn EXCEPT !.hosts = HostsWith(a, n)]
    ELSE [a.drawn EXCEPT !.fleet = {n % NumFleets}]

TodoWith(c, a, n) ==
    IF Head(a.todo) = "hosts" /\ Cardinality(HostsWith(a, n)) # c.hosts THEN a.todo ELSE Tail(a.todo)

AfterDraw(c, a, n) ==
    [steps |-> a.steps + 1, used |-> UsedNext(a.used), filled |-> a.filled,
     todo |-> TodoWith(c, a, n), drawn |-> DrawnWith(c, a, n)]

AfterQuery(c, a) ==
    [steps |-> a.steps + 1, used |-> a.used, filled |-> a.filled + 1,
     todo |-> c.draws, drawn |-> NothingDrawn]

After(c, s, a) ==
    IF a.todo = <<>> THEN AfterQuery(c, a) ELSE AfterDraw(c, a, NumberAt(s, a.used))

Beginning(c) ==
    [steps |-> 0, used |-> 0, filled |-> 0, todo |-> c.draws, drawn |-> NothingDrawn]

\* The moments a run with this task and stream comes to: those in every set that holds its
\* beginning and goes on.
GoesOn(c, s, T) == \A a \in T : Possible(c, s, a) => After(c, s, a) \in T
Course(c, s) ==
    {a \in Moments : \A T \in SUBSET Moments : Beginning(c) \in T /\ GoesOn(c, s, T) => a \in T}

LEMMA AgendasEnd ==
    ASSUME NEW td \in Agendas, td # <<>>
    PROVE  Head(td) \in {"window", "hosts", "fleet"} /\ Tail(td) \in Agendas
<1> DEFINE things == {"window", "hosts", "fleet"}
<1>1. \A x \in things : <<x>> # <<>> /\ Head(<<x>>) = x /\ Tail(<<x>>) = <<>>
  OBVIOUS
<1>2. \A x, y \in things : Head(<<x, y>>) = x /\ Tail(<<x, y>>) = <<y>>
  <2> TAKE x, y \in things
  <2>1. Head(<<x, y>>) = x /\ Tail(<<x, y>>) \in Seq(things) /\ Len(Tail(<<x, y>>)) = 1
        /\ Tail(<<x, y>>)[1] = y
    OBVIOUS
  <2>2. <<y>> \in Seq(things) /\ Len(<<y>>) = 1 /\ <<y>>[1] = y
    OBVIOUS
  <2>3. \A s, t \in Seq(things) : Len(s) = 1 /\ Len(t) = 1 /\ s[1] = t[1] => s = t
    OBVIOUS
  <2> HIDE DEF things
  <2> QED
    BY <2>1, <2>2, <2>3
<1>3. \/ \E x \in things : td = <<x>>
      \/ td \in {<<"window", "hosts">>, <<"hosts", "window">>, <<"window", "fleet">>}
  BY DEF Agendas
<1> QED
  BY <1>1, <1>2, <1>3 DEF Agendas

LEMMA NumbersAre ==
    /\ Scale \in Nat \ {0} /\ NumFleets \in Nat \ {0} /\ MaxDraws \in Nat
    /\ Numbers \in Seq(Nat) /\ Len(Numbers) \in Nat \ {0}
    /\ DataStart \in Nat /\ Forever \in Nat
<1>1. Scale \in Nat \ {0} /\ {Numbers[k] % Scale : k \in DOMAIN Numbers} = 0..(Scale - 1)
      /\ Numbers \in Seq(Nat) /\ NumFleets \in Nat \ {0} /\ MaxDraws \in Nat
  BY NumbersAssumption
<1>2. 0 \in 0..(Scale - 1)
  BY <1>1
<1>3. PICK k \in DOMAIN Numbers : TRUE
  BY <1>1, <1>2
<1>4. Len(Numbers) \in Nat /\ DOMAIN Numbers = 1..Len(Numbers)
  BY <1>1
<1> QED
  BY <1>1, <1>3, <1>4, CalendarAssumption

\* A number that is read is one, and the next place is one of the stream.
LEMMA ReadsNumbers ==
    ASSUME NEW s \in Streams, NEW u \in Uses, InStream(s, u)
    PROVE  NumberAt(s, u) \in Nat /\ UsedNext(u) \in Uses
<1>1. MaxDraws \in Nat /\ Len(Numbers) \in Nat \ {0} /\ Numbers \in Seq(Nat)
  BY NumbersAre
<1>2. s \in Seq(Nat) /\ Len(s) \in Nat /\ u \in Nat /\ u <= MaxDraws + Len(Numbers) - 1
  BY <1>1 DEF Streams, Uses
<1>3. CASE u < MaxDraws
  <2>1. u + 1 \in 1..Len(s)
    BY <1>1, <1>2, <1>3 DEF InStream
  <2>2. s[u + 1] \in Nat
    BY <1>2, <2>1
  <2> QED
    BY <1>1, <1>2, <1>3, <2>2 DEF NumberAt, UsedNext, Uses
<1>4. CASE ~(u < MaxDraws)
  <2>1. u - MaxDraws + 1 \in 1..Len(Numbers)
    BY <1>1, <1>2, <1>4
  <2>2. Numbers[u - MaxDraws + 1] \in Nat
    BY <1>1, <2>1
  <2> QED
    BY <1>1, <1>2, <1>4, <2>2 DEF NumberAt, UsedNext, Uses
<1> QED
  BY <1>3, <1>4

LEMMA NothingIsDrawn == NothingDrawn \in Draughts
BY NumbersAre DEF NothingDrawn, Draughts, Always, Interval

LEMMA WindowsAre ==
    ASSUME NEW c \in Tasks, Room(c.end, c.window) > 0, NEW n \in Nat
    PROVE  /\ WindowAt(c, n) \in [start : Int, end : Int]
           /\ DataStart <= WindowAt(c, n).start /\ WindowAt(c, n).end <= c.end
           /\ WindowAt(c, n).end - WindowAt(c, n).start = c.window
<1> DEFINE room == Room(c.end, c.window)
           k == n % room
<1>1. c.end \in Nat /\ c.window \in Nat /\ DataStart \in Nat
  BY NumbersAre DEF Tasks
<1>2. room = c.end - c.window - DataStart /\ room \in Nat \ {0}
  BY <1>1 DEF Room
<1>3. WindowAt(c, n) = [start |-> DataStart + k, end |-> DataStart + k + c.window]
  BY DEF WindowAt, Interval
<1> HIDE DEF room
<1>4. k \in 0..(room - 1)
  BY <1>2
<1> HIDE DEF k
<1> QED
  BY <1>1, <1>2, <1>3, <1>4

LEMMA StepsStay ==
    ASSUME NEW c \in Tasks, NEW s \in Streams, NEW a \in Moments, Possible(c, s, a)
    PROVE  After(c, s, a) \in Moments
<1>1. /\ a.steps \in Nat /\ a.used \in Uses /\ a.filled \in Nat /\ a.todo \in Agendas
      /\ a.drawn \in Draughts /\ c.draws \in Agendas
  BY DEF Moments, Tasks
<1>2. CASE a.todo = <<>>
  BY <1>1, <1>2, NothingIsDrawn DEF After, AfterQuery, Moments
<1>3. CASE a.todo # <<>>
  <2> DEFINE n == NumberAt(s, a.used)
  <2>1. n \in Nat /\ UsedNext(a.used) \in Uses
    BY <1>1, <1>3, ReadsNumbers DEF Possible
  <2>2. TodoWith(c, a, n) \in Agendas
    BY <1>1, <1>3, AgendasEnd DEF TodoWith
  <2>3. DrawnWith(c, a, n) \in Draughts
    <3>1. Head(a.todo) = "window" => WindowAt(c, n) \in [start : Int, end : Int]
      BY <1>3, <2>1, WindowsAre DEF Possible
    <3>2. HostsWith(a, n) \in SUBSET Nat
      <4>1. n % Scale \in Nat
        BY <2>1, NumbersAre
      <4> QED
        BY <1>1, <4>1 DEF HostsWith, Draughts
    <3>3. {n % NumFleets} \in SUBSET Nat
      BY <2>1, NumbersAre
    <3> HIDE DEF n
    <3> QED
      BY <1>1, <3>1, <3>2, <3>3 DEF DrawnWith, Draughts
  <2> HIDE DEF n
  <2>4. AfterDraw(c, a, n) \in Moments
    BY <1>1, <2>1, <2>2, <2>3 DEF AfterDraw, Moments
  <2> QED
    BY <1>3, <2>4 DEF After, n
<1> QED
  BY <1>2, <1>3

LEMMA CourseBegins ==
    ASSUME NEW c \in Tasks, NEW s
    PROVE  Beginning(c) \in Course(c, s)
<1>1. 0 \in Uses
  BY NumbersAre DEF Uses
<1>2. Beginning(c) \in Moments
  BY <1>1, NothingIsDrawn DEF Beginning, Moments, Tasks
<1> QED
  BY <1>2 DEF Course

LEMMA CourseGoesOn ==
    ASSUME NEW c \in Tasks, NEW s \in Streams, NEW a \in Course(c, s), Possible(c, s, a)
    PROVE  After(c, s, a) \in Course(c, s)
<1>1. After(c, s, a) \in Moments
  BY StepsStay DEF Course
<1> QED
  BY <1>1 DEF Course, GoesOn

\* What holds at the beginning and stays so on the course holds all along.
LEMMA AlongTheCourse ==
    ASSUME NEW c \in Tasks, NEW s \in Streams, NEW T,
           Beginning(c) \in T,
           \A a \in Course(c, s) : a \in T /\ Possible(c, s, a) => After(c, s, a) \in T
    PROVE  Course(c, s) \subseteq T
<1> DEFINE U == T \cap Course(c, s)
<1>1. U \in SUBSET Moments /\ Beginning(c) \in U
  BY CourseBegins DEF Course
<1>2. GoesOn(c, s, U)
  BY CourseGoesOn DEF GoesOn
<1>3. \A a \in Course(c, s) : a \in U
  BY <1>1, <1>2 DEF Course
<1> QED
  BY <1>3

LEMMA StepsCount ==
    ASSUME NEW c, NEW s, NEW a
    PROVE  After(c, s, a).steps = a.steps + 1
BY DEF After, AfterQuery, AfterDraw

\* A longer stream yields what the shorter one did.
Continues(s, t) == Len(s) <= Len(t) /\ \A i \in 1..Len(s) : t[i] = s[i]

LEMMA CourseGrows ==
    ASSUME NEW c \in Tasks, NEW s \in Streams, NEW t \in Streams, Continues(s, t)
    PROVE  Course(c, s) \subseteq Course(c, t)
<1>1. ASSUME NEW a \in Moments, Possible(c, s, a)
      PROVE  Possible(c, t, a) /\ After(c, t, a) = After(c, s, a)
  <2>1. Len(s) \in Nat /\ Len(t) \in Nat /\ a.used \in Nat /\ MaxDraws \in Nat
    BY NumbersAre DEF Streams, Moments, Uses
  <2>2. CASE a.todo = <<>>
    BY <2>2 DEF Possible, After
  <2>3. CASE a.todo # <<>>
    <3>1. InStream(s, a.used)
      BY <1>1, <2>3 DEF Possible
    <3>2. InStream(t, a.used)
      BY <2>1, <3>1 DEF InStream, Continues
    <3>3. NumberAt(t, a.used) = NumberAt(s, a.used)
      <4>1. a.used < MaxDraws => a.used + 1 \in 1..Len(s)
        BY <2>1, <3>1 DEF InStream
      <4> QED
        BY <4>1 DEF NumberAt, Continues
    <3> QED
      BY <1>1, <2>3, <3>2, <3>3 DEF Possible, After
  <2> QED
    BY <2>2, <2>3
<1>2. \A a \in Course(c, s) : a \in Course(c, t) /\ Possible(c, s, a) => After(c, s, a) \in Course(c, t)
  <2> SUFFICES ASSUME NEW a \in Course(c, s), a \in Course(c, t), Possible(c, s, a)
               PROVE  After(c, s, a) \in Course(c, t)
    OBVIOUS
  <2>1. Possible(c, t, a) /\ After(c, t, a) = After(c, s, a)
    BY <1>1 DEF Course
  <2> QED
    BY <2>1, CourseGoesOn
<1> QED
  BY <1>2, CourseBegins, AlongTheCourse

\* No choice is left on the course: there is one moment after each number of steps.
LEMMA MomentsDiffer ==
    ASSUME NEW c \in Tasks, NEW s \in Streams
    PROVE  \A a, b \in Course(c, s) : a.steps = b.steps => a = b
<1> DEFINE begin == Beginning(c)
           U == {a \in Moments : a = begin \/ \E b \in Course(c, s) : Possible(c, s, b) /\ a = After(c, s, b)}
           T == {a \in Moments : \A b \in Course(c, s) : b.steps = a.steps => b = a}
<1>1. begin \in Moments /\ begin.steps = 0 /\ begin \in Course(c, s)
  BY CourseBegins DEF Course, Beginning
<1>2. \A a \in Course(c, s) : Possible(c, s, a) => After(c, s, a) \in Moments
  BY StepsStay DEF Course
<1> HIDE DEF begin
<1>3. Course(c, s) \subseteq U
  <2>1. begin \in U
    BY <1>1
  <2>2. \A a \in Course(c, s) : a \in U /\ Possible(c, s, a) => After(c, s, a) \in U
    BY <1>2
  <2> HIDE DEF U
  <2> QED
    BY <2>1, <2>2, AlongTheCourse DEF begin
<1>4. \A a \in Course(c, s) : a.steps \in Nat
  BY DEF Course, Moments
<1>5. begin \in T
  <2> SUFFICES ASSUME NEW b \in Course(c, s), b.steps = 0 PROVE b = begin
    BY <1>1
  <2>1. ASSUME NEW d \in Course(c, s), b = After(c, s, d) PROVE FALSE
    BY <1>4, <2>1, StepsCount
  <2> QED
    BY <1>3, <2>1
<1>6. \A a \in Course(c, s) : a \in T /\ Possible(c, s, a) => After(c, s, a) \in T
  <2> SUFFICES ASSUME NEW a \in Course(c, s), a \in T, Possible(c, s, a),
                      NEW b \in Course(c, s), b.steps = After(c, s, a).steps
               PROVE  b = After(c, s, a)
    BY <1>2
  <2>1. b.steps = a.steps + 1 /\ a.steps \in Nat
    BY <1>4, StepsCount
  <2>2. PICK d \in Course(c, s) : Possible(c, s, d) /\ b = After(c, s, d)
    BY <1>1, <1>3, <2>1
  <2>3. b.steps = d.steps + 1 /\ d.steps \in Nat
    BY <1>4, <2>2, StepsCount
  <2>4. d.steps = a.steps
    BY <2>1, <2>3
  <2> QED
    BY <2>2, <2>4
<1>7. Course(c, s) \subseteq T
  <2> HIDE DEF T
  <2> QED
    BY <1>5, <1>6, AlongTheCourse DEF begin
<1> QED
  BY <1>7

LEMMA FilledGrows ==
    ASSUME NEW c \in Tasks, NEW s \in Streams
    PROVE  \A a, b \in Course(c, s) : a.steps <= b.steps => a.filled <= b.filled
<1> DEFINE T == {b \in Moments : \A a \in Course(c, s) : a.steps <= b.steps => a.filled <= b.filled}
<1>1. \A a \in Course(c, s) : a \in Moments /\ a.steps \in Nat /\ a.filled \in Nat
  BY DEF Course, Moments
<1>2. Beginning(c) \in T
  <2> SUFFICES ASSUME NEW a \in Course(c, s), a.steps <= Beginning(c).steps
               PROVE  a.filled <= Beginning(c).filled
    BY <1>1, CourseBegins
  <2>1. Beginning(c).steps = 0 /\ Beginning(c).filled = 0
    BY DEF Beginning
  <2>2. a.steps = Beginning(c).steps
    BY <1>1, <2>1
  <2>3. a = Beginning(c)
    BY <2>2, CourseBegins, MomentsDiffer
  <2> QED
    BY <2>1, <2>3
<1>3. \A b \in Course(c, s) : b \in T /\ Possible(c, s, b) => After(c, s, b) \in T
  <2> SUFFICES ASSUME NEW b \in Course(c, s), b \in T, Possible(c, s, b),
                      NEW a \in Course(c, s), a.steps <= After(c, s, b).steps
               PROVE  a.filled <= After(c, s, b).filled
    BY StepsStay, <1>1
  <2>1. /\ After(c, s, b).steps = b.steps + 1
        /\ After(c, s, b).filled \in {b.filled, b.filled + 1}
    BY StepsCount DEF After, AfterQuery, AfterDraw
  <2>2. CASE a.steps <= b.steps
    BY <1>1, <2>1, <2>2
  <2>3. CASE ~(a.steps <= b.steps)
    <3>1. a.steps = After(c, s, b).steps
      BY <1>1, <2>1, <2>3
    <3>2. a = After(c, s, b)
      BY <3>1, CourseGoesOn, MomentsDiffer
    <3> QED
      BY <1>1, <3>2
  <2> QED
    BY <2>2, <2>3
<1>4. Course(c, s) \subseteq T
  <2> HIDE DEF T
  <2> QED
    BY <1>2, <1>3, AlongTheCourse
<1> QED
  BY <1>4

\* The moments at which a query is ready to be written.
Ready(c, s) == {a \in Course(c, s) : a.todo = <<>>}

\* A query of each number is ready once.
LEMMA QueriesDiffer ==
    ASSUME NEW c \in Tasks, NEW s \in Streams
    PROVE  \A a, b \in Ready(c, s) : a.filled = b.filled => a = b
<1>1. \A a \in Course(c, s) : a.steps \in Nat /\ a.filled \in Nat
  BY DEF Course, Moments
<1>2. ASSUME NEW a \in Ready(c, s), NEW b \in Ready(c, s), a.steps < b.steps
      PROVE  a.filled < b.filled
  <2>1. a \in Course(c, s) /\ b \in Course(c, s) /\ Possible(c, s, a)
        /\ After(c, s, a).filled = a.filled + 1
    BY DEF Ready, Possible, After, AfterQuery
  <2>2. After(c, s, a).steps = a.steps + 1 /\ After(c, s, a) \in Course(c, s)
    BY <2>1, StepsCount, CourseGoesOn
  <2>3. After(c, s, a).steps <= b.steps
    BY <1>1, <1>2, <2>1, <2>2
  <2>4. After(c, s, a).filled <= b.filled
    BY <2>1, <2>2, <2>3, FilledGrows
  <2> QED
    BY <1>1, <2>1, <2>4
<1>3. ASSUME NEW a \in Ready(c, s), NEW b \in Ready(c, s), a.filled = b.filled
      PROVE  a = b
  <2>1. a \in Course(c, s) /\ b \in Course(c, s)
    BY DEF Ready
  <2>2. ~(a.steps < b.steps) /\ ~(b.steps < a.steps)
    BY <1>1, <1>2, <1>3, <2>1
  <2>3. a.steps = b.steps
    BY <1>1, <2>1, <2>2
  <2> QED
    BY <2>1, <2>3, MomentsDiffer
<1> QED
  BY <1>3

\* What an agenda holds.
Holds(td, x) == x \in {td[i] : i \in DOMAIN td}

LEMMA AgendasHold ==
    ASSUME NEW td \in Agendas
    PROVE  /\ td = <<>> => \A x : ~Holds(td, x)
           /\ td # <<>> => /\ \A x : Holds(td, x) <=> x = Head(td) \/ Holds(Tail(td), x)
                           /\ ~Holds(Tail(td), Head(td))
<1> DEFINE things == {"window", "hosts", "fleet"}
<1>1. \A x : ~Holds(<<>>, x)
  BY DEF Holds
<1>2. \A y \in things : /\ Head(<<y>>) = y /\ Tail(<<y>>) = <<>> /\ <<y>> # <<>>
                        /\ \A x : Holds(<<y>>, x) <=> x = y
  <2> TAKE y \in things
  <2>1. Head(<<y>>) = y /\ Tail(<<y>>) = <<>> /\ DOMAIN <<y>> = {1} /\ <<y>>[1] = y
    BY <1>1
  <2> QED
    BY <2>1 DEF Holds
<1>3. \A y, z \in things : /\ Head(<<y, z>>) = y /\ Tail(<<y, z>>) = <<z>> /\ <<y, z>> # <<>>
                           /\ \A x : Holds(<<y, z>>, x) <=> x = y \/ x = z
  <2> TAKE y, z \in things
  <2>1. /\ Head(<<y, z>>) = y /\ DOMAIN <<y, z>> = {1, 2}
        /\ <<y, z>>[1] = y /\ <<y, z>>[2] = z
    OBVIOUS
  <2>2. /\ Tail(<<y, z>>) \in Seq(things) /\ Len(Tail(<<y, z>>)) = 1 /\ Tail(<<y, z>>)[1] = z
        /\ <<z>> \in Seq(things) /\ Len(<<z>>) = 1 /\ <<z>>[1] = z
    OBVIOUS
  <2>3. \A s, t \in Seq(things) : Len(s) = 1 /\ Len(t) = 1 /\ s[1] = t[1] => s = t
    OBVIOUS
  <2> HIDE DEF things
  <2>4. Tail(<<y, z>>) = <<z>>
    BY <2>2, <2>3
  <2> QED
    BY <2>1, <2>4 DEF Holds
<1>4. CASE td = <<>>
  BY <1>1, <1>4
<1>5. CASE \E y \in things : td = <<y>>
  BY <1>1, <1>2, <1>5
<1>6. CASE td \in {<<"window", "hosts">>, <<"hosts", "window">>, <<"window", "fleet">>}
  <2>1. PICK y \in things, z \in things : td = <<y, z>> /\ y # z
    BY <1>6
  <2> QED
    BY <1>2, <1>3, <2>1
<1> QED
  BY <1>4, <1>5, <1>6 DEF Agendas

\* The window lies in the data and has its length.
Fits(c, w) == DataStart <= w.start /\ w.end <= c.end /\ w.end - w.start = c.window

\* What is no longer to be drawn is drawn as it should be.
DrawnSoFar(c, a) ==
    /\ \A x : Holds(a.todo, x) => Holds(c.draws, x)
    /\ Holds(c.draws, "window") /\ ~Holds(a.todo, "window") => Fits(c, a.drawn.window)
    /\ IsFiniteSet(a.drawn.hosts)
    /\ Holds(a.todo, "hosts") =>
           Cardinality(a.drawn.hosts) = 0 \/ Cardinality(a.drawn.hosts) < c.hosts
    /\ Holds(c.draws, "hosts") /\ ~Holds(a.todo, "hosts") => Cardinality(a.drawn.hosts) = c.hosts
    /\ ~Holds(c.draws, "hosts") => a.drawn.hosts = {}

LEMMA OneMoreHost ==
    ASSUME NEW c \in Tasks, NEW a \in Moments, NEW n \in Nat, IsFiniteSet(a.drawn.hosts),
           Cardinality(a.drawn.hosts) = 0 \/ Cardinality(a.drawn.hosts) < c.hosts,
           HostsAvailable(c.hosts)
    PROVE  /\ IsFiniteSet(HostsWith(a, n))
           /\ Cardinality(HostsWith(a, n)) = c.hosts \/ Cardinality(HostsWith(a, n)) < c.hosts
<1> DEFINE k == Cardinality(a.drawn.hosts)
           l == Cardinality(HostsWith(a, n))
<1>1. k \in Nat
  BY FS_CardinalityType
<1>2. IsFiniteSet(HostsWith(a, n)) /\ (l = k \/ l = k + 1)
  BY FS_AddElement DEF HostsWith
<1>3. c.hosts \in Nat /\ c.hosts >= 1
  BY DEF Tasks, HostsAvailable
<1> HIDE DEF k, l
<1>4. l = c.hosts \/ l < c.hosts
  BY <1>1, <1>2, <1>3 DEF k
<1> QED
  BY <1>2, <1>4 DEF l

LEMMA NothingToDraw ==
    ASSUME NEW c \in Tasks, NEW a, a.todo = c.draws, a.drawn = NothingDrawn
    PROVE  DrawnSoFar(c, a)
<1>1. IsFiniteSet({}) /\ Cardinality({}) = 0
  BY FS_EmptySet
<1>2. a.drawn.hosts = {}
  BY DEF NothingDrawn
<1> QED
  BY <1>1, <1>2 DEF DrawnSoFar

LEMMA DrawsGoOn ==
    ASSUME NEW c \in Tasks, NEW s \in Streams, NEW a \in Moments, DrawnSoFar(c, a), Possible(c, s, a)
    PROVE  DrawnSoFar(c, After(c, s, a))
<1>1. CASE a.todo = <<>>
  <2>1. After(c, s, a).todo = c.draws /\ After(c, s, a).drawn = NothingDrawn
    BY <1>1 DEF After, AfterQuery
  <2> QED
    BY <2>1, NothingToDraw
<1>2. CASE a.todo # <<>>
  <2> DEFINE n == NumberAt(s, a.used)
             b == After(c, s, a)
  <2>1. n \in Nat
    BY <1>2, ReadsNumbers DEF Possible, Moments
  <2>2. b.todo = TodoWith(c, a, n) /\ b.drawn = DrawnWith(c, a, n)
    BY <1>2 DEF After, AfterDraw
  <2>3. a.todo \in Agendas /\ a.drawn \in Draughts
    BY DEF Moments
  <2>4. /\ \A x : Holds(a.todo, x) <=> x = Head(a.todo) \/ Holds(Tail(a.todo), x)
        /\ ~Holds(Tail(a.todo), Head(a.todo))
        /\ Head(a.todo) \in {"window", "hosts", "fleet"}
    BY <1>2, <2>3, AgendasHold, AgendasEnd
  <2> HIDE DEF n, b
  <2>5. CASE Head(a.todo) = "window"
    <3>1. b.todo = Tail(a.todo) /\ b.drawn.hosts = a.drawn.hosts /\ b.drawn.window = WindowAt(c, n)
      BY <2>2, <2>3, <2>5 DEF TodoWith, DrawnWith, Draughts
    <3>2. Fits(c, WindowAt(c, n))
      BY <1>2, <2>1, <2>5, WindowsAre DEF Possible, Fits
    <3> QED
      BY <2>4, <2>5, <3>1, <3>2 DEF DrawnSoFar, b
  <2>6. CASE Head(a.todo) = "hosts"
    <3>1. b.drawn.hosts = HostsWith(a, n) /\ b.drawn.window = a.drawn.window
      BY <2>2, <2>3, <2>6 DEF DrawnWith, Draughts
    <3>2. /\ IsFiniteSet(HostsWith(a, n))
          /\ Cardinality(HostsWith(a, n)) = c.hosts \/ Cardinality(HostsWith(a, n)) < c.hosts
      BY <1>2, <2>1, <2>4, <2>6, OneMoreHost DEF Possible, DrawnSoFar
    <3>3. CASE Cardinality(HostsWith(a, n)) = c.hosts
      <4>1. b.todo = Tail(a.todo)
        BY <2>2, <2>6, <3>3 DEF TodoWith
      <4> QED
        BY <2>4, <2>6, <3>1, <3>2, <3>3, <4>1 DEF DrawnSoFar, b
    <3>4. CASE Cardinality(HostsWith(a, n)) # c.hosts
      <4>1. b.todo = a.todo
        BY <2>2, <2>6, <3>4 DEF TodoWith
      <4> QED
        BY <2>4, <2>6, <3>1, <3>2, <3>4, <4>1 DEF DrawnSoFar, b
    <3> QED
      BY <3>3, <3>4
  <2>7. CASE Head(a.todo) = "fleet"
    <3>1. b.todo = Tail(a.todo) /\ b.drawn.hosts = a.drawn.hosts /\ b.drawn.window = a.drawn.window
      BY <2>2, <2>3, <2>7 DEF TodoWith, DrawnWith, Draughts
    <3> QED
      BY <2>4, <2>7, <3>1 DEF DrawnSoFar, b
  <2> QED
    BY <2>4, <2>5, <2>6, <2>7 DEF b
<1> QED
  BY <1>1, <1>2

\* What has been drawn for a query when it is written.
LEMMA ReadyIsDrawn ==
    ASSUME NEW c \in Tasks, NEW s \in Streams, NEW a \in Ready(c, s)
    PROVE  /\ a \in Moments
           /\ Holds(c.draws, "window") => Fits(c, a.drawn.window)
           /\ Cardinality(a.drawn.hosts) = IF Holds(c.draws, "hosts") THEN c.hosts ELSE 0
<1> DEFINE T == {b \in Moments : DrawnSoFar(c, b)}
<1>1. Beginning(c) \in T
  <2>1. Beginning(c) \in Moments
    BY CourseBegins DEF Course
  <2> QED
    BY <2>1, NothingToDraw DEF Beginning
<1>2. \A b \in Course(c, s) : b \in T /\ Possible(c, s, b) => After(c, s, b) \in T
  BY DrawsGoOn, StepsStay
<1>3. Course(c, s) \subseteq T
  <2> HIDE DEF T
  <2> QED
    BY <1>1, <1>2, AlongTheCourse
<1>4. a \in Course(c, s) /\ a.todo = <<>>
  BY DEF Ready
<1>5. a \in Moments /\ DrawnSoFar(c, a)
  BY <1>3, <1>4
<1>6. \A x : ~Holds(a.todo, x)
  BY <1>4, <1>5, AgendasHold DEF Moments
<1>7. Cardinality({}) = 0
  BY FS_EmptySet
<1> QED
  BY <1>5, <1>6, <1>7 DEF DrawnSoFar
---------------------------------------------------------------------------
(* The query types.                                                        *)

LEMMA TimesAre == Minute \in Nat \ {0} /\ Hour \in Nat \ {0} /\ Hour = 60 * Minute
<1>1. Second \in Nat \ {0}
  BY CalendarAssumption
<1> QED
  BY <1>1 DEF Minute, Hour

DevopsKinds ==
    {"GroupByTime", "MaxAllCPU", "GroupByTimeAndPrimaryTag", "HighCPUForHosts",
     "GroupByOrderByLimit", "LastPointPerHost"}
TimelessKinds == {"LastLocPerTruck", "TrucksWithLowFuel", "TrucksWithHighLoad"}
SessionKinds == {"StationaryTrucks", "TrucksWithLongDrivingSessions", "TrucksWithLongDailySessions"}

\* What the matrix says of each kind of query.
TypeRight(t) ==
    /\ t.hosts \in Nat /\ t.metrics \in Nat /\ t.window \in Nat
    /\ \/ t.use = "devops" /\ t.kind \in {"GroupByTime", "MaxAllCPU"} /\ t.hosts > 0
       \/ t.use = "devops" /\ t.hosts = 0
              /\ t.kind \in {"GroupByTimeAndPrimaryTag", "GroupByOrderByLimit", "LastPointPerHost"}
       \/ t.use = "devops" /\ t.kind = "HighCPUForHosts" /\ t.hosts \in {0, 1}
       \/ t.use = "iot" /\ t.kind = "LastLocByTruck" /\ t.hosts = 1
       \/ t.use = "iot" /\ t.kind \in TimelessKinds \cup SessionKinds /\ t.hosts = 0
    /\ t.kind \in {"LastPointPerHost", "LastLocByTruck"} \cup TimelessKinds => t.window = 0
    /\ t.kind \in {"GroupByTime", "GroupByTimeAndPrimaryTag"} => t.metrics > 0
    /\ t.kind \in DevopsKinds => \E hours \in Nat : t.window = hours * Hour
    /\ t.kind = "TrucksWithLongDrivingSessions" => t.window = 4 * Hour
    /\ t.kind = "TrucksWithLongDailySessions" => t.window = 24 * Hour

LEMMA MatrixIsRight ==
    ASSUME NEW t, InMatrix(t)
    PROVE  TypeRight(t)
<1> USE TimesAre DEF QueryType
<1>1. NumMetrics \in Nat /\ \A k \in Nat : k * Hour \in Nat
  BY CalendarAssumption
<1>2. CASE /\ {t.metrics, t.hosts, t.window} \subseteq Nat \ {0}
           /\ t = SingleGroupby(t.metrics, t.hosts, t.window \div Hour)
  <2>1. t.window \div Hour \in Nat
    BY <1>2
  <2>2. t.use = "devops" /\ t.kind = "GroupByTime" /\ t.window = (t.window \div Hour) * Hour
    BY <1>2 DEF SingleGroupby
  <2> QED
    BY <1>2, <2>1, <2>2 DEF TypeRight, TimelessKinds, SessionKinds
<1>3. CASE t.hosts \in Nat \ {0} /\ t = MaxAllCPU(t.hosts)
  <2>1. /\ t.use = "devops" /\ t.kind = "MaxAllCPU" /\ t.window = 8 * Hour /\ t.metrics = NumMetrics
    BY <1>3 DEF MaxAllCPU
  <2> QED
    BY <1>1, <1>3, <2>1 DEF TypeRight, TimelessKinds, SessionKinds
<1>4. CASE t.metrics \in Nat \ {0} /\ t = Groupby(t.metrics)
  <2>1. /\ t.use = "devops" /\ t.kind = "GroupByTimeAndPrimaryTag" /\ t.window = 12 * Hour
        /\ t.hosts = 0
    BY <1>4 DEF Groupby
  <2> QED
    BY <1>1, <1>4, <2>1 DEF TypeRight, TimelessKinds, SessionKinds
<1>5. CASE t \in {HighCPU(0), HighCPU(1)}
  <2>1. /\ t.use = "devops" /\ t.kind = "HighCPUForHosts" /\ t.window = 12 * Hour
        /\ t.hosts \in {0, 1} /\ t.metrics = NumMetrics
    BY <1>5 DEF HighCPU
  <2> QED
    BY <1>1, <2>1 DEF TypeRight, TimelessKinds, SessionKinds
<1>6. CASE t = GroupByOrderByLimit
  <2>1. /\ t.use = "devops" /\ t.kind = "GroupByOrderByLimit" /\ t.window = 1 * Hour
        /\ t.hosts = 0 /\ t.metrics = 1
    BY <1>6 DEF GroupByOrderByLimit
  <2> QED
    BY <1>1, <2>1 DEF TypeRight, TimelessKinds, SessionKinds
<1>7. CASE t = LastPointPerHost
  <2>1. /\ t.use = "devops" /\ t.kind = "LastPointPerHost" /\ t.window = 0 * Hour /\ t.window = 0
        /\ t.hosts = 0 /\ t.metrics = NumMetrics
    BY <1>7 DEF LastPointPerHost
  <2> QED
    BY <1>1, <2>1 DEF TypeRight, TimelessKinds, SessionKinds
<1>8. CASE t = LastLocSingleTruck
  BY <1>8 DEF LastLocSingleTruck, TypeRight, TimelessKinds, SessionKinds, DevopsKinds
<1>9. CASE t \in {StationaryTrucks, LongDrivingSessions, LongDailySessions}
  <2>1. 10 * Minute \in Nat /\ 4 * Hour \in Nat /\ 24 * Hour \in Nat
    BY TimesAre
  <2>2. /\ t.use = "iot" /\ t.kind \in SessionKinds /\ t.hosts = 0 /\ t.metrics = 0
        /\ t.window \in Nat
        /\ t.kind = "TrucksWithLongDrivingSessions" => t.window = 4 * Hour
        /\ t.kind = "TrucksWithLongDailySessions" => t.window = 24 * Hour
    BY <1>9, <2>1 DEF StationaryTrucks, LongDrivingSessions, LongDailySessions, SessionKinds
  <2> QED
    BY <2>2 DEF TypeRight, TimelessKinds, SessionKinds, DevopsKinds
<1>10. CASE t \in {OfFleet("LastLocPerTruck"), OfFleet("TrucksWithLowFuel"), OfFleet("TrucksWithHighLoad")}
  <2>1. /\ t.use = "iot" /\ t.kind \in TimelessKinds /\ t.hosts = 0 /\ t.metrics = 0 /\ t.window = 0
    BY <1>10 DEF OfFleet, TimelessKinds
  <2> QED
    BY <2>1 DEF TypeRight, TimelessKinds, SessionKinds, DevopsKinds
<1> QED
  BY <1>2, <1>3, <1>4, <1>5, <1>6, <1>7, <1>8, <1>9, <1>10 DEF InMatrix

\* What a method draws, kind by kind.
LEMMA DrawsByKind ==
    ASSUME NEW db, NEW t, TypeRight(t)
    PROVE  /\ t.kind \in {"GroupByTime", "MaxAllCPU"} => Draws(db, t) = <<"window", "hosts">>
           /\ t.kind \in {"GroupByTimeAndPrimaryTag", "GroupByOrderByLimit"} => Draws(db, t) = <<"window">>
           /\ t.kind = "LastPointPerHost" => Draws(db, t) = <<>>
           /\ t.kind = "HighCPUForHosts" =>
                  /\ Draws(db, t) \in {<<"window">>, <<"window", "hosts">>, <<"hosts", "window">>}
                  /\ t.hosts # 0 => Draws(db, t) # <<"window">>
           /\ t.kind = "LastLocByTruck" => Draws(db, t) = <<"hosts">>
           /\ t.kind \in TimelessKinds => Draws(db, t) = <<"fleet">>
           /\ t.kind \in SessionKinds => Draws(db, t) = <<"window", "fleet">>
<1>1. WindowAndHosts(db, t) \in {<<"window", "hosts">>, <<"hosts", "window">>}
  BY DEF WindowAndHosts
<1>2. t.kind # "HighCPUForHosts" => WindowAndHosts(db, t) = <<"window", "hosts">>
  <2>1. t.kind # "HighCPUForHosts" => <<db, t.kind>> \notin HostsFirst
    BY DEF HostsFirst
  <2> QED
    BY <2>1 DEF WindowAndHosts
<1>3. <<"window", "hosts">> # <<"window">> /\ <<"hosts", "window">> # <<"window">>
  <2>1. Len(<<"window", "hosts">>) = 2 /\ Len(<<"hosts", "window">>) = 2 /\ Len(<<"window">>) = 1
    OBVIOUS
  <2> QED
    BY <2>1
<1>4. CASE t.kind \in {"GroupByTime", "MaxAllCPU"}
  BY <1>2, <1>4 DEF Draws, TimelessKinds, SessionKinds
<1>5. CASE t.kind \in {"GroupByTimeAndPrimaryTag", "GroupByOrderByLimit"}
  BY <1>5 DEF Draws, TimelessKinds, SessionKinds
<1>6. CASE t.kind = "LastPointPerHost"
  BY <1>6 DEF Draws, TimelessKinds, SessionKinds
<1>7. CASE t.kind = "HighCPUForHosts"
  <2>1. Draws(db, t) = HighCPUDraws(db, t)
    BY <1>7 DEF Draws
  <2> QED
    BY <1>1, <1>3, <1>7, <2>1 DEF HighCPUDraws, TimelessKinds, SessionKinds
<1>8. CASE t.kind = "LastLocByTruck"
  BY <1>8 DEF Draws, TimelessKinds, SessionKinds
<1>9. CASE t.kind \in TimelessKinds
  BY <1>9 DEF Draws, TimelessKinds, SessionKinds
<1>10. CASE t.kind \in SessionKinds
  BY <1>10 DEF Draws, TimelessKinds, SessionKinds
<1> QED
  BY <1>4, <1>5, <1>6, <1>7, <1>8, <1>9, <1>10 DEF TypeRight

\* What the methods draw for a type is the same for all databases, save the order of it in high
\* CPU of some hosts, and whether there are any for all hosts.
LEMMA DrawsAre ==
    ASSUME NEW db, NEW t, TypeRight(t)
    PROVE  /\ Draws(db, t) \in Agendas
           /\ t.window > 0 => Holds(Draws(db, t), "window")
           /\ ~AllHosts(t) => (Holds(Draws(db, t), "hosts") <=> t.hosts > 0)
           /\ \A other : t.kind # "HighCPUForHosts" => Draws(other, t) = Draws(db, t)
           /\ \A other, x : ~AllHosts(t) => (Holds(Draws(other, t), x) <=> Holds(Draws(db, t), x))
<1>1. \A d : /\ t.kind \in {"GroupByTime", "MaxAllCPU"} => Draws(d, t) = <<"window", "hosts">>
             /\ t.kind \in {"GroupByTimeAndPrimaryTag", "GroupByOrderByLimit"} => Draws(d, t) = <<"window">>
             /\ t.kind = "LastPointPerHost" => Draws(d, t) = <<>>
             /\ t.kind = "HighCPUForHosts" =>
                    /\ Draws(d, t) \in {<<"window">>, <<"window", "hosts">>, <<"hosts", "window">>}
                    /\ t.hosts # 0 => Draws(d, t) # <<"window">>
             /\ t.kind = "LastLocByTruck" => Draws(d, t) = <<"hosts">>
             /\ t.kind \in TimelessKinds => Draws(d, t) = <<"fleet">>
             /\ t.kind \in SessionKinds => Draws(d, t) = <<"window", "fleet">>
  BY DrawsByKind
<1>2. /\ \A x : Holds(<<"window", "hosts">>, x) <=> x \in {"window", "hosts"}
      /\ \A x : Holds(<<"hosts", "window">>, x) <=> x \in {"window", "hosts"}
      /\ \A x : Holds(<<"window", "fleet">>, x) <=> x \in {"window", "fleet"}
      /\ \A x : Holds(<<"window">>, x) <=> x = "window"
      /\ \A x : Holds(<<"hosts">>, x) <=> x = "hosts"
      /\ \A x : Holds(<<"fleet">>, x) <=> x = "fleet"
      /\ \A x : ~Holds(<<>>, x)
  <2>1. \A y, z, x : Holds(<<y, z>>, x) <=> x = y \/ x = z
    <3> TAKE y, z, x
    <3>1. DOMAIN <<y, z>> = {1, 2} /\ <<y, z>>[1] = y /\ <<y, z>>[2] = z
      OBVIOUS
    <3> QED
      BY <3>1 DEF Holds
  <2>2. \A y, x : Holds(<<y>>, x) <=> x = y
    <3> TAKE y, x
    <3>1. DOMAIN <<y>> = {1} /\ <<y>>[1] = y
      OBVIOUS
    <3> QED
      BY <3>1 DEF Holds
  <2>3. \A x : ~Holds(<<>>, x)
    BY DEF Holds
  <2> QED
    BY <2>1, <2>2, <2>3
<1>3. \A d : Draws(d, t) \in Agendas
  BY <1>1 DEF TypeRight, Agendas
<1>4. t.window > 0 => Holds(Draws(db, t), "window")
  <2> SUFFICES ASSUME t.window > 0 PROVE Holds(Draws(db, t), "window")
    OBVIOUS
  <2>1. t.window # 0
    BY DEF TypeRight
  <2> QED
    BY <1>1, <1>2, <2>1 DEF TypeRight
<1>5. t.hosts > 0 <=> t.hosts # 0
  BY DEF TypeRight
<1>6. ~AllHosts(t) => (Holds(Draws(db, t), "hosts") <=> t.hosts > 0)
  BY <1>1, <1>2, <1>5 DEF TypeRight, AllHosts, TimelessKinds, SessionKinds
<1>7. \A other : t.kind # "HighCPUForHosts" => Draws(other, t) = Draws(db, t)
  BY <1>1 DEF TypeRight
<1>8. ASSUME NEW other, NEW x, ~AllHosts(t)
      PROVE  Holds(Draws(other, t), x) <=> Holds(Draws(db, t), x)
  <2>1. CASE t.kind # "HighCPUForHosts"
    BY <1>7, <2>1
  <2>2. CASE t.kind = "HighCPUForHosts"
    BY <1>1, <1>2, <1>8, <2>2 DEF AllHosts
  <2> QED
    BY <2>1, <2>2
<1> QED
  BY <1>3, <1>4, <1>6, <1>7, <1>8

\* The command lines of a plan.
LinesRight == \A r \in DOMAIN plan :
    /\ plan[r].db \in Databases /\ TypeRight(plan[r].type)
    /\ plan[r].limit \in Nat /\ plan[r].end \in Nat
    /\ plan[r].groups \in Nat \ {0} /\ plan[r].group \in 0..(plan[r].groups - 1)
    /\ TaskOf(plan[r]) \in Tasks

LEMMA LinesAreRight ==
    ASSUME plan \in Plans
    PROVE  LinesRight /\ Len(plan) \in Nat /\ DOMAIN plan = 1..Len(plan)
<1>1. /\ Len(plan) \in Nat /\ DOMAIN plan = 1..Len(plan)
      /\ \A r \in DOMAIN plan :
            /\ plan[r].db \in Databases /\ InMatrix(plan[r].type)
            /\ plan[r].limit \in Nat /\ plan[r].end \in Nat
            /\ plan[r].groups \in Nat \ {0} /\ plan[r].group \in 0..(plan[r].groups - 1)
  BY PlansAssumption
<1>2. ASSUME NEW r \in DOMAIN plan PROVE TypeRight(plan[r].type) /\ TaskOf(plan[r]) \in Tasks
  <2> DEFINE t == plan[r].type
  <2>1. TypeRight(t)
    BY <1>1, MatrixIsRight
  <2>2. Draws(plan[r].db, t) \in Agendas /\ <<"window">> \in Agendas
    BY <2>1, DrawsAre DEF Agendas
  <2>3. t.window \in Nat /\ t.hosts \in Nat /\ plan[r].end \in Nat
    BY <1>1, <2>1 DEF TypeRight
  <2> QED
    BY <2>1, <2>2, <2>3 DEF TaskOf, Tasks
<1> QED
  BY <1>1, <1>2 DEF LinesRight
---------------------------------------------------------------------------
(* The invariant.                                                          *)

\* The run is at a moment of the course its task and the stream lay down.  For all hosts
\* only the window is looked at.
Agenda(t, td) ==
    IF AllHosts(t) THEN IF Holds(td, "window") THEN <<"window">> ELSE <<>> ELSE td

OnCourse ==
    Going => \E a \in Course(TaskOf(Conf), stream) :
                 /\ a.used = used /\ a.filled = filled /\ a.drawn = drawn
                 /\ a.todo = Agenda(Type, todo)

Query(c, a) == [number |-> a.filled, drawn |-> a.drawn, asks |-> Asks(c.db, c.tags, c.type, a.drawn)]

InItsTurn(c, a) == a.filled % c.groups = c.group

\* How many queries a run has seen to.
FilledBy(r) ==
    IF r = run THEN filled ELSE IF status[r] = "done" THEN plan[r].limit ELSE 0

\* A run writes nothing but the queries of its course in its turn, and of those it has seen to
\* each.
WrittenInTurn(r) ==
    /\ \A q \in Written(r) : \E a \in Ready(TaskOf(plan[r]), stream) :
           q = Query(plan[r], a) /\ a.filled < plan[r].limit /\ InItsTurn(plan[r], a)
    /\ \A k \in Nat : k < FilledBy(r) =>
           \E a \in Ready(TaskOf(plan[r]), stream) :
               a.filled = k /\ (InItsTurn(plan[r], a) => Query(plan[r], a) \in Written(r))
    /\ Written(r) # {} => Supports(plan[r].db, plan[r].type.use) /\ Implements(plan[r].db, plan[r].type)

\* Where a run can panic, and what it has got past.
Passes(c, x) ==
    /\ x = "window" => Room(c.end, c.type.window) > 0
    /\ x = "hosts" => HostsAvailable(c.type.hosts) \/ DropsHostError(c.db, c.type)

GetsThere(c) == \A x : Holds(Draws(c.db, c.type), x) => Passes(c, x)

GotPast ==
    Going => \A x : /\ Holds(todo, x) => Holds(Draws(Conf.db, Type), x)
                    /\ Holds(Draws(Conf.db, Type), x) /\ (filled > 0 \/ ~Holds(todo, x)) => Passes(Conf, x)

EndsRight(r) ==
    /\ status[r] = "done" /\ plan[r].limit > 0 => GetsThere(plan[r])
    /\ status[r] = "panicked" /\ Implements(plan[r].db, plan[r].type) => ~GetsThere(plan[r])

RunTypes ==
    /\ plan \in Plans /\ run \in Nat \ {0} /\ filled \in Nat
    /\ stream \in Streams /\ used \in Uses /\ (used < MaxDraws => used <= Len(stream))
    /\ todo \in Agendas /\ DOMAIN out = DOMAIN plan /\ DOMAIN status = DOMAIN plan
    /\ \A r \in DOMAIN plan : r >= run => status[r] = "waiting"
    /\ \A r \in DOMAIN plan : out[r] \in Seq(Written(r))
    /\ Going => filled % Conf.groups = group

RunInv ==
    /\ RunTypes /\ OnCourse /\ GotPast
    /\ \A r \in DOMAIN plan : WrittenInTurn(r) /\ EndsRight(r)

\* The stream read on.
LEMMA NumberTaken ==
    ASSUME RunTypes, NEW n \in Number, Takes(n)
    PROVE  /\ stream' \in Streams /\ Continues(stream, stream')
           /\ InStream(stream', used) /\ n = NumberAt(stream', used) /\ used' = UsedNext(used)
           /\ used' \in Uses /\ (used' < MaxDraws => used' <= Len(stream'))
<1>1. /\ MaxDraws \in Nat /\ Len(Numbers) \in Nat \ {0} /\ Numbers \in Seq(Nat)
      /\ stream \in Seq(Nat) /\ Len(stream) \in Nat /\ Len(stream) <= MaxDraws /\ used \in Nat
      /\ used <= MaxDraws + Len(Numbers) - 1 /\ (used < MaxDraws => used <= Len(stream))
  BY NumbersAre DEF RunTypes, Streams, Uses
<1>2. n \in Nat
  BY <1>1 DEF Number
<1>3. CASE used < MaxDraws /\ used < Len(stream)
  <2>1. used' = used + 1 /\ n = stream[used + 1] /\ stream' = stream
    BY <1>3 DEF Takes
  <2> QED
    BY <1>1, <1>3, <2>1 DEF Streams, Continues, InStream, NumberAt, UsedNext, Uses
<1>4. CASE used < MaxDraws /\ ~(used < Len(stream))
  <2>1. used' = used + 1 /\ stream' = Append(stream, n) /\ used = Len(stream)
    BY <1>1, <1>4 DEF Takes
  <2>2. /\ stream' \in Seq(Nat) /\ Len(stream') = Len(stream) + 1 /\ stream'[used + 1] = n
        /\ \A i \in 1..Len(stream) : stream'[i] = stream[i]
    BY <1>1, <1>2, <2>1
  <2> QED
    BY <1>1, <1>4, <2>1, <2>2 DEF Streams, Continues, InStream, NumberAt, UsedNext, Uses
<1>5. CASE ~(used < MaxDraws)
  <2>1. /\ n = Numbers[used - MaxDraws + 1] /\ stream' = stream
        /\ used' = IF used = MaxDraws + Len(Numbers) - 1 THEN MaxDraws ELSE used + 1
    BY <1>5 DEF Takes
  <2>2. used' = UsedNext(used) /\ n = NumberAt(stream', used)
    BY <1>5, <2>1 DEF UsedNext, NumberAt
  <2>3. used' \in Uses /\ ~(used' < MaxDraws)
    BY <1>1, <1>5, <2>2 DEF UsedNext, Uses
  <2> QED
    BY <1>1, <1>5, <2>1, <2>2, <2>3 DEF Streams, Continues, InStream
<1> QED
  BY <1>3, <1>4, <1>5

LEMMA ReadyGrows ==
    ASSUME NEW c \in Tasks, NEW s \in Streams, NEW t \in Streams, Continues(s, t)
    PROVE  Ready(c, s) \subseteq Ready(c, t)
BY CourseGrows DEF Ready

LEMMA StreamStays ==
    ASSUME NEW s \in Streams
    PROVE  Continues(s, s)
BY DEF Streams, Continues

\* What a run has written stays right when the stream is read on.
LEMMA WrittenStays ==
    ASSUME RunTypes, NEW r \in DOMAIN plan, WrittenInTurn(r), UNCHANGED <<plan, out>>,
           stream' \in Streams, Continues(stream, stream'), FilledBy(r)' <= FilledBy(r),
           FilledBy(r) \in Nat, FilledBy(r)' \in Nat
    PROVE  WrittenInTurn(r)'
<1>1. TaskOf(plan[r]) \in Tasks /\ stream \in Streams
  BY LinesAreRight DEF RunTypes, LinesRight
<1>2. Ready(TaskOf(plan[r]), stream) \subseteq Ready(TaskOf(plan[r]), stream')
  BY <1>1, ReadyGrows
<1>3. Written(r)' = Written(r)
  BY DEF Written
<1>4. \A k \in Nat : k < FilledBy(r)' => k < FilledBy(r)
  OBVIOUS
<1>5. ASSUME NEW q \in Written(r)
      PROVE  \E a \in Ready(TaskOf(plan[r]), stream') :
                 q = Query(plan[r], a) /\ a.filled < plan[r].limit /\ InItsTurn(plan[r], a)
  BY <1>2 DEF WrittenInTurn
<1>6. ASSUME NEW k \in Nat, k < FilledBy(r)'
      PROVE  \E a \in Ready(TaskOf(plan[r]), stream') :
                 a.filled = k /\ (InItsTurn(plan[r], a) => Query(plan[r], a) \in Written(r))
  <2>1. k < FilledBy(r)
    BY <1>4, <1>6
  <2>2. PICK a \in Ready(TaskOf(plan[r]), stream) :
            a.filled = k /\ (InItsTurn(plan[r], a) => Query(plan[r], a) \in Written(r))
    BY <2>1 DEF WrittenInTurn
  <2> QED
    BY <1>2, <2>2
<1>7. plan' = plan
  OBVIOUS
<1> QED
  BY <1>3, <1>5, <1>6, <1>7 DEF WrittenInTurn, TaskOf, Query, InItsTurn

LEMMA AllHostsDraw ==
    ASSUME NEW db, NEW t, TypeRight(t), AllHosts(t)
    PROVE  Holds(Draws(db, t), "window") /\ ~Holds(Draws(db, t), "fleet")
<1>1. Draws(db, t) \in {<<"window">>, <<"window", "hosts">>, <<"hosts", "window">>}
  BY DrawsByKind DEF AllHosts
<1>2. /\ DOMAIN <<"window">> = {1} /\ <<"window">>[1] = "window"
      /\ DOMAIN <<"window", "hosts">> = {1, 2}
      /\ <<"window", "hosts">>[1] = "window" /\ <<"window", "hosts">>[2] = "hosts"
      /\ DOMAIN <<"hosts", "window">> = {1, 2}
      /\ <<"hosts", "window">>[1] = "hosts" /\ <<"hosts", "window">>[2] = "window"
  OBVIOUS
<1>3. CASE Draws(db, t) = <<"window">>
  BY <1>2, <1>3 DEF Holds
<1>4. CASE Draws(db, t) = <<"window", "hosts">>
  BY <1>2, <1>4 DEF Holds
<1>5. CASE Draws(db, t) = <<"hosts", "window">>
  BY <1>2, <1>5 DEF Holds
<1> QED
  BY <1>1, <1>3, <1>4, <1>5

LEMMA AgendaGoesOn ==
    ASSUME NEW t, NEW td \in Agendas, td # <<>>
    PROVE  /\ Head(td) = "window" => /\ Agenda(t, td) # <<>> /\ Head(Agenda(t, td)) = "window"
                                     /\ Tail(Agenda(t, td)) = Agenda(t, Tail(td))
           /\ Head(td) = "hosts" /\ AllHosts(t) => Agenda(t, Tail(td)) = Agenda(t, td)
           /\ ~AllHosts(t) => Agenda(t, td) = td /\ Agenda(t, Tail(td)) = Tail(td)
<1>1. /\ \A x : Holds(td, x) <=> x = Head(td) \/ Holds(Tail(td), x)
      /\ ~Holds(Tail(td), Head(td))
  BY AgendasHold
<1>2. <<"window">> # <<>> /\ Head(<<"window">>) = "window" /\ Tail(<<"window">>) = <<>>
  OBVIOUS
<1> QED
  BY <1>1, <1>2 DEF Agenda

\* Every draw takes the run a step along its course.
LEMMA DrawKeeps ==
    ASSUME RunInv, Going, todo # <<>>, NEW n \in Number, Takes(n),
           UNCHANGED <<plan, run, filled, group, out, status>>,
           todo' \in {todo, Tail(todo)}, Passes(Conf, Head(todo)),
           \A a \in Moments :
               a.drawn = drawn /\ a.todo = Agenda(Type, todo) =>
                   /\ a.todo # <<>> /\ Head(a.todo) = Head(todo)
                   /\ Head(todo) = "window" => Room(Conf.end, Type.window) > 0
                   /\ Head(todo) = "hosts" => HostsAvailable(Type.hosts)
                   /\ drawn' = DrawnWith(TaskOf(Conf), a, n)
                   /\ Agenda(Type, todo') = TodoWith(TaskOf(Conf), a, n)
    PROVE  RunInv'
<1> DEFINE c == TaskOf(Conf)
<1>1. /\ stream' \in Streams /\ Continues(stream, stream')
      /\ InStream(stream', used) /\ n = NumberAt(stream', used) /\ used' = UsedNext(used)
      /\ used' \in Uses /\ (used' < MaxDraws => used' <= Len(stream'))
  BY NumberTaken DEF RunInv
<1>2. /\ run \in DOMAIN plan /\ plan \in Plans /\ LinesRight /\ stream \in Streams
      /\ c \in Tasks /\ Conf' = Conf /\ Type' = Type
  BY LinesAreRight DEF RunInv, RunTypes, LinesRight, Going, Conf, Type
<1>3. RunTypes'
  <2>1. todo' \in Agendas
    BY AgendasEnd DEF RunInv, RunTypes
  <2>2. \A r : Written(r)' = Written(r)
    BY DEF Written
  <2> QED
    BY <1>1, <1>2, <2>1, <2>2 DEF RunInv, RunTypes, Going
<1>4. OnCourse'
  <2>1. PICK a \in Course(c, stream) :
            a.used = used /\ a.filled = filled /\ a.drawn = drawn /\ a.todo = Agenda(Type, todo)
    BY DEF RunInv, OnCourse
  <2>2. a \in Course(c, stream') /\ a \in Moments
    BY <1>1, <1>2, <2>1, CourseGrows DEF Course
  <2>3. /\ a.todo # <<>> /\ Head(a.todo) = Head(todo)
        /\ Head(todo) = "window" => Room(Conf.end, Type.window) > 0
        /\ Head(todo) = "hosts" => HostsAvailable(Type.hosts)
        /\ drawn' = DrawnWith(c, a, n)
        /\ Agenda(Type, todo') = TodoWith(c, a, n)
    BY <2>1, <2>2
  <2>4. Possible(c, stream', a)
    <3>1. c.end = Conf.end /\ c.window = Type.window /\ c.hosts = Type.hosts
      BY DEF TaskOf, Type
    <3> HIDE DEF c
    <3> QED
      BY <1>1, <2>1, <2>3, <3>1 DEF Possible
  <2>5. /\ After(c, stream', a) \in Course(c, stream')
        /\ After(c, stream', a) = AfterDraw(c, a, n)
    <3> HIDE DEF c
    <3> QED
      BY <1>1, <1>2, <2>1, <2>2, <2>3, <2>4, CourseGoesOn DEF After
  <2> DEFINE b == AfterDraw(c, a, n)
  <2>6. b.used = used' /\ b.filled = filled' /\ b.drawn = drawn' /\ b.todo = Agenda(Type, todo')
    BY <1>1, <2>1, <2>3 DEF AfterDraw
  <2> HIDE DEF b
  <2>7. b \in Course(c, stream')
    BY <2>5 DEF b
  <2> QED
    BY <1>2, <2>6, <2>7 DEF OnCourse
<1>5. GotPast'
  <2>1. /\ \A x : Holds(todo, x) <=> x = Head(todo) \/ Holds(Tail(todo), x)
    BY AgendasHold DEF RunInv, RunTypes
  <2> SUFFICES ASSUME NEW x
               PROVE  /\ Holds(todo', x) => Holds(Draws(Conf.db, Type), x)
                      /\ Holds(Draws(Conf.db, Type), x) /\ (filled > 0 \/ ~Holds(todo', x)) => Passes(Conf, x)
    BY <1>2 DEF GotPast
  <2>2. /\ Holds(todo, x) => Holds(Draws(Conf.db, Type), x)
        /\ Holds(Draws(Conf.db, Type), x) /\ (filled > 0 \/ ~Holds(todo, x)) => Passes(Conf, x)
    BY DEF RunInv, GotPast
  <2> QED
    BY <2>1, <2>2
<1>6. ASSUME NEW r \in DOMAIN plan PROVE WrittenInTurn(r)' /\ EndsRight(r)'
  <2>1. FilledBy(r) \in Nat /\ FilledBy(r)' = FilledBy(r)
    BY <1>2 DEF FilledBy, RunInv, RunTypes, LinesRight
  <2>2. EndsRight(r)'
    BY DEF RunInv, EndsRight
  <2> QED
    BY <1>1, <2>1, <2>2, WrittenStays DEF RunInv
<1> QED
  BY <1>2, <1>3, <1>4, <1>5, <1>6 DEF RunInv

LEMMA DrawWindowKeeps ==
    ASSUME RunInv, DrawWindow
    PROVE  RunInv'
<1>1. /\ Going /\ todo # <<>> /\ Head(todo) = "window" /\ Room(Conf.end, Type.window) > 0
      /\ todo' = Tail(todo) /\ UNCHANGED <<plan, run, filled, group, out, status>>
      /\ todo \in Agendas
  BY DEF DrawWindow, Drawing, InQuery, Started, RunInv, RunTypes
<1>2. PICK n \in Number :
          /\ Takes(n)
          /\ drawn' = [drawn EXCEPT !.window =
                           Interval(DataStart + (n % Room(Conf.end, Type.window)),
                                    DataStart + (n % Room(Conf.end, Type.window)) + Type.window)]
  BY DEF DrawWindow
<1>3. drawn' = [drawn EXCEPT !.window = WindowAt(TaskOf(Conf), n)]
  BY <1>2 DEF WindowAt, TaskOf, Type
<1>4. ASSUME NEW a \in Moments, a.drawn = drawn, a.todo = Agenda(Type, todo)
      PROVE  /\ a.todo # <<>> /\ Head(a.todo) = Head(todo)
             /\ drawn' = DrawnWith(TaskOf(Conf), a, n)
             /\ Agenda(Type, todo') = TodoWith(TaskOf(Conf), a, n)
  <2>1. a.todo # <<>> /\ Head(a.todo) = "window" /\ Tail(a.todo) = Agenda(Type, Tail(todo))
    BY <1>1, <1>4, AgendaGoesOn
  <2> QED
    BY <1>1, <1>3, <1>4, <2>1 DEF DrawnWith, TodoWith
<1>5. Passes(Conf, Head(todo))
  BY <1>1 DEF Passes, Type
<1> QED
  BY <1>1, <1>2, <1>4, <1>5, DrawKeeps

LEMMA DrawHostKeeps ==
    ASSUME RunInv, DrawHost
    PROVE  RunInv'
<1>1. /\ Going /\ todo # <<>> /\ Head(todo) = "hosts" /\ HostsAvailable(Type.hosts)
      /\ UNCHANGED <<plan, run, filled, group, out, status>>
      /\ todo \in Agendas
  BY DEF DrawHost, Drawing, InQuery, Started, RunInv, RunTypes
<1>2. PICK n \in Number :
          /\ Takes(n)
          /\ drawn' = [drawn EXCEPT !.hosts = drawn.hosts \cup {n % Scale}]
          /\ todo' = IF Cardinality(drawn.hosts \cup {n % Scale}) = Type.hosts THEN Tail(todo) ELSE todo
  BY DEF DrawHost
<1>3. ~AllHosts(Type)
  BY <1>1 DEF HostsAvailable, AllHosts
<1>4. ASSUME NEW a \in Moments, a.drawn = drawn, a.todo = Agenda(Type, todo)
      PROVE  /\ a.todo # <<>> /\ Head(a.todo) = Head(todo)
             /\ drawn' = DrawnWith(TaskOf(Conf), a, n)
             /\ Agenda(Type, todo') = TodoWith(TaskOf(Conf), a, n)
  <2>1. a.todo = todo /\ Agenda(Type, todo') = todo'
    BY <1>3, <1>4 DEF Agenda
  <2>2. HostsWith(a, n) = drawn.hosts \cup {n % Scale} /\ TaskOf(Conf).hosts = Type.hosts
    BY <1>4 DEF HostsWith, TaskOf, Type
  <2> QED
    BY <1>1, <1>2, <1>4, <2>1, <2>2 DEF DrawnWith, TodoWith
<1>5. Passes(Conf, Head(todo))
  BY <1>1 DEF Passes, Type
<1> QED
  BY <1>1, <1>2, <1>4, <1>5, DrawKeeps

LEMMA DrawFleetKeeps ==
    ASSUME RunInv, DrawFleet
    PROVE  RunInv'
<1>1. /\ Going /\ todo # <<>> /\ Head(todo) = "fleet" /\ todo' = Tail(todo)
      /\ UNCHANGED <<plan, run, filled, group, out, status>>
      /\ todo \in Agendas
  BY DEF DrawFleet, Drawing, InQuery, Started, RunInv, RunTypes
<1>2. PICK n \in Number : Takes(n) /\ drawn' = [drawn EXCEPT !.fleet = {n % NumFleets}]
  BY DEF DrawFleet
<1>3. ~AllHosts(Type)
  <2>1. Holds(todo, "fleet")
    BY <1>1, AgendasHold
  <2>2. Holds(Draws(Conf.db, Type), "fleet")
    BY <1>1, <2>1 DEF RunInv, GotPast
  <2>3. TypeRight(Type)
    BY <1>1, LinesAreRight DEF RunInv, RunTypes, LinesRight, Going, Conf, Type
  <2> QED
    BY <2>2, <2>3, AllHostsDraw
<1>4. ASSUME NEW a \in Moments, a.drawn = drawn, a.todo = Agenda(Type, todo)
      PROVE  /\ a.todo # <<>> /\ Head(a.todo) = Head(todo)
             /\ drawn' = DrawnWith(TaskOf(Conf), a, n)
             /\ Agenda(Type, todo') = TodoWith(TaskOf(Conf), a, n)
  <2>1. a.todo = todo /\ Agenda(Type, todo') = todo'
    BY <1>3, <1>4 DEF Agenda
  <2> QED
    BY <1>1, <1>2, <1>4, <2>1 DEF DrawnWith, TodoWith
<1>5. Passes(Conf, Head(todo))
  BY <1>1 DEF Passes
<1> QED
  BY <1>1, <1>2, <1>4, <1>5, DrawKeeps

LEMMA HostErrorDroppedKeeps ==
    ASSUME RunInv, HostErrorDropped
    PROVE  RunInv'
<1>1. /\ Going /\ todo # <<>> /\ Head(todo) = "hosts" /\ todo' = Tail(todo)
      /\ ~HostsAvailable(Type.hosts) /\ DropsHostError(Conf.db, Type)
      /\ UNCHANGED <<plan, stream, run, used, drawn, filled, group, out, status>>
      /\ todo \in Agendas
  BY DEF HostErrorDropped, Drawing, InQuery, Started, RunInv, RunTypes
<1>2. /\ run \in DOMAIN plan /\ plan \in Plans /\ LinesRight /\ stream \in Streams
      /\ TypeRight(Type) /\ Conf' = Conf /\ Type' = Type
  BY <1>1, LinesAreRight DEF RunInv, RunTypes, LinesRight, Going, Conf, Type
<1>3. AllHosts(Type)
  <2>1. Type.kind = "HighCPUForHosts" /\ Type.hosts \in {0, 1}
    BY <1>1, <1>2 DEF DropsHostError, TypeRight, TimelessKinds, SessionKinds
  <2>2. HostsAvailable(1)
    BY NumbersAre DEF HostsAvailable
  <2> QED
    BY <1>1, <2>1, <2>2 DEF AllHosts
<1>4. RunTypes'
  <2>1. todo' \in Agendas
    BY <1>1, AgendasEnd
  <2>2. \A r : Written(r)' = Written(r)
    BY <1>1 DEF Written
  <2> QED
    BY <1>1, <1>2, <2>1, <2>2 DEF RunInv, RunTypes, Going
<1>5. OnCourse'
  <2>1. Agenda(Type, todo') = Agenda(Type, todo)
    BY <1>1, <1>3, AgendaGoesOn
  <2> QED
    BY <1>1, <1>2, <2>1 DEF RunInv, OnCourse, Going
<1>6. GotPast'
  <2>1. \A x : Holds(todo, x) <=> x = Head(todo) \/ Holds(Tail(todo), x)
    BY <1>1, AgendasHold
  <2>2. Passes(Conf, "hosts")
    BY <1>1 DEF Passes, Type
  <2> SUFFICES ASSUME NEW x
               PROVE  /\ Holds(todo', x) => Holds(Draws(Conf.db, Type), x)
                      /\ Holds(Draws(Conf.db, Type), x) /\ (filled > 0 \/ ~Holds(todo', x)) => Passes(Conf, x)
    BY <1>1, <1>2 DEF GotPast
  <2>3. /\ Holds(todo, x) => Holds(Draws(Conf.db, Type), x)
        /\ Holds(Draws(Conf.db, Type), x) /\ (filled > 0 \/ ~Holds(todo, x)) => Passes(Conf, x)
    BY <1>1 DEF RunInv, GotPast
  <2> QED
    BY <1>1, <2>1, <2>2, <2>3
<1>7. ASSUME NEW r \in DOMAIN plan PROVE WrittenInTurn(r)' /\ EndsRight(r)'
  <2>1. FilledBy(r) \in Nat /\ FilledBy(r)' = FilledBy(r)
    BY <1>1, <1>2 DEF FilledBy, RunInv, RunTypes, LinesRight
  <2>2. EndsRight(r)'
    BY <1>1 DEF RunInv, EndsRight
  <2>3. Continues(stream, stream') /\ stream' \in Streams
    BY <1>1, <1>2, StreamStays
  <2> QED
    BY <1>1, <2>1, <2>2, <2>3, WrittenStays DEF RunInv
<1> QED
  BY <1>1, <1>4, <1>5, <1>6, <1>7 DEF RunInv

\* The next run of the plan begins its course.
LEMMA RunBegins ==
    ASSUME plan \in Plans, NEW r \in DOMAIN plan
    PROVE  /\ DrawsOf(r) = Draws(plan[r].db, plan[r].type)
           /\ DrawsOf(r) \in Agendas
           /\ Agenda(plan[r].type, DrawsOf(r)) = TaskOf(plan[r]).draws
           /\ \A s : Beginning(TaskOf(plan[r])) \in Course(TaskOf(plan[r]), s)
<1>1. TypeRight(plan[r].type) /\ TaskOf(plan[r]) \in Tasks
  BY LinesAreRight DEF LinesRight
<1>2. DrawsOf(r) = Draws(plan[r].db, plan[r].type)
  BY DEF DrawsOf
<1>3. DrawsOf(r) \in Agendas
  BY <1>1, <1>2, DrawsAre
<1>4. Agenda(plan[r].type, DrawsOf(r)) = TaskOf(plan[r]).draws
  BY <1>1, <1>2, AllHostsDraw DEF Agenda, TaskOf
<1> QED
  BY <1>1, <1>2, <1>3, <1>4, CourseBegins

LEMMA EndRunKeeps ==
    ASSUME RunInv, Going, NEW how, EndRun(how),
           how = "done" => filled = Conf.limit,
           how = "panicked" /\ Implements(Conf.db, Type) => ~GetsThere(Conf)
    PROVE  RunInv'
<1>1. /\ status' = [status EXCEPT ![run] = how] /\ run' = run + 1
      /\ used' = 0 /\ filled' = 0 /\ group' = 0 /\ todo' = DrawsOf(run + 1) /\ drawn' = NothingDrawn
      /\ UNCHANGED <<plan, stream, out>>
  BY DEF EndRun
<1>2. /\ run \in DOMAIN plan /\ run \in Nat \ {0} /\ plan \in Plans /\ LinesRight /\ stream \in Streams
      /\ DOMAIN status = DOMAIN plan /\ filled \in Nat
  BY LinesAreRight DEF RunInv, RunTypes, Going
<1>3. Going' => /\ run + 1 \in DOMAIN plan /\ Conf' = plan[run + 1] /\ Type' = plan[run + 1].type
                /\ plan[run + 1].groups \in Nat \ {0}
  BY <1>1, <1>2 DEF Going, Conf, Type, LinesRight
<1>4. todo' \in Agendas
  <2>1. CASE run + 1 \in DOMAIN plan
    BY <1>1, <1>2, <2>1, RunBegins
  <2>2. CASE run + 1 \notin DOMAIN plan
    BY <1>1, <2>2 DEF DrawsOf, Agendas
  <2> QED
    BY <2>1, <2>2
<1>5. RunTypes'
  <2>1. 0 \in Uses /\ (0 < MaxDraws => 0 <= Len(stream))
    BY <1>2, NumbersAre DEF Uses, Streams
  <2>2. \A r : Written(r)' = Written(r)
    BY <1>1 DEF Written
  <2>3. \A w \in Nat \ {0} : 0 % w = 0
    <3> TAKE w \in Nat \ {0}
    <3>1. 0 = 0 * w + 0 /\ 0 \in 0..(w - 1)
      OBVIOUS
    <3> QED
      BY <3>1, Divided
  <2>4. Going' => filled' % Conf'.groups = group'
    BY <1>1, <1>3, <2>3
  <2>5. DOMAIN status' = DOMAIN plan' /\ run' \in Nat \ {0}
    BY <1>1, <1>2
  <2> QED
    BY <1>1, <1>4, <2>1, <2>2, <2>4, <2>5 DEF RunInv, RunTypes
<1>6. OnCourse'
  <2> SUFFICES ASSUME Going' PROVE OnCourse'
    BY DEF OnCourse
  <2> DEFINE c == TaskOf(plan[run + 1])
             b == Beginning(c)
  <2>1. b \in Course(c, stream) /\ c.draws = Agenda(plan[run + 1].type, DrawsOf(run + 1))
    BY <1>2, <1>3, RunBegins
  <2>2. b.used = 0 /\ b.filled = 0 /\ b.drawn = NothingDrawn /\ b.todo = c.draws
    BY DEF Beginning
  <2>3. TaskOf(Conf)' = c
    BY <1>3 DEF TaskOf
  <2> HIDE DEF b, c
  <2> QED
    BY <1>1, <1>3, <2>1, <2>2, <2>3 DEF OnCourse
<1>7. GotPast'
  <2> SUFFICES ASSUME Going' PROVE GotPast'
    BY DEF GotPast
  <2>1. todo' = Draws(Conf'.db, Type')
    BY <1>1, <1>2, <1>3, RunBegins
  <2>2. ~(filled' > 0)
    BY <1>1
  <2>3. \A x : Holds(todo', x) <=> Holds(Draws(Conf'.db, Type'), x)
    BY <2>1
  <2> QED
    BY <2>2, <2>3 DEF GotPast
<1>8. ASSUME NEW r \in DOMAIN plan PROVE WrittenInTurn(r)'
  <2>1. FilledBy(r) \in Nat /\ FilledBy(r)' \in Nat /\ FilledBy(r)' <= FilledBy(r)
    <3>1. plan[r].limit \in Nat
      BY <1>2 DEF LinesRight
    <3>2. CASE r = run
      <4>1. FilledBy(r) = filled /\ FilledBy(r)' = IF how = "done" THEN plan[r].limit ELSE 0
        BY <1>1, <1>2, <3>2 DEF FilledBy
      <4> QED
        BY <1>2, <3>1, <3>2, <4>1 DEF Conf
    <3>3. CASE r = run + 1
      BY <1>1, <1>2, <3>1, <3>3 DEF FilledBy
    <3>4. CASE r # run /\ r # run + 1
      BY <1>1, <1>2, <3>1, <3>4 DEF FilledBy
    <3> QED
      BY <3>2, <3>3, <3>4
  <2>2. Continues(stream, stream') /\ stream' \in Streams
    BY <1>1, <1>2, StreamStays
  <2> QED
    BY <1>1, <2>1, <2>2, WrittenStays DEF RunInv
<1>9. ASSUME NEW r \in DOMAIN plan PROVE EndsRight(r)'
  <2>1. CASE r # run
    BY <1>1, <1>2, <2>1 DEF RunInv, EndsRight
  <2>2. CASE r = run
    <3>1. plan[r] = Conf /\ status'[r] = how /\ Conf.type = Type
      BY <1>1, <1>2, <2>2 DEF Conf, Type
    <3>2. filled > 0 => GetsThere(Conf)
      BY DEF RunInv, GotPast, GetsThere, Type
    <3> QED
      BY <1>1, <3>1, <3>2 DEF EndsRight
  <2> QED
    BY <2>1, <2>2
<1> QED
  BY <1>1, <1>5, <1>6, <1>7, <1>8, <1>9 DEF RunInv

LEMMA FillKeeps ==
    ASSUME RunInv, FillAndEncode
    PROVE  RunInv'
<1> DEFINE c == TaskOf(Conf)
           q == [number |-> filled, drawn |-> drawn, asks |-> Asks(Conf.db, Conf.tags, Type, drawn)]
<1>1. /\ Going /\ Supports(Conf.db, Type.use) /\ filled < Conf.limit /\ Implements(Conf.db, Type)
      /\ todo = <<>>
      /\ out' = IF group = Conf.group THEN [out EXCEPT ![run] = Append(@, q)] ELSE out
      /\ group' = NextGroup(group, Conf.groups) /\ filled' = filled + 1
      /\ todo' = DrawsOf(run) /\ drawn' = NothingDrawn
      /\ UNCHANGED <<plan, stream, run, used, status>>
  BY DEF FillAndEncode, InQuery, Started
<1>2. /\ run \in DOMAIN plan /\ plan \in Plans /\ LinesRight /\ stream \in Streams /\ filled \in Nat
      /\ c \in Tasks /\ Conf' = Conf /\ Type' = Type /\ Conf = plan[run] /\ Type = Conf.type
      /\ filled % Conf.groups = group /\ Conf.groups \in Nat \ {0}
      /\ DOMAIN out = DOMAIN plan
  BY <1>1, LinesAreRight DEF RunInv, RunTypes, LinesRight, Going, Conf, Type
<1>3. PICK a \in Course(c, stream) :
          a.used = used /\ a.filled = filled /\ a.drawn = drawn /\ a.todo = Agenda(Type, todo)
  BY <1>1 DEF RunInv, OnCourse
<1>4. a.todo = <<>> /\ a \in Ready(c, stream)
  <2>1. \A x : ~Holds(todo, x)
    BY <1>1 DEF Holds
  <2> QED
    BY <1>1, <1>3, <2>1 DEF Agenda, Ready
<1>5. q = Query(Conf, a) /\ (InItsTurn(Conf, a) <=> group = Conf.group)
  BY <1>2, <1>3 DEF Query, InItsTurn
<1> HIDE DEF q
<1>6. /\ \A r \in DOMAIN plan : r # run => out'[r] = out[r]
      /\ out'[run] = IF group = Conf.group THEN Append(out[run], q) ELSE out[run]
      /\ DOMAIN out' = DOMAIN plan
  BY <1>1, <1>2
<1>7. /\ out'[run] \in Seq(Written(run)')
      /\ Written(run)' = IF group = Conf.group THEN Written(run) \cup {q} ELSE Written(run)
  <2>1. out[run] \in Seq(Written(run)) /\ Written(run) = {out[run][k] : k \in DOMAIN out[run]}
    BY <1>2 DEF RunInv, RunTypes, Written
  <2>2. Written(run)' = {out'[run][k] : k \in DOMAIN out'[run]}
    BY <1>1 DEF Written
  <2>3. CASE group # Conf.group
    BY <1>6, <2>1, <2>2, <2>3
  <2>4. CASE group = Conf.group
    <3> DEFINE s == out[run]
               t == Append(s, q)
               n == Len(s)
               S == Written(run)
    <3>1. s \in Seq(S \cup {q}) /\ s \in Seq(S) /\ n \in Nat /\ DOMAIN s = 1..n
      BY <2>1
    <3>2. /\ t \in Seq(S \cup {q}) /\ DOMAIN t = 1..(n + 1) /\ t[n + 1] = q
          /\ \A i \in 1..n : t[i] = s[i]
      BY <3>1
    <3>3. out'[run] = t /\ S = {s[k] : k \in 1..n} /\ Written(run)' = {t[k] : k \in 1..(n + 1)}
      BY <1>6, <2>1, <2>2, <2>4, <3>1, <3>2
    <3> HIDE DEF s, t, n, S
    <3>4. \A i \in 1..(n + 1) : i \in 1..n \/ i = n + 1
      BY <3>1
    <3>5. n + 1 \in 1..(n + 1) /\ \A i \in 1..n : i \in 1..(n + 1)
      BY <3>1
    <3>6. {t[k] : k \in 1..(n + 1)} = S \cup {q}
      BY <3>2, <3>3, <3>4, <3>5
    <3> QED
      BY <2>4, <3>2, <3>3, <3>6 DEF S
  <2> QED
    BY <2>3, <2>4
<1>8. \A r \in DOMAIN plan : r # run => Written(r)' = Written(r)
  BY <1>6 DEF Written
<1>9. todo' \in Agendas /\ todo' = Draws(Conf.db, Type) /\ Agenda(Type, todo') = c.draws
  BY <1>1, <1>2, RunBegins
<1>10. RunTypes'
  <2>1. filled' % Conf.groups = group'
    BY <1>1, <1>2, NextInTurn
  <2>2. \A r \in DOMAIN plan : out'[r] \in Seq(Written(r)')
    <3> TAKE r \in DOMAIN plan
    <3>1. CASE r = run
      <4>1. Written(r)' = Written(run)'
        BY <1>1, <3>1 DEF Written
      <4> QED
        BY <1>7, <3>1, <4>1
    <3>2. CASE r # run
      <4>1. out[r] \in Seq(Written(r))
        BY DEF RunInv, RunTypes
      <4>2. Written(r)' = Written(r) /\ out'[r] = out[r]
        BY <1>6, <1>8, <3>2
      <4> QED
        BY <4>1, <4>2
    <3> QED
      BY <3>1, <3>2
  <2> QED
    BY <1>1, <1>2, <1>6, <1>9, <2>1, <2>2 DEF RunInv, RunTypes
<1>11. OnCourse'
  <2> DEFINE b == AfterQuery(c, a)
  <2>1. b \in Course(c, stream)
    <3>1. Possible(c, stream, a) /\ After(c, stream, a) = b
      BY <1>4 DEF Possible, After
    <3> QED
      BY <1>2, <3>1, CourseGoesOn
  <2>2. b.used = a.used /\ b.filled = a.filled + 1 /\ b.drawn = NothingDrawn /\ b.todo = c.draws
    BY DEF AfterQuery
  <2> HIDE DEF b
  <2> QED
    BY <1>1, <1>2, <1>3, <1>9, <2>1, <2>2 DEF OnCourse
<1>12. GotPast'
  <2>1. \A x : ~Holds(todo, x)
    BY <1>1 DEF Holds
  <2>2. \A x : Holds(Draws(Conf.db, Type), x) => Passes(Conf, x)
    BY <1>1, <2>1 DEF RunInv, GotPast
  <2>3. \A x : Holds(todo', x) <=> Holds(Draws(Conf.db, Type), x)
    BY <1>9
  <2> QED
    BY <1>2, <2>2, <2>3 DEF GotPast
<1>13. ASSUME NEW r \in DOMAIN plan PROVE WrittenInTurn(r)' /\ EndsRight(r)'
  <2>1. EndsRight(r)'
    BY <1>1 DEF RunInv, EndsRight
  <2>2. CASE r # run
    <3>1. FilledBy(r)' = FilledBy(r) /\ Written(r)' = Written(r)
      BY <1>1, <1>8, <2>2 DEF FilledBy
    <3>2. WrittenInTurn(r) /\ plan' = plan /\ stream' = stream
      BY <1>1 DEF RunInv
    <3> QED
      BY <2>1, <3>1, <3>2 DEF WrittenInTurn, TaskOf, Query, InItsTurn
  <2>3. CASE r = run
    <3>1. FilledBy(r)' = filled + 1 /\ FilledBy(r) = filled /\ plan[r] = Conf
      BY <1>1, <1>2, <2>3 DEF FilledBy
    <3>2. WrittenInTurn(r) /\ plan' = plan /\ stream' = stream
      BY <1>1 DEF RunInv
    <3>3. Written(r)' = IF group = Conf.group THEN Written(r) \cup {q} ELSE Written(r)
      <4>1. Written(r)' = Written(run)' /\ Written(r) = Written(run)
        BY <1>1, <2>3 DEF Written
      <4> QED
        BY <1>7, <4>1
    <3>4. ASSUME NEW p \in Written(r)'
          PROVE  \E b \in Ready(TaskOf(plan[r]), stream) :
                     p = Query(plan[r], b) /\ b.filled < plan[r].limit /\ InItsTurn(plan[r], b)
      <4>1. CASE p \in Written(r)
        BY <3>2, <4>1 DEF WrittenInTurn
      <4>2. CASE p \notin Written(r)
        <5>1. p = q /\ group = Conf.group
          BY <3>3, <3>4, <4>2
        <5> QED
          BY <1>1, <1>3, <1>4, <1>5, <3>1, <5>1
      <4> QED
        BY <4>1, <4>2
    <3>5. ASSUME NEW k \in Nat, k < FilledBy(r)'
          PROVE  \E b \in Ready(TaskOf(plan[r]), stream) :
                     b.filled = k /\ (InItsTurn(plan[r], b) => Query(plan[r], b) \in Written(r)')
      <4>1. k < FilledBy(r) \/ k = filled
        BY <1>2, <3>1, <3>5
      <4>2. CASE k < FilledBy(r)
        <5>1. PICK b \in Ready(TaskOf(plan[r]), stream) :
                  b.filled = k /\ (InItsTurn(plan[r], b) => Query(plan[r], b) \in Written(r))
          BY <3>2, <4>2 DEF WrittenInTurn
        <5> QED
          BY <3>3, <5>1
      <4>3. CASE k = filled
        BY <1>3, <1>4, <1>5, <3>1, <3>3, <4>3
      <4> QED
        BY <4>1, <4>2, <4>3
    <3>6. Supports(plan[r].db, plan[r].type.use) /\ Implements(plan[r].db, plan[r].type)
      BY <1>1, <1>2, <3>1
    <3>7. WrittenInTurn(r)'
      <4>1. plan' = plan /\ stream' = stream
        BY <1>1
      <4> QED
        BY <3>4, <3>5, <3>6, <4>1 DEF WrittenInTurn, TaskOf, Query, InItsTurn
    <3> QED
      BY <2>1, <3>7
  <2> QED
    BY <2>1, <2>2, <2>3
<1> QED
  BY <1>1, <1>10, <1>11, <1>12, <1>13 DEF RunInv

LEMMA RunInvHolds == Spec => []RunInv
<1>1. Init => RunInv
  <2> SUFFICES ASSUME Init PROVE RunInv
    OBVIOUS
  <2>1. /\ plan \in Plans /\ LinesRight /\ stream = <<>> /\ run = 1 /\ used = 0 /\ filled = 0 /\ group = 0
        /\ todo = DrawsOf(1) /\ drawn = NothingDrawn
        /\ out = [r \in DOMAIN plan |-> <<>>] /\ status = [r \in DOMAIN plan |-> "waiting"]
    BY LinesAreRight DEF Init
  <2>2. \A r \in DOMAIN plan : Written(r) = {} /\ out[r] \in Seq(Written(r)) /\ status[r] = "waiting"
    BY <2>1 DEF Written
  <2>3. todo \in Agendas
    <3>1. CASE 1 \in DOMAIN plan
      BY <2>1, <3>1, RunBegins
    <3>2. CASE 1 \notin DOMAIN plan
      BY <2>1, <3>2 DEF DrawsOf, Agendas
    <3> QED
      BY <3>1, <3>2
  <2>4. RunTypes
    <3>1. 0 \in Uses /\ <<>> \in Streams /\ Len(<<>>) = 0
      BY NumbersAre DEF Uses, Streams
    <3>2. \A w \in Nat \ {0} : 0 % w = 0
      <4> TAKE w \in Nat \ {0}
      <4>1. 0 = 0 * w + 0 /\ 0 \in 0..(w - 1)
        OBVIOUS
      <4> QED
        BY <4>1, Divided
    <3>3. Going => Conf.groups \in Nat \ {0}
      BY <2>1 DEF Going, Conf, LinesRight
    <3> QED
      BY <2>1, <2>2, <2>3, <3>1, <3>2, <3>3 DEF RunTypes
  <2>5. OnCourse
    <3> SUFFICES ASSUME Going PROVE OnCourse
      BY DEF OnCourse
    <3> DEFINE c == TaskOf(plan[1])
               b == Beginning(c)
    <3>1. /\ b \in Course(c, stream) /\ c.draws = Agenda(plan[1].type, DrawsOf(1))
          /\ Conf = plan[1] /\ Type = plan[1].type
      BY <2>1, RunBegins DEF Going, Conf, Type
    <3>2. b.used = 0 /\ b.filled = 0 /\ b.drawn = NothingDrawn /\ b.todo = c.draws
      BY DEF Beginning
    <3> HIDE DEF b
    <3> QED
      BY <2>1, <3>1, <3>2 DEF OnCourse
  <2>6. GotPast
    <3> SUFFICES ASSUME Going PROVE GotPast
      BY DEF GotPast
    <3>1. todo = Draws(Conf.db, Type)
      BY <2>1, RunBegins DEF Going, Conf, Type
    <3> QED
      BY <2>1, <3>1 DEF GotPast
  <2>7. \A r \in DOMAIN plan : WrittenInTurn(r) /\ EndsRight(r)
    <3> TAKE r \in DOMAIN plan
    <3>1. FilledBy(r) = 0
      BY <2>1, <2>2 DEF FilledBy
    <3>2. \A k \in Nat : ~(k < FilledBy(r))
      BY <3>1
    <3> QED
      BY <2>2, <3>2 DEF WrittenInTurn, EndsRight
  <2> QED
    BY <2>4, <2>5, <2>6, <2>7 DEF RunInv
<1>2. RunInv /\ [Next]_vars => RunInv'
  <2> SUFFICES ASSUME RunInv, [Next]_vars PROVE RunInv'
    OBVIOUS
  <2>1. CASE UNCHANGED vars \/ Done
    <3>1. UNCHANGED <<plan, stream, run, used, todo, drawn, filled, group, out, status>>
      BY <2>1 DEF vars, Done
    <3>2. RunTypes' /\ OnCourse' /\ GotPast'
      BY <3>1 DEF RunInv, RunTypes, OnCourse, GotPast, Going, Conf, Type, Written, TaskOf, Passes,
                  Room, HostsAvailable, DropsHostError
    <3>3. \A r \in DOMAIN plan : WrittenInTurn(r)' /\ EndsRight(r)'
      <4> TAKE r \in DOMAIN plan
      <4>1. LinesRight /\ RunTypes
        BY LinesAreRight DEF RunInv, RunTypes
      <4>2. FilledBy(r) \in Nat /\ FilledBy(r)' = FilledBy(r)
        BY <3>1, <4>1 DEF FilledBy, RunTypes, LinesRight
      <4>3. stream' \in Streams /\ Continues(stream, stream')
        BY <3>1, <4>1, StreamStays DEF RunTypes
      <4>4. WrittenInTurn(r)'
        BY <3>1, <4>1, <4>2, <4>3, WrittenStays DEF RunInv
      <4>5. EndsRight(r)'
        BY <3>1 DEF RunInv, EndsRight
      <4> QED
        BY <4>4, <4>5
    <3> QED
      BY <3>1, <3>2, <3>3 DEF RunInv
  <2>2. CASE Refuse
    BY <2>2, EndRunKeeps DEF Refuse
  <2>3. CASE Unimplemented
    BY <2>3, EndRunKeeps DEF Unimplemented, InQuery, Started
  <2>4. CASE WindowTooLarge
    <3>1. Going /\ todo # <<>> /\ Head(todo) = "window" /\ Room(Conf.end, Type.window) <= 0
          /\ EndRun("panicked")
      BY <2>4 DEF WindowTooLarge, Drawing, InQuery, Started
    <3>2. Holds(Draws(Conf.db, Type), "window")
      <4>1. Holds(todo, "window")
        BY <3>1, AgendasHold DEF RunInv, RunTypes
      <4> QED
        BY <3>1, <4>1 DEF RunInv, GotPast
    <3>3. ~Passes(Conf, "window")
      <4>1. Conf.end \in Nat /\ Type.window \in Nat /\ DataStart \in Nat
        BY <3>1, LinesAreRight, NumbersAre
           DEF RunInv, RunTypes, LinesRight, TypeRight, Going, Conf, Type
      <4>2. Room(Conf.end, Type.window) \in Int
        BY <4>1 DEF Room
      <4> QED
        BY <3>1, <4>2 DEF Passes, Type
    <3> QED
      BY <3>1, <3>2, <3>3, EndRunKeeps DEF GetsThere, Type
  <2>5. CASE HostsRefused
    <3>1. /\ Going /\ todo # <<>> /\ Head(todo) = "hosts" /\ EndRun("panicked")
          /\ ~HostsAvailable(Type.hosts) /\ ~DropsHostError(Conf.db, Type)
      BY <2>5 DEF HostsRefused, Drawing, InQuery, Started
    <3>2. Holds(Draws(Conf.db, Type), "hosts")
      <4>1. Holds(todo, "hosts")
        BY <3>1, AgendasHold DEF RunInv, RunTypes
      <4> QED
        BY <3>1, <4>1 DEF RunInv, GotPast
    <3>3. ~Passes(Conf, "hosts")
      BY <3>1 DEF Passes, Type
    <3> QED
      BY <3>1, <3>2, <3>3, EndRunKeeps DEF GetsThere, Type
  <2>6. CASE DrawWindow
    BY <2>6, DrawWindowKeeps
  <2>7. CASE DrawHost
    BY <2>7, DrawHostKeeps
  <2>8. CASE HostErrorDropped
    BY <2>8, HostErrorDroppedKeeps
  <2>9. CASE DrawFleet
    BY <2>9, DrawFleetKeeps
  <2>10. CASE FillAndEncode
    BY <2>10, FillKeeps
  <2>11. CASE Finish
    BY <2>11, EndRunKeeps DEF Finish, Started
  <2> QED
    BY <2>1, <2>2, <2>3, <2>4, <2>5, <2>6, <2>7, <2>8, <2>9, <2>10, <2>11 DEF Next
<1> QED
  BY <1>1, <1>2, PTL DEF Spec
---------------------------------------------------------------------------
(* What the invariant says of the queries.                                 *)

LEMMA SameTask ==
    ASSUME NEW c, NEW e, TypeRight(c.type), e.type = c.type, e.end = c.end,
           ~(c.type.kind = "HighCPUForHosts" /\ c.type.hosts > 0)
    PROVE  TaskOf(e) = TaskOf(c)
<1>1. c.type.hosts > 0 <=> c.type.hosts # 0
  BY DEF TypeRight
<1>2. CASE AllHosts(c.type)
  BY <1>2 DEF TaskOf
<1>3. CASE ~AllHosts(c.type)
  <2>1. Draws(e.db, c.type) = Draws(c.db, c.type)
    BY <1>1, <1>3, DrawsAre DEF AllHosts
  <2> QED
    BY <1>3, <2>1 DEF TaskOf
<1> QED
  BY <1>2, <1>3

\* What is known of a query that has been written.
LEMMA WrittenAre ==
    ASSUME RunInv, NEW r \in DOMAIN plan, NEW q \in Written(r)
    PROVE  /\ \E a \in Ready(TaskOf(plan[r]), stream) :
                  q = Query(plan[r], a) /\ a.filled < plan[r].limit /\ InItsTurn(plan[r], a)
           /\ Supports(plan[r].db, plan[r].type.use) /\ Implements(plan[r].db, plan[r].type)
           /\ TypeRight(plan[r].type) /\ TaskOf(plan[r]) \in Tasks /\ plan[r].db \in Databases
           /\ stream \in Streams
BY LinesAreRight DEF RunInv, RunTypes, LinesRight, WrittenInTurn

\* A run that is done has seen to all its queries.
LEMMA DoneWithAll ==
    ASSUME RunInv, NEW r \in DOMAIN plan, status[r] = "done",
           NEW k \in Nat, k < plan[r].limit
    PROVE  \E a \in Ready(TaskOf(plan[r]), stream) :
               a.filled = k /\ (InItsTurn(plan[r], a) => Query(plan[r], a) \in Written(r))
<1>1. r # run
  BY DEF RunInv, RunTypes
<1>2. FilledBy(r) = plan[r].limit
  BY <1>1 DEF FilledBy
<1> QED
  BY <1>2 DEF RunInv, WrittenInTurn

\* With one seed, the n-th query of a type asks about the same window, hosts and fleet for
\* every database and in every group, however many numbers the other queries took: a run draws
\* what its task and the stream lay down, and tasks of one type are the same.
THEOREM OneSeedOneDraw == Spec => []SameDraws
<1>1. RunInv => SameDraws
  <2> SUFFICES ASSUME RunInv, NEW p \in Alike, NEW x \in Written(p[1]), NEW y \in Written(p[2]),
                      x.number = y.number,
                      ~(plan[p[1]].type.kind = "HighCPUForHosts" /\ plan[p[1]].type.hosts > 0)
               PROVE  x.drawn = y.drawn
    BY DEF SameDraws
  <2>1. p[1] \in DOMAIN plan /\ p[2] \in DOMAIN plan /\ plan[p[2]].type = plan[p[1]].type
        /\ plan[p[2]].end = plan[p[1]].end
    BY DEF Alike
  <2> DEFINE c == TaskOf(plan[p[1]])
  <2>2. /\ TypeRight(plan[p[1]].type) /\ c \in Tasks /\ stream \in Streams
        /\ \E a \in Ready(c, stream) : x = Query(plan[p[1]], a)
    BY <2>1, WrittenAre
  <2>3. TaskOf(plan[p[2]]) = c
    BY <2>1, <2>2, SameTask
  <2>4. \E b \in Ready(c, stream) : y = Query(plan[p[2]], b)
    BY <2>1, <2>3, WrittenAre
  <2> HIDE DEF c
  <2>5. PICK a \in Ready(c, stream), b \in Ready(c, stream) :
            x = Query(plan[p[1]], a) /\ y = Query(plan[p[2]], b)
    BY <2>2, <2>4
  <2>6. x.number = a.filled /\ x.drawn = a.drawn /\ y.number = b.filled /\ y.drawn = b.drawn
    BY <2>5 DEF Query
  <2>7. a = b
    BY <2>2, <2>5, <2>6, QueriesDiffer
  <2> QED
    BY <2>6, <2>7
<1> QED
  BY <1>1, RunInvHolds, PTL

\* Processes that generate one group each write the queries of their turn and no others, the
\* same that one process writes at that place: a process uses up the numbers of the queries
\* it leaves to the other groups.
THEOREM GroupsDivideTheWork == Spec => []GroupsShareTheWork
<1>1. RunInv => GroupsShareTheWork
  <2> SUFFICES ASSUME RunInv, NEW p \in Alike,
                      plan[p[1]].db = plan[p[2]].db, plan[p[1]].tags = plan[p[2]].tags,
                      plan[p[1]].limit = plan[p[2]].limit, plan[p[2]].groups = 1,
                      status[p[1]] = "done", status[p[2]] = "done"
               PROVE  Written(p[1]) = {q \in Written(p[2]) : q.number % plan[p[1]].groups = plan[p[1]].group}
    BY DEF GroupsShareTheWork
  <2> DEFINE r == p[1]
             s == p[2]
             c == TaskOf(plan[r])
  <2>1. /\ r \in DOMAIN plan /\ s \in DOMAIN plan /\ plan[s].type = plan[r].type
        /\ plan[s].end = plan[r].end
    BY DEF Alike
  <2>2. c \in Tasks /\ stream \in Streams /\ TaskOf(plan[s]) = c
    BY <2>1, LinesAreRight DEF RunInv, RunTypes, LinesRight, TaskOf
  <2>3. \A a : Query(plan[s], a) = Query(plan[r], a) /\ Query(plan[r], a).number = a.filled
    BY <2>1 DEF Query
  <2>4. \A a \in Ready(c, stream) : a.filled \in Nat
    BY DEF Ready, Course, Moments
  <2>5. \A k \in Nat : k % plan[s].groups = plan[s].group
    <3>1. plan[s].group \in 0..0
      BY <2>1, LinesAreRight DEF RunInv, RunTypes, LinesRight
    <3>2. \A k \in Nat : k % 1 = 0
      OBVIOUS
    <3> QED
      BY <3>1, <3>2
  <2>6. ASSUME NEW q \in Written(r)
        PROVE  q \in Written(s) /\ q.number % plan[r].groups = plan[r].group
    <3>1. PICK a \in Ready(c, stream) :
              q = Query(plan[r], a) /\ a.filled < plan[r].limit /\ InItsTurn(plan[r], a)
      BY <2>1, WrittenAre
    <3>2. PICK b \in Ready(c, stream) :
              b.filled = a.filled /\ (InItsTurn(plan[s], b) => Query(plan[s], b) \in Written(s))
      BY <2>1, <2>2, <2>4, <3>1, DoneWithAll
    <3>3. a = b
      BY <2>2, <3>2, QueriesDiffer
    <3>4. InItsTurn(plan[s], a)
      BY <2>4, <2>5 DEF InItsTurn
    <3> QED
      BY <2>3, <3>1, <3>2, <3>3, <3>4 DEF InItsTurn
  <2>7. ASSUME NEW q \in Written(s), q.number % plan[r].groups = plan[r].group
        PROVE  q \in Written(r)
    <3>1. PICK a \in Ready(c, stream) :
              q = Query(plan[s], a) /\ a.filled < plan[s].limit
      BY <2>1, <2>2, WrittenAre
    <3>2. PICK b \in Ready(c, stream) :
              b.filled = a.filled /\ (InItsTurn(plan[r], b) => Query(plan[r], b) \in Written(r))
      BY <2>1, <2>4, <3>1, DoneWithAll
    <3>3. a = b
      BY <2>2, <3>2, QueriesDiffer
    <3>4. InItsTurn(plan[r], a)
      BY <2>3, <2>7, <3>1 DEF InItsTurn
    <3> QED
      BY <2>3, <3>1, <3>2, <3>3, <3>4
  <2> QED
    BY <2>6, <2>7
<1> QED
  BY <1>1, RunInvHolds, PTL

\* A type of queries that one database can be asked to generate can be for every other that
\* implements it: what a run has to get past is the same for all of them.
THEOREM TypesSucceedTogether == Spec => []SucceedTogether
<1>1. RunInv => SucceedTogether
  <2> SUFFICES ASSUME RunInv, NEW p \in Alike,
                      {status[p[1]], status[p[2]]} \subseteq {"done", "panicked"},
                      \A r \in {p[1], p[2]} : plan[r].limit > 0 /\ Implements(plan[r].db, plan[r].type),
                      ~(plan[p[1]].type.kind = "HighCPUForHosts" /\ plan[p[1]].type.hosts = 0)
               PROVE  status[p[1]] = status[p[2]]
    BY DEF SucceedTogether
  <2> DEFINE c == plan[p[1]]
             e == plan[p[2]]
             t == c.type
  <2>1. p[1] \in DOMAIN plan /\ p[2] \in DOMAIN plan /\ e.type = t /\ e.end = c.end
    BY DEF Alike
  <2>2. TypeRight(t)
    BY <2>1, LinesAreRight DEF RunInv, RunTypes, LinesRight
  <2>3. \A x : Holds(Draws(e.db, t), x) <=> Holds(Draws(c.db, t), x)
    BY <2>2, DrawsAre DEF AllHosts
  <2>4. ASSUME NEW x, Holds(Draws(c.db, t), x)
        PROVE  Passes(c, x) <=> Passes(e, x)
    <3>1. CASE x = "window"
      BY <2>1, <3>1 DEF Passes
    <3>2. CASE x = "hosts"
      <4>1. t.kind = "HighCPUForHosts" => HostsAvailable(t.hosts)
        <5>1. t.hosts \in {0, 1} \/ t.kind # "HighCPUForHosts"
          BY <2>2 DEF TypeRight, TimelessKinds, SessionKinds
        <5> QED
          BY <5>1, NumbersAre DEF HostsAvailable
      <4> QED
        BY <2>1, <3>2, <4>1 DEF Passes, DropsHostError
    <3>3. CASE x # "window" /\ x # "hosts"
      BY <3>3 DEF Passes
    <3> QED
      BY <3>1, <3>2, <3>3
  <2>5. GetsThere(c) <=> GetsThere(e)
    BY <2>1, <2>3, <2>4 DEF GetsThere
  <2>6. /\ status[p[1]] = "done" => GetsThere(c)
        /\ status[p[1]] = "panicked" => ~GetsThere(c)
        /\ status[p[2]] = "done" => GetsThere(e)
        /\ status[p[2]] = "panicked" => ~GetsThere(e)
    BY <2>1 DEF RunInv, EndsRight
  <2> HIDE DEF c, e, t
  <2> QED
    BY <2>5, <2>6
<1> QED
  BY <1>1, RunInvHolds, PTL
---------------------------------------------------------------------------
(* Questions that are the same.                                            *)

\* Seconds are made of whole parts.
LEMMA Truncated ==
    ASSUME NEW r \in Nat \ {0}, NEW k \in Int, NEW s \in Nat \ {0}, s = k * r, NEW x \in Int
    PROVE  Truncate(x, r) \in Int /\ Truncate(Truncate(x, r), s) = Truncate(x, s)
<1> DEFINE q == x \div s
           j == x \div r
           qk == q * k
           qs == q * s
           jr == j * r
           m == x % s
           n == x % r
<1>1. /\ q \in Int /\ m \in 0..(s - 1) /\ x = qs + m
      /\ j \in Int /\ n \in 0..(r - 1) /\ x = jr + n
  BY Quotient
<1> HIDE DEF q, j, m, n
<1>2. qk \in Int /\ qs \in Int /\ jr \in Int /\ (qk) * r = qs /\ (j + 1) * r = jr + r
  BY <1>1
<1> HIDE DEF qs, jr
<1>3. qk * r < (j + 1) * r
  <2> HIDE DEF qk
  <2> QED
    BY <1>1, <1>2
<1> HIDE DEF qk
<1>4. qk <= j
  <2>1. qk < j + 1
    BY <1>1, <1>2, <1>3, MultiplesGrow
  <2> QED
    BY <1>1, <1>2, <2>1
<1>5. qs <= jr
  <2>1. qk * r <= j * r
    <3>1. CASE qk = j
      BY <1>1, <3>1
    <3>2. CASE qk # j
      <4>1. ~(j * r < qk * r)
        BY <1>1, <1>2, <1>4, <3>2, MultiplesGrow
      <4> QED
        BY <1>1, <1>2, <4>1
    <3> QED
      BY <3>1, <3>2
  <2> QED
    BY <1>2, <2>1 DEF jr
<1>6. Truncate(x, r) = jr
  BY <1>1, <1>2 DEF Truncate, n
<1>7. jr - qs \in 0..(s - 1) /\ jr = qs + (jr - qs)
  BY <1>1, <1>2, <1>5
<1>8. jr % s = jr - qs
  <2> DEFINE z == jr - qs
  <2>1. z \in 0..(s - 1) /\ jr = qs + z
    BY <1>7
  <2> HIDE DEF z
  <2>2. jr = q * s + z
    BY <2>1 DEF qs
  <2>3. q \in Int /\ z \in 0..(s - 1) /\ jr \in Int
    BY <1>1, <1>2, <2>1
  <2>4. jr % s = z
    BY <2>2, <2>3, Rest
  <2> QED
    BY <2>4 DEF z
<1>9. Truncate(jr, s) = qs
  BY <1>2, <1>8 DEF Truncate
<1>10. Truncate(x, s) = qs
  BY <1>1, <1>2 DEF Truncate, m
<1> QED
  BY <1>2, <1>6, <1>9, <1>10

LEMMA SecondsHave ==
    ASSUME NEW r \in {Micro, Milli, Second}
    PROVE  r \in Nat \ {0} /\ Second \in Nat \ {0} /\ \E k \in Int : Second = k * r
<1>1. /\ Micro \in Nat \ {0} /\ Milli \in Nat \ {0} /\ Second \in Nat \ {0}
      /\ Milli % Micro = 0 /\ Second % Milli = 0
  BY CalendarAssumption
<1>2. PICK j \in Int : Milli = j * Micro
  <2>1. (Milli \div Micro) \in Int /\ Milli = (Milli \div Micro) * Micro + 0
    BY <1>1, Quotient
  <2> QED
    BY <1>1, <2>1
<1>3. PICK k \in Int : Second = k * Milli
  <2>1. (Second \div Milli) \in Int /\ Second = (Second \div Milli) * Milli + 0
    BY <1>1, Quotient
  <2> QED
    BY <1>1, <2>1
<1>4. (k * j) * Micro = k * (j * Micro) /\ k * j \in Int
  BY <1>1
<1>5. Second = (k * j) * Micro
  BY <1>2, <1>3, <1>4
<1>6. 1 * Second = Second
  BY <1>1
<1>7. CASE r = Micro
  BY <1>1, <1>4, <1>5, <1>7
<1>8. CASE r = Milli
  BY <1>1, <1>3, <1>8
<1>9. CASE r = Second
  BY <1>1, <1>6, <1>9
<1> QED
  BY <1>7, <1>8, <1>9

\* A window that is printed says the same up to seconds, and so does what comes before its end.
LEMMA PrintedAre ==
    ASSUME NEW w \in [start : Int, end : Int], NEW r \in {Micro, Milli, Second}
    PROVE  /\ Printed(Printed(w, r), Second) = Printed(w, Second)
           /\ Printed(Before(Printed(w, r)), Second) = Printed(Before(w), Second)
<1>1. \A x \in Int : Truncate(Truncate(x, r), Second) = Truncate(x, Second)
  BY SecondsHave, Truncated
<1> QED
  BY <1>1 DEF Printed, Before, Interval

LEMMA RowsAre ==
    /\ {"during", "docs", "per", "hosts", "take"} \subseteq DOMAIN Rows
    /\ Rows.docs = {}
BY DEF Rows

LEMMA ShapesAre ==
    ASSUME NEW metrics, NEW every, NEW w, NEW hosts
    PROVE  /\ DOMAIN MaxPerTime(metrics, every, w, hosts) = DOMAIN Rows
           /\ MaxPerTime(metrics, every, w, hosts).during = w
           /\ MaxPerTime(metrics, every, w, hosts).per = "time"
           /\ MaxPerTime(metrics, every, w, hosts).hosts = hosts
           /\ DOMAIN MeanPerHostAndHour(metrics, w) = DOMAIN Rows
           /\ MeanPerHostAndHour(metrics, w).during = w
           /\ DOMAIN HighRows(w, hosts) = DOMAIN Rows
           /\ HighRows(w, hosts).during = w
           /\ DOMAIN NewestMaxima(w) = DOMAIN Rows
           /\ NewestMaxima(w).during = w
<1> USE RowsAre
<1>1. /\ DOMAIN MaxPerTime(metrics, every, w, hosts) = DOMAIN Rows
      /\ MaxPerTime(metrics, every, w, hosts).during = w
      /\ MaxPerTime(metrics, every, w, hosts).per = "time"
      /\ MaxPerTime(metrics, every, w, hosts).hosts = hosts
  BY DEF MaxPerTime
<1>2. /\ DOMAIN MaxPerTime(1, Minute, w, {}) = DOMAIN Rows
      /\ MaxPerTime(1, Minute, w, {}).during = w
  BY DEF MaxPerTime
<1>3. DOMAIN MeanPerHostAndHour(metrics, w) = DOMAIN Rows /\ MeanPerHostAndHour(metrics, w).during = w
  BY DEF MeanPerHostAndHour
<1>4. DOMAIN HighRows(w, hosts) = DOMAIN Rows /\ HighRows(w, hosts).during = w
  BY DEF HighRows
<1>5. DOMAIN NewestMaxima(w) = DOMAIN Rows /\ NewestMaxima(w).during = w
  BY <1>2 DEF NewestMaxima
<1> QED
  BY <1>1, <1>3, <1>4, <1>5

LEMMA SameTimes ==
    ASSUME NEW f, DOMAIN f = DOMAIN Rows, NEW v, NEW w, Printed(v, Second) = Printed(w, Second)
    PROVE  Same([f EXCEPT !.during = v], [f EXCEPT !.during = w])
<1>1. {"during", "docs", "per", "hosts", "take"} \subseteq DOMAIN f
  BY RowsAre
<1> QED
  BY <1>1 DEF Same

LEMMA SameDocs ==
    ASSUME NEW q, DOMAIN q = DOMAIN Rows, NEW docs
    PROVE  Same([q EXCEPT !.docs = docs], q)
<1>1. {"during", "docs", "per", "hosts", "take"} \subseteq DOMAIN q
  BY RowsAre
<1> QED
  BY <1>1 DEF Same

LEMMA SameKeys ==
    ASSUME NEW q, DOMAIN q = DOMAIN Rows, q.per = "time", Cardinality(q.hosts) = 1
    PROVE  Same([q EXCEPT !.per = "time and host"], q)
<1>1. {"during", "docs", "per", "hosts", "take"} \subseteq DOMAIN q
  BY RowsAre
<1> QED
  BY <1>1 DEF Same

LEMMA SameFollows ==
    ASSUME NEW p, NEW q, NEW r, Same(p, q), Same(q, r)
    PROVE  Same(p, r)
BY DEF Same

\* The hours a window touches are the hour of its start and, for each full hour of it, one more,
\* where it starts on the hour or is some hours long.
LEMMA HoursCover ==
    ASSUME NEW w \in [start : Int, end : Int],
           w.start % Hour = 0 \/ \E hours \in Nat : w.end - w.start = hours * Hour
    PROVE  ((w.start \div Hour)..((w.end - 1) \div Hour)) \subseteq HoursOf(w)
<1> DEFINE s == w.start
           e == w.end
           n == e - s
           j == s \div Hour
           k == n \div Hour
           l == (e - 1) \div Hour
<1>1. Hour \in Nat \ {0} /\ s \in Int /\ e \in Int /\ n \in Int /\ e - 1 \in Int
  BY TimesAre
<1>2. /\ j \in Int /\ s % Hour \in 0..(Hour - 1) /\ s = j * Hour + (s % Hour)
      /\ k \in Int /\ n % Hour \in 0..(Hour - 1) /\ n = k * Hour + (n % Hour)
      /\ l \in Int /\ (e - 1) % Hour \in 0..(Hour - 1) /\ e - 1 = l * Hour + ((e - 1) % Hour)
  <2> HIDE DEF n
  <2> QED
    BY <1>1, Quotient, Zenon
<1>3. s % Hour = 0 \/ n % Hour = 0
  <2> SUFFICES ASSUME NEW hours \in Nat, n = hours * Hour PROVE n % Hour = 0
    OBVIOUS
  <2> HIDE DEF n
  <2>1. n = hours * Hour + 0 /\ 0 \in 0..(Hour - 1) /\ hours \in Int
    BY <1>1
  <2> QED
    BY <1>1, <2>1, Rest
<1>4. /\ ((w.start \div Hour)..((w.end - 1) \div Hour)) = j..l
      /\ HoursOf(w) = {j + i : i \in 0..k}
  BY DEF HoursOf
<1> DEFINE sm == s % Hour
           nm == n % Hour
           em == (e - 1) % Hour
           jh == j * Hour
           kh == k * Hour
           lh == l * Hour
<1>5. /\ s = jh + sm /\ n = kh + nm /\ e - 1 = lh + em /\ n = e - s
      /\ sm \in 0..(Hour - 1) /\ nm \in 0..(Hour - 1) /\ em \in 0..(Hour - 1)
      /\ sm = 0 \/ nm = 0
  BY <1>2, <1>3, Zenon
<1>6. j \in Int /\ k \in Int /\ l \in Int
  BY <1>2
<1> HIDE DEF s, e, n, j, k, l, sm, nm, em
<1>7. jh \in Int /\ kh \in Int /\ lh \in Int /\ (j + k + 1) * Hour = jh + kh + Hour
  BY <1>1, <1>6
<1> HIDE DEF jh, kh
<1>8. lh < (j + k + 1) * Hour
  <2> HIDE DEF lh
  <2>1. lh < jh + kh + Hour
    BY <1>1, <1>5, <1>7
  <2> QED
    BY <1>7, <2>1
<1>9. l < j + k + 1
  <2>1. l * Hour < (j + k + 1) * Hour /\ j + k + 1 \in Int
    BY <1>6, <1>8
  <2> QED
    BY <1>1, <1>6, <2>1, MultiplesGrow
<1>10. ASSUME NEW x \in j..l PROVE x \in {j + i : i \in 0..k}
  <2>1. x - j \in 0..k /\ x = j + (x - j)
    BY <1>6, <1>9
  <2> QED
    BY <2>1
<1> QED
  BY <1>4, <1>10

\* What a MongoDB query is about, save where it asks for the last rows of all time.
LEMMA MongoLooksInto ==
    ASSUME NEW tags, NEW t, NEW d, TypeRight(t), t.use = "devops", t.window > 0
    PROVE  LET q == Asks("mongo", tags, t, d)
               w == IF t.kind = "GroupByOrderByLimit" THEN Before(d.window) ELSE d.window
           IN  q.during = w /\ q.docs = HoursOf(w)
<1>1. Asks("mongo", tags, t, d) = MongoAsks(t, d)
  BY DEF Asks
<1>2. t.kind \in {"GroupByTime", "MaxAllCPU", "GroupByTimeAndPrimaryTag", "HighCPUForHosts",
                  "GroupByOrderByLimit"}
  <2>1. t.kind # "LastPointPerHost"
    BY DEF TypeRight
  <2> QED
    BY <2>1 DEF TypeRight
<1>3. \A q, w : DOMAIN q = DOMAIN Rows /\ q.during = w =>
          InDocs(q).during = w /\ InDocs(q).docs = HoursOf(w)
  BY RowsAre DEF InDocs
<1>4. CASE t.kind = "GroupByTime"
  <2>1. MongoAsks(t, d) = MongoGroupByTime(t, d)
    BY <1>4 DEF MongoAsks
  <2> QED
    BY <1>1, <1>3, <1>4, <2>1, ShapesAre DEF MongoGroupByTime
<1>5. CASE t.kind = "MaxAllCPU"
  <2>1. MongoAsks(t, d) = MongoMaxAllCPU(d)
    BY <1>5 DEF MongoAsks
  <2> QED
    BY <1>1, <1>3, <1>5, <2>1, ShapesAre DEF MongoMaxAllCPU
<1>6. CASE t.kind = "GroupByTimeAndPrimaryTag"
  <2>1. MongoAsks(t, d) = MongoGroupByTimeAndPrimaryTag(t, d)
    BY <1>6 DEF MongoAsks
  <2> QED
    BY <1>1, <1>3, <1>6, <2>1, ShapesAre DEF MongoGroupByTimeAndPrimaryTag
<1>7. CASE t.kind = "HighCPUForHosts"
  <2>1. MongoAsks(t, d) = MongoHighCPUForHosts(d)
    BY <1>7 DEF MongoAsks
  <2> QED
    BY <1>1, <1>3, <1>7, <2>1, ShapesAre DEF MongoHighCPUForHosts
<1>8. CASE t.kind = "GroupByOrderByLimit"
  <2>1. MongoAsks(t, d) = MongoGroupByOrderByLimit(d)
    BY <1>8 DEF MongoAsks
  <2> QED
    BY <1>1, <1>3, <1>8, <2>1, ShapesAre DEF MongoGroupByOrderByLimit
<1> QED
  BY <1>2, <1>4, <1>5, <1>6, <1>7, <1>8

\* What is known of the window, hosts and question of a query that has been written.
LEMMA QueriesAre ==
    ASSUME RunInv, NEW r \in DOMAIN plan, NEW q \in Written(r)
    PROVE  LET t == plan[r].type
               w == q.drawn.window
           IN  /\ w \in [start : Int, end : Int] /\ TypeRight(t) /\ plan[r].db \in Databases
               /\ t.window > 0 => DataStart <= w.start /\ w.end <= plan[r].end
               /\ t.window > 0 => w.end - w.start = t.window
               /\ Cardinality(q.drawn.hosts) = t.hosts
               /\ q.asks = Asks(plan[r].db, plan[r].tags, t, q.drawn)
               /\ Supports(plan[r].db, t.use) /\ Implements(plan[r].db, t)
<1> DEFINE t == plan[r].type
           c == TaskOf(plan[r])
<1>1. /\ TypeRight(t) /\ c \in Tasks /\ stream \in Streams /\ Supports(plan[r].db, t.use)
      /\ Implements(plan[r].db, t) /\ plan[r].db \in Databases
  BY WrittenAre
<1>2. PICK a \in Ready(c, stream) : q = Query(plan[r], a)
  BY WrittenAre
<1>3. q.drawn = a.drawn /\ q.asks = Asks(plan[r].db, plan[r].tags, t, a.drawn)
  BY <1>2 DEF Query
<1>4. /\ a \in Moments
      /\ Holds(c.draws, "window") => Fits(c, a.drawn.window)
      /\ Cardinality(a.drawn.hosts) = IF Holds(c.draws, "hosts") THEN c.hosts ELSE 0
  BY <1>1, ReadyIsDrawn
<1>5. c.window = t.window /\ c.hosts = t.hosts /\ c.end = plan[r].end
  BY DEF TaskOf
<1>6. a.drawn.window \in [start : Int, end : Int]
  BY <1>4 DEF Moments, Draughts
<1>7. t.window > 0 => Holds(c.draws, "window")
  <2>1. Holds(<<"window">>, "window")
    <3>1. DOMAIN <<"window">> = {1} /\ <<"window">>[1] = "window"
      OBVIOUS
    <3> QED
      BY <3>1 DEF Holds
  <2> QED
    BY <1>1, <2>1, DrawsAre DEF TaskOf
<1>8. Cardinality(a.drawn.hosts) = t.hosts
  <2>1. t.hosts \in Nat
    BY <1>1 DEF TypeRight
  <2>2. CASE AllHosts(t)
    <3>1. ~Holds(c.draws, "hosts")
      <4>1. c.draws = <<"window">>
        BY <2>2 DEF TaskOf
      <4>2. DOMAIN <<"window">> = {1} /\ <<"window">>[1] = "window"
        OBVIOUS
      <4> QED
        BY <4>1, <4>2 DEF Holds
    <3> QED
      BY <1>4, <2>2, <3>1 DEF AllHosts
  <2>3. CASE ~AllHosts(t)
    <3>1. Holds(c.draws, "hosts") <=> t.hosts > 0
      BY <1>1, <2>3, DrawsAre DEF TaskOf
    <3> QED
      BY <1>4, <1>5, <2>1, <3>1
  <2> QED
    BY <2>2, <2>3
<1> HIDE DEF c
<1> QED
  BY <1>1, <1>3, <1>4, <1>5, <1>6, <1>7, <1>8 DEF Fits

\* A query's window lies in the data that is generated and is as long as its type says, its
\* hosts are as many as it says, and MongoDB reads the documents of every hour it asks about.
THEOREM QueriesAskAboutData == Spec => []AsksWithinData
<1>1. RunInv => DocsCoverWindow
  <2> SUFFICES ASSUME RunInv, NEW r \in DOMAIN plan, NEW q \in Written(r),
                      plan[r].db = "mongo", plan[r].type.window > 0,
                      plan[r].type.kind = "GroupByOrderByLimit" => DataStart % Hour = 0
               PROVE  ((q.asks.during.start \div Hour)..((q.asks.during.end - 1) \div Hour))
                          \subseteq q.asks.docs
    BY DEF DocsCoverWindow
  <2> DEFINE t == plan[r].type
             v == q.drawn.window
             w == IF t.kind = "GroupByOrderByLimit" THEN Before(v) ELSE v
  <2>1. /\ v \in [start : Int, end : Int] /\ TypeRight(t) /\ v.end - v.start = t.window
        /\ q.asks = Asks("mongo", plan[r].tags, t, q.drawn) /\ Supports("mongo", t.use)
    BY QueriesAre
  <2>2. t.use = "devops"
    BY <2>1 DEF Supports
  <2>3. q.asks.during = w /\ q.asks.docs = HoursOf(w)
    BY <2>1, <2>2, MongoLooksInto
  <2>4. w \in [start : Int, end : Int]
    BY <2>1, NumbersAre DEF Before, Interval
  <2>5. w.start % Hour = 0 \/ \E hours \in Nat : w.end - w.start = hours * Hour
    <3>1. CASE t.kind = "GroupByOrderByLimit"
      BY <3>1 DEF Before, Interval
    <3>2. CASE t.kind # "GroupByOrderByLimit"
      <4>1. \E hours \in Nat : t.window = hours * Hour
        BY <2>1, <2>2 DEF TypeRight, DevopsKinds
      <4> QED
        BY <2>1, <3>2, <4>1
    <3> QED
      BY <3>1, <3>2
  <2> HIDE DEF w
  <2>6. ((w.start \div Hour)..((w.end - 1) \div Hour)) \subseteq HoursOf(w)
    BY <2>4, <2>5, HoursCover
  <2> QED
    BY <2>3, <2>6
<1>2. RunInv => AsksWithinData
  BY <1>1, QueriesAre DEF AsksWithinData
<1> QED
  BY <1>2, RunInvHolds, PTL

\* Questions of one shape are the same when their windows are up to seconds.
LEMMA ShapesAgree ==
    ASSUME NEW v, NEW w, NEW metrics, NEW every, NEW hosts,
           Printed(v, Second) = Printed(w, Second)
    PROVE  /\ Same(MaxPerTime(metrics, every, v, hosts), MaxPerTime(metrics, every, w, hosts))
           /\ Same(MeanPerHostAndHour(metrics, v), MeanPerHostAndHour(metrics, w))
           /\ Same(HighRows(v, hosts), HighRows(w, hosts))
           /\ Same(NewestMaxima(v), NewestMaxima(w))
<1>1. Same(MaxPerTime(metrics, every, v, hosts), MaxPerTime(metrics, every, w, hosts))
  <2> DEFINE f == [Rows EXCEPT !.metrics = metrics, !.reduce = "max", !.every = every, !.per = "time",
                               !.hosts = hosts]
  <2>1. DOMAIN f = DOMAIN Rows
    OBVIOUS
  <2>2. \A x : MaxPerTime(metrics, every, x, hosts) = [f EXCEPT !.during = x]
    BY DEF MaxPerTime
  <2> HIDE DEF f
  <2> QED
    BY <2>1, <2>2, SameTimes
<1>2. Same(MeanPerHostAndHour(metrics, v), MeanPerHostAndHour(metrics, w))
  <2> DEFINE f == [Rows EXCEPT !.metrics = metrics, !.reduce = "mean", !.every = Hour,
                               !.per = "time and host"]
  <2>1. DOMAIN f = DOMAIN Rows
    OBVIOUS
  <2>2. \A x : MeanPerHostAndHour(metrics, x) = [f EXCEPT !.during = x]
    BY DEF MeanPerHostAndHour
  <2> HIDE DEF f
  <2> QED
    BY <2>1, <2>2, SameTimes
<1>3. Same(HighRows(v, hosts), HighRows(w, hosts))
  <2> DEFINE f == [Rows EXCEPT !.where = "usage_user > 90", !.hosts = hosts]
  <2>1. DOMAIN f = DOMAIN Rows
    OBVIOUS
  <2>2. \A x : HighRows(x, hosts) = [f EXCEPT !.during = x]
    BY DEF HighRows
  <2> HIDE DEF f
  <2> QED
    BY <2>1, <2>2, SameTimes
<1>4. Same(NewestMaxima(v), NewestMaxima(w))
  <2> DEFINE e == [Rows EXCEPT !.metrics = 1, !.reduce = "max", !.every = Minute, !.per = "time",
                               !.hosts = {}]
             f == [e EXCEPT !.take = Newest(5)]
  <2>1. DOMAIN e = DOMAIN Rows
    OBVIOUS
  <2>2. \A x : NewestMaxima(x) = [[e EXCEPT !.during = x] EXCEPT !.take = Newest(5)]
    BY DEF NewestMaxima, MaxPerTime
  <2> HIDE DEF e
  <2>3. \A x : [[e EXCEPT !.during = x] EXCEPT !.take = Newest(5)] = [f EXCEPT !.during = x]
    BY <2>1, RowsAre
  <2>4. DOMAIN f = DOMAIN Rows
    BY <2>1
  <2> HIDE DEF f
  <2>5. \A x : NewestMaxima(x) = [f EXCEPT !.during = x]
    BY <2>2, <2>3
  <2> QED
    BY <2>4, <2>5, SameTimes
<1> QED
  BY <1>1, <1>2, <1>3, <1>4

LEMMA SameAsItself == \A q : Same(q, q)
BY DEF Same

LEMMA MeantAre ==
    ASSUME NEW t, NEW d
    PROVE  /\ t.kind = "GroupByTime" => Meant(t, d) = MaxPerTime(t.metrics, Minute, d.window, d.hosts)
           /\ t.kind = "MaxAllCPU" => Meant(t, d) = MaxPerTime(NumMetrics, Hour, d.window, d.hosts)
           /\ t.kind = "GroupByTimeAndPrimaryTag" => Meant(t, d) = MeanPerHostAndHour(t.metrics, d.window)
           /\ t.kind = "GroupByOrderByLimit" => Meant(t, d) = NewestMaxima(Before(d.window))
           /\ t.kind = "LastPointPerHost" => Meant(t, d) = LastRows
           /\ t.kind = "HighCPUForHosts" => Meant(t, d) = HighRows(d.window, d.hosts)
BY DEF Meant

\* Questions of devops in the shapes they are meant in, about a window that is printed.
LEMMA PrintedAgree ==
    ASSUME NEW t, NEW d, d.window \in [start : Int, end : Int],
           NEW r \in {Micro, Milli, Second}, NEW metrics, NEW every, NEW hosts
    PROVE  LET v == Printed(d.window, r)
           IN  /\ Same(MaxPerTime(metrics, every, v, hosts), MaxPerTime(metrics, every, d.window, hosts))
               /\ Same(MeanPerHostAndHour(metrics, v), MeanPerHostAndHour(metrics, d.window))
               /\ Same(HighRows(v, hosts), HighRows(d.window, hosts))
               /\ Same(NewestMaxima(Before(v)), NewestMaxima(Before(d.window)))
BY PrintedAre, ShapesAgree

LEMMA TimescaleMeans ==
    ASSUME NEW tags, NEW t, NEW d, d.window \in [start : Int, end : Int],
           t.kind \in DevopsKinds,
           tags = {"columns"} \/ t.kind # "GroupByTimeAndPrimaryTag",
           tags # {"columns", "json"} \/ t.kind # "LastPointPerHost"
    PROVE  Same(TimescaleAsks(tags, t, d), Meant(t, d))
<1> USE PrintedAgree, MeantAre, SameAsItself DEF TimescaleAsks, TimescaleWindow
<1>1. CASE t.kind = "GroupByTime"
  BY <1>1 DEF TimescaleGroupByTime
<1>2. CASE t.kind = "MaxAllCPU"
  BY <1>2 DEF TimescaleMaxAllCPU
<1>3. CASE t.kind = "GroupByTimeAndPrimaryTag"
  BY <1>3 DEF TimescaleGroupByTimeAndPrimaryTag
<1>4. CASE t.kind = "HighCPUForHosts"
  BY <1>4 DEF TimescaleHighCPUForHosts
<1>5. CASE t.kind = "GroupByOrderByLimit"
  BY <1>5 DEF TimescaleGroupByOrderByLimit
<1>6. CASE t.kind = "LastPointPerHost"
  BY <1>6 DEF TimescaleLastPointPerHost
<1> QED
  BY <1>1, <1>2, <1>3, <1>4, <1>5, <1>6 DEF DevopsKinds

LEMMA CrateMeans ==
    ASSUME NEW t, NEW d, d.window \in [start : Int, end : Int], t.kind \in DevopsKinds
    PROVE  Same(CrateAsks(t, d), Meant(t, d))
<1> USE PrintedAgree, MeantAre, SameAsItself DEF CrateAsks, CrateWindow
<1>1. CASE t.kind = "GroupByTime"
  BY <1>1 DEF CrateGroupByTime
<1>2. CASE t.kind = "MaxAllCPU"
  BY <1>2 DEF CrateMaxAllCPU
<1>3. CASE t.kind = "GroupByTimeAndPrimaryTag"
  BY <1>3 DEF CrateGroupByTimeAndPrimaryTag
<1>4. CASE t.kind = "HighCPUForHosts"
  BY <1>4 DEF CrateHighCPUForHosts
<1>5. CASE t.kind = "GroupByOrderByLimit"
  BY <1>5 DEF CrateGroupByOrderByLimit
<1>6. CASE t.kind = "LastPointPerHost"
  BY <1>6 DEF CrateLastPointPerHost
<1> QED
  BY <1>1, <1>2, <1>3, <1>4, <1>5, <1>6 DEF DevopsKinds

LEMMA CassandraMeans ==
    ASSUME NEW t, NEW d, d.window \in [start : Int, end : Int],
           t.kind \in DevopsKinds \ {"GroupByTimeAndPrimaryTag"}
    PROVE  Same(CassandraAsks(t, d), Meant(t, d))
<1> USE PrintedAgree, MeantAre, SameAsItself DEF CassandraAsks
<1>1. CASE t.kind = "GroupByTime"
  BY <1>1 DEF CassandraGroupByTime
<1>2. CASE t.kind = "MaxAllCPU"
  BY <1>2 DEF CassandraMaxAllCPU
<1>3. CASE t.kind = "HighCPUForHosts"
  BY <1>3 DEF CassandraHighCPUForHosts
<1>4. CASE t.kind = "GroupByOrderByLimit"
  BY <1>4 DEF CassandraGroupByOrderByLimit
<1>5. CASE t.kind = "LastPointPerHost"
  BY <1>5 DEF CassandraLastPointPerHost
<1> QED
  BY <1>1, <1>2, <1>3, <1>4, <1>5 DEF DevopsKinds

LEMMA ClickhouseMeans ==
    ASSUME NEW tags, NEW t, NEW d, d.window \in [start : Int, end : Int],
           t.kind \in DevopsKinds,
           "columns" \in tags \/ t.kind \notin {"GroupByTimeAndPrimaryTag", "LastPointPerHost"}
    PROVE  Same(ClickhouseAsks(tags, t, d), Meant(t, d))
<1> USE PrintedAgree, MeantAre, SameAsItself DEF ClickhouseAsks, ClickhouseWindow
<1>1. CASE t.kind = "GroupByTime"
  BY <1>1 DEF ClickhouseGroupByTime
<1>2. CASE t.kind = "MaxAllCPU"
  BY <1>2 DEF ClickhouseMaxAllCPU
<1>3. CASE t.kind = "GroupByTimeAndPrimaryTag"
  BY <1>3 DEF ClickhouseGroupByTimeAndPrimaryTag
<1>4. CASE t.kind = "HighCPUForHosts"
  BY <1>4 DEF ClickhouseHighCPUForHosts
<1>5. CASE t.kind = "GroupByOrderByLimit"
  BY <1>5 DEF ClickhouseGroupByOrderByLimit
<1>6. CASE t.kind = "LastPointPerHost"
  BY <1>6 DEF ClickhouseLastPointPerHost
<1> QED
  BY <1>1, <1>2, <1>3, <1>4, <1>5, <1>6 DEF DevopsKinds

LEMMA InfluxMeans ==
    ASSUME NEW t, NEW d, d.window \in [start : Int, end : Int],
           t.kind \in DevopsKinds \ {"MaxAllCPU", "GroupByOrderByLimit"}
    PROVE  Same(InfluxAsks(t, d), Meant(t, d))
<1> USE PrintedAgree, MeantAre, SameAsItself DEF InfluxAsks, InfluxWindow
<1>1. CASE t.kind = "GroupByTime"
  BY <1>1 DEF InfluxGroupByTime
<1>2. CASE t.kind = "GroupByTimeAndPrimaryTag"
  BY <1>2 DEF InfluxGroupByTimeAndPrimaryTag
<1>3. CASE t.kind = "HighCPUForHosts"
  BY <1>3 DEF InfluxHighCPUForHosts
<1>4. CASE t.kind = "LastPointPerHost"
  BY <1>4 DEF InfluxLastPointPerHost
<1> QED
  BY <1>1, <1>2, <1>3, <1>4 DEF DevopsKinds

\* SiriDB keeps the one host apart.
LEMMA SiriMeans ==
    ASSUME NEW t, NEW d, d.window \in [start : Int, end : Int],
           t.kind \in DevopsKinds \ {"GroupByOrderByLimit", "HighCPUForHosts"},
           t.kind \in {"GroupByTime", "MaxAllCPU"} => Cardinality(d.hosts) = 1
    PROVE  Same(SiriAsks(t, d), Meant(t, d))
<1> USE PrintedAgree, MeantAre, SameAsItself DEF SiriAsks, SiriWindow
<1>1. ASSUME NEW metrics, NEW every, Cardinality(d.hosts) = 1
      PROVE  /\ Same([MaxPerTime(metrics, every, SiriWindow(d.window), d.hosts) EXCEPT !.per = "time and host"],
                      MaxPerTime(metrics, every, d.window, d.hosts))
             /\ Same([MaxPerTime(metrics, every, SiriWindow(d.window), d.hosts) EXCEPT !.per = "time"],
                      MaxPerTime(metrics, every, d.window, d.hosts))
  <2> DEFINE q == MaxPerTime(metrics, every, SiriWindow(d.window), d.hosts)
             p == MaxPerTime(metrics, every, d.window, d.hosts)
  <2>1. Same(q, p)
    OBVIOUS
  <2>2. DOMAIN q = DOMAIN Rows /\ q.per = "time" /\ q.hosts = d.hosts
    BY ShapesAre
  <2>3. q = [x \in DOMAIN q |-> q[x]]
    BY DEF MaxPerTime
  <2> HIDE DEF q, p
  <2>4. Same([q EXCEPT !.per = "time and host"], q)
    BY <1>1, <2>2, SameKeys
  <2>5. [q EXCEPT !.per = "time"] = q
    BY <2>2, <2>3
  <2>6. Same([q EXCEPT !.per = "time and host"], p) /\ Same([q EXCEPT !.per = "time"], p)
    BY <2>1, <2>4, <2>5, SameFollows
  <2> QED
    BY <2>6 DEF q, p
<1>2. CASE t.kind = "GroupByTime"
  <2>1. SiriAsks(t, d) = SiriGroupByTime(t, d)
    BY <1>2
  <2>2. SiriGroupByTime(t, d) \in
            {[MaxPerTime(t.metrics, Minute, SiriWindow(d.window), d.hosts) EXCEPT !.per = "time"],
             [MaxPerTime(t.metrics, Minute, SiriWindow(d.window), d.hosts) EXCEPT !.per = "time and host"]}
    <3>1. CASE t.metrics = 1
      BY ONLY <3>1 DEF SiriGroupByTime
    <3>2. CASE t.metrics # 1
      BY ONLY <3>2 DEF SiriGroupByTime
    <3> QED
      BY <3>1, <3>2
  <2>3. Meant(t, d) = MaxPerTime(t.metrics, Minute, d.window, d.hosts)
    BY <1>2
  <2>4. Cardinality(d.hosts) = 1
    BY <1>2
  <2> DEFINE q == MaxPerTime(t.metrics, Minute, SiriWindow(d.window), d.hosts)
             r == MaxPerTime(t.metrics, Minute, d.window, d.hosts)
  <2>5. Same([q EXCEPT !.per = "time and host"], r) /\ Same([q EXCEPT !.per = "time"], r)
    BY <1>1, <2>4
  <2> HIDE DEF q, r
  <2>6. SiriAsks(t, d) \in {[q EXCEPT !.per = "time"], [q EXCEPT !.per = "time and host"]} /\ Meant(t, d) = r
    BY ONLY <2>1, <2>2, <2>3, Zenon DEF q, r
  <2> QED
    BY ONLY <2>5, <2>6
<1>3. CASE t.kind = "MaxAllCPU"
  <2>1. SiriAsks(t, d) = SiriMaxAllCPU(d)
    BY <1>3
  <2>2. SiriMaxAllCPU(d) =
            [MaxPerTime(NumMetrics, Hour, SiriWindow(d.window), d.hosts) EXCEPT !.per = "time and host"]
    BY ONLY DEF SiriMaxAllCPU
  <2>3. Meant(t, d) = MaxPerTime(NumMetrics, Hour, d.window, d.hosts)
    BY <1>3
  <2>4. Cardinality(d.hosts) = 1
    BY <1>3
  <2> DEFINE q == MaxPerTime(NumMetrics, Hour, SiriWindow(d.window), d.hosts)
             r == MaxPerTime(NumMetrics, Hour, d.window, d.hosts)
  <2>5. Same([q EXCEPT !.per = "time and host"], r)
    BY <1>1, <2>4
  <2> HIDE DEF q, r
  <2>6. SiriAsks(t, d) = [q EXCEPT !.per = "time and host"] /\ Meant(t, d) = r
    BY ONLY <2>1, <2>2, <2>3, Zenon DEF q, r
  <2> QED
    BY ONLY <2>5, <2>6
<1>4. CASE t.kind = "GroupByTimeAndPrimaryTag"
  BY <1>4 DEF SiriGroupByTimeAndPrimaryTag
<1>5. CASE t.kind = "LastPointPerHost"
  BY <1>5 DEF SiriLastPointPerHost
<1> QED
  BY <1>2, <1>3, <1>4, <1>5 DEF DevopsKinds

\* One of the functors of RedisTimeSeries reduces over hosts where there are several.
LEMMA RedisMeans ==
    ASSUME NEW t, NEW d, d.window \in [start : Int, end : Int], TypeRight(t),
           t.kind \in DevopsKinds \ {"GroupByOrderByLimit"}
    PROVE  Same(RedisAsks(t, d), Meant(t, d))
<1> USE PrintedAgree, MeantAre, SameAsItself DEF RedisAsks, RedisWindow
<1>1. CASE t.kind = "GroupByTime"
  <2> DEFINE q == MaxPerTime(t.metrics, Minute, RedisWindow(d.window), d.hosts)
  <2>1. RedisFunctor(t) \in {"GroupByTimeAndMax", "GroupByTimeAndTagMax"} \/ t.hosts = 1
    <3>1. t.hosts \in Nat /\ t.metrics \in Nat /\ t.hosts > 0 /\ t.metrics > 0
      BY <1>1 DEF TypeRight, TimelessKinds, SessionKinds
    <3>2. t.hosts > 1 /\ t.metrics = 1 => RedisFunctor(t) = "GroupByTimeAndMax"
      BY <3>1 DEF RedisFunctor
    <3>3. t.hosts > 1 /\ t.metrics > 1 => RedisFunctor(t) = "GroupByTimeAndTagMax"
      BY <3>1 DEF RedisFunctor
    <3> QED
      BY <3>1, <3>2, <3>3
  <2>2. RedisAsks(t, d) = [q EXCEPT !.per = "time"]
    <3>1. RedisAsks(t, d) = RedisGroupByTime(t, d)
      BY <1>1
    <3>2. RedisGroupByTime(t, d) = [q EXCEPT !.per = "time"]
      BY ONLY <2>1 DEF RedisGroupByTime
    <3> QED
      BY <3>1, <3>2
  <2>3. Same(q, Meant(t, d))
    BY <1>1
  <2>4. DOMAIN q = DOMAIN Rows /\ q.per = "time"
    BY ShapesAre
  <2>5. q = [x \in DOMAIN q |-> q[x]]
    BY DEF MaxPerTime
  <2> HIDE DEF q
  <2>6. [q EXCEPT !.per = "time"] = q
    BY <2>4, <2>5
  <2> QED
    BY <2>2, <2>3, <2>6
<1>2. CASE t.kind = "MaxAllCPU"
  BY <1>2 DEF RedisMaxAllCPU
<1>3. CASE t.kind = "GroupByTimeAndPrimaryTag"
  BY <1>3 DEF RedisGroupByTimeAndPrimaryTag
<1>4. CASE t.kind = "HighCPUForHosts"
  BY <1>4 DEF RedisHighCPUForHosts
<1>5. CASE t.kind = "LastPointPerHost"
  BY <1>5 DEF RedisLastPointPerHost
<1> QED
  BY <1>1, <1>2, <1>3, <1>4, <1>5 DEF DevopsKinds

\* MongoDB names documents besides.
LEMMA MongoMeans ==
    ASSUME NEW t, NEW d, d.window \in [start : Int, end : Int],
           t.kind \in DevopsKinds \ {"LastPointPerHost"}
    PROVE  Same(MongoAsks(t, d), Meant(t, d))
<1> USE MeantAre, SameAsItself DEF MongoAsks
<1>1. \A q : DOMAIN q = DOMAIN Rows => Same(InDocs(q), q)
  BY SameDocs DEF InDocs
<1>2. CASE t.kind = "GroupByTime"
  BY <1>1, <1>2, ShapesAre DEF MongoGroupByTime
<1>3. CASE t.kind = "MaxAllCPU"
  BY <1>1, <1>3, ShapesAre DEF MongoMaxAllCPU
<1>4. CASE t.kind = "GroupByTimeAndPrimaryTag"
  BY <1>1, <1>4, ShapesAre DEF MongoGroupByTimeAndPrimaryTag
<1>5. CASE t.kind = "HighCPUForHosts"
  BY <1>1, <1>5, ShapesAre DEF MongoHighCPUForHosts
<1>6. CASE t.kind = "GroupByOrderByLimit"
  BY <1>1, <1>6, ShapesAre DEF MongoGroupByOrderByLimit
<1> QED
  BY <1>2, <1>3, <1>4, <1>5, <1>6 DEF DevopsKinds

NaiveKinds == {"GroupByTime", "GroupByTimeAndPrimaryTag"}

LEMMA NaiveMeans ==
    ASSUME NEW t, NEW d, t.kind \in NaiveKinds
    PROVE  Same(NaiveAsks(t, d), Meant(t, d))
<1> USE MeantAre, SameAsItself DEF NaiveAsks
<1>1. CASE t.kind = "GroupByTime"
  BY <1>1 DEF NaiveGroupByTime
<1>2. CASE t.kind = "GroupByTimeAndPrimaryTag"
  BY <1>2 DEF NaiveGroupByTimeAndPrimaryTag
<1> QED
  BY <1>1, <1>2 DEF NaiveKinds

\* Questions about fleets.
LEMMA SessionsAgree ==
    ASSUME NEW d, d.window \in [start : Int, end : Int], NEW r \in {Micro, Milli, Second},
           NEW rest, NEW duration
    PROVE  Same(MovingPeriods(Printed(d.window, r), d.fleet, rest, duration),
                MovingPeriods(d.window, d.fleet, rest, duration))
<1> DEFINE f == [Readings(d.fleet) EXCEPT !.reduce = "periods of mean velocity > 1",
                    !.every = 10 * Minute, !.per = "host",
                    !.having = <<"more than", TenMinutePeriods(rest, duration)>>]
<1>1. DOMAIN f = DOMAIN Rows
  BY DEF Readings
<1>2. Printed(Printed(d.window, r), Second) = Printed(d.window, Second)
  BY PrintedAre
<1>3. \A x : MovingPeriods(x, d.fleet, rest, duration) = [f EXCEPT !.during = x]
  BY DEF MovingPeriods
<1> HIDE DEF f
<1>4. Same([f EXCEPT !.during = Printed(d.window, r)], [f EXCEPT !.during = d.window])
  BY <1>1, <1>2, SameTimes
<1> QED
  BY <1>3, <1>4

StationaryReadings(w, fleet) ==
    [Readings(fleet) EXCEPT !.reduce = "mean velocity", !.per = "host",
        !.having = <<"velocity < 1">>, !.during = w]

LEMMA StationaryAgree ==
    ASSUME NEW d, d.window \in [start : Int, end : Int], NEW r \in {Micro, Milli, Second}
    PROVE  Same(StationaryReadings(Printed(d.window, r), d.fleet), StationaryReadings(d.window, d.fleet))
<1> DEFINE f == [Readings(d.fleet) EXCEPT !.reduce = "mean velocity", !.per = "host",
                    !.having = <<"velocity < 1">>]
<1>1. DOMAIN f = DOMAIN Rows
  BY DEF Readings
<1>2. Printed(Printed(d.window, r), Second) = Printed(d.window, Second)
  BY PrintedAre
<1>3. \A x : StationaryReadings(x, d.fleet) = [f EXCEPT !.during = x]
  BY DEF StationaryReadings
<1> HIDE DEF f
<1>4. Same([f EXCEPT !.during = Printed(d.window, r)], [f EXCEPT !.during = d.window])
  BY <1>1, <1>2, SameTimes
<1> QED
  BY <1>3, <1>4

LEMMA StationaryMeant ==
    ASSUME NEW t, NEW d, t.kind = "StationaryTrucks"
    PROVE  Meant(t, d) = StationaryReadings(d.window, d.fleet)
BY DEF Meant, StationaryReadings

LEMMA SessionsMeant ==
    ASSUME NEW t, NEW d, TypeRight(t)
    PROVE  /\ t.kind = "TrucksWithLongDrivingSessions" =>
                  Meant(t, d) = MovingPeriods(d.window, d.fleet, 5, t.window)
           /\ t.kind = "TrucksWithLongDailySessions" =>
                  Meant(t, d) = MovingPeriods(d.window, d.fleet, 35, t.window)
<1>1. CASE t.kind = "TrucksWithLongDrivingSessions"
  <2>1. Meant(t, d) = MovingPeriods(d.window, d.fleet, 5, 4 * Hour)
    BY ONLY <1>1 DEF Meant
  <2>2. t.window = 4 * Hour
    BY <1>1 DEF TypeRight
  <2> QED
    BY <1>1, <2>1, <2>2, Zenon
<1>2. CASE t.kind = "TrucksWithLongDailySessions"
  <2>1. Meant(t, d) = MovingPeriods(d.window, d.fleet, 35, 24 * Hour)
    BY ONLY <1>2 DEF Meant
  <2>2. t.window = 24 * Hour
    BY <1>2 DEF TypeRight
  <2> QED
    BY <1>2, <2>1, <2>2, Zenon
<1> QED
  BY <1>1, <1>2, Zenon

LEMMA FleetMeantAre ==
    ASSUME NEW t, NEW d
    PROVE  /\ t.kind = "LastLocByTruck" =>
                  Meant(t, d) = [LastRows EXCEPT !.from = "readings", !.hosts = d.hosts]
           /\ t.kind = "LastLocPerTruck" => Meant(t, d) = LastOfFleet("readings", d.fleet)
           /\ t.kind = "TrucksWithLowFuel" =>
                  Meant(t, d) = [LastOfFleet("diagnostics", d.fleet) EXCEPT !.having = <<"fuel under 0.1">>]
           /\ t.kind = "TrucksWithHighLoad" =>
                  Meant(t, d) = [LastOfFleet("diagnostics", d.fleet) EXCEPT !.having = <<"load over 0.9">>]
BY DEF Meant

LEMMA TimescaleFleetMeans ==
    ASSUME NEW tags, NEW t, NEW d, d.window \in [start : Int, end : Int], TypeRight(t), t.use = "iot",
           "json" \notin tags \/ t.kind \notin {"LastLocByTruck", "TrucksWithHighLoad"}
    PROVE  Same(TimescaleFleetAsks(tags, t, d), Meant(t, d))
<1>1. CASE t.kind = "LastLocByTruck"
  <2>1. TimescaleFleetAsks(tags, t, d) = TimescaleLastLocByTruck(tags, d)
    BY ONLY <1>1 DEF TimescaleFleetAsks
  <2>2. Meant(t, d) = TimescaleLastLocByTruck(tags, d)
    BY <1>1, FleetMeantAre DEF TimescaleLastLocByTruck
  <2> QED
    BY <2>1, <2>2, SameAsItself
<1>2. CASE t.kind = "LastLocPerTruck"
  <2>1. TimescaleFleetAsks(tags, t, d) = TimescaleLastLocPerTruck(d)
    BY ONLY <1>2 DEF TimescaleFleetAsks
  <2>2. Meant(t, d) = TimescaleLastLocPerTruck(d)
    BY <1>2, FleetMeantAre DEF TimescaleLastLocPerTruck
  <2> QED
    BY <2>1, <2>2, SameAsItself
<1>3. CASE t.kind = "TrucksWithLowFuel"
  <2>1. TimescaleFleetAsks(tags, t, d) = TimescaleTrucksWithLowFuel(d)
    BY ONLY <1>3 DEF TimescaleFleetAsks
  <2>2. Meant(t, d) = TimescaleTrucksWithLowFuel(d)
    BY <1>3, FleetMeantAre DEF TimescaleTrucksWithLowFuel
  <2> QED
    BY <2>1, <2>2, SameAsItself
<1>4. CASE t.kind = "TrucksWithHighLoad"
  <2>1. TimescaleFleetAsks(tags, t, d) = TimescaleTrucksWithHighLoad(tags, d)
    BY ONLY <1>4 DEF TimescaleFleetAsks
  <2>2. Meant(t, d) = TimescaleTrucksWithHighLoad(tags, d)
    BY <1>4, FleetMeantAre DEF TimescaleTrucksWithHighLoad
  <2> QED
    BY <2>1, <2>2, SameAsItself
<1>5. CASE t.kind = "StationaryTrucks"
  <2>1. TimescaleFleetAsks(tags, t, d) = TimescaleStationaryTrucks(d)
    BY ONLY <1>5 DEF TimescaleFleetAsks
  <2>2. TimescaleStationaryTrucks(d) = StationaryReadings(Printed(d.window, Micro), d.fleet)
    BY DEF TimescaleStationaryTrucks, TimescaleWindow, StationaryReadings
  <2>3. Same(StationaryReadings(Printed(d.window, Micro), d.fleet), StationaryReadings(d.window, d.fleet))
    BY StationaryAgree
  <2> QED
    BY <1>5, <2>1, <2>2, <2>3, StationaryMeant
<1>6. CASE t.kind = "TrucksWithLongDrivingSessions"
  <2>1. TimescaleFleetAsks(tags, t, d) = TimescaleTrucksWithLongDrivingSessions(t, d)
    BY ONLY <1>6 DEF TimescaleFleetAsks
  <2>2. TimescaleTrucksWithLongDrivingSessions(t, d) = MovingPeriods(Printed(d.window, Micro), d.fleet, 5, t.window)
    BY DEF TimescaleTrucksWithLongDrivingSessions, TimescaleWindow
  <2>3. Meant(t, d) = MovingPeriods(d.window, d.fleet, 5, t.window)
    BY <1>6, SessionsMeant
  <2> QED
    BY <2>1, <2>2, <2>3, SessionsAgree
<1>7. CASE t.kind = "TrucksWithLongDailySessions"
  <2>1. TimescaleFleetAsks(tags, t, d) = TimescaleTrucksWithLongDailySessions(t, d)
    BY ONLY <1>7 DEF TimescaleFleetAsks
  <2>2. TimescaleTrucksWithLongDailySessions(t, d) = MovingPeriods(Printed(d.window, Micro), d.fleet, 35, t.window)
    BY DEF TimescaleTrucksWithLongDailySessions, TimescaleWindow
  <2>3. Meant(t, d) = MovingPeriods(d.window, d.fleet, 35, t.window)
    BY <1>7, SessionsMeant
  <2> QED
    BY <2>1, <2>2, <2>3, SessionsAgree
<1> QED
  BY <1>1, <1>2, <1>3, <1>4, <1>5, <1>6, <1>7 DEF TypeRight, TimelessKinds, SessionKinds

LEMMA InfluxFleetMeans ==
    ASSUME NEW t, NEW d, d.window \in [start : Int, end : Int], TypeRight(t), t.use = "iot",
           t.kind \in {"TrucksWithHighLoad", "TrucksWithLongDrivingSessions",
                       "TrucksWithLongDailySessions"}
    PROVE  Same(InfluxFleetAsks(t, d), Meant(t, d))
<1>1. CASE t.kind = "TrucksWithHighLoad"
  <2>1. InfluxFleetAsks(t, d) = InfluxTrucksWithHighLoad(d)
    BY ONLY <1>1 DEF InfluxFleetAsks
  <2>2. Meant(t, d) = InfluxTrucksWithHighLoad(d)
    BY <1>1, FleetMeantAre DEF InfluxTrucksWithHighLoad
  <2> QED
    BY <2>1, <2>2, SameAsItself
<1>2. CASE t.kind = "TrucksWithLongDrivingSessions"
  <2>1. InfluxFleetAsks(t, d) = InfluxTrucksWithLongDrivingSessions(t, d)
    BY ONLY <1>2 DEF InfluxFleetAsks
  <2>2. InfluxTrucksWithLongDrivingSessions(t, d) = MovingPeriods(Printed(d.window, Second), d.fleet, 5, t.window)
    BY DEF InfluxTrucksWithLongDrivingSessions, InfluxWindow
  <2>3. Meant(t, d) = MovingPeriods(d.window, d.fleet, 5, t.window)
    BY <1>2, SessionsMeant
  <2> QED
    BY <2>1, <2>2, <2>3, SessionsAgree
<1>3. CASE t.kind = "TrucksWithLongDailySessions"
  <2>1. InfluxFleetAsks(t, d) = InfluxTrucksWithLongDailySessions(t, d)
    BY ONLY <1>3 DEF InfluxFleetAsks
  <2>2. InfluxTrucksWithLongDailySessions(t, d) = MovingPeriods(Printed(d.window, Second), d.fleet, 35, t.window)
    BY DEF InfluxTrucksWithLongDailySessions, InfluxWindow
  <2>3. Meant(t, d) = MovingPeriods(d.window, d.fleet, 35, t.window)
    BY <1>3, SessionsMeant
  <2> QED
    BY <2>1, <2>2, <2>3, SessionsAgree
<1> QED
  BY <1>1, <1>2, <1>3

\* Every query asks what its type stands for about what was drawn for it, up to the second:
\* the generators of the databases differ in their texts and not in the question, save for the
\* types that AsksOtherwise names.
THEOREM QueriesAskWhatIsMeant == Spec => []AsksWhatIsMeant
<1>1. RunInv => AsksWhatIsMeant
  <2> SUFFICES ASSUME RunInv, NEW r \in DOMAIN plan, NEW q \in Written(r), ~AsksOtherwise(plan[r])
               PROVE  Same(q.asks, Meant(plan[r].type, q.drawn))
    BY DEF AsksWhatIsMeant
  <2> DEFINE db == plan[r].db
             t == plan[r].type
             d == q.drawn
             tags == plan[r].tags
  <2>1. /\ d.window \in [start : Int, end : Int] /\ TypeRight(t) /\ db \in Databases
        /\ Cardinality(d.hosts) = t.hosts /\ Supports(db, t.use) /\ Implements(db, t)
    BY QueriesAre
  <2>2. q.asks = Asks(db, tags, t, d)
    BY QueriesAre
  <2>3. /\ db = "influx" => t.kind \notin {"MaxAllCPU", "GroupByOrderByLimit", "LastLocByTruck",
                "LastLocPerTruck", "TrucksWithLowFuel", "StationaryTrucks"}
        /\ db = "siridb" => t.kind \notin {"GroupByOrderByLimit", "HighCPUForHosts"}
        /\ db = "siridb" /\ t.kind \in {"GroupByTime", "MaxAllCPU"} => ~(t.hosts > 1)
        /\ db = "redistimeseries" => t.kind # "GroupByOrderByLimit"
        /\ db = "clickhouse" =>
              "columns" \in tags \/ t.kind \notin {"GroupByTimeAndPrimaryTag", "LastPointPerHost"}
        /\ db = "timescaledb" =>
              /\ tags = {"columns"} \/ t.kind # "GroupByTimeAndPrimaryTag"
              /\ tags # {"columns", "json"} \/ t.kind # "LastPointPerHost"
              /\ "json" \notin tags \/ t.kind \notin {"LastLocByTruck", "TrucksWithHighLoad"}
        /\ db = "cassandra" => t.kind # "GroupByTimeAndPrimaryTag"
        /\ db = "mongo" => t.kind # "LastPointPerHost"
    BY DEF AsksOtherwise
  <2> HIDE DEF db, t, d, tags
  <2>4. CASE t.use = "iot"
    <3>1. db \in {"timescaledb", "influx"}
      BY <2>1, <2>4 DEF Supports
    <3>2. CASE db = "timescaledb"
      <4>1. q.asks = TimescaleFleetAsks(tags, t, d)
        BY <2>2, <2>4, <3>2 DEF Asks
      <4> QED
        BY <2>1, <2>3, <2>4, <3>2, <4>1, TimescaleFleetMeans DEF t, d
    <3>3. CASE db = "influx"
      <4>1. q.asks = InfluxFleetAsks(t, d)
        BY <2>2, <2>4, <3>3 DEF Asks
      <4>2. t.kind \in {"TrucksWithHighLoad", "TrucksWithLongDrivingSessions",
                        "TrucksWithLongDailySessions"}
        BY <2>1, <2>3, <2>4, <3>3 DEF TypeRight, TimelessKinds, SessionKinds
      <4> QED
        BY <2>1, <2>4, <4>1, <4>2, InfluxFleetMeans DEF t, d
    <3> QED
      BY <3>1, <3>2, <3>3
  <2>5. CASE t.use = "devops"
    <3>1. t.kind \in DevopsKinds
      BY <2>1, <2>5 DEF TypeRight, DevopsKinds
    <3>2. /\ db = "timescaledb" => q.asks = TimescaleAsks(tags, t, d)
          /\ db = "clickhouse" => q.asks = ClickhouseAsks(tags, t, d)
          /\ db = "cassandra" => q.asks = CassandraAsks(t, d)
          /\ db = "cratedb" => q.asks = CrateAsks(t, d)
          /\ db = "influx" => q.asks = InfluxAsks(t, d)
          /\ db = "siridb" => q.asks = SiriAsks(t, d)
          /\ db = "redistimeseries" => q.asks = RedisAsks(t, d)
          /\ db = "mongo" => q.asks = MongoAsks(t, d)
          /\ db = "mongo naive" => q.asks = NaiveAsks(t, d)
      BY <2>2, <2>5 DEF Asks
    <3> DEFINE m == Meant(t, d)
    <3>3. db = "timescaledb" => Same(TimescaleAsks(tags, t, d), m)
      BY <2>1, <2>3, <3>1, TimescaleMeans
    <3>4. db = "clickhouse" => Same(ClickhouseAsks(tags, t, d), m)
      BY <2>1, <2>3, <3>1, ClickhouseMeans
    <3>5. db = "cassandra" => Same(CassandraAsks(t, d), m)
      BY <2>1, <2>3, <3>1, CassandraMeans
    <3>6. db = "cratedb" => Same(CrateAsks(t, d), m)
      BY <2>1, <3>1, CrateMeans
    <3>7. db = "influx" => Same(InfluxAsks(t, d), m)
      BY <2>1, <2>3, <3>1, InfluxMeans
    <3>8. db = "siridb" => Same(SiriAsks(t, d), m)
      <4>1. t.kind \in {"GroupByTime", "MaxAllCPU"} /\ db = "siridb" => Cardinality(d.hosts) = 1
        <5>1. t.kind \in {"GroupByTime", "MaxAllCPU"} => t.hosts \in Nat /\ t.hosts > 0
          BY <2>1 DEF TypeRight, TimelessKinds, SessionKinds
        <5> QED
          BY <2>1, <2>3, <5>1
      <4> QED
        BY <2>1, <2>3, <3>1, <4>1, SiriMeans
    <3>9. db = "redistimeseries" => Same(RedisAsks(t, d), m)
      BY <2>1, <2>3, <3>1, RedisMeans
    <3>10. db = "mongo" => Same(MongoAsks(t, d), m)
      BY <2>1, <2>3, <3>1, MongoMeans
    <3>11. db = "mongo naive" => Same(NaiveAsks(t, d), m)
      <4>1. db = "mongo naive" => t.kind \in NaiveKinds
        BY <2>1 DEF Implements, NaiveKinds
      <4> QED
        BY <4>1, NaiveMeans
    <3> QED
      BY <2>1, <3>2, <3>3, <3>4, <3>5, <3>6, <3>7, <3>8, <3>9, <3>10, <3>11 DEF Databases, t, d
  <2> QED
    BY <2>1, <2>4, <2>5 DEF TypeRight
<1> QED
  BY <1>1, RunInvHolds, PTL
=============================================================================
