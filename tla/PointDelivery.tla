--------------------------- MODULE PointDelivery ---------------------------
(***************************************************************************)
(* What the insert benchmark promises, without batches in flight, acks or  *)
(* channel capacities.  Points are numbered in the order they are          *)
(* accepted, so the points waiting for a channel are a set: a worker of    *)
(* the channel takes the oldest of them, at most BatchSize, and delivers   *)
(* the whole run, and the load finishes only when every accepted point was *)
(* delivered.                                                              *)
(***************************************************************************)
EXTENDS Integers, Sequences, Functions

CONSTANTS Channels, Workers, ChannelOf(_), BatchSize, MaxPoints

VARIABLES
    accepted,    \* number of points accepted
    waiting,     \* points accepted for a channel and not taken
    held,        \* the run of points a worker is delivering
    delivered,   \* points delivered, in order, by channel
    finished

vars == <<accepted, waiting, held, delivered, finished>>

Init ==
    /\ accepted = 0
    /\ waiting = [c \in Channels |-> {}]
    /\ held = [w \in Workers |-> <<>>]
    /\ delivered = [c \in Channels |-> <<>>]
    /\ finished = FALSE

Accept(c) ==
    /\ ~finished
    /\ accepted < MaxPoints
    /\ accepted' = accepted + 1
    /\ waiting' = [waiting EXCEPT ![c] = @ \cup {accepted + 1}]
    /\ UNCHANGED <<held, delivered, finished>>

\* The n oldest points of S, oldest first.
OldestRuns(S, n) ==
    {run \in [1..n -> S] :
        /\ \A i, j \in 1..n : i < j => run[i] < run[j]
        /\ \A p \in S \ Range(run), i \in 1..n : run[i] < p}

Take(w) ==
    LET c == ChannelOf(w) IN
    /\ held[w] = <<>>
    /\ \E n \in 1..BatchSize :
       \E run \in OldestRuns(waiting[c], n) :
        /\ held' = [held EXCEPT ![w] = run]
        /\ waiting' = [waiting EXCEPT ![c] = @ \ Range(run)]
    /\ UNCHANGED <<accepted, delivered, finished>>

Deliver(w) ==
    /\ held[w] # <<>>
    /\ delivered' = [delivered EXCEPT ![ChannelOf(w)] = @ \o held[w]]
    /\ held' = [held EXCEPT ![w] = <<>>]
    /\ UNCHANGED <<accepted, waiting, finished>>

Finish ==
    /\ ~finished
    /\ \A c \in Channels : waiting[c] = {}
    /\ \A w \in Workers : held[w] = <<>>
    /\ finished' = TRUE
    /\ UNCHANGED <<accepted, waiting, held, delivered>>

Next ==
    \/ \E c \in Channels : Accept(c)
    \/ \E w \in Workers : Take(w) \/ Deliver(w)
    \/ Finish

Spec == Init /\ [][Next]_vars
=============================================================================
