--------------------------- MODULE MCQueryRunner ---------------------------
(* Configurations of the query benchmark for TLC. *)
EXTENDS QueryRunner

Conf(limit, burnIn, prewarm, parts, statsFirst) ==
    [limit |-> limit, burnIn |-> burnIn, prewarm |-> prewarm, parts |-> parts,
     statsFirst |-> statsFirst]

\* Accepted and rejected burn-ins, with and without a limit, plain and prewarmed.
MixedConfigs ==
    {Conf(l, b, p, 0, f) : l \in {0, 2}, b \in {0, 1, 3}, p \in BOOLEAN, f \in BOOLEAN}

\* A processor that reports partial statistics, as the Cassandra one does.
PartialConfigs == {Conf(2, b, p, 1, TRUE) : b \in {0, 2}, p \in BOOLEAN}

AllConfigs == MixedConfigs \cup PartialConfigs

\* No flags, and the statistics goroutine starts at any time.
Plain == {Conf(0, 0, FALSE, 0, FALSE)}
=============================================================================
