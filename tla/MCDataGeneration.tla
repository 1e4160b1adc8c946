-------------------------- MODULE MCDataGeneration --------------------------
(* Configurations of data generation for TLC. *)
EXTENDS DataGeneration

Conf(use, hosts, init, measurements, epochs, limit) ==
    [use |-> use, hosts |-> hosts, init |-> init, measurements |-> measurements, epochs |-> epochs,
     limit |-> limit, groups |-> 1, group |-> 0, bar |-> FALSE]

\* Scales that the epochs divide and do not, none and one epoch, two processes of a group each.
DevopsConfigs ==
    {[Conf("devops", 4, init, m, e, limit) EXCEPT !.groups = n, !.group = g, !.bar = TRUE] :
        init \in 1..4, m \in 1..2, e \in 0..4, limit \in {0, 7}, n \in {2}, g \in 0..1}

\* A simulator driven as its tests do; a base that ends within a batch, one whose second
\* truck does not report at first, and a limit.
IoTConfigs ==
    {Conf("iot", 1, 1, 1, 6, 0), Conf("iot", 2, 1, 2, 2, 0), Conf("iot", 2, 2, 1, 3, 4)}

\* tsbs_generate_data --use-case=iot.
IoTProgram == {[Conf("iot", 1, 1, 1, 2, 0) EXCEPT !.bar = TRUE]}

AllConfigs == DevopsConfigs \cup IoTConfigs \cup IoTProgram
=============================================================================
