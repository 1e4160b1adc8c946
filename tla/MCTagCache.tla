---------------------------- MODULE MCTagCache ----------------------------
(* Configurations of the loaders for TLC. *)
EXTENDS TagCache

CONSTANTS h1, h2

TwoHosts == {h1, h2}

Conf(db, json, hash, client, ts) ==
    [db |-> db, json |-> json, hash |-> hash, client |-> client, tags |-> ts,
     partition |-> [h \in FirstTags |-> IF h = h2 THEN NumWorkers ELSE 1]]

Together == [w \in Workers |-> 1]
Apart == [w \in Workers |-> w]

Tag(h, cleared) == [host |-> h, cleared |-> cleared]
DevopsTags == {Tag(h1, FALSE), Tag(h2, FALSE)}
IoTTags == {Tag(h1, FALSE), Tag(h1, TRUE), Tag(NoHost, FALSE)}

\* Shared and hashed indexes of one process, two processes, and empty tags.
AllConfigs ==
    {Conf("timescale", FALSE, hash, Together, DevopsTags) : hash \in BOOLEAN}
    \cup {Conf("timescale", FALSE, FALSE, Apart, DevopsTags)}
    \cup {Conf("timescale", json, FALSE, Together, IoTTags) : json \in BOOLEAN}
    \cup {Conf("clickhouse", FALSE, hash, Together, DevopsTags) : hash \in BOOLEAN}

\* One worker, no flags.
PlainClickhouse == {Conf("clickhouse", FALSE, FALSE, Together, DevopsTags)}
=============================================================================
