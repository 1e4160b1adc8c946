---------------------------- MODULE MCLoadSetup ----------------------------
(* The systems and flags of the clients for TLC. *)
EXTENDS LoadSetup

\* Without --do-load the other flags are not looked at.
MCFlags ==
    {[load |-> TRUE, create |-> create, abort |-> abort, tables |-> ts] :
        create, abort, ts \in BOOLEAN}
    \cup {[load |-> FALSE, create |-> TRUE, abort |-> FALSE, tables |-> TRUE]}
=============================================================================
