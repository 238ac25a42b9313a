------------------------ MODULE MCDatabaseOperations ------------------------
(* TLC instances of DatabaseOperations. *)
EXTENDS DatabaseOperations

\* OracleWorkspace reads its state from its own fields and the driver's local
\* health flag, whose failure it reports as an unhealthy session.
AlwaysRead == {"ok"}

\* One task effect of each interesting kind.
SomeSessions == {[connected |-> TRUE, pending |-> TRUE], [connected |-> TRUE, pending |-> FALSE]}
OneSession == {[connected |-> TRUE, pending |-> TRUE]}

\* Any other workspace may fail to be read.
AnyRead == {"ok", "error", "fatal"}
=============================================================================
