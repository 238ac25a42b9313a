-------------------------- MODULE MCDatabaseWorker --------------------------
(* TLC instances of DatabaseWorker. *)
EXTENDS DatabaseWorker

\* A workspace whose state can always be read: OracleWorkspace.
AlwaysRead == {"ok"}

\* Every way the read may end.
AnyRead == {"ok", "error", "fatal"}

\* Tasks that all leave an open session with pending work.
OpenWithWork == {[connected |-> TRUE, pending |-> TRUE]}
=============================================================================
