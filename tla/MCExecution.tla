----------------------------- MODULE MCExecution -----------------------------
(* Small instances of Execution: one asks for the transaction, with every kind  *)
(* of statement and of driver; one for scripts and pages that write output; one *)
(* for what is compiled under either mode; one for the output of edited rows.   *)
EXTENDS Execution

Transactions == [statements |-> Statement, size |-> 1, lines |-> 0, rows |-> MaxRows,
                 fixed |-> BOOLEAN \X BOOLEAN \X BOOLEAN]
Output == [statements |-> {"query", "plsql"}, size |-> 2, lines |-> 3, rows |-> 0,
           fixed |-> {<<FALSE, TRUE, FALSE>>}]
Compilation == [statements |-> {"plsql", "ddl"}, size |-> 2, lines |-> 1, rows |-> 0,
                fixed |-> {<<FALSE, TRUE, FALSE>>}]
Triggers == [statements |-> {"query", "dml"}, size |-> 1, lines |-> 2, rows |-> 1,
             fixed |-> {<<FALSE, TRUE, FALSE>>}]

MCPlans == {Transactions, Output, Compilation, Triggers}
=============================================================================
