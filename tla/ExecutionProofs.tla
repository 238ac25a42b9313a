--------------------------- MODULE ExecutionProofs ---------------------------
(***************************************************************************)
(* Proofs about OracleTransaction, for any bound on the rows, any driver   *)
(* and any failure of its calls, and about Execution: its calls, one by    *)
(* one, are steps of the transaction, so that what is proved of it holds   *)
(* of whole statements, scripts and pages; an answer tells of all that     *)
(* failed; and every line of output is shown once, with its answer.        *)
(***************************************************************************)
EXTENDS Execution, SequenceLemmas

-----------------------------------------------------------------------------
(* The invariant the properties rest on.                                   *)

\* Does the operation under way run behind a savepoint?
Editing == pc \in {"savepoint", "body", "keep", "undo", "fullRollback"}

\* Changed rows and other work are held by an open transaction.
WellFormed(t) == t.rows > 0 \/ t.other => t.open

\* What the pending work p says of the transaction t over a connection c is
\* never too little, and an exact count where the count can be exact.
Believes(p, t, c) ==
  /\ t.rows > 0 => Has(p)
  /\ c = "open" /\ tipReadable /\ t.open => Has(p)
  /\ c = "open" /\ tipReadable /\ ~deferredChecks /\ ~p.unknown => p.rows = t.rows

\* Outside of edits and explain plans the belief is about the transaction, and
\* the driver's flag is the mode.
StatementInv ==
  ~Editing => /\ Believes(pending, txn, conn)
              /\ conn # "none" => driverAuto = autocommit
              /\ pc # "idle" => conn # "none"

\* Within them it is about the transaction before the savepoint.  Only when
\* none was open may the transaction be rolled back whole.
EditInv ==
  Editing =>
    /\ conn # "none" /\ ~driverAuto /\ call.previousAuto = autocommit
    /\ call.op \in {"edit", "explain"}
    /\ call.saved.rows < MaxRows /\ pending.rows < MaxRows
    /\ Believes(pending, call.saved, "open")
    /\ call.safe => ~call.saved.open /\ ~Has(pending)
    /\ call.op = "explain" /\ ~call.safe => Has(pending)

\* The transaction after one more changed row.
Changed(t) == [t EXCEPT !.open = TRUE, !.rows = @ + 1]

\* How far from the transaction before the savepoint each step may be.
ProgressInv ==
  /\ pc \in {"savepoint", "body"} => txn = call.saved
  /\ pc = "keep" => txn = Changed(call.saved) /\ call.op = "edit"
  /\ pc = "undo" /\ call.savepoint /\ call.saved.open => txn.open
  /\ pc = "fullRollback" => call.safe /\ (call.undoFailed \/ txn.rows = call.saved.rows)

\* A call without an answer leaves a dead session, and a step that will say
\* that the outcome is open.
OutcomeInv ==
  lostAnswer =>
    /\ conn = "dead"
    /\ \/ pc = "idle" /\ Has(pending)
       \/ pc = "raising" /\ (Has(pending) \/ call.op \in {"kinded", "ddl"})
       \/ pc = "undo" /\ call.op = "edit" /\ txn.open
       \/ pc = "fullRollback" /\ call.op = "edit" /\ txn.open /\ call.undoFailed

\* Together with the types, what every driver call preserves.
TransactionInvariant ==
  /\ WellFormed(txn) /\ WellFormed(call.saved)
  /\ StatementInv /\ EditInv /\ ProgressInv /\ OutcomeInv

-----------------------------------------------------------------------------
(* The bookkeeping operators.                                              *)

Flag == {"yes", "no", "unreadable"}

\* The records the workspace builds have their types.
LEMMA Values ==
  /\ Clear \in Pending /\ Unknown \in Pending
  /\ NoTxn \in Transaction /\ NoCall \in Call /\ WellFormed(NoTxn)
  /\ Has(Unknown) /\ ~Has(Clear)
BY TransactionAssumption
   DEF Clear, Unknown, Pending, NoTxn, Transaction, NoCall, Call, WellFormed, Has

\* The flag the driver reports, if it reports one, is that of the transaction.
LEMMA TipTells ==
  ASSUME NEW x \in Transaction, NEW c, NEW t \in Tip(c, x)
  PROVE  /\ t \in Flag
         /\ t = "no" => ~x.open
         /\ t = "yes" => x.open
         /\ c = "open" /\ tipReadable => t # "unreadable"
BY DEF Tip, Transaction, Flag

\* synchronize_pending_transaction repairs a belief that is right about the
\* rows of an open transaction.
LEMMA SynchronizeBelieves ==
  ASSUME NEW p \in Pending, NEW x \in Transaction, NEW c, NEW t \in Tip(c, x),
         WellFormed(x),
         x.rows > 0 => Has(p),
         c = "open" /\ tipReadable /\ ~deferredChecks /\ ~p.unknown /\ x.open
           => p.rows = x.rows
  PROVE  /\ Synchronize(p, t) \in Pending
         /\ Believes(Synchronize(p, t), x, c)
         /\ Synchronize(p, t).rows <= p.rows
<1>1. /\ t \in Flag /\ (t = "no" => ~x.open) /\ (t = "yes" => x.open)
      /\ (c = "open" /\ tipReadable => t # "unreadable")
  BY TipTells
<1>2. p.rows \in Nat /\ p.unknown \in BOOLEAN /\ x.rows \in Nat
  BY TransactionAssumption DEF Pending, Transaction
<1>3. CASE t = "no"
  BY <1>1, <1>2, <1>3, Values
     DEF Synchronize, Believes, WellFormed, Has, Clear, Pending, Transaction
<1>4. CASE t = "yes" /\ ~Has(p)
  <2>1. Synchronize(p, t) = [p EXCEPT !.unknown = TRUE]
    BY <1>4 DEF Synchronize
  <2>2. [p EXCEPT !.unknown = TRUE] \in Pending /\ [p EXCEPT !.unknown = TRUE].unknown
        /\ [p EXCEPT !.unknown = TRUE].rows = p.rows
    BY DEF Pending
  <2> QED BY <2>1, <2>2, <1>2 DEF Believes, Has
<1>5. CASE t = "yes" /\ Has(p)
  BY <1>1, <1>2, <1>5 DEF Synchronize, Believes
<1>6. CASE t = "unreadable"
  BY <1>1, <1>2, <1>6 DEF Synchronize, Believes, WellFormed
<1> QED BY <1>1, <1>3, <1>4, <1>5, <1>6 DEF Flag

\* reconcile_uncertain_edit_failure never believes too little.
LEMMA ReconcileBelieves ==
  ASSUME NEW x \in Transaction, NEW c, NEW t \in Tip(c, x), WellFormed(x)
  PROVE  /\ Reconcile(t) \in Pending
         /\ Believes(Reconcile(t), x, c)
         /\ x.open => Has(Reconcile(t))
<1>1. /\ t \in Flag /\ (t = "no" => ~x.open)
  BY TipTells
<1>2. x.rows \in Nat /\ (~x.open => x.rows = 0)
  BY DEF Transaction, WellFormed
<1> QED
  BY <1>1, <1>2, Values DEF Reconcile, Believes, Has, Clear, Unknown

-----------------------------------------------------------------------------
(* The steps of a statement.                                               *)

IInv == TypeOK /\ TransactionInvariant

\* Every transaction that a statement may leave is well formed.
LEMMA DoneWellFormed ==
  ASSUME IInv, NEW s \in Statement, NEW rows \in 0..MaxRows,
         txn.rows + rows <= MaxRows, s = "rollbackTo" => txn.open,
         NEW x \in Done(s, rows)
  PROVE  x \in Transaction /\ WellFormed(x)
<1>1. txn \in Transaction /\ WellFormed(txn) /\ rows \in Nat /\ MaxRows \in Nat
  BY TransactionAssumption DEF IInv, TypeOK, TransactionInvariant
<1>2. CASE driverAuto /\ ~IsQuery(s)
  BY <1>2, Values DEF Done
<1>3. CASE ~(driverAuto /\ ~IsQuery(s)) /\ s = "query"
  BY <1>1, <1>3 DEF Done
<1>4. CASE ~(driverAuto /\ ~IsQuery(s)) /\ s \in {"forUpdate", "lockTable"}
  <2>1. x = [txn EXCEPT !.open = TRUE, !.other = TRUE]
    BY <1>4 DEF Done
  <2>2. /\ [txn EXCEPT !.open = TRUE, !.other = TRUE] \in Transaction
        /\ WellFormed([txn EXCEPT !.open = TRUE, !.other = TRUE])
    BY <1>1 DEF Transaction, WellFormed
  <2> QED BY <2>1, <2>2
<1>5. CASE ~(driverAuto /\ ~IsQuery(s)) /\ s \in {"ddl", "commit", "rollback"}
  BY <1>5, Values DEF Done
<1>6. CASE ~(driverAuto /\ ~IsQuery(s)) /\ s = "dml"
  <2>1. x = [txn EXCEPT !.open = @ \/ rows > 0, !.rows = @ + rows]
    BY <1>6 DEF Done
  <2>2. /\ txn.open \in BOOLEAN /\ txn.other \in BOOLEAN
        /\ txn.rows \in Nat /\ txn.rows + rows \in 0..MaxRows
        /\ (txn.rows > 0 => txn.open) /\ (txn.other => txn.open)
        /\ DOMAIN txn = {"open", "rows", "other"}
    BY <1>1 DEF Transaction, WellFormed
  <2>3. /\ x.open = (txn.open \/ rows > 0)
        /\ x.rows = txn.rows + rows /\ x.other = txn.other
        /\ x = [open |-> x.open, rows |-> x.rows, other |-> x.other]
    BY <2>1, <1>1 DEF Transaction
  <2>4. x.open \in BOOLEAN /\ x.rows \in 0..MaxRows /\ x.other \in BOOLEAN
    BY <2>2, <2>3
  <2>5. x \in Transaction
    <3>1. \A o \in BOOLEAN, n \in 0..MaxRows, u \in BOOLEAN :
            [open |-> o, rows |-> n, other |-> u] \in Transaction
      BY DEF Transaction
    <3> QED BY <2>3, <2>4, <3>1, Zenon
  <2>6. WellFormed(x)
    <3>1. x.open <=> (txn.open \/ rows > 0)
      BY <2>3
    <3> QED BY <1>1, <2>2, <2>3, <3>1 DEF WellFormed
  <2> QED BY <2>5, <2>6
<1>7. CASE ~(driverAuto /\ ~IsQuery(s)) /\ s = "plsql"
  <2>1. x \in {txn, NoTxn, [txn EXCEPT !.open = TRUE, !.other = TRUE],
               [NoTxn EXCEPT !.open = TRUE, !.other = TRUE]}
    BY <1>7 DEF Done
  <2>2. /\ [txn EXCEPT !.open = TRUE, !.other = TRUE] \in Transaction
        /\ WellFormed([txn EXCEPT !.open = TRUE, !.other = TRUE])
        /\ [NoTxn EXCEPT !.open = TRUE, !.other = TRUE] \in Transaction
        /\ WellFormed([NoTxn EXCEPT !.open = TRUE, !.other = TRUE])
    BY <1>1, Values DEF Transaction, WellFormed
  <2> QED BY <2>1, <2>2, <1>1, Values
<1>8. CASE ~(driverAuto /\ ~IsQuery(s)) /\ s = "rollbackTo"
  <2>1. x \in Transaction /\ x.open = txn.open
    BY <1>8 DEF Done
  <2> QED BY <2>1, <1>8, <1>1 DEF WellFormed, Transaction
<1> QED BY <1>2, <1>3, <1>4, <1>5, <1>6, <1>7, <1>8 DEF Statement

\* What is recorded for a statement covers the transaction it leaves.
LEMMA RecordCovers ==
  ASSUME IInv, Usable, NEW s \in Statement, NEW rows \in 0..MaxRows,
         rows > 0 => s = "dml", pending.rows + rows <= MaxRows,
         txn.rows + rows <= MaxRows, s = "rollbackTo" => txn.open,
         NEW x \in Done(s, rows)
  PROVE  /\ Record(pending, s, rows) \in Pending
         /\ x.rows > 0 => Has(Record(pending, s, rows))
         /\ tipReadable /\ ~deferredChecks /\ ~Record(pending, s, rows).unknown /\ x.open
              => Record(pending, s, rows).rows = x.rows
<1>1. Believes(pending, txn, "open") /\ driverAuto = autocommit
  BY DEF IInv, TransactionInvariant, StatementInv, Usable, Editing
<1>2. /\ pending.rows \in Nat /\ pending.unknown \in BOOLEAN /\ txn.rows \in Nat
      /\ pending \in Pending /\ txn \in Transaction /\ x \in Transaction /\ x.rows \in Nat
      /\ WellFormed(x) /\ autocommit \in BOOLEAN /\ rows \in Nat
  BY TransactionAssumption, DoneWellFormed DEF IInv, TypeOK, Pending, Transaction
<1>3. CASE s \in {"query", "forUpdate"}
  <2>1. Record(pending, s, rows) = pending
    BY <1>3 DEF Record, Kind
  <2>2. s = "query" => x = txn
    BY <1>3 DEF Done, IsQuery
  <2>3. s = "forUpdate" => x = [txn EXCEPT !.open = TRUE, !.other = TRUE]
    BY <1>3 DEF Done, IsQuery
  <2>4. [txn EXCEPT !.open = TRUE, !.other = TRUE].rows = txn.rows
    BY <1>2 DEF Transaction
  <2> QED BY <1>3, <2>1, <2>2, <2>3, <2>4, <1>1, <1>2 DEF Believes, WellFormed
<1>4. CASE s \in {"ddl", "commit", "rollback"}
  <2>1. Record(pending, s, rows) = Clear /\ x = NoTxn
    BY <1>4 DEF Record, Kind, Done, IsQuery
  <2> QED BY <2>1, Values DEF NoTxn, Clear, Pending
<1>5. CASE s = "rollbackTo"
  <2>1. Record(pending, s, rows) = Unknown
    BY <1>5 DEF Record, Kind
  <2> QED BY <2>1, Values DEF Unknown
<1>6. CASE s = "lockTable"
  <2>1. Record(pending, s, rows) = pending
    BY <1>6 DEF Record, Kind
  <2>2. x = NoTxn \/ x = [txn EXCEPT !.open = TRUE, !.other = TRUE]
    BY <1>6 DEF Done, IsQuery
  <2>3. [txn EXCEPT !.open = TRUE, !.other = TRUE].rows = txn.rows
        /\ NoTxn.rows = 0 /\ ~NoTxn.open
    BY <1>2 DEF Transaction, NoTxn
  <2> QED BY <2>1, <2>2, <2>3, <1>1, <1>2 DEF Believes, WellFormed
<1>7. CASE s \in {"dml", "plsql"} /\ autocommit
  <2>1. Record(pending, s, rows) = pending
    BY <1>7 DEF Record, Kind
  <2>2. x = NoTxn
    BY <1>7, <1>1 DEF Done, IsQuery
  <2> QED BY <2>1, <2>2, <1>2, Values DEF NoTxn
<1>8. CASE s = "dml" /\ ~autocommit
  <2>1. /\ Record(pending, s, rows) = [pending EXCEPT !.rows = @ + rows]
        /\ x = [txn EXCEPT !.open = @ \/ rows > 0, !.rows = @ + rows]
    BY <1>8, <1>1 DEF Record, Kind, Done, IsQuery
  <2>2. /\ Record(pending, s, rows).rows = pending.rows + rows
        /\ Record(pending, s, rows).unknown = pending.unknown
        /\ Record(pending, s, rows) \in Pending
        /\ x.rows = txn.rows + rows
    BY <2>1, <1>2, TransactionAssumption DEF Pending, Transaction
  <2> QED BY <2>2, <1>1, <1>2 DEF Believes, Has
<1>9. CASE s = "plsql" /\ ~autocommit
  <2>1. Record(pending, s, rows) = [pending EXCEPT !.unknown = TRUE]
    BY <1>9 DEF Record, Kind
  <2> QED BY <2>1, <1>2 DEF Pending, Has
<1> QED BY <1>2, <1>3, <1>4, <1>5, <1>6, <1>7, <1>8, <1>9 DEF Statement

\* A statement that succeeds.
LEMMA ExecuteOkKeeps ==
  ASSUME IInv, NEW s \in Statement, NEW rows \in 0..MaxRows, rows > 0 => s = "dml",
         ExecuteOk(s, rows)
  PROVE  IInv'
<1>1. PICK t \in Tip(conn, txn') : pending' = Synchronize(Record(pending, s, rows), t)
  BY DEF ExecuteOk
<1>2. Usable /\ conn = "open" /\ pc = "idle"
  BY DEF ExecuteOk, Permitted, Usable
<1>3. txn' \in Transaction /\ WellFormed(txn')
  BY DoneWellFormed DEF ExecuteOk
<1>4. /\ Record(pending, s, rows) \in Pending
      /\ txn'.rows > 0 => Has(Record(pending, s, rows))
      /\ tipReadable /\ ~deferredChecks /\ ~Record(pending, s, rows).unknown /\ txn'.open
           => Record(pending, s, rows).rows = txn'.rows
  BY RecordCovers, <1>2 DEF ExecuteOk
<1>5. pending' \in Pending /\ Believes(pending', txn', "open")
  BY <1>1, <1>2, <1>3, <1>4, SynchronizeBelieves
<1>6. Running(s) \in Call /\ WellFormed(Running(s).saved)
  BY Values DEF Running, NoCall, Call, WellFormed, NoTxn
<1>7. /\ UNCHANGED <<readOnly, tipReadable, deferredChecks, autocommit, misreported, conn,
                     driverAuto, lostAnswer>>
      /\ pc' = "reading" /\ call' = Running(s)
  BY DEF ExecuteOk, fixed
<1>8. driverAuto = autocommit /\ ~lostAnswer
  BY <1>2 DEF IInv, TransactionInvariant, StatementInv, OutcomeInv, Editing
<1>9. TypeOK'
  BY <1>3, <1>5, <1>6, <1>7 DEF IInv, TypeOK
<1>10. TransactionInvariant'
  BY <1>2, <1>3, <1>5, <1>6, <1>7, <1>8
     DEF TransactionInvariant, StatementInv, EditInv, ProgressInv, OutcomeInv, Editing,
         Believes, WellFormed
<1> QED BY <1>9, <1>10 DEF IInv

\* What a failing commit may leave.
LEMMA AfterFailedCommitIs ==
  ASSUME IInv, NEW x \in AfterFailedCommit
  PROVE  /\ x \in Transaction /\ WellFormed(x)
         /\ x = txn \/ (x = NoTxn /\ deferredChecks)
BY Values DEF AfterFailedCommit, IInv, TypeOK, TransactionInvariant

\* A statement that fails.
LEMMA ExecuteFailsKeeps ==
  ASSUME IInv, NEW s \in Statement, ExecuteFails(s)
  PROVE  IInv'
<1>1. PICK t \in Tip(conn', txn') : pending' = Synchronize(pending, t)
  BY DEF ExecuteFails
<1>2. Usable /\ conn = "open" /\ pc = "idle"
  BY DEF ExecuteFails, Permitted, Usable
<1>3. /\ UNCHANGED <<readOnly, tipReadable, deferredChecks, autocommit, misreported, driverAuto>>
      /\ pc' = "raising" /\ call' = Running(s) /\ conn' \in {"open", "dead"}
  BY DEF ExecuteFails, fixed
<1>4. /\ txn \in Transaction /\ WellFormed(txn) /\ pending \in Pending
      /\ Believes(pending, txn, "open") /\ driverAuto = autocommit /\ ~lostAnswer
      /\ lostAnswer \in BOOLEAN
  BY <1>2 DEF IInv, TypeOK, TransactionInvariant, StatementInv, OutcomeInv, Editing
<1>5. txn' = txn \/ txn' = NoTxn
  BY AfterFailedCommitIs DEF ExecuteFails, Failed
<1>6. txn' \in Transaction /\ WellFormed(txn')
  BY <1>4, <1>5, Values
<1>7. /\ txn'.rows > 0 => Has(pending)
      /\ conn' = "open" /\ tipReadable /\ ~deferredChecks /\ ~pending.unknown /\ txn'.open
           => pending.rows = txn'.rows
  BY <1>4, <1>5 DEF Believes, NoTxn
<1>8. pending' \in Pending /\ Believes(pending', txn', conn')
  BY <1>1, <1>4, <1>6, <1>7, SynchronizeBelieves
<1>9. Running(s) \in Call /\ WellFormed(Running(s).saved)
  BY Values DEF Running, NoCall, Call, WellFormed, NoTxn
<1>10. /\ lostAnswer' \in BOOLEAN
       /\ lostAnswer' => conn' = "dead" /\ call'.op \in {"kinded", "ddl"}
  <2>1. Commits(s) => Running(s).op \in {"kinded", "ddl"}
    BY DEF Commits, Running, NoCall, IsQuery, Kind
  <2>2. Commits(s) \in BOOLEAN
    BY DEF Commits
  <2> QED BY <1>3, <1>4, <2>1, <2>2 DEF ExecuteFails
<1>11. TypeOK'
  BY <1>3, <1>6, <1>8, <1>9, <1>10 DEF IInv, TypeOK
<1>12. TransactionInvariant'
  BY <1>3, <1>4, <1>6, <1>8, <1>9, <1>10
     DEF TransactionInvariant, StatementInv, EditInv, ProgressInv, OutcomeInv, Editing,
         Believes, WellFormed
<1> QED BY <1>11, <1>12 DEF IInv

\* The steps that read what a statement left, and its exception.
LEMMA ReadingKeeps ==
  ASSUME IInv, ReadingDone \/ CompilationFails \/ ReadingFails
  PROVE  IInv'
<1> USE DEF fixed, workspace, driver
<1>1. TypeOK'
  <2>1. CASE ReadingDone
    BY <2>1, Values DEF ReadingDone, IInv, TypeOK
  <2>2. CASE CompilationFails
    <3>1. [call EXCEPT !.failed = TRUE] \in Call
      BY DEF IInv, TypeOK, Call
    <3> QED BY <2>2, <3>1 DEF CompilationFails, IInv, TypeOK
  <2>3. CASE ReadingFails
    BY <2>3 DEF ReadingFails, IInv, TypeOK
  <2> QED BY <2>1, <2>2, <2>3
<1>2. /\ pc = "reading" /\ pc' \in {"idle", "autocommit", "raising"}
      /\ UNCHANGED <<fixed, workspace, driverAuto, txn, lostAnswer>>
      /\ conn' = conn \/ conn' = "dead"
      /\ call'.saved = call.saved \/ call'.saved = NoTxn
  BY DEF ReadingDone, CompilationFails, ReadingFails, IInv, TypeOK, Call, NoCall
<1>3. TransactionInvariant'
  <2>1. Believes(pending, txn, conn) /\ (conn # "none" => driverAuto = autocommit) /\ conn # "none"
    BY <1>2 DEF IInv, TransactionInvariant, StatementInv, Editing
  <2> QED
    BY <1>2, <2>1, Values
       DEF IInv, TransactionInvariant, StatementInv, EditInv, ProgressInv, OutcomeInv,
           Editing, Believes, WellFormed
<1> QED BY <1>1, <1>3 DEF IInv

\* The commit call of a statement or an edit.
LEMMA CommitCall ==
  ASSUME IInv, CommitOk \/ CommitFails
  PROVE  /\ txn' \in Transaction /\ WellFormed(txn') /\ lostAnswer' \in BOOLEAN
         /\ conn' = conn \/ conn' = "dead"
         /\ CommitOk => txn' = NoTxn /\ conn = "open" /\ UNCHANGED <<conn, lostAnswer>>
         /\ CommitFails => /\ txn' = txn \/ (txn' = NoTxn /\ deferredChecks /\ conn' = "open")
                           /\ lostAnswer' => lostAnswer \/ (/\ conn' = "dead" /\ txn' = txn
                                                            /\ conn = "open" /\ txn.rows > 0)
<1>1. txn \in Transaction /\ WellFormed(txn) /\ lostAnswer \in BOOLEAN
  BY DEF IInv, TypeOK, TransactionInvariant
<1>2. CommitOk => txn' = NoTxn /\ conn = "open" /\ UNCHANGED <<conn, lostAnswer>>
  BY DEF CommitOk
<1>3. ASSUME CommitFails
      PROVE  /\ txn' \in Transaction /\ WellFormed(txn') /\ lostAnswer' \in BOOLEAN
             /\ conn' = conn \/ conn' = "dead"
             /\ txn' = txn \/ (txn' = NoTxn /\ deferredChecks /\ conn' = "open")
             /\ lostAnswer' => lostAnswer \/ (/\ conn' = "dead" /\ txn' = txn
                                              /\ conn = "open" /\ txn.rows > 0)
  <2>1. CASE conn = "open" /\ txn' \in AfterFailedCommit /\ UNCHANGED <<conn, lostAnswer>>
    <3>1. /\ txn' \in Transaction /\ WellFormed(txn')
          /\ txn' = txn \/ (txn' = NoTxn /\ deferredChecks)
      BY <2>1, AfterFailedCommitIs
    <3> QED BY <1>1, <2>1, <3>1
  <2>2. CASE conn' = "dead" /\ UNCHANGED txn
             /\ lostAnswer' = (lostAnswer \/ (conn = "open" /\ txn.rows > 0))
    BY <1>1, <2>2
  <2> QED BY <1>3, <2>1, <2>2 DEF CommitFails
<1> QED BY <1>1, <1>2, <1>3, Values

\* The commit that follows a statement in autocommit mode.
LEMMA CommitAutocommitKeeps ==
  ASSUME IInv, CommitAutocommitOk \/ CommitAutocommitFails
  PROVE  IInv'
<1>1. /\ pc = "autocommit" /\ pc' \in {"raising", "idle"}
      /\ UNCHANGED <<readOnly, tipReadable, deferredChecks, autocommit, misreported, driverAuto>>
      /\ call' = call \/ call' = NoCall
  BY DEF CommitAutocommitOk, CommitAutocommitFails, fixed
<1>2. /\ txn' \in Transaction /\ WellFormed(txn') /\ lostAnswer' \in BOOLEAN
      /\ conn' = conn \/ conn' = "dead"
  BY CommitCall DEF CommitAutocommitOk, CommitAutocommitFails
<1>3. /\ pending \in Pending /\ Believes(pending, txn, conn) /\ ~lostAnswer
      /\ conn # "none" /\ driverAuto = autocommit /\ txn \in Transaction
  BY <1>1 DEF IInv, TypeOK, TransactionInvariant, StatementInv, OutcomeInv, Editing
<1>4. /\ txn'.rows > 0 => Has(pending)
      /\ conn' = "open" /\ tipReadable /\ ~deferredChecks /\ ~pending.unknown /\ txn'.open
           => pending.rows = txn'.rows
  <2>1. txn' = NoTxn \/ (txn' = txn /\ (conn' = "open" => conn = "open"))
    BY CommitCall DEF CommitAutocommitOk, CommitAutocommitFails
  <2> QED BY <1>3, <2>1 DEF Believes, NoTxn
<1>5. \A t \in Tip(conn', txn') : /\ Synchronize(pending, t) \in Pending
                                  /\ Believes(Synchronize(pending, t), txn', conn')
  BY <1>2, <1>3, <1>4, SynchronizeBelieves
<1>6. Believes(Unknown, txn', conn')
  BY Values DEF Believes, Unknown
<1>7. pending' \in Pending /\ Believes(pending', txn', conn')
  <2>1. CASE CommitAutocommitOk
    <3>1. \E t \in Tip(conn', txn') : pending' = Synchronize(pending, t)
      BY <2>1 DEF CommitAutocommitOk, CommitOk
    <3> QED BY <3>1, <1>5
  <2>2. CASE CommitAutocommitFails
    <3>1. \E t \in Tip(conn', txn') : pending' = Unknown \/ pending' = Synchronize(pending, t)
      BY <2>2 DEF CommitAutocommitFails
    <3> QED BY <3>1, <1>5, <1>6, Values
  <2> QED BY <2>1, <2>2
<1>8. lostAnswer' => conn' = "dead" /\ pc' = "raising" /\ Has(pending')
  <2> SUFFICES ASSUME lostAnswer' PROVE conn' = "dead" /\ pc' = "raising" /\ Has(pending')
    OBVIOUS
  <2>1. ~CommitOk
    BY <1>3, CommitCall
  <2>2. CommitAutocommitFails /\ conn' = "dead" /\ txn' = txn /\ txn.rows > 0
    BY <2>1, <1>3, CommitCall DEF CommitAutocommitOk, CommitAutocommitFails
  <2>3. \E t \in Tip(conn', txn') : pending' = Unknown \/ pending' = Synchronize(pending, t)
    BY <2>2 DEF CommitAutocommitFails
  <2> QED BY <2>2, <2>3, <1>5, Values DEF Believes, CommitAutocommitFails
<1>9. TypeOK'
  BY <1>1, <1>2, <1>7, Values DEF IInv, TypeOK
<1>10. TransactionInvariant'
  BY <1>1, <1>2, <1>3, <1>7, <1>8, Values
     DEF IInv, TransactionInvariant, StatementInv, EditInv, ProgressInv, OutcomeInv, Editing,
         Believes, WellFormed, NoCall, NoTxn
<1> QED BY <1>9, <1>10 DEF IInv

\* The exception of a statement leaves: the outcome of a lost call is unknown.
LEMMA RaiseKeeps ==
  ASSUME IInv, Raise
  PROVE  IInv'
<1>1. /\ pc = "raising" /\ pc' = "idle" /\ call' = NoCall
      /\ pending' = AfterFailure(pending)
      /\ UNCHANGED <<readOnly, tipReadable, deferredChecks, autocommit, misreported, conn,
                     driverAuto, txn, lostAnswer>>
  BY DEF Raise, fixed, driver
<1>2. /\ pending \in Pending /\ Believes(pending, txn, conn)
      /\ conn # "none" => driverAuto = autocommit
  BY <1>1 DEF IInv, TypeOK, TransactionInvariant, StatementInv, Editing
<1>3. /\ pending' \in Pending /\ Believes(pending', txn, conn)
      /\ conn = "dead" /\ (call.op \in {"kinded", "ddl"} \/ Has(pending)) => Has(pending')
  BY <1>1, <1>2, Values DEF AfterFailure, Believes, Unknown
<1>4. TypeOK'
  BY <1>1, <1>3, Values DEF IInv, TypeOK
<1>5. TransactionInvariant'
  BY <1>1, <1>2, <1>3, Values
     DEF IInv, TransactionInvariant, StatementInv, EditInv, ProgressInv, OutcomeInv, Editing,
         Believes, WellFormed, NoCall, NoTxn
<1> QED BY <1>4, <1>5 DEF IInv

-----------------------------------------------------------------------------
(* The steps of an edit or an explain plan.                                *)

\* What an operation behind a savepoint may rely on.
LEMMA EditFacts ==
  ASSUME IInv, Editing
  PROVE  /\ conn # "none" /\ driverAuto = FALSE /\ call.previousAuto = autocommit
         /\ call.op \in {"edit", "explain"}
         /\ call.saved \in Transaction /\ WellFormed(call.saved) /\ call.saved.rows < MaxRows
         /\ pending \in Pending /\ pending.rows < MaxRows /\ Believes(pending, call.saved, "open")
         /\ call.safe => ~call.saved.open /\ call.saved.rows = 0 /\ ~call.saved.other
                         /\ ~Has(pending)
         /\ call.op = "explain" /\ ~call.safe => Has(pending)
         /\ txn \in Transaction /\ WellFormed(txn)
         /\ call \in Call /\ call.safe \in BOOLEAN /\ call.savepoint \in BOOLEAN
         /\ call.undoFailed \in BOOLEAN /\ autocommit \in BOOLEAN /\ lostAnswer \in BOOLEAN
         /\ call.saved.rows \in Nat /\ MaxRows \in Nat /\ pending.rows \in Nat
<1>1. EditInv /\ WellFormed(call.saved) /\ TypeOK /\ WellFormed(txn)
  BY DEF IInv, TransactionInvariant
<1>2. call.saved \in Transaction
  BY <1>1 DEF TypeOK, Call
<1>3. /\ call.safe \in BOOLEAN /\ call.savepoint \in BOOLEAN /\ call.undoFailed \in BOOLEAN
      /\ call.saved.rows \in Nat /\ MaxRows \in Nat /\ pending.rows \in Nat
      /\ call.saved.open \in BOOLEAN
  BY <1>1, <1>2, TransactionAssumption DEF TypeOK, Call, Transaction, Pending
<1>4. call.safe => ~call.saved.open /\ call.saved.rows = 0 /\ ~call.saved.other
  BY <1>1, <1>3 DEF EditInv, WellFormed
<1> QED BY <1>1, <1>2, <1>3, <1>4 DEF EditInv, TypeOK

\* Leaving the operation: the driver's flag is the mode again, and the pending
\* work is right about the transaction that is left.
LEMMA FinishKeeps ==
  ASSUME IInv, Editing, NEW m \in BOOLEAN, Finish(m),
         txn' \in Transaction, WellFormed(txn'), conn' \in {conn, "dead"},
         lostAnswer' = lostAnswer,
         ~m => txn'.rows = call.saved.rows,
         ~m /\ call.op = "explain" /\ txn'.open => call.saved.open \/ ~call.safe,
         lostAnswer => m /\ call.op = "edit" /\ txn'.open
  PROVE  IInv'
<1>1. /\ pc' = "idle" /\ call' = NoCall /\ driverAuto' = autocommit
      /\ UNCHANGED <<readOnly, tipReadable, deferredChecks, autocommit, misreported>>
  BY EditFacts DEF Finish, RestoreDriverAuto, fixed
<1>2. lostAnswer' => conn' = "dead"
  BY DEF IInv, TransactionInvariant, OutcomeInv
<1>3. /\ pending' \in Pending /\ Believes(pending', txn', conn')
      /\ m /\ call.op = "edit" /\ txn'.open => Has(pending')
  <2>1. CASE call.op = "explain"
    <3>1. pending' \in {pending, [pending EXCEPT !.unknown = TRUE]}
          /\ (m => pending' = [pending EXCEPT !.unknown = TRUE])
      BY <2>1 DEF Finish
    <3>2. /\ [pending EXCEPT !.unknown = TRUE] \in Pending
          /\ [pending EXCEPT !.unknown = TRUE].unknown
      BY EditFacts DEF Pending
    <3>3. CASE pending' = [pending EXCEPT !.unknown = TRUE]
      BY <2>1, <3>2, <3>3 DEF Believes, Has
    <3>4. CASE pending' = pending /\ ~m
      BY <2>1, <3>4, EditFacts DEF Believes
    <3> QED BY <3>1, <3>3, <3>4
  <2>2. CASE call.op = "edit"
    <3>1. PICK t \in Tip(conn', txn') :
            pending' = IF m THEN Reconcile(t) ELSE Synchronize(pending, t)
      BY <2>2 DEF Finish
    <3>2. CASE m
      BY <3>1, <3>2, ReconcileBelieves
    <3>3. CASE ~m
      <4>1. /\ txn'.rows > 0 => Has(pending)
            /\ conn' = "open" /\ tipReadable /\ ~deferredChecks /\ ~pending.unknown /\ txn'.open
                 => pending.rows = txn'.rows
        BY <3>3, EditFacts DEF Believes
      <4> QED BY <3>1, <3>3, <4>1, EditFacts, SynchronizeBelieves
    <3> QED BY <3>2, <3>3
  <2> QED BY <2>1, <2>2, EditFacts
<1>4. TypeOK'
  BY <1>1, <1>3, Values, EditFacts DEF IInv, TypeOK
<1>5. TransactionInvariant'
  BY <1>1, <1>2, <1>3, Values, EditFacts
     DEF IInv, TransactionInvariant, StatementInv, EditInv, ProgressInv, OutcomeInv, Editing,
         Believes, WellFormed, NoCall, NoTxn
<1> QED BY <1>4, <1>5 DEF IInv

\* The operation begins: it notes the transaction it has to leave alone.
LEMMA StartCallKeeps ==
  ASSUME IInv, NEW op \in {"edit", "explain"}, StartCall(op)
  PROVE  IInv'
<1>1. /\ pc = "idle" /\ conn = "open" /\ pc' = "savepoint"
      /\ UNCHANGED <<readOnly, tipReadable, deferredChecks, autocommit, misreported, conn,
                     txn, lostAnswer>>
      /\ txn.rows < MaxRows /\ pending.rows < MaxRows
      /\ driverAuto' = (driverAuto /\ ~(op = "explain" \/ autocommit))
  BY DEF StartCall, Usable, fixed
<1>2. /\ pending \in Pending /\ txn \in Transaction /\ WellFormed(txn)
      /\ Believes(pending, txn, "open") /\ driverAuto = autocommit /\ ~lostAnswer
      /\ autocommit \in BOOLEAN /\ pending.rows \in Nat /\ MaxRows \in Nat
  BY <1>1, TransactionAssumption
     DEF IInv, TypeOK, TransactionInvariant, StatementInv, OutcomeInv, Editing, Pending
<1>3. PICK t \in Tip(conn, txn) :
        /\ call' = [NoCall EXCEPT !.op = op, !.safe = SafeToRollBack(t, Has(pending)),
                                  !.saved = txn, !.previousAuto = driverAuto]
        /\ pending' = IF op = "explain" /\ t # "no" /\ ~Has(pending)
                      THEN [pending EXCEPT !.unknown = TRUE] ELSE pending
  BY DEF StartCall
<1>4. SafeToRollBack(t, Has(pending)) \in BOOLEAN
  BY DEF SafeToRollBack
<1>5. /\ call' \in Call /\ call'.op = op /\ call'.saved = txn
      /\ call'.previousAuto = autocommit
      /\ call'.safe <=> SafeToRollBack(t, Has(pending))
  BY <1>2, <1>3, <1>4, Values DEF NoCall, Call
<1>6. /\ pending' \in Pending /\ pending'.rows = pending.rows
      /\ Believes(pending', txn, "open")
      /\ call'.safe => ~txn.open /\ pending' = pending /\ ~Has(pending)
      /\ op = "explain" /\ ~call'.safe => Has(pending')
  <2>1. /\ [pending EXCEPT !.unknown = TRUE] \in Pending
        /\ [pending EXCEPT !.unknown = TRUE].unknown
        /\ [pending EXCEPT !.unknown = TRUE].rows = pending.rows
    BY <1>2 DEF Pending
  <2>2. t = "no" => ~txn.open
    BY <1>2, TipTells
  <2>3. CASE op = "explain" /\ t # "no" /\ ~Has(pending)
    BY <1>2, <1>3, <1>5, <2>1, <2>3 DEF Believes, Has, SafeToRollBack
  <2>4. CASE ~(op = "explain" /\ t # "no" /\ ~Has(pending))
    BY <1>2, <1>3, <1>5, <2>2, <2>4 DEF SafeToRollBack
  <2> QED BY <2>3, <2>4
<1>7. driverAuto' = FALSE
  BY <1>1, <1>2
<1>8. TypeOK'
  BY <1>1, <1>5, <1>6, <1>7 DEF IInv, TypeOK
<1>9. TransactionInvariant'
  BY <1>1, <1>2, <1>5, <1>6, <1>7
     DEF TransactionInvariant, StatementInv, EditInv, ProgressInv, OutcomeInv, Editing,
         Believes, WellFormed, Has
<1> QED BY <1>8, <1>9 DEF IInv

\* The savepoint is set, or nothing has happened yet.
LEMMA SavepointKeeps ==
  ASSUME IInv, Savepoint
  PROVE  IInv'
<1>1. pc = "savepoint" /\ Editing /\ txn = call.saved /\ ~lostAnswer
  BY DEF Savepoint, Editing, IInv, TransactionInvariant, ProgressInv, OutcomeInv
<1>2. CASE CallFails /\ Finish(FALSE)
  <2>1. txn' = txn /\ lostAnswer' = lostAnswer /\ conn' \in {conn, "dead"}
    BY <1>2 DEF CallFails
  <2> QED BY <1>1, <1>2, <2>1, EditFacts, FinishKeeps DEF WellFormed
<1>3. CASE /\ conn = "open" /\ UNCHANGED <<conn, txn, lostAnswer>>
           /\ call' = [call EXCEPT !.savepoint = TRUE] /\ Continue("body")
  <2>1. /\ pc' = "body"
        /\ UNCHANGED <<readOnly, tipReadable, deferredChecks, autocommit, pending, misreported,
                       driverAuto, conn, txn, lostAnswer>>
    BY <1>3 DEF Continue, fixed, workspace
  <2>2. /\ call' \in Call /\ call'.saved = call.saved /\ call'.op = call.op
        /\ call'.safe = call.safe /\ call'.previousAuto = call.previousAuto
    BY <1>1, <1>3, EditFacts DEF Call
  <2>3. TypeOK'
    BY <2>1, <2>2 DEF IInv, TypeOK
  <2>4. TransactionInvariant'
    BY <1>1, <2>1, <2>2
       DEF IInv, TransactionInvariant, StatementInv, EditInv, ProgressInv, OutcomeInv,
           Editing, Believes, WellFormed
  <2> QED BY <2>3, <2>4 DEF IInv
<1> QED BY <1>2, <1>3 DEF Savepoint

\* One more row of a transaction.
LEMMA ChangedIs ==
  ASSUME NEW x \in Transaction, x.rows < MaxRows
  PROVE  /\ Changed(x) \in Transaction /\ WellFormed(Changed(x))
         /\ Changed(x).open /\ Changed(x).rows = x.rows + 1 /\ Changed(x).other = x.other
         /\ Changed(x).rows > 0
<1>1. x.rows \in Nat /\ x.rows + 1 \in 0..MaxRows /\ x.rows + 1 > 0
  BY TransactionAssumption DEF Transaction
<1>2. /\ Changed(x) \in Transaction /\ Changed(x).open /\ Changed(x).rows = x.rows + 1
      /\ Changed(x).other = x.other
  BY <1>1 DEF Changed, Transaction
<1> QED BY <1>1, <1>2 DEF WellFormed

\* The change is made, or not, and the operation goes on to keep or undo it.
LEMMA BodyKeeps ==
  ASSUME IInv, Body
  PROVE  IInv'
<1>1. pc = "body" /\ Editing /\ txn = call.saved /\ ~lostAnswer
  BY DEF Body, Editing, IInv, TransactionInvariant, ProgressInv, OutcomeInv
<1>2. PICK failed \in BOOLEAN :
        /\ call' = [call EXCEPT !.failed = failed]
        /\ \/ /\ conn = "open" /\ txn' = Changed(txn) /\ conn' \in {"open", "dead"}
              /\ failed \/ conn' = "open"
              /\ UNCHANGED lostAnswer
           \/ failed /\ CallFails
        /\ IF failed \/ call.op = "explain" THEN Continue("undo") ELSE Continue("keep")
  BY DEF Body, Changed
<1>3. /\ pc' \in {"undo", "keep"} /\ (pc' = "keep" => ~failed /\ call.op # "explain")
      /\ UNCHANGED <<readOnly, tipReadable, deferredChecks, autocommit, pending, misreported,
                     driverAuto, lostAnswer>>
      /\ conn' \in {conn, "dead"}
      /\ txn' = Changed(txn) \/ (txn' = txn /\ failed)
  BY <1>2 DEF Continue, fixed, workspace, CallFails
<1>4. /\ call' \in Call /\ call'.saved = call.saved /\ call'.op = call.op
      /\ call'.safe = call.safe /\ call'.previousAuto = call.previousAuto
      /\ call'.savepoint = call.savepoint
  BY <1>1, <1>2, EditFacts DEF Call
<1>5. txn' \in Transaction /\ WellFormed(txn') /\ (txn.open => txn'.open)
      /\ (pc' = "keep" => txn' = Changed(txn))
  BY <1>1, <1>3, EditFacts, ChangedIs
<1>6. TypeOK'
  BY <1>1, <1>3, <1>4, <1>5, EditFacts DEF IInv, TypeOK
<1>7. TransactionInvariant'
  BY <1>1, <1>3, <1>4, <1>5, EditFacts
     DEF IInv, TransactionInvariant, StatementInv, EditInv, ProgressInv, OutcomeInv,
         Editing, Believes, WellFormed
<1> QED BY <1>6, <1>7 DEF IInv

\* An edit that succeeded is committed or recorded as pending.
LEMMA KeepEditKeeps ==
  ASSUME IInv, KeepEdit
  PROVE  IInv'
<1>1. /\ pc = "keep" /\ Editing /\ txn = Changed(call.saved) /\ call.op = "edit" /\ ~lostAnswer
  BY DEF KeepEdit, Editing, IInv, TransactionInvariant, ProgressInv, OutcomeInv
<1>2. CASE /\ autocommit /\ CommitOk
           /\ \E t \in Tip(conn, txn') : pending' = Synchronize(pending, t)
           /\ pc' = "idle" /\ call' = NoCall /\ RestoreDriverAuto
           /\ UNCHANGED <<fixed, autocommit, misreported>>
  <2>1. txn' = NoTxn /\ UNCHANGED <<conn, lostAnswer>> /\ driverAuto' = autocommit
    BY <1>1, <1>2, CommitCall, EditFacts DEF RestoreDriverAuto
  <2>2. pending' \in Pending /\ Believes(pending', txn', conn)
    <3>1. txn' \in Transaction /\ WellFormed(txn') /\ ~txn'.open /\ ~(txn'.rows > 0)
      BY <2>1, Values DEF NoTxn
    <3> QED BY <1>1, <1>2, <3>1, EditFacts, SynchronizeBelieves
  <2>3. TypeOK'
    BY <1>2, <2>1, <2>2, Values, EditFacts DEF IInv, TypeOK, fixed
  <2>4. TransactionInvariant'
    BY <1>1, <1>2, <2>1, <2>2, Values, EditFacts
       DEF TransactionInvariant, StatementInv, EditInv, ProgressInv, OutcomeInv, Editing,
           Believes, WellFormed, NoCall, NoTxn, fixed
  <2> QED BY <2>3, <2>4 DEF IInv
<1>3. CASE /\ autocommit /\ CommitFails
           /\ call' = [call EXCEPT !.failed = TRUE, !.savepoint = @ /\ txn' # NoTxn]
           /\ Continue("undo")
  <2>1. /\ pc' = "undo"
        /\ UNCHANGED <<readOnly, tipReadable, deferredChecks, autocommit, pending, misreported,
                       driverAuto>>
    BY <1>3 DEF Continue, fixed, workspace
  <2>2. (call.savepoint /\ txn' # NoTxn) \in BOOLEAN
    OBVIOUS
  <2>3. /\ call' \in Call /\ call'.saved = call.saved /\ call'.op = call.op
        /\ call'.safe = call.safe /\ call'.previousAuto = call.previousAuto
        /\ call'.savepoint => txn' # NoTxn
    BY <1>1, <1>3, <2>2, EditFacts DEF Call
  <2>4. /\ txn' \in Transaction /\ WellFormed(txn') /\ lostAnswer' \in BOOLEAN
        /\ conn' \in {conn, "dead"}
        /\ txn' = txn \/ txn' = NoTxn
        /\ lostAnswer' => conn' = "dead" /\ txn' = txn
    BY <1>1, <1>3, CommitCall
  <2>5. txn.open
    BY <1>1, ChangedIs, EditFacts
  <2>6. TypeOK'
    BY <1>1, <2>1, <2>3, <2>4, EditFacts DEF IInv, TypeOK
  <2>7. TransactionInvariant'
    BY <1>1, <2>1, <2>3, <2>4, <2>5, EditFacts
       DEF IInv, TransactionInvariant, StatementInv, EditInv, ProgressInv, OutcomeInv,
           Editing, Believes, WellFormed
  <2> QED BY <2>6, <2>7 DEF IInv
<1>4. CASE /\ ~autocommit
           /\ UNCHANGED <<conn, driverAuto, txn, lostAnswer, fixed, autocommit, misreported>>
           /\ \E t \in Tip(conn, txn) : pending' = Synchronize(EditCounted(pending), t)
           /\ pc' = "idle" /\ call' = NoCall
  <2>1. /\ EditCounted(pending) \in Pending /\ Has(EditCounted(pending))
        /\ EditCounted(pending).rows = pending.rows + 1
        /\ EditCounted(pending).unknown = pending.unknown
    BY <1>1, EditFacts DEF EditCounted, Pending, Has
  <2>2. txn \in Transaction /\ WellFormed(txn) /\ txn.rows = call.saved.rows + 1
    BY <1>1, EditFacts, ChangedIs
  <2>3. pending' \in Pending /\ Believes(pending', txn, conn)
    <3>1. conn = "open" /\ tipReadable /\ ~deferredChecks /\ ~EditCounted(pending).unknown
            => EditCounted(pending).rows = txn.rows
      BY <1>1, <2>1, <2>2, EditFacts DEF Believes
    <3> QED BY <1>4, <2>1, <2>2, <3>1, SynchronizeBelieves
  <2>4. driverAuto = autocommit
    BY <1>1, <1>4, EditFacts
  <2>5. TypeOK'
    BY <1>4, <2>3, Values, EditFacts DEF IInv, TypeOK, fixed
  <2>6. TransactionInvariant'
    BY <1>1, <1>4, <2>2, <2>3, <2>4, Values, EditFacts
       DEF TransactionInvariant, StatementInv, EditInv, ProgressInv, OutcomeInv, Editing,
           Believes, WellFormed, NoCall, NoTxn, fixed
  <2> QED BY <2>5, <2>6 DEF IInv
<1> QED BY <1>2, <1>3, <1>4 DEF KeepEdit

\* The change is taken back to the savepoint; what cannot be is reported.
LEMMA UndoKeeps ==
  ASSUME IInv, Undo
  PROVE  IInv'
<1>1. /\ pc = "undo" /\ Editing
      /\ call.savepoint /\ call.saved.open => txn.open
      /\ lostAnswer => conn = "dead" /\ call.op = "edit" /\ txn.open
  BY DEF Undo, Editing, IInv, TransactionInvariant, ProgressInv, OutcomeInv
<1> DEFINE back == [call.saved EXCEPT !.open = txn.open]
<1>2. /\ back \in Transaction /\ back.rows = call.saved.rows /\ back.other = call.saved.other
      /\ back.open = txn.open
      /\ call.savepoint => WellFormed(back)
  BY <1>1, EditFacts DEF Transaction, WellFormed
<1> HIDE DEF back
<1>3. CASE /\ conn = "open" /\ call.savepoint /\ txn' = back /\ UNCHANGED <<conn, lostAnswer>>
           /\ ~call.safe /\ Finish(FALSE)
  BY <1>1, <1>2, <1>3, FinishKeeps DEF WellFormed
<1>4. CASE CallFails /\ ~call.safe /\ Finish(TRUE)
  <2>1. txn' = txn /\ lostAnswer' = lostAnswer /\ conn' \in {conn, "dead"}
    BY <1>4 DEF CallFails
  <2> QED BY <1>1, <1>4, <2>1, EditFacts, FinishKeeps DEF WellFormed
<1>5. CASE /\ call.safe /\ Continue("fullRollback")
           /\ \/ /\ conn = "open" /\ call.savepoint /\ txn' = back
                 /\ UNCHANGED <<conn, lostAnswer>> /\ UNCHANGED call
              \/ CallFails /\ call' = [call EXCEPT !.undoFailed = TRUE]
  <2>1. /\ pc' = "fullRollback"
        /\ UNCHANGED <<readOnly, tipReadable, deferredChecks, autocommit, pending, misreported,
                       driverAuto, lostAnswer>>
        /\ conn' \in {conn, "dead"}
    BY <1>5 DEF Continue, fixed, workspace, CallFails
  <2>2. /\ call' \in Call /\ call'.saved = call.saved /\ call'.op = call.op
        /\ call'.safe = call.safe /\ call'.previousAuto = call.previousAuto
        /\ call'.undoFailed \/ (conn = "open" /\ txn' = back)
    BY <1>1, <1>5, EditFacts DEF Call
  <2>3. /\ txn' \in Transaction /\ WellFormed(txn')
        /\ txn' = txn \/ (txn' = back /\ conn = "open")
    BY <1>1, <1>2, <1>5, EditFacts DEF CallFails
  <2>4. TypeOK'
    BY <1>1, <2>1, <2>2, <2>3, EditFacts DEF IInv, TypeOK
  <2>5. TransactionInvariant'
    BY <1>1, <1>2, <1>5, <2>1, <2>2, <2>3, EditFacts
       DEF IInv, TransactionInvariant, StatementInv, EditInv, ProgressInv, OutcomeInv,
           Editing, Believes, WellFormed
  <2> QED BY <2>4, <2>5 DEF IInv
<1>6. CASE /\ conn = "open" /\ call.savepoint /\ txn' = back
           /\ UNCHANGED <<conn, lostAnswer>>
           /\ IF call.safe THEN Continue("fullRollback") /\ UNCHANGED call ELSE Finish(FALSE)
  BY <1>3, <1>5, <1>6, Zenon
<1>7. CASE /\ CallFails
           /\ IF call.safe THEN /\ Continue("fullRollback")
                                /\ call' = [call EXCEPT !.undoFailed = TRUE]
                           ELSE Finish(TRUE)
  BY <1>4, <1>5, <1>7, Zenon
<1>8. \/ /\ conn = "open" /\ call.savepoint /\ txn' = back
         /\ UNCHANGED <<conn, lostAnswer>>
         /\ IF call.safe THEN Continue("fullRollback") /\ UNCHANGED call ELSE Finish(FALSE)
      \/ /\ CallFails
         /\ IF call.safe THEN /\ Continue("fullRollback")
                              /\ call' = [call EXCEPT !.undoFailed = TRUE]
                         ELSE Finish(TRUE)
  BY Zenon DEF Undo, back
<1> QED BY <1>6, <1>7, <1>8, Zenon

\* A transaction that is the operation's own is rolled back whole.
LEMMA FullRollbackKeeps ==
  ASSUME IInv, FullRollback
  PROVE  IInv'
<1>1. /\ pc = "fullRollback" /\ Editing /\ call.safe
      /\ call.undoFailed \/ txn.rows = call.saved.rows
      /\ lostAnswer => conn = "dead" /\ call.op = "edit" /\ txn.open /\ call.undoFailed
  BY DEF FullRollback, Editing, IInv, TransactionInvariant, ProgressInv, OutcomeInv
<1>2. CASE conn = "open" /\ txn' = NoTxn /\ UNCHANGED <<conn, lostAnswer>> /\ Finish(FALSE)
  <2>1. ~txn'.open /\ txn'.rows = call.saved.rows
    BY <1>1, <1>2, EditFacts DEF NoTxn
  <2> QED BY <1>1, <1>2, <2>1, Values, FinishKeeps
<1>3. CASE CallFails /\ Finish(call.undoFailed \/ call.op = "explain")
  <2>1. txn' = txn /\ lostAnswer' = lostAnswer /\ conn' \in {conn, "dead"}
    BY <1>3 DEF CallFails
  <2>2. (call.undoFailed \/ call.op = "explain") \in BOOLEAN
    OBVIOUS
  <2> QED BY <1>1, <1>3, <2>1, <2>2, EditFacts, FinishKeeps DEF WellFormed
<1> QED BY <1>2, <1>3 DEF FullRollback

-----------------------------------------------------------------------------
(* Commit, rollback, the mode, and the session.                            *)

\* A step between operations keeps the invariant if it leaves a belief that is
\* right, the driver's flag at the mode and no lost outcome untold.
LEMMA IdleKeeps ==
  ASSUME IInv, pc = "idle", UNCHANGED <<fixed, pc, call>>,
         autocommit' \in BOOLEAN, misreported' \in BOOLEAN, driverAuto' \in BOOLEAN,
         lostAnswer' \in BOOLEAN, conn' \in {"none", "open", "dead"},
         txn' \in Transaction, WellFormed(txn'), pending' \in Pending,
         Believes(pending', txn', conn'),
         conn' # "none" => driverAuto' = autocommit',
         lostAnswer' => conn' = "dead" /\ Has(pending')
  PROVE  IInv'
<1>1. TypeOK'
  BY DEF IInv, TypeOK, fixed
<1>2. TransactionInvariant'
  BY DEF IInv, TransactionInvariant, StatementInv, EditInv, ProgressInv, OutcomeInv, Editing,
         Believes, WellFormed, fixed
<1> QED BY <1>1, <1>2 DEF IInv

\* What holds between operations.
LEMMA IdleFacts ==
  ASSUME IInv, pc = "idle"
  PROVE  /\ txn \in Transaction /\ WellFormed(txn) /\ pending \in Pending
         /\ Believes(pending, txn, conn)
         /\ conn # "none" => driverAuto = autocommit
         /\ lostAnswer => conn = "dead" /\ Has(pending)
         /\ conn \in {"none", "open", "dead"} /\ lostAnswer \in BOOLEAN
         /\ autocommit \in BOOLEAN /\ driverAuto \in BOOLEAN /\ misreported \in BOOLEAN
BY DEF IInv, TypeOK, TransactionInvariant, StatementInv, OutcomeInv, Editing

\* After a commit or a rollback nothing is open and nothing is pending.
LEMMA ClearBelieves ==
  ASSUME NEW c
  PROVE  Believes(Clear, NoTxn, c)
BY DEF Believes, Clear, NoTxn, Has

\* A commit call between operations: a failure leaves a belief that is right.
LEMMA IdleCommitFails ==
  ASSUME IInv, Usable, CommitFails
  PROVE  /\ Believes(pending, txn', conn') /\ conn' \in {"open", "dead"}
         /\ lostAnswer' => conn' = "dead" /\ Has(pending)
<1>1. pc = "idle" /\ conn = "open" /\ ~lostAnswer /\ Believes(pending, txn, "open")
  BY IdleFacts DEF Usable
<1>2. /\ conn' = conn \/ conn' = "dead"
      /\ txn' = txn \/ (txn' = NoTxn /\ deferredChecks)
      /\ lostAnswer' => conn' = "dead" /\ txn' = txn /\ txn.rows > 0
  BY <1>1, CommitCall
<1> QED BY <1>1, <1>2 DEF Believes, NoTxn

\* commit()
LEMMA CommitKeeps ==
  ASSUME IInv, Commit
  PROVE  IInv'
<1>1. /\ Usable /\ pc = "idle" /\ conn = "open"
      /\ UNCHANGED <<fixed, autocommit, driverAuto, pc, call>>
  BY DEF Commit, Usable
<1>2. CASE /\ CommitOk /\ pending' = Clear
           /\ misreported' = \/ misreported
                             \/ tipReadable /\ ~pending.unknown /\ pending.rows # txn.rows
  <2>1. misreported' \in BOOLEAN
    BY <1>2, IdleFacts, <1>1
  <2> QED
    BY <1>1, <1>2, <2>1, IdleFacts, IdleKeeps, ClearBelieves, CommitCall, Values
<1>3. CASE CommitFails /\ UNCHANGED <<pending, misreported>>
  BY <1>1, <1>3, IdleFacts, IdleKeeps, IdleCommitFails, CommitCall
<1> QED BY <1>2, <1>3 DEF Commit

\* rollback(), whatever becomes of the call.
LEMMA RollbackKeeps ==
  ASSUME IInv, RollbackOk \/ RollbackFails
  PROVE  IInv'
<1>1. /\ pc = "idle" /\ conn = "open" /\ conn' \in {"open", "dead"}
      /\ UNCHANGED <<fixed, autocommit, driverAuto, pc, call, misreported, lostAnswer>>
      /\ \/ txn' = NoTxn /\ pending' = Clear
         \/ UNCHANGED <<txn, pending>>
  BY DEF RollbackOk, RollbackFails, CallFails, Usable, workspace
<1>2. Believes(pending', txn', conn')
  BY <1>1, IdleFacts, ClearBelieves DEF Believes
<1> QED BY <1>1, <1>2, IdleFacts, IdleKeeps, Values

\* set_transaction_mode: the driver's flag follows the mode.
LEMMA SwitchKeeps ==
  ASSUME IInv,
         SwitchCommitting \/ SwitchRollingBack \/ \E enabled \in BOOLEAN : SwitchFreely(enabled)
  PROVE  IInv'
<1>1. ASSUME NEW enabled \in BOOLEAN, SwitchFreely(enabled)
      PROVE  IInv'
  <2>1. /\ pc = "idle" /\ UNCHANGED <<fixed, misreported, pending, conn, txn, pc, call, lostAnswer>>
        /\ autocommit' \in BOOLEAN /\ driverAuto' \in BOOLEAN
        /\ conn' # "none" => driverAuto' = autocommit'
    BY <1>1, IdleFacts DEF SwitchFreely, SwitchMode
  <2> QED BY <2>1, IdleFacts, IdleKeeps
<1>2. ASSUME SwitchCommitting
      PROVE  IInv'
  <2>1. pc = "idle" /\ UNCHANGED <<fixed, misreported, pc, call>>
    BY <1>2 DEF SwitchCommitting
  <2>2. CASE CommitOk /\ pending' = Clear /\ SwitchMode(TRUE)
    BY <2>1, <2>2, IdleFacts, IdleKeeps, ClearBelieves, CommitCall, Values DEF SwitchMode
  <2>3. CASE conn = "open" /\ CommitFails /\ UNCHANGED <<autocommit, pending, driverAuto>>
    BY <2>1, <2>3, IdleFacts, IdleKeeps, IdleCommitFails, CommitCall DEF Usable
  <2> QED BY <1>2, <2>2, <2>3 DEF SwitchCommitting
<1>3. ASSUME SwitchRollingBack
      PROVE  IInv'
  <2>1. pc = "idle" /\ conn = "open" /\ UNCHANGED <<fixed, misreported, pc, call>>
    BY <1>3 DEF SwitchRollingBack
  <2>2. CASE txn' = NoTxn /\ pending' = Clear /\ UNCHANGED <<conn, lostAnswer>> /\ SwitchMode(TRUE)
    BY <2>1, <2>2, IdleFacts, IdleKeeps, ClearBelieves, Values DEF SwitchMode
  <2>3. CASE CallFails /\ UNCHANGED <<autocommit, pending, driverAuto>>
    <3>1. Believes(pending', txn', conn')
      BY <2>1, <2>3, IdleFacts DEF Believes, CallFails
    <3> QED BY <2>1, <2>3, <3>1, IdleFacts, IdleKeeps DEF CallFails
  <2> QED BY <1>3, <2>2, <2>3 DEF SwitchRollingBack
<1> QED BY <1>1, <1>2, <1>3

\* close() and connect(), and the death of the session between two calls.
LEMMA SessionKeeps ==
  ASSUME IInv, Reconnect \/ SessionDies
  PROVE  IInv'
<1>1. CASE Reconnect
  <2>1. /\ pc = "idle" /\ UNCHANGED <<fixed, autocommit, misreported, pc, call>>
        /\ conn' \in {"none", "open"} /\ driverAuto' = (conn' = "open" /\ autocommit)
        /\ txn' = NoTxn /\ pending' = Clear /\ lostAnswer' = FALSE
    BY <1>1 DEF Reconnect
  <2>2. driverAuto' \in BOOLEAN /\ (conn' # "none" => driverAuto' = autocommit)
    BY <2>1, IdleFacts
  <2> QED BY <2>1, <2>2, IdleFacts, IdleKeeps, ClearBelieves, Values
<1>2. CASE SessionDies
  <2>1. /\ conn = "open" /\ conn' = "dead" /\ UNCHANGED <<readOnly, tipReadable, deferredChecks>>
        /\ UNCHANGED <<autocommit, pending, misreported, driverAuto, txn, pc, call, lostAnswer>>
    BY <1>2 DEF SessionDies, fixed, workspace
  <2>2. TypeOK'
    BY <2>1 DEF IInv, TypeOK
  <2>3. TransactionInvariant'
    BY <2>1
       DEF IInv, TransactionInvariant, StatementInv, EditInv, ProgressInv, OutcomeInv, Editing,
           Believes, WellFormed
  <2> QED BY <2>2, <2>3 DEF IInv
<1> QED BY <1>1, <1>2

-----------------------------------------------------------------------------
(* The invariant of the specification, and what follows from it.            *)

\* A workspace that has just been built believes nothing about no session.
LEMMA InitEstablishes == Init => IInv
<1> SUFFICES ASSUME Init PROVE IInv
  OBVIOUS
<1>1. TypeOK
  BY Values DEF Init, TypeOK
<1>2. TransactionInvariant
  BY Values
     DEF Init, TransactionInvariant, StatementInv, EditInv, ProgressInv, OutcomeInv, Editing,
         Believes, WellFormed, NoCall, NoTxn, Clear
<1> QED BY <1>1, <1>2 DEF IInv

\* Every step of the program keeps it.
LEMMA NextKeeps == IInv /\ [Next]_vars => IInv'
<1> SUFFICES ASSUME IInv, [Next]_vars PROVE IInv'
  OBVIOUS
<1>1. MaxRows \in Nat
  BY TransactionAssumption
<1>2. ASSUME NEW s \in Statement, ExecuteOk(s, 0) PROVE IInv'
  BY <1>1, <1>2, ExecuteOkKeeps
<1>3. ASSUME NEW s \in Statement, ExecuteFails(s) PROVE IInv'
  BY <1>3, ExecuteFailsKeeps
<1>4. ASSUME NEW rows \in 1..MaxRows, ExecuteOk("dml", rows) PROVE IInv'
  BY <1>1, <1>4, ExecuteOkKeeps DEF Statement
<1>5. CASE ReadingDone \/ CompilationFails \/ ReadingFails \/ Raise
  BY <1>5, ReadingKeeps, RaiseKeeps
<1>6. CASE CommitAutocommitOk \/ CommitAutocommitFails
  BY <1>6, CommitAutocommitKeeps
<1>7. ASSUME NEW op \in {"edit", "explain"}, StartCall(op) PROVE IInv'
  BY <1>7, StartCallKeeps
<1>8. CASE Savepoint \/ Body \/ KeepEdit \/ Undo \/ FullRollback
  BY <1>8, SavepointKeeps, BodyKeeps, KeepEditKeeps, UndoKeeps, FullRollbackKeeps
<1>9. CASE Commit \/ RollbackOk \/ RollbackFails
  BY <1>9, CommitKeeps, RollbackKeeps
<1>10. CASE SwitchCommitting \/ SwitchRollingBack \/ \E enabled \in BOOLEAN : SwitchFreely(enabled)
  BY <1>10, SwitchKeeps
<1>11. CASE Reconnect \/ SessionDies
  BY <1>11, SessionKeeps
<1>12. CASE UNCHANGED vars
  <2>1. UNCHANGED <<readOnly, tipReadable, deferredChecks, autocommit, pending, misreported, conn,
                    driverAuto, txn, pc, call, lostAnswer>>
    BY <1>12 DEF vars, fixed, workspace, driver
  <2>2. TypeOK'
    BY <2>1 DEF IInv, TypeOK
  <2>3. TransactionInvariant'
    BY <2>1
       DEF IInv, TransactionInvariant, StatementInv, EditInv, ProgressInv, OutcomeInv, Editing,
           Believes, WellFormed
  <2> QED BY <2>2, <2>3 DEF IInv
<1> QED
  BY <1>2, <1>3, <1>4, <1>5, <1>6, <1>7, <1>8, <1>9, <1>10, <1>11, <1>12 DEF Next

\* The types and the invariant hold throughout every behaviour.
THEOREM InvariantHolds == Spec => [](TypeOK /\ TransactionInvariant)
BY InitEstablishes, NextKeeps, PTL DEF Spec, IInv

\* The workspace's variables keep their types, counts within their bound.
THEOREM TypeCorrect == Spec => []TypeOK
BY InvariantHolds, PTL

\* Between operations live work is always reported as uncommitted.
THEOREM LiveWorkTrackedHolds == Spec => []LiveWorkTracked
<1>1. TypeOK /\ TransactionInvariant => LiveWorkTracked
  BY DEF TransactionInvariant, StatementInv, Believes, Editing, LiveWorkTracked
<1> QED BY <1>1, InvariantHolds, PTL

\* A count of pending rows not marked unknown is the transaction's.
THEOREM RowCountExactHolds == Spec => []RowCountExact
<1>1. TypeOK /\ TransactionInvariant => RowCountExact
  BY DEF TransactionInvariant, StatementInv, Believes, Editing, RowCountExact
<1> QED BY <1>1, InvariantHolds, PTL

\* The driver's autocommit flag is the workspace's mode between operations.
THEOREM DriverFollowsModeHolds == Spec => []DriverFollowsMode
<1>1. TypeOK /\ TransactionInvariant => DriverFollowsMode
  BY DEF TransactionInvariant, StatementInv, Editing, DriverFollowsMode
<1> QED BY <1>1, InvariantHolds, PTL

\* A commit that was never answered is remembered as an open outcome.
THEOREM UncertainOutcomeRememberedHolds == Spec => []UncertainOutcomeRemembered
<1>1. TypeOK /\ TransactionInvariant => UncertainOutcomeRemembered
  BY DEF TransactionInvariant, OutcomeInv, UncertainOutcomeRemembered
<1> QED BY <1>1, InvariantHolds, PTL

\* What one step behind a savepoint leaves of the transaction before it.
LEMMA StepKeepsEarlierWork ==
  ASSUME IInv, [Next]_vars, pc \in {"savepoint", "body", "undo", "fullRollback"},
         txn.rows >= call.saved.rows
  PROVE  /\ txn'.rows >= call.saved.rows
         /\ txn.other /\ call.saved.other => txn'.other
<1>1. Editing
  BY DEF Editing
<1>2. txn \in Transaction /\ txn.rows \in Nat
  BY <1>1, EditFacts DEF Transaction
<1>3. CASE txn' = txn
  BY <1>3
<1>4. CASE Body
  <2>1. txn' = Changed(txn) \/ txn' = txn
    BY <1>4 DEF Body, Changed, CallFails
  <2>2. txn = call.saved
    BY <1>4 DEF Body, IInv, TransactionInvariant, ProgressInv
  <2>3. txn' = Changed(txn) => txn'.rows = txn.rows + 1 /\ txn'.other = txn.other
    BY <1>1, <1>2, <2>2, EditFacts, ChangedIs
  <2> QED BY <1>1, <1>2, <2>1, <2>2, <2>3, EditFacts
<1>5. CASE Undo
  <2> DEFINE back == [call.saved EXCEPT !.open = txn.open]
  <2>1. txn' = back \/ txn' = txn
    BY <1>5 DEF Undo, CallFails
  <2>2. back.rows = call.saved.rows /\ back.other = call.saved.other
    BY <1>1, <1>2, EditFacts DEF Transaction
  <2> HIDE DEF back
  <2> QED BY <1>1, <1>2, <2>1, <2>2, EditFacts
<1>6. CASE FullRollback
  <2>1. call.safe /\ (txn' = NoTxn \/ txn' = txn)
    BY <1>6 DEF FullRollback, CallFails, IInv, TransactionInvariant, ProgressInv
  <2> QED BY <1>1, <1>2, <2>1, EditFacts DEF NoTxn
<1>7. CASE Savepoint \/ SessionDies \/ UNCHANGED vars
  BY <1>3, <1>7 DEF Savepoint, CallFails, SessionDies, vars, driver
<1> QED
  BY <1>4, <1>5, <1>6, <1>7
     DEF Next, ExecuteOk, ExecuteFails, Permitted, Usable, ReadingDone, CompilationFails,
         ReadingFails, Raise, CommitAutocommitOk, CommitAutocommitFails, StartCall, KeepEdit,
         Commit, RollbackOk, RollbackFails, SwitchCommitting, SwitchRollingBack,
         SwitchFreely, Reconnect

\* An edit or an explain plan takes no earlier work with it, whichever of its
\* calls fail.
THEOREM EarlierWorkKeptHolds == Spec => EarlierWorkKept
<1>1. IInv /\ [Next]_vars
        => [(pc \in {"savepoint", "body", "undo", "fullRollback"} /\ txn.rows >= call.saved.rows)
              => /\ txn'.rows >= call.saved.rows
                 /\ txn.other /\ call.saved.other => txn'.other]_vars
  BY StepKeepsEarlierWork
<1> QED BY <1>1, InvariantHolds, PTL DEF Spec, EarlierWorkKept, IInv

-----------------------------------------------------------------------------
(* The calls implement the transaction.                                    *)

\* A statement, a script or a page is run over a session, if not a live one.
SessionThere == conn \in {"none", "open", "dead"} /\ (step # "idle" => conn # "none")

\* A call that may only lose the session: it dies, or nothing happens to it.
LEMMA LosingIsAStep ==
  ASSUME SessionThere, conn # "none", conn' \in {conn, "dead"},
         UNCHANGED <<fixed, workspace, driverAuto, txn, pc, call, lostAnswer>>
  PROVE  [Next]_vars
<1>1. CASE conn = "open" /\ conn' = "dead"
  BY <1>1 DEF SessionDies, Next
<1>2. CASE conn' = conn
  BY <1>2 DEF vars, driver, workspace
<1> QED BY <1>1, <1>2 DEF SessionThere

\* Every call is a step of the transaction, or leaves it alone.
LEMMA CallIsAStep ==
  ASSUME SessionThere, [CallsNext]_allVars
  PROVE  [Next]_vars
<1> USE DEF Elsewhere
<1>1. ASSUME NEW n \in 1..plan.size, Run(n) PROVE [Next]_vars
  BY <1>1 DEF Run
<1>2. ASSUME NEW s \in Statement, Execute(s, 0) PROVE [Next]_vars
  BY <1>2 DEF Execute, Next
<1>3. ASSUME NEW rows \in 1..MaxRows, Execute("dml", rows) PROVE [Next]_vars
  <2>1. ExecuteOk("dml", rows) \/ ExecuteFails("dml")
    BY <1>3 DEF Execute
  <2>2. "dml" \in Statement
    BY DEF Statement
  <2> QED BY <2>1, <2>2 DEF Next
<1>4. CASE Refuse \/ Answer \/ Present \/ FetchMore \/ PresentPage \/ Help
  BY <1>4 DEF Refuse, Answer, Present, FetchMore, PresentPage, Help
<1>5. CASE Diagnose
  BY <1>5 DEF Diagnose, Next
<1>6. CASE CommitStep
  BY <1>6 DEF CommitStep, Next
<1>7. CASE Rows
  <2>1. UNCHANGED vars \/ ReadingFails \/ PageFails
    BY <1>7 DEF Rows
  <2>2. CASE PageFails
    BY <1>7, <2>2, LosingIsAStep DEF Rows, PageFails, CallFails, SessionThere
  <2> QED BY <2>1, <2>2 DEF Next
<1>8. CASE ReadOutput
  <2>1. conn' \in {conn, "dead"} /\ conn # "none"
    BY <1>8 DEF ReadOutput, SessionThere
  <2>2. UNCHANGED <<fixed, workspace, driverAuto, txn, pc, call, lostAnswer>>
    BY <1>8 DEF ReadOutput
  <2> QED BY <2>1, <2>2, LosingIsAStep
<1>9. CASE Shape
  BY <1>9 DEF Shape, Next
<1>10. CASE Close
  BY <1>10 DEF Close, Next
<1>11. CASE OtherOperation
  BY <1>11 DEF OtherOperation, Next
<1>12. CASE RollbackEnds \/ ReconnectStep \/ SessionDiesStep
  BY <1>12 DEF RollbackEnds, ReconnectStep, SessionDiesStep, Next
<1>13. CASE UNCHANGED allVars
  BY <1>13 DEF allVars
<1> QED
  BY <1>1, <1>2, <1>3, <1>4, <1>5, <1>6, <1>7, <1>8, <1>9, <1>10, <1>11, <1>12, <1>13
     DEF CallsNext

\* Only a reconnect takes a session away, and it waits for the operation.
LEMMA SessionStays ==
  ASSUME IInv, SessionThere, [CallsNext]_allVars
  PROVE  SessionThere'
<1>1. [Next]_vars
  BY CallIsAStep
<1>2. conn' \in {"none", "open", "dead"}
  BY <1>1, NextKeeps DEF IInv, TypeOK
<1>3. ASSUME step' # "idle" PROVE conn' # "none"
  <2>1. CASE step = "idle"
    <3>1. ASSUME NEW s \in Statement, NEW rows, Execute(s, rows) PROVE FALSE
      BY <2>1, <3>1 DEF Execute
    <3>2. ~(Refuse \/ Diagnose \/ CommitStep \/ Rows \/ ReadOutput \/ Shape \/ Close \/ Answer
              \/ Present \/ PresentPage)
      BY <2>1 DEF Refuse, Diagnose, CommitStep, Rows, ReadOutput, Shape, Close, Answer, Present,
           FinishExecution, HandleExecutionError, PresentPage
    <3>3. ~(Help \/ OtherOperation \/ RollbackEnds \/ ReconnectStep \/ SessionDiesStep
              \/ UNCHANGED allVars)
      BY <1>3, <2>1
         DEF Help, OtherOperation, RollbackEnds, ReconnectStep, SessionDiesStep, Elsewhere,
             allVars, execution
    <3>4. (\E n \in 1..plan.size : Run(n)) \/ FetchMore
      BY <3>1, <3>2, <3>3 DEF CallsNext, Statement
    <3>5. conn # "none" /\ UNCHANGED conn
      BY <3>4 DEF Run, FetchMore, vars, driver
    <3> QED BY <3>5
  <2>2. CASE step # "idle"
    <3>1. conn # "none" /\ ~Elsewhere
      BY <2>2 DEF SessionThere, Elsewhere
    <3>2. conn' = conn \/ conn' \in {"open", "dead"}
      <4>1. ASSUME NEW s \in Statement, NEW rows, Execute(s, rows) PROVE conn' = conn \/ conn' \in {"open", "dead"}
        BY <4>1 DEF Execute, ExecuteOk, ExecuteFails
      <4>2. CASE Diagnose \/ CommitStep
        BY <4>2 DEF Diagnose, CommitStep, CompilationFails, ReadingFails, ReadingDone, vars, driver,
             CommitAutocommitOk, CommitAutocommitFails, CommitOk, CommitFails
      <4>3. CASE Rows \/ ReadOutput \/ Shape \/ Close
        BY <4>3 DEF Rows, PageFails, CallFails, ReadOutput, Shape, Close, ReadingDone, ReadingFails,
             Raise, vars, driver
      <4>4. CASE Refuse \/ Answer \/ Present \/ PresentPage \/ Help \/ UNCHANGED allVars \/ SessionDiesStep
        BY <4>4 DEF Refuse, Answer, Present, PresentPage, Help, vars, driver, SessionDiesStep, SessionDies, allVars
      <4> QED
        BY <2>2, <3>1, <4>1, <4>2, <4>3, <4>4
           DEF CallsNext, Run, FetchMore, OtherOperation, RollbackEnds, ReconnectStep, Statement
    <3> QED BY <3>1, <3>2
  <2> QED BY <2>1, <2>2
<1> QED BY <1>2, <1>3 DEF SessionThere

\* With the calls of Execution the transaction's invariant is kept, and a
\* session is there while they are made.
LEMMA CallsInvariant == CallsSpec => [](IInv /\ SessionThere)
<1>1. CallsInit => IInv /\ SessionThere
  BY InitEstablishes DEF CallsInit, Init, SessionThere
<1>2. IInv /\ SessionThere /\ [CallsNext]_allVars => IInv' /\ SessionThere'
  BY CallIsAStep, NextKeeps, SessionStays
<1> QED BY <1>1, <1>2, PTL DEF CallsSpec

\* Statements, scripts, pages and the other operations of the workspace, made
\* of single calls, implement the transaction.
THEOREM CallsImplementTransaction == CallsSpec => Spec
<1>1. CallsInit => Init
  BY DEF CallsInit
<1>2. SessionThere /\ [CallsNext]_allVars => [Next]_vars
  BY CallIsAStep
<1> QED BY <1>1, <1>2, CallsInvariant, PTL DEF CallsSpec, Spec

\* So no call of a statement, a script, a page, an edit or an explain plan
\* leaves live work unreported, a count inexact, the driver out of its mode,
\* an uncertain outcome forgotten, or earlier work rolled back.
THEOREM CallsKeepTheBooks ==
  CallsSpec => /\ []LiveWorkTracked /\ []RowCountExact /\ []DriverFollowsMode
               /\ []UncertainOutcomeRemembered /\ EarlierWorkKept
BY CallsImplementTransaction, LiveWorkTrackedHolds, RowCountExactHolds, DriverFollowsModeHolds,
   UncertainOutcomeRememberedHolds, EarlierWorkKeptHolds, PTL

-----------------------------------------------------------------------------
(* What an answer tells.                                                   *)

\* The locals of an operation, by type; lines of output are their numbers.
Work == [page : BOOLEAN, query : BOOLEAN, error : Faults \cup {"none"},
         warnings : SUBSET Faults, output : Seq(Nat), more : BOOLEAN,
         faults : SUBSET Faults, open : SUBSET Cursors]

\* Faults that are never the exception of an operation.
OnlyWarnings == Cursors \cup {"read output", "editability"}

\* What the exception of a failing commit is silent about.
Untold(w) == IF w.error = "commit" THEN {"errors cursor"} ELSE {}

\* Everything else that went wrong so far is a warning or the exception.
Told(w) == /\ w.faults \ Untold(w) = w.warnings \cup ({w.error} \ {"none"})
           /\ w.error \notin OnlyWarnings

\* The cursors still open are those told of, and the given ones.
Leaves(w, cursors) == w.open \ Untold(w) \subseteq w.warnings \cup cursors

\* At each call it is known which cursors are still to be closed, and whether
\* there can be an exception or a warning already.
WorkInv ==
  /\ plan \in Plans /\ buffer \in Seq(Nat) /\ written \in Nat
  /\ work \in Work /\ Told(work) /\ step \in Steps
  /\ step \in {"idle", "next"} => work = NoWork
  /\ step \in {"diagnose", "rows", "shape"} => work.error = "none"
  /\ step = "diagnose" => work.warnings = {}
  /\ step = "commit" /\ work.error = "none" => work.warnings \subseteq {"errors cursor"}
  /\ step \in {"diagnose", "commit", "rows", "shape", "close"}
       => Leaves(work, {"statement cursor"})
  /\ step = "output" => Leaves(work, {"statement cursor", "output cursor"})
  /\ step = "answer" => Leaves(work, {})

\* An operation begins with nothing to tell.
LEMMA NothingYet ==
  /\ NoWork \in Work /\ Told(NoWork) /\ Leaves(NoWork, {})
  /\ Cursor \in Work /\ Told(Cursor) /\ Leaves(Cursor, {"statement cursor"})
  /\ NoWork.error = "none" /\ Cursor.error = "none" /\ Cursor.warnings = {}
<1>1. /\ NoWork \in Work /\ Told(NoWork) /\ Leaves(NoWork, {}) /\ NoWork.error = "none"
      /\ NoWork.open = {} /\ NoWork.warnings = {} /\ NoWork.faults = {}
  BY DEF NoWork, Work, Told, Leaves, Untold, OnlyWarnings, Cursors
<1>2. /\ Cursor \in Work /\ Cursor.open = {"statement cursor"}
      /\ Cursor.warnings = {} /\ Cursor.faults = {} /\ Cursor.error = "none"
  BY <1>1 DEF Cursor, Opened, Work, Cursors
<1> QED BY <1>1, <1>2 DEF Told, Leaves, Untold, OnlyWarnings, Cursors

\* A warning tells of the fault it adds, unless a failing commit is silent about it.
LEMMA WarnedTells ==
  ASSUME NEW w \in Work, NEW f \in Faults, NEW cursors, Told(w), Leaves(w, cursors),
         f # "errors cursor" \/ w.error # "commit"
  PROVE  /\ Warned(w, f) \in Work /\ Told(Warned(w, f))
         /\ Leaves(Warned(w, f), cursors \ {f})
         /\ Leaves(Warned(w, f), cursors)
         /\ Warned(w, f).error = w.error
<1>1. /\ Warned(w, f) \in Work
      /\ Warned(w, f).faults = w.faults \cup {f}
      /\ Warned(w, f).warnings = w.warnings \cup {f}
      /\ Warned(w, f).error = w.error /\ Warned(w, f).open = w.open
  BY DEF Warned, Faulty, Work
<1> QED BY <1>1 DEF Told, Leaves, Untold

\* So does the exception of anything but a commit, if there has been none.
LEMMA RaisedTells ==
  ASSUME NEW w \in Work, NEW f \in Faults \ (OnlyWarnings \cup {"commit"}), NEW cursors,
         Told(w), w.error = "none", Leaves(w, cursors)
  PROVE  Raised(w, f) \in Work /\ Told(Raised(w, f)) /\ Leaves(Raised(w, f), cursors)
<1>1. /\ Raised(w, f) \in Work
      /\ Raised(w, f).faults = w.faults \cup {f}
      /\ Raised(w, f).warnings = w.warnings
      /\ Raised(w, f).error = f /\ Raised(w, f).open = w.open
  BY DEF Raised, Faulty, Work
<1>2. f # "none"
  BY DEF Faults, Cursors
<1> QED BY <1>1, <1>2 DEF Told, Leaves, Untold

\* A cursor is closed or told of.
LEMMA ClosedTells ==
  ASSUME NEW w \in Work, NEW c \in Cursors, NEW cursors, Told(w), Leaves(w, cursors),
         c # "errors cursor" \/ w.error # "commit", NEW v \in Closed(w, c)
  PROVE  v \in Work /\ Told(v) /\ Leaves(v, cursors \ {c}) /\ v.error = w.error
<1>1. CASE v = [w EXCEPT !.open = @ \ {c}]
  <2>1. /\ v \in Work /\ v.faults = w.faults /\ v.warnings = w.warnings
        /\ v.error = w.error /\ v.open = w.open \ {c}
    BY <1>1 DEF Work
  <2> QED BY <2>1 DEF Told, Leaves, Untold
<1>2. CASE v = Warned(w, c)
  BY <1>2, WarnedTells DEF Faults
<1> QED BY <1>1, <1>2 DEF Closed

\* An opened cursor is one more to close.
LEMMA OpenedTells ==
  ASSUME NEW w \in Work, NEW c \in Cursors, NEW cursors, Told(w), Leaves(w, cursors)
  PROVE  /\ Opened(w, c) \in Work /\ Told(Opened(w, c))
         /\ Leaves(Opened(w, c), cursors \cup {c})
         /\ Opened(w, c).error = w.error
<1>1. /\ Opened(w, c) \in Work /\ Opened(w, c).faults = w.faults
      /\ Opened(w, c).warnings = w.warnings
      /\ Opened(w, c).error = w.error /\ Opened(w, c).open = w.open \cup {c}
  BY DEF Opened, Work
<1> QED BY <1>1 DEF Told, Leaves, Untold

\* Lines are written at the end of the buffer.
LEMMA WriteTyped ==
  ASSUME buffer \in Seq(Nat), written \in Nat, NEW n \in Nat, Write(n)
  PROVE  buffer' \in Seq(Nat) /\ written' \in Nat
<1>1. Lines(n) \in Seq(Nat)
  BY DEF Lines
<1>2. PICK kept \in {buffer, <<>>} : buffer' = kept \o Lines(n)
  BY DEF Write
<1>3. kept \in Seq(Nat)
  <2>1. <<>> \in Seq(Nat)
    BY EmptySeq
  <2> QED BY <2>1, Zenon
<1>4. kept \o Lines(n) \in Seq(Nat)
  BY <1>1, <1>3
<1> QED BY <1>2, <1>4 DEF Write

\* The steps of a statement up to its output.
LEMMA StatementTells ==
  ASSUME WorkInv,
         \/ \E n \in 1..plan.size : Run(n)
         \/ \E s \in Statement, rows \in Nat : Execute(s, rows)
         \/ Refuse \/ Diagnose \/ CommitStep
  PROVE  WorkInv'
<1>1. ASSUME NEW n \in 1..plan.size, Run(n) PROVE WorkInv'
  BY <1>1 DEF Run, WorkInv, Steps, output
<1>2. ASSUME NEW s \in Statement, NEW rows \in Nat, Execute(s, rows) PROVE WorkInv'
  <2>1. plan' = plan /\ buffer' \in Seq(Nat) /\ written' \in Nat
    <3>1. PICK n \in LinesOf(s) : Write(n)
      BY <1>2 DEF Execute
    <3>2. n \in Nat
      <4>1. plan.lines \in Nat
        BY ExecutionAssumption DEF WorkInv
      <4> QED BY <4>1 DEF LinesOf
    <3>3. plan' = plan
      BY <1>2 DEF Execute, Becomes
    <3> QED BY <3>1, <3>2, <3>3, WriteTyped DEF WorkInv
  <2>2. CASE step' = "output" /\ work' = Raised(Cursor, "execute")
    <3>1. "execute" \in Faults \ (OnlyWarnings \cup {"commit"})
      BY DEF Faults, OnlyWarnings, Cursors
    <3>2. /\ Raised(Cursor, "execute") \in Work /\ Told(Raised(Cursor, "execute"))
          /\ Leaves(Raised(Cursor, "execute"), {"statement cursor"})
      BY <3>1, NothingYet, RaisedTells
    <3> QED BY <2>1, <2>2, <3>2 DEF WorkInv, Steps, Leaves
  <2>3. CASE /\ step' \in {"diagnose", "rows", "commit"}
             /\ work' = [Cursor EXCEPT !.query = IsQuery(s)]
    <3>1. IsQuery(s) \in BOOLEAN
      BY DEF IsQuery
    <3>2. /\ work' \in Work /\ work'.faults = Cursor.faults /\ work'.warnings = Cursor.warnings
          /\ work'.error = Cursor.error /\ work'.open = Cursor.open
      BY <2>3, <3>1, NothingYet DEF Work
    <3>3. Told(work') /\ Leaves(work', {"statement cursor"})
      BY <3>2, NothingYet DEF Told, Leaves, Untold
    <3> QED BY <2>1, <2>3, <3>2, <3>3, NothingYet DEF WorkInv, Steps
  <2> QED BY <1>2, <2>2, <2>3 DEF Execute, Becomes
<1>3. CASE Refuse
  <2>1. "execute" \in Faults \ (OnlyWarnings \cup {"commit"})
    BY DEF Faults, OnlyWarnings, Cursors
  <2>2. /\ Raised(NoWork, "execute") \in Work /\ Told(Raised(NoWork, "execute"))
        /\ Leaves(Raised(NoWork, "execute"), {})
    BY <2>1, NothingYet, RaisedTells
  <2>3. /\ plan' = plan /\ buffer' = buffer /\ written' = written /\ step' = "answer"
        /\ work' = Raised(NoWork, "execute")
    BY <1>3 DEF Refuse, Becomes, output
  <2> QED BY <2>2, <2>3 DEF WorkInv, Steps
<1>4. CASE Diagnose
  <2> DEFINE w == Opened(work, "errors cursor")
             all == {"statement cursor", "errors cursor"}
  <2>1. /\ plan' = plan /\ buffer' = buffer /\ written' = written
        /\ step' \in {"commit", "output"}
        /\ work' \in UNION {Closed(x, "errors cursor") :
                            x \in {w, Raised(w, "compile"), Raised(w, "read errors")}}
    BY <1>4 DEF Diagnose, Becomes, output
  <2>2. w \in Work /\ Told(w) /\ Leaves(w, all) /\ w.error = "none" /\ w.warnings = {}
    <3>1. step = "diagnose"
      BY <1>4 DEF Diagnose
    <3>2. /\ work \in Work /\ Told(work) /\ work.error = "none" /\ work.warnings = {}
          /\ Leaves(work, {"statement cursor"})
      BY <3>1 DEF WorkInv
    <3>3. {"statement cursor"} \cup {"errors cursor"} = all /\ "errors cursor" \in Cursors
      BY DEF Cursors
    <3>4. /\ w \in Work /\ Told(w) /\ w.error = work.error
          /\ Leaves(w, {"statement cursor"} \cup {"errors cursor"})
      BY <3>2, <3>3, OpenedTells
    <3>5. w.warnings = work.warnings
      BY <3>2 DEF Opened, Work
    <3> QED BY <3>2, <3>3, <3>4, <3>5
  <2> HIDE DEF w, all
  <2>3. {"compile", "read errors"} \subseteq Faults \ (OnlyWarnings \cup {"commit"})
    BY DEF Faults, OnlyWarnings, Cursors
  <2>4. \A x \in {w, Raised(w, "compile"), Raised(w, "read errors")} :
          /\ x \in Work /\ Told(x) /\ Leaves(x, all)
          /\ x.error \in {"none", "compile", "read errors"} /\ x.warnings = {}
    <3>1. \A f \in {"compile", "read errors"} :
            Raised(w, f).error = f /\ Raised(w, f).warnings = {}
      BY <2>2 DEF Raised, Faulty, Work
    <3> QED BY <2>2, <2>3, <3>1, RaisedTells
  <2>5. /\ work' \in Work /\ Told(work') /\ Leaves(work', all \ {"errors cursor"})
        /\ work'.warnings \subseteq {"errors cursor"}
    <3>1. PICK x \in {w, Raised(w, "compile"), Raised(w, "read errors")} :
            work' \in Closed(x, "errors cursor")
      BY <2>1
    <3>2. /\ x \in Work /\ Told(x) /\ Leaves(x, all)
          /\ x.error # "commit" /\ x.warnings = {}
      BY <2>4
    <3>3. "errors cursor" \in Cursors
      BY DEF Cursors
    <3>4. work'.warnings \subseteq {"errors cursor"}
      BY <3>1, <3>2 DEF Closed, Warned, Faulty, Work
    <3> QED BY <3>1, <3>2, <3>3, <3>4, ClosedTells
  <2> QED BY <2>1, <2>5 DEF WorkInv, Steps, Leaves, all
<1>5. CASE CommitStep
  <2>1. /\ plan' = plan /\ buffer' = buffer /\ written' = written /\ step = "commit"
        /\ step' \in {"commit", "output"} /\ work' \in {work, CommitFailed(work)}
    BY <1>5 DEF CommitStep, Becomes, output
  <2>2. /\ work \in Work /\ Told(work) /\ Leaves(work, {"statement cursor"})
        /\ work.error = "none" => work.warnings \subseteq {"errors cursor"}
    BY <2>1 DEF WorkInv
  <2>3. CASE work' = CommitFailed(work) /\ work.error = "none"
    <3>1. /\ work' \in Work /\ work'.error = "commit" /\ work'.warnings = {"commit"}
          /\ work'.faults = work.faults \cup {"commit"} /\ work'.open = work.open
      BY <2>2, <2>3 DEF CommitFailed, Raised, Faulty, Work, Faults, Cursors
    <3>2. work.faults \subseteq {"errors cursor"}
          /\ work.open \subseteq {"errors cursor", "statement cursor"}
      BY <2>2, <2>3 DEF Told, Leaves, Untold
    <3>3. Told(work') /\ Leaves(work', {"statement cursor"})
      BY <3>1, <3>2 DEF Told, Leaves, Untold, OnlyWarnings, Cursors
    <3> QED BY <2>1, <3>1, <3>3 DEF WorkInv, Steps, Leaves
  <2>4. CASE work' = CommitFailed(work) /\ work.error # "none"
    <3>1. work' = Warned(work, "commit")
      BY <2>4 DEF CommitFailed
    <3>2. /\ work' \in Work /\ Told(work') /\ Leaves(work', {"statement cursor"})
          /\ work'.error = work.error
      BY <2>2, <3>1, WarnedTells DEF Faults
    <3> QED BY <2>1, <2>4, <3>2 DEF WorkInv, Steps, Leaves
  <2>5. CASE work' = work
    BY <2>1, <2>2, <2>5 DEF WorkInv, Steps, Leaves
  <2> QED BY <2>1, <2>3, <2>4, <2>5
<1> QED BY <1>1, <1>2, <1>3, <1>4, <1>5

\* The steps that read its rows and its output, and close its cursors.
LEMMA ReadingTells ==
  ASSUME WorkInv, Rows \/ ReadOutput \/ Shape \/ Close
  PROVE  WorkInv'
<1>1. CASE Rows
  <2>1. /\ plan' = plan /\ buffer' = buffer /\ written' = written /\ step = "rows"
        /\ step' = "output"
        /\ work' = Raised(work, "fetch") \/ \E more \in BOOLEAN : work' = [work EXCEPT !.more = more]
    BY <1>1 DEF Rows, Becomes, output
  <2>2. /\ work \in Work /\ Told(work) /\ Leaves(work, {"statement cursor"})
        /\ work.error = "none"
    BY <2>1 DEF WorkInv
  <2>3. "fetch" \in Faults \ (OnlyWarnings \cup {"commit"})
    BY DEF Faults, OnlyWarnings, Cursors
  <2>4. work' \in Work /\ Told(work') /\ Leaves(work', {"statement cursor"})
    <3>1. CASE work' = Raised(work, "fetch")
      BY <2>2, <2>3, <3>1, RaisedTells
    <3>2. ASSUME NEW more \in BOOLEAN, work' = [work EXCEPT !.more = more]
          PROVE  work' \in Work /\ Told(work') /\ Leaves(work', {"statement cursor"})
      <4>1. /\ work' \in Work /\ work'.faults = work.faults /\ work'.warnings = work.warnings
            /\ work'.error = work.error /\ work'.open = work.open
        BY <2>2, <3>2 DEF Work
      <4> QED BY <2>2, <4>1 DEF Told, Leaves, Untold
    <3> QED BY <2>1, <3>1, <3>2
  <2> QED BY <2>1, <2>4 DEF WorkInv, Steps, Leaves
<1>2. CASE ReadOutput
  <2> DEFINE w     == Opened(work, "output cursor")
             count == IF Len(buffer) < FetchLines THEN Len(buffer) ELSE FetchLines
             taken == [w EXCEPT !.output = @ \o SubSeq(buffer, 1, count)]
             rest  == SubSeq(buffer, count + 1, Len(buffer))
             both  == {"statement cursor", "output cursor"}
  <2>1. /\ plan' = plan /\ written' = written /\ step = "output"
        /\ buffer' = buffer \/ buffer' = rest
        /\ \/ work' = taken /\ step' = "output"
           \/ /\ work' \in Closed(taken, "output cursor") \cup Closed(ReadBroken(w), "output cursor")
              /\ step' = AfterOutput(work')
    BY <1>2 DEF ReadOutput, Becomes, output
  <2>2. /\ work \in Work /\ Told(work) /\ Leaves(work, both) /\ buffer \in Seq(Nat)
        /\ plan \in Plans /\ written \in Nat
    BY <2>1 DEF WorkInv
  <2>3. w \in Work /\ Told(w) /\ Leaves(w, both)
    BY <2>2, OpenedTells DEF Cursors, Leaves
  <2>4. count \in Nat /\ count <= Len(buffer) /\ Len(buffer) \in Nat
    <3>1. Len(buffer) \in Nat
      BY <2>2, LenProperties
    <3>2. FetchLines \in Nat
      BY ExecutionAssumption
    <3> QED BY <3>1, <3>2
  <2> HIDE DEF w, count
  <2>5. SubSeq(buffer, 1, count) \in Seq(Nat) /\ rest \in Seq(Nat)
    <3>1. \A i \in 1..Len(buffer) : buffer[i] \in Nat
      BY <2>2, ElementOfSeq
    <3>2. /\ \A i \in 1..count : buffer[i] \in Nat
          /\ \A i \in count + 1..Len(buffer) : buffer[i] \in Nat
      BY <2>4, <3>1
    <3>3. 1 \in Int /\ count \in Int /\ count + 1 \in Int /\ Len(buffer) \in Int
      BY <2>4
    <3> QED BY <3>2, <3>3, SubSeqProperties
  <2>6. taken \in Work /\ Told(taken) /\ Leaves(taken, both)
    <3>1. w.output \o SubSeq(buffer, 1, count) \in Seq(Nat)
      <4>1. w.output \in Seq(Nat)
        BY <2>3 DEF Work
      <4> QED BY <2>5, <4>1, ConcatProperties
    <3>2. /\ taken \in Work /\ taken.faults = w.faults /\ taken.warnings = w.warnings
          /\ taken.error = w.error /\ taken.open = w.open
      BY <2>3, <3>1 DEF Work
    <3> QED BY <2>3, <3>2 DEF Told, Leaves, Untold
  <2> HIDE DEF taken, rest
  <2>7. ReadBroken(w) \in Work /\ Told(ReadBroken(w)) /\ Leaves(ReadBroken(w), both)
    BY <2>3, WarnedTells DEF ReadBroken, Faults
  <2>8. CASE work' = taken /\ step' = "output"
    BY <2>1, <2>2, <2>5, <2>6, <2>8 DEF WorkInv, Steps
  <2>9. CASE /\ work' \in Closed(taken, "output cursor") \cup Closed(ReadBroken(w), "output cursor")
             /\ step' = AfterOutput(work')
    <3>1. work' \in Work /\ Told(work') /\ Leaves(work', both \ {"output cursor"})
      BY <2>6, <2>7, <2>9, ClosedTells DEF Cursors
    <3>2. step' \in {"shape", "close"} /\ (step' = "shape" => work'.error = "none")
      BY <2>9 DEF AfterOutput
    <3> QED BY <2>1, <2>2, <2>5, <3>1, <3>2 DEF WorkInv, Steps, Leaves
  <2> QED BY <2>1, <2>8, <2>9
<1>3. CASE Shape
  <2>1. /\ plan' = plan /\ buffer' = buffer /\ written' = written /\ step = "shape"
        /\ \/ \E w \in {work, Warned(work, "editability")} :
                \/ work' = [w EXCEPT !.open = {}] /\ step' = "answer"
                \/ work' = w /\ step' = "close"
           \/ work' = [Raised(work, "materialize") EXCEPT !.more = FALSE] /\ step' = "close"
    BY <1>3 DEF Shape, Becomes, output
  <2>2. /\ work \in Work /\ Told(work) /\ Leaves(work, {"statement cursor"})
        /\ work.error = "none"
    BY <2>1 DEF WorkInv
  <2>3. ASSUME NEW w \in {work, Warned(work, "editability")},
               \/ work' = [w EXCEPT !.open = {}] /\ step' = "answer"
               \/ work' = w /\ step' = "close"
        PROVE  WorkInv'
    <3>1. w \in Work /\ Told(w) /\ Leaves(w, {"statement cursor"})
      BY <2>2, WarnedTells DEF Faults
    <3>2. CASE work' = [w EXCEPT !.open = {}] /\ step' = "answer"
      <4>1. /\ work' \in Work /\ work'.faults = w.faults /\ work'.warnings = w.warnings
            /\ work'.error = w.error /\ work'.open = {}
        BY <3>1, <3>2 DEF Work
      <4>2. Told(work') /\ Leaves(work', {})
        BY <3>1, <4>1 DEF Told, Leaves, Untold
      <4> QED BY <2>1, <3>2, <4>1, <4>2 DEF WorkInv, Steps
    <3>3. CASE work' = w /\ step' = "close"
      BY <2>1, <3>1, <3>3 DEF WorkInv, Steps
    <3> QED BY <2>3, <3>2, <3>3
  <2>4. CASE work' = [Raised(work, "materialize") EXCEPT !.more = FALSE] /\ step' = "close"
    <3> DEFINE r == Raised(work, "materialize")
    <3>1. "materialize" \in Faults \ (OnlyWarnings \cup {"commit"})
      BY DEF Faults, OnlyWarnings, Cursors
    <3>2. r \in Work /\ Told(r) /\ Leaves(r, {"statement cursor"})
      BY <2>2, <3>1, RaisedTells
    <3> HIDE DEF r
    <3>3. work' = [r EXCEPT !.more = FALSE]
      BY <2>4 DEF r
    <3>4. /\ work' \in Work /\ work'.faults = r.faults /\ work'.warnings = r.warnings
          /\ work'.error = r.error /\ work'.open = r.open
      BY <3>2, <3>3 DEF Work
    <3>5. Told(work') /\ Leaves(work', {"statement cursor"})
      BY <3>2, <3>4 DEF Told, Leaves, Untold
    <3> QED BY <2>1, <2>4, <3>4, <3>5 DEF WorkInv, Steps
  <2> QED BY <2>1, <2>3, <2>4
<1>4. CASE Close
  <2>1. /\ plan' = plan /\ buffer' = buffer /\ written' = written /\ step = "close"
        /\ step' = "answer" /\ work' \in Closed(work, "statement cursor")
    BY <1>4 DEF Close, Becomes, output
  <2>2. work \in Work /\ Told(work) /\ Leaves(work, {"statement cursor"})
    BY <2>1 DEF WorkInv
  <2>3. /\ work' \in Work /\ Told(work')
        /\ Leaves(work', {"statement cursor"} \ {"statement cursor"})
    BY <2>1, <2>2, ClosedTells DEF Cursors
  <2> QED BY <2>1, <2>3 DEF WorkInv, Steps, Leaves
<1> QED BY <1>1, <1>2, <1>3, <1>4

\* The steps that hand an answer over, and what is not a statement or a page.
LEMMA HandingTells ==
  ASSUME WorkInv,
         \/ Answer \/ Present \/ FetchMore \/ PresentPage \/ Help
         \/ OtherOperation \/ RollbackEnds \/ ReconnectStep \/ SessionDiesStep
         \/ UNCHANGED allVars
  PROVE  WorkInv'
<1>1. CASE Answer
  <2>1. /\ plan' = plan /\ buffer' = buffer /\ written' = written /\ step = "answer"
        /\ \/ step' = "present" /\ work' \in {NoWork, work}
           \/ step' = "next" /\ work' = NoWork
    BY <1>1 DEF Answer, Becomes, output
  <2> QED BY <2>1, NothingYet DEF WorkInv, Steps
<1>2. CASE Present \/ PresentPage
  <2>1. /\ plan' = plan /\ buffer' = buffer /\ written' = written
        /\ step' = "idle" /\ work' = NoWork
    BY <1>2 DEF Present, PresentPage, Becomes, output
  <2> QED BY <2>1, NothingYet DEF WorkInv, Steps
<1>3. CASE FetchMore
  <2>1. /\ plan' = plan /\ buffer' = buffer /\ written' = written
        /\ step' = "rows" /\ work' = [Cursor EXCEPT !.page = TRUE]
    BY <1>3 DEF FetchMore, Becomes, output
  <2>2. /\ work' \in Work /\ work'.faults = Cursor.faults /\ work'.warnings = Cursor.warnings
        /\ work'.error = Cursor.error /\ work'.open = Cursor.open
    BY <2>1, NothingYet DEF Work
  <2>3. Told(work') /\ Leaves(work', {"statement cursor"})
    BY <2>2, NothingYet DEF Told, Leaves, Untold
  <2> QED BY <2>1, <2>2, <2>3, NothingYet DEF WorkInv, Steps
<1>4. CASE Help \/ SessionDiesStep \/ UNCHANGED allVars
  BY <1>4 DEF Help, SessionDiesStep, allVars, execution, output, WorkInv
<1>5. CASE OtherOperation \/ RollbackEnds \/ ReconnectStep
  <2>1. UNCHANGED <<plan, step, work>>
    BY <1>5 DEF OtherOperation, RollbackEnds, ReconnectStep, Elsewhere
  <2>2. buffer' \in Seq(Nat) /\ written' \in Nat
    <3>1. CASE Write(1)
      BY <3>1, WriteTyped DEF WorkInv
    <3>2. CASE buffer' \in {buffer, <<>>} /\ written' = written
      <4>1. <<>> \in Seq(Nat)
        BY EmptySeq
      <4> QED BY <3>2, <4>1 DEF WorkInv
    <3> QED BY <1>5, <3>1, <3>2 DEF OtherOperation, RollbackEnds, ReconnectStep, output
  <2> QED BY <2>1, <2>2 DEF WorkInv
<1> QED BY <1>1, <1>2, <1>3, <1>4, <1>5

\* An idle workspace has nothing to tell, and every step keeps what is told.
LEMMA WorkInit == CallsInit => WorkInv
<1>1. <<>> \in Seq(Nat)
  BY EmptySeq
<1>2. SUFFICES ASSUME CallsInit PROVE WorkInv
  OBVIOUS
<1>3. /\ plan \in Plans /\ buffer \in Seq(Nat) /\ written \in Nat
      /\ step = "idle" /\ work = NoWork
  BY <1>1, <1>2 DEF CallsInit
<1> QED BY <1>3, NothingYet DEF WorkInv, Steps

LEMMA WorkStays == WorkInv /\ [CallsNext]_allVars => WorkInv'
<1>1. 1..MaxRows \subseteq Nat /\ 0 \in Nat /\ "dml" \in Statement
  BY DEF Statement
<1> QED BY <1>1, StatementTells, ReadingTells, HandingTells DEF CallsNext

\* Every answer tells of all that failed, and leaves only the cursors it tells
\* of; a failing commit alone may be silent about the cursor of the compilation
\* errors.
THEOREM FailuresToldHolds == CallsSpec => []FailuresTold
<1>1. WorkInv => FailuresTold
  BY DEF WorkInv, FailuresTold, Told, Leaves, Untold, OnlyWarnings
<1> QED BY <1>1, WorkInit, WorkStays, PTL DEF CallsSpec

-----------------------------------------------------------------------------
(* The lines of output, on their way from the buffer to the pane.          *)

Ahead(a, b) == \A x \in ToSet(a), y \in ToSet(b) : x < y

\* Two sequences in a row increase if each does and one is ahead of the other.
LEMMA IncreasingConcat ==
  ASSUME NEW a \in Seq(Nat), NEW b \in Seq(Nat)
  PROVE  Increasing(a \o b) <=> Increasing(a) /\ Increasing(b) /\ Ahead(a, b)
<1>1. PICK c : c = a \o b
  OBVIOUS
<1>2. /\ c \in Seq(Nat) /\ Len(c) = Len(a) + Len(b) /\ DOMAIN c = 1..Len(c)
      /\ Len(a) \in Nat /\ Len(b) \in Nat /\ DOMAIN a = 1..Len(a) /\ DOMAIN b = 1..Len(b)
      /\ \A i \in 1..Len(a) : i \in DOMAIN c /\ c[i] = a[i]
      /\ \A i \in 1..Len(b) : Len(a) + i \in DOMAIN c /\ c[Len(a) + i] = b[i]
      /\ \A i \in 1..Len(a) : a[i] \in Nat
      /\ \A i \in 1..Len(b) : b[i] \in Nat
  BY <1>1
<1>3. ASSUME Increasing(c) PROVE Increasing(a) /\ Increasing(b) /\ Ahead(a, b)
  <2>1. Increasing(a)
    BY <1>2, <1>3 DEF Increasing
  <2>2. Increasing(b)
    <3>1. SUFFICES ASSUME NEW i \in 1..Len(b), NEW j \in 1..Len(b), i < j PROVE b[i] < b[j]
      BY <1>2 DEF Increasing
    <3>2. Len(a) + i \in DOMAIN c /\ Len(a) + j \in DOMAIN c /\ Len(a) + i < Len(a) + j
      BY <1>2, <3>1
    <3> QED BY <1>2, <1>3, <3>2 DEF Increasing
  <2>3. Ahead(a, b)
    <3>1. SUFFICES ASSUME NEW i \in 1..Len(a), NEW j \in 1..Len(b) PROVE a[i] < b[j]
      BY <1>2 DEF Ahead, ToSet
    <3>2. i \in DOMAIN c /\ Len(a) + j \in DOMAIN c /\ i < Len(a) + j
      BY <1>2
    <3> QED BY <1>2, <1>3, <3>2 DEF Increasing
  <2> QED BY <2>1, <2>2, <2>3
<1>4. ASSUME Increasing(a), Increasing(b), Ahead(a, b) PROVE Increasing(c)
  <2>1. SUFFICES ASSUME NEW i \in 1..Len(c), NEW j \in 1..Len(c), i < j PROVE c[i] < c[j]
    BY <1>2 DEF Increasing
  <2>2. CASE j <= Len(a)
    <3>1. i \in 1..Len(a) /\ j \in 1..Len(a)
      BY <1>2, <2>1, <2>2
    <3>2. a[i] < a[j]
      BY <1>2, <1>4, <2>1, <3>1 DEF Increasing
    <3> QED BY <1>2, <3>1, <3>2
  <2>3. CASE i > Len(a)
    <3>1. PICK k, m : k = i - Len(a) /\ m = j - Len(a)
      OBVIOUS
    <3>2. k \in 1..Len(b) /\ m \in 1..Len(b) /\ k < m /\ i = Len(a) + k /\ j = Len(a) + m
      BY <1>2, <2>1, <2>3, <3>1
    <3>3. b[k] < b[m]
      BY <1>2, <1>4, <3>2 DEF Increasing
    <3> QED BY <1>2, <3>2, <3>3
  <2>4. CASE i <= Len(a) /\ j > Len(a)
    <3>1. PICK m : m = j - Len(a)
      OBVIOUS
    <3>2. i \in 1..Len(a) /\ m \in 1..Len(b) /\ j = Len(a) + m
      BY <1>2, <2>1, <2>4, <3>1
    <3>3. a[i] < b[m]
      BY <1>2, <1>4, <3>2 DEF Ahead, ToSet
    <3> QED BY <1>2, <3>2, <3>3
  <2> QED BY <1>2, <2>1, <2>2, <2>3, <2>4
<1> QED BY <1>1, <1>3, <1>4

\* How three sequences are put together does not matter.
LEMMA LinesInARow == \A a, b, c \in Seq(Nat) : (a \o b) \o c = a \o (b \o c)
BY ConcatAssociative

\* The lines s are those written, in that order, but for the lost ones l.
Accounts(s, w, l) == Increasing(s) /\ ToSet(s) \subseteq 1..w /\ (1..w) \ ToSet(s) = l

\* Lines taken out of their middle are lost.
LEMMA LosingLines ==
  ASSUME NEW a \in Seq(Nat), NEW m \in Seq(Nat), NEW b \in Seq(Nat), NEW w, NEW l,
         Accounts((a \o m) \o b, w, l)
  PROVE  Accounts(a \o b, w, l \cup ToSet(m))
<1>1. a \o m \in Seq(Nat) /\ a \o b \in Seq(Nat)
  OBVIOUS
<1>2. Increasing(a \o m) /\ Increasing(b) /\ Ahead(a \o m, b)
  BY <1>1, IncreasingConcat DEF Accounts
<1>3. Increasing(a) /\ Ahead(a, m)
  BY <1>2, IncreasingConcat
<1>4. ToSet(a \o m) = ToSet(a) \cup ToSet(m)
  BY ConcatElements
<1>5. ToSet((a \o m) \o b) = ToSet(a) \cup ToSet(m) \cup ToSet(b)
  <2>1. ToSet((a \o m) \o b) = ToSet(a \o m) \cup ToSet(b)
    BY <1>1, ConcatElements
  <2> QED BY <1>4, <2>1
<1>6. ToSet(a \o b) = ToSet(a) \cup ToSet(b)
  BY ConcatElements
<1>7. Ahead(a, b) /\ Ahead(m, b)
  BY <1>2, <1>4 DEF Ahead
<1>8. Increasing(a \o b)
  BY <1>2, <1>3, <1>7, IncreasingConcat
<1>9. \A x \in ToSet(m) : x \notin ToSet(a) /\ x \notin ToSet(b)
  <2>1. \A s \in Seq(Nat) : \A x \in ToSet(s) : x \in Nat
    BY DEF ToSet
  <2>2. \A x \in Nat : ~(x < x)
    OBVIOUS
  <2> QED BY <1>3, <1>7, <2>1, <2>2 DEF Ahead
<1> QED BY <1>5, <1>6, <1>8, <1>9 DEF Accounts

\* Lines that are written follow all others.
LEMMA WritingLines ==
  ASSUME NEW s \in Seq(Nat), written \in Nat, NEW l, NEW n \in Nat, Accounts(s, written, l)
  PROVE  Lines(n) \in Seq(Nat) /\ Accounts(s \o Lines(n), written + n, l)
<1>1. Lines(n) \in Seq(Nat) /\ DOMAIN Lines(n) = 1..n /\ \A i \in 1..n : Lines(n)[i] = written + i
  BY DEF Lines
<1>2. ToSet(Lines(n)) = (written + 1)..(written + n)
  <2>1. ASSUME NEW x \in (written + 1)..(written + n) PROVE x \in ToSet(Lines(n))
    <3>1. x - written \in 1..n /\ x = written + (x - written)
      BY <2>1
    <3> QED BY <1>1, <3>1 DEF ToSet
  <2>2. ASSUME NEW x \in ToSet(Lines(n)) PROVE x \in (written + 1)..(written + n)
    BY <1>1, <2>2 DEF ToSet
  <2> QED BY <2>1, <2>2
<1>3. Increasing(Lines(n))
  BY <1>1 DEF Increasing
<1>4. Ahead(s, Lines(n))
  BY <1>2 DEF Ahead, Accounts
<1>5. Increasing(s \o Lines(n))
  BY <1>1, <1>3, <1>4, IncreasingConcat DEF Accounts
<1>6. ToSet(s \o Lines(n)) = ToSet(s) \cup (written + 1)..(written + n)
  BY <1>1, <1>2, ConcatElements
<1>7. 1..(written + n) = (1..written) \cup (written + 1)..(written + n)
  OBVIOUS
<1>8. (1..written) \cap (written + 1)..(written + n) = {}
  OBVIOUS
<1> QED BY <1>1, <1>5, <1>6, <1>7, <1>8 DEF Accounts

\* A result, by type.
ResultType == [rows : BOOLEAN, more : BOOLEAN, output : Seq(Nat)]

\* The output of the results so far, and of one more.
LEMMA OutputsOfResults ==
  ASSUME NEW results \in Seq(ResultType)
  PROVE  /\ [i \in DOMAIN results |-> results[i].output] \in Seq(Seq(Nat))
         /\ Outputs(results) \in Seq(Nat)
         /\ \A i \in DOMAIN results : ToSet(results[i].output) \subseteq ToSet(Outputs(results))
<1>1. PICK f : f = [i \in DOMAIN results |-> results[i].output]
  OBVIOUS
<1>2. f \in Seq(Seq(Nat)) /\ DOMAIN f = DOMAIN results
  <2>1. Len(results) \in Nat /\ DOMAIN results = 1..Len(results)
        /\ \A i \in 1..Len(results) : results[i] \in ResultType
    OBVIOUS
  <2>2. \A x \in ResultType : x.output \in Seq(Nat)
    BY DEF ResultType
  <2>3. f = [i \in 1..Len(results) |-> results[i].output]
    BY <1>1, <2>1
  <2>4. \A i \in 1..Len(results) : results[i].output \in Seq(Nat)
    BY <2>1, <2>2
  <2>5. f \in Seq(Seq(Nat))
    BY <2>1, <2>3, <2>4
  <2> QED BY <1>1, <2>5
<1>3. Outputs(results) = FlattenSeq(f)
  BY <1>1 DEF Outputs
<1>4. FlattenSeq(f) \in Seq(Nat)
  BY <1>2, FlattenTyped
<1>5. \A i \in DOMAIN f : ToSet(f[i]) \subseteq ToSet(FlattenSeq(f))
  BY <1>2, FlattenHolds
<1> QED BY <1>1, <1>2, <1>3, <1>4, <1>5

LEMMA OutputsAppended ==
  ASSUME NEW results \in Seq(ResultType), NEW r \in ResultType
  PROVE  /\ Appended(results, r) \in Seq(ResultType)
         /\ Outputs(Appended(results, r)) = Outputs(results) \o r.output
<1>1. PICK cut : cut = [i \in DOMAIN results |-> [results[i] EXCEPT !.more = @ /\ ~r.rows]]
  OBVIOUS
<1>2. \A i \in DOMAIN results : results[i] \in ResultType
  OBVIOUS
<1>3. \A i \in DOMAIN results : cut[i] \in ResultType /\ cut[i].output = results[i].output
  BY <1>1, <1>2 DEF ResultType
<1>4. cut \in Seq(ResultType) /\ DOMAIN cut = DOMAIN results
  BY <1>1, <1>3
<1>5. Appended(results, r) = Append(cut, r)
  BY <1>1 DEF Appended
<1>6. PICK all : all = Append(cut, r)
  OBVIOUS
<1>7. all \in Seq(ResultType) /\ DOMAIN all = 1..(Len(results) + 1) /\ Len(results) \in Nat
      /\ DOMAIN results = 1..Len(results)
  BY <1>4, <1>6
<1>8. PICK f, g : /\ f = [i \in DOMAIN results |-> results[i].output]
                  /\ g = [i \in DOMAIN all |-> all[i].output]
  OBVIOUS
<1>9. f \in Seq(Seq(Nat)) /\ g \in Seq(Seq(Nat)) /\ r.output \in Seq(Nat)
  BY <1>7, <1>8, OutputsOfResults DEF ResultType
<1>10. g = Append(f, r.output)
  <2>1. Len(f) = Len(results) /\ Len(g) = Len(results) + 1
    BY <1>7, <1>8, <1>9
  <2>2. PICK h : h = Append(f, r.output)
    OBVIOUS
  <2>3. /\ h \in Seq(Seq(Nat)) /\ Len(h) = Len(results) + 1 /\ h[Len(results) + 1] = r.output
        /\ \A i \in 1..Len(results) : h[i] = f[i]
    BY <1>9, <2>1, <2>2
  <2>4. \A i \in 1..Len(results) : g[i] = h[i]
    <3>1. \A i \in 1..Len(results) : all[i] = cut[i]
      BY <1>4, <1>6, <1>7
    <3>2. SUFFICES ASSUME NEW i \in 1..Len(results) PROVE g[i] = h[i]
      OBVIOUS
    <3>3. i \in DOMAIN results /\ i \in DOMAIN all
      BY <1>7
    <3>4. g[i] = all[i].output /\ f[i] = results[i].output
      BY <1>8, <3>3
    <3> QED BY <1>3, <2>3, <3>1, <3>3, <3>4
  <2>5. g[Len(results) + 1] = r.output
    <3>1. all[Len(results) + 1] = r
      BY <1>4, <1>6, <1>7
    <3> QED BY <1>7, <1>8, <3>1
  <2>6. \A i \in 1..Len(g) : g[i] = h[i]
    BY <1>7, <2>1, <2>3, <2>4, <2>5
  <2>7. g = h
    BY <1>9, <2>1, <2>3, <2>6, SeqEqual
  <2> QED BY <2>2, <2>7
<1>11. FlattenSeq(g) = FlattenSeq(f) \o r.output
  BY <1>9, <1>10, FlattenAppend
<1>12. Outputs(all) = FlattenSeq(g) /\ Outputs(results) = FlattenSeq(f)
  BY <1>8 DEF Outputs
<1> QED BY <1>5, <1>6, <1>7, <1>11, <1>12

\* The grid shows one of the results.
LEMMA RenderedShown ==
  ASSUME NEW results \in Seq(ResultType)
  PROVE  /\ Rendered(results) \in [on : BOOLEAN, more : BOOLEAN, output : Seq(Nat)]
         /\ Rendered(results).on => ToSet(Rendered(results).output) \subseteq ToSet(Outputs(results))
<1>1. PICK tables : tables = {i \in DOMAIN results : results[i].rows}
  OBVIOUS
<1>2. CASE tables = {}
  <2>1. Rendered(results) = NoGrid
    BY <1>1, <1>2 DEF Rendered
  <2>2. <<>> \in Seq(Nat)
    BY EmptySeq
  <2> QED BY <2>1, <2>2 DEF NoGrid
<1>3. CASE tables # {}
  <2>1. tables \subseteq 1..Len(results) /\ Len(results) \in Nat
    BY <1>1
  <2>2. PICK m : m = Max(tables)
    OBVIOUS
  <2>3. m \in DOMAIN results
    BY <1>1, <1>3, <2>1, <2>2, MaxBelongs
  <2>4. results[m] \in ResultType
    BY <2>3
  <2>5. Rendered(results) = [on |-> TRUE, more |-> results[m].more, output |-> results[m].output]
    BY <1>1, <1>3, <2>2 DEF Rendered
  <2>6. ToSet(results[m].output) \subseteq ToSet(Outputs(results))
    BY <2>3, OutputsOfResults
  <2> QED BY <2>4, <2>5, <2>6 DEF ResultType
<1> QED BY <1>2, <1>3

\* A write keeps the account of the lines p before the buffer and those in it.
LEMMA WriteAccounts ==
  ASSUME NEW p \in Seq(Nat), buffer \in Seq(Nat), written \in Nat, NEW n \in Nat, Write(n),
         Accounts(p \o buffer, written, lost)
  PROVE  Accounts(p \o buffer', written', lost')
<1>1. PICK kept \in {buffer, <<>>} : /\ buffer' = kept \o Lines(n)
                                     /\ lost' = lost \cup (ToSet(buffer) \ ToSet(kept))
  BY DEF Write
<1>2. kept \in Seq(Nat)
  <2>1. <<>> \in Seq(Nat)
    BY EmptySeq
  <2> QED BY <2>1, Zenon
<1>3. Accounts(p \o kept, written, lost')
  <2>1. CASE kept = buffer
    <3>1. lost' = lost
      BY <1>1, <2>1
    <3> QED BY <2>1, <3>1
  <2>2. CASE kept = <<>>
    <3>1. ToSet(<<>>) = {}
      BY DEF ToSet
    <3>2. lost' = lost \cup ToSet(buffer)
      BY <1>1, <2>2, <3>1
    <3>3. (p \o buffer) \o <<>> = p \o buffer /\ <<>> \in Seq(Nat)
      OBVIOUS
    <3> QED BY <2>2, <3>2, <3>3, LosingLines
  <2> QED BY <2>1, <2>2
<1>4. written' = written + n
  BY DEF Write
<1>5. p \o kept \in Seq(Nat)
  BY <1>2
<1>6. Lines(n) \in Seq(Nat) /\ Accounts((p \o kept) \o Lines(n), written + n, lost')
  BY <1>3, <1>5, WritingLines
<1>7. (p \o kept) \o Lines(n) = p \o (kept \o Lines(n))
  <2>1. PICK x \in Seq(Nat) : x = Lines(n)
    BY <1>6
  <2>2. (p \o kept) \o x = p \o (kept \o x)
    BY <1>2, LinesInARow
  <2> QED BY <2>1, <2>2
<1> QED BY <1>1, <1>4, <1>6, <1>7

\* The lines shown, in the answers to come, and still in the buffer.
Reported == ((seen \o Outputs(script.results)) \o work.output) \o buffer

Shown == Increasing(pane) /\ ToSet(pane) \subseteq ToSet(seen)
         /\ (grid.on => ToSet(grid.output) \subseteq ToSet(pane))

\* The calls at which an operation has read its output, or has had none.
Drained == {"idle", "next", "shape", "close", "answer", "present"}

\* The lines by type; every line in its place, or lost; what the pane and the
\* grid show; when there are no results, no output to come, and no lines left.
LinesInv ==
  /\ script \in [size : Int, left : Int, results : Seq(ResultType)]
  /\ grid \in [on : BOOLEAN, more : BOOLEAN, output : Seq(Nat)]
  /\ pane \in Seq(Nat) /\ seen \in Seq(Nat)
  /\ Accounts(Reported, written, lost)
  /\ Shown
  /\ step = "idle" \/ work.page => script.results = <<>>
  /\ step = "present" /\ work.error = "none" => work.output = <<>>
  /\ step \in Drained /\ excused = "no" => buffer = <<>>

\* The property is part of it.
LEMMA LinesInvSuffices == WorkInv /\ LinesInv => OutputReportedOnce
<1>1. SUFFICES ASSUME WorkInv, LinesInv PROVE OutputReportedOnce
  OBVIOUS
<1>2. PICK all : all = seen \o Outputs(script.results) \o work.output \o buffer
  OBVIOUS
<1>3. Accounts(all, written, lost)
  BY <1>1, <1>2 DEF LinesInv, Reported
<1> QED BY <1>1, <1>2, <1>3 DEF LinesInv, Shown, Drained, Accounts, OutputReportedOnce

\* It holds at the start.
LEMMA LinesInit == CallsInit => LinesInv
<1>1. SUFFICES ASSUME CallsInit PROVE LinesInv
  OBVIOUS
<1>2. /\ script = NoScript /\ work = NoWork /\ buffer = <<>> /\ written = 0 /\ grid = NoGrid
      /\ pane = <<>> /\ seen = <<>> /\ lost = {} /\ step = "idle"
  BY <1>1 DEF CallsInit
<1>3. <<>> \in Seq(Nat) /\ <<>> \in Seq(ResultType)
  OBVIOUS
<1>4. Outputs(script.results) = <<>>
  <2>1. [i \in DOMAIN script.results |-> script.results[i].output] = <<>>
    BY <1>2 DEF NoScript
  <2> QED BY <2>1, FlattenEmpty DEF Outputs
<1>5. Reported = <<>>
  <2>1. work.output = <<>>
    BY <1>2 DEF NoWork
  <2>2. <<>> \o <<>> = <<>>
    OBVIOUS
  <2> QED BY <1>2, <1>4, <2>1, <2>2 DEF Reported
<1>6. Accounts(<<>>, 0, {})
  BY DEF Accounts, Increasing, ToSet
<1>7. Shown
  BY <1>2 DEF Shown, Increasing, NoGrid, ToSet
<1>8. script.results = <<>> /\ script \in [size : Int, left : Int, results : Seq(ResultType)]
  BY <1>2, <1>3 DEF NoScript
<1>9. grid \in [on : BOOLEAN, more : BOOLEAN, output : Seq(Nat)]
  BY <1>2, <1>3 DEF NoGrid
<1> QED BY <1>2, <1>3, <1>5, <1>6, <1>7, <1>8, <1>9 DEF LinesInv

\* The lines and the page of an operation's locals; only the output of the
\* session changes them.
SameLines(w, v) == v.output = w.output /\ v.page = w.page

LEMMA LocalsKeepLines ==
  ASSUME NEW w \in Work, NEW f, NEW more
  PROVE  /\ SameLines(w, Opened(w, f)) /\ SameLines(w, Warned(w, f)) /\ SameLines(w, Raised(w, f))
         /\ \A v \in Closed(w, f) : SameLines(w, v)
         /\ SameLines(w, [w EXCEPT !.more = more]) /\ SameLines(w, [w EXCEPT !.open = more])
<1>1. SameLines(w, Opened(w, f)) /\ SameLines(w, Raised(w, f))
  BY DEF SameLines, Work, Opened, Raised, Faulty
<1>2. SameLines(w, Warned(w, f))
  BY DEF SameLines, Work, Warned, Faulty
<1>3. SameLines(w, [w EXCEPT !.more = more]) /\ SameLines(w, [w EXCEPT !.open = more])
  BY DEF SameLines, Work
<1>4. ASSUME NEW v \in Closed(w, f) PROVE SameLines(w, v)
  <2>1. CASE v = Warned(w, f)
    BY <1>2, <2>1
  <2>2. CASE v = [w EXCEPT !.open = @ \ {f}]
    BY <2>2 DEF SameLines, Work
  <2> QED BY <2>1, <2>2 DEF Closed
<1> QED BY <1>1, <1>2, <1>3, <1>4

\* A call that moves no line leaves them all where they are.
LEMMA QuietCalls ==
  ASSUME WorkInv, LinesInv, UNCHANGED <<script, ui, output>>, SameLines(work, work'),
         step # "idle", step # "present", step' # "idle", step' # "present",
         step' \in Drained => step \in Drained
  PROVE  LinesInv'
<1>1. Reported' = Reported
  BY DEF Reported, SameLines, ui, output
<1>2. Shown'
  BY DEF LinesInv, Shown, ui
<1>3. work'.page = work.page
  BY DEF SameLines
<1> QED BY <1>1, <1>2, <1>3 DEF LinesInv, ui, output

\* The calls of an operation that do not read its output.
LEMMA CallsLeaveLines ==
  ASSUME WorkInv, LinesInv, Refuse \/ Diagnose \/ CommitStep \/ Rows \/ Shape \/ Close
  PROVE  LinesInv'
<1>1. UNCHANGED <<script, ui, output>>
  BY DEF Refuse, Diagnose, CommitStep, Rows, Shape, Close
<1>2. work \in Work
  BY DEF WorkInv
<1>3. CASE Refuse
  <2>1. step = "next" /\ step' = "answer" /\ work' = Raised(NoWork, "execute")
    BY <1>3 DEF Refuse, Becomes
  <2>2. work = NoWork
    BY <2>1 DEF WorkInv
  <2>3. SameLines(work, work')
    BY <1>2, <2>1, <2>2, LocalsKeepLines
  <2> QED BY <1>1, <2>1, <2>3, QuietCalls DEF Drained
<1>4. CASE Diagnose
  <2> DEFINE w == Opened(work, "errors cursor")
  <2>1. /\ step = "diagnose" /\ step' \in {"commit", "output"}
        /\ \E x \in {w, Raised(w, "compile"), Raised(w, "read errors")} :
             work' \in Closed(x, "errors cursor")
    BY <1>4 DEF Diagnose, Becomes
  <2>2. w \in Work /\ SameLines(work, w)
    <3>1. w \in Work
      BY <1>2 DEF Opened, Work, Cursors
    <3> QED BY <1>2, <3>1, LocalsKeepLines
  <2> HIDE DEF w
  <2>3. \A x \in {w, Raised(w, "compile"), Raised(w, "read errors")} : x \in Work /\ SameLines(w, x)
    <3>1. Raised(w, "compile") \in Work /\ Raised(w, "read errors") \in Work
      BY <2>2 DEF Raised, Faulty, Work, Faults
    <3>2. SameLines(w, w)
      BY DEF SameLines
    <3> QED BY <2>2, <3>1, <3>2, LocalsKeepLines
  <2>4. SameLines(work, work')
    <3>1. PICK x \in {w, Raised(w, "compile"), Raised(w, "read errors")} :
            work' \in Closed(x, "errors cursor")
      BY <2>1
    <3>2. x \in Work /\ SameLines(w, x)
      BY <2>3
    <3>3. SameLines(x, work')
      BY <3>1, <3>2, LocalsKeepLines
    <3> QED BY <2>2, <3>2, <3>3 DEF SameLines
  <2> QED BY <1>1, <2>1, <2>4, QuietCalls DEF Drained
<1>5. CASE CommitStep
  <2>1. step = "commit" /\ step' \in {"commit", "output"} /\ work' \in {work, CommitFailed(work)}
    BY <1>5 DEF CommitStep, Becomes
  <2>2. SameLines(work, CommitFailed(work))
    <3>1. SameLines(work, [Raised(work, "commit") EXCEPT !.warnings = {"commit"}])
      BY <1>2 DEF SameLines, Raised, Faulty, Work
    <3>2. SameLines(work, Warned(work, "commit"))
      BY <1>2, LocalsKeepLines
    <3> QED BY <3>1, <3>2 DEF CommitFailed
  <2>3. SameLines(work, work')
    BY <2>1, <2>2 DEF SameLines
  <2> QED BY <1>1, <2>1, <2>3, QuietCalls DEF Drained
<1>6. CASE Rows
  <2>1. /\ step = "rows" /\ step' = "output"
        /\ work' = Raised(work, "fetch") \/ \E more \in BOOLEAN : work' = [work EXCEPT !.more = more]
    BY <1>6 DEF Rows, Becomes
  <2>2. SameLines(work, work')
    BY <1>2, <2>1, LocalsKeepLines
  <2> QED BY <1>1, <2>1, <2>2, QuietCalls DEF Drained
<1>7. CASE Shape
  <2>1. /\ step = "shape" /\ step' \in {"answer", "close"}
        /\ \/ \E w \in {work, Warned(work, "editability")} : work' \in {w, [w EXCEPT !.open = {}]}
           \/ work' = [Raised(work, "materialize") EXCEPT !.more = FALSE]
    BY <1>7 DEF Shape, Becomes
  <2>2. Warned(work, "editability") \in Work /\ Raised(work, "materialize") \in Work
    <3>1. Raised(work, "materialize") \in Work
      BY <1>2 DEF Raised, Faulty, Work, Faults
    <3>2. Warned(work, "editability") \in Work
      BY <1>2 DEF Warned, Faulty, Work, Faults
    <3> QED BY <3>1, <3>2
  <2>3. SameLines(work, Warned(work, "editability")) /\ SameLines(work, Raised(work, "materialize"))
    BY <1>2, LocalsKeepLines
  <2>4. SameLines(work, work')
    <3>1. ASSUME NEW w \in {work, Warned(work, "editability")}, work' \in {w, [w EXCEPT !.open = {}]}
          PROVE  SameLines(work, work')
      <4>1. w \in Work /\ SameLines(work, w)
        BY <1>2, <2>2, <2>3 DEF SameLines
      <4>2. SameLines(w, [w EXCEPT !.open = {}])
        BY <4>1, LocalsKeepLines
      <4> QED BY <3>1, <4>1, <4>2 DEF SameLines
    <3>2. CASE work' = [Raised(work, "materialize") EXCEPT !.more = FALSE]
      <4>1. SameLines(Raised(work, "materialize"), [Raised(work, "materialize") EXCEPT !.more = FALSE])
        BY <2>2, LocalsKeepLines
      <4> QED BY <2>3, <3>2, <4>1 DEF SameLines
    <3> QED BY <2>1, <3>1, <3>2
  <2> QED BY <1>1, <2>1, <2>4, QuietCalls DEF Drained
<1>8. CASE Close
  <2>1. step = "close" /\ step' = "answer" /\ work' \in Closed(work, "statement cursor")
    BY <1>8 DEF Close, Becomes
  <2>2. SameLines(work, work')
    BY <1>2, <2>1, LocalsKeepLines
  <2> QED BY <1>1, <2>1, <2>2, QuietCalls DEF Drained
<1> QED BY <1>3, <1>4, <1>5, <1>6, <1>7, <1>8

\* A statement's lines go to the end of the buffer.
LEMMA ExecuteKeepsLines ==
  ASSUME WorkInv, LinesInv, NEW s \in Statement, NEW rows \in Nat, Execute(s, rows)
  PROVE  LinesInv'
<1>1. step = "next" /\ work = NoWork /\ plan.lines \in Nat
  BY ExecutionAssumption DEF Execute, WorkInv
<1>2. PICK n \in LinesOf(s) : Write(n)
  BY DEF Execute
<1>3. n \in Nat
  BY <1>1 DEF LinesOf
<1>4. UNCHANGED <<script, grid, pane, seen, excused>>
  BY DEF Execute, ui
<1>5. /\ step' \in {"diagnose", "rows", "commit", "output"}
      /\ work' = Raised(Cursor, "execute") \/ work' = [Cursor EXCEPT !.query = IsQuery(s)]
  BY DEF Execute, Becomes
<1>6. work'.output = <<>> /\ work'.page = FALSE
  <2>1. Cursor \in Work /\ Cursor.output = <<>> /\ Cursor.page = FALSE
    BY NothingYet DEF Cursor, NoWork, Opened
  <2>2. SameLines(Cursor, Raised(Cursor, "execute"))
    BY <2>1, LocalsKeepLines
  <2>3. \A q : [Cursor EXCEPT !.query = q].output = <<>> /\ [Cursor EXCEPT !.query = q].page = FALSE
    BY <2>1 DEF Work
  <2> QED BY <1>5, <2>1, <2>2, <2>3 DEF SameLines
<1>7. PICK p : p = (seen \o Outputs(script.results)) \o work.output
  OBVIOUS
<1>8. p \in Seq(Nat)
  <2>1. Outputs(script.results) \in Seq(Nat)
    BY OutputsOfResults DEF LinesInv
  <2>2. work.output \in Seq(Nat)
    BY DEF WorkInv, Work
  <2> QED BY <1>7, <2>1, <2>2 DEF LinesInv
<1>9. Accounts(p \o buffer', written', lost')
  BY <1>2, <1>3, <1>7, <1>8, WriteAccounts DEF LinesInv, WorkInv, Reported
<1>10. Reported' = p \o buffer'
  <2>1. work.output = <<>>
    BY <1>1 DEF NoWork
  <2> QED BY <1>4, <1>6, <1>7, <2>1 DEF Reported
<1>11. Shown'
  BY <1>4 DEF LinesInv, Shown
<1> QED BY <1>4, <1>5, <1>6, <1>9, <1>10, <1>11 DEF LinesInv, Drained

\* The lines of one call move from the buffer to the answer, in their order,
\* or are lost.
LEMMA ReadOutputKeepsLines ==
  ASSUME WorkInv, LinesInv, ReadOutput
  PROVE  LinesInv'
<1> DEFINE count == IF Len(buffer) < FetchLines THEN Len(buffer) ELSE FetchLines
           w     == Opened(work, "output cursor")
           taken == [w EXCEPT !.output = @ \o SubSeq(buffer, 1, count)]
<1>1. work \in Work /\ buffer \in Seq(Nat)
  BY DEF WorkInv
<1>2. count \in 0..Len(buffer) /\ (count # FetchLines => count = Len(buffer))
  <2>1. FetchLines \in Nat /\ Len(buffer) \in Nat
    BY <1>1, ExecutionAssumption
  <2> QED BY <2>1
<1>3. PICK top \in Seq(Nat), rest \in Seq(Nat) :
        /\ top = SubSeq(buffer, 1, count) /\ rest = SubSeq(buffer, count + 1, Len(buffer))
        /\ top \o rest = buffer /\ (count = Len(buffer) => rest = <<>>)
  <2>1. PICK n \in 0..Len(buffer) : n = count
    BY <1>2
  <2>2. PICK t, r : t = SubSeq(buffer, 1, n) /\ r = SubSeq(buffer, n + 1, Len(buffer))
    OBVIOUS
  <2>3. t \in Seq(Nat) /\ r \in Seq(Nat) /\ t \o r = buffer /\ (n = Len(buffer) => r = <<>>)
    BY <1>1, <2>2, SplitSeq
  <2> QED BY <2>1, <2>2, <2>3
<1>4. /\ step = "output" /\ UNCHANGED <<script, grid, pane, seen, written>>
      /\ \/ /\ buffer' = rest /\ lost' = lost
            /\ \/ work' = taken /\ step' = "output"
               \/ /\ work' \in Closed(taken, "output cursor") /\ step' = AfterOutput(work')
                  /\ count # FetchLines
         \/ /\ \/ buffer' = buffer /\ lost' = lost
               \/ buffer' = rest /\ lost' = lost \cup ToSet(top)
            /\ work' \in Closed(ReadBroken(w), "output cursor") /\ step' = AfterOutput(work')
            /\ excused' = "broken"
  BY <1>3 DEF ReadOutput, Becomes, ui
<1> HIDE DEF count
<1>5. w \in Work /\ SameLines(work, w)
  <2>1. w \in Work
    BY <1>1 DEF Opened, Work, Cursors
  <2> QED BY <1>1, <2>1, LocalsKeepLines
<1> HIDE DEF w
<1>6. taken \in Work /\ taken.output = work.output \o top /\ taken.page = work.page
  <2>1. w.output \in Seq(Nat) /\ w.output = work.output /\ w.page = work.page
    BY <1>5 DEF Work, SameLines
  <2>2. w.output \o top \in Seq(Nat)
    BY <2>1
  <2> QED BY <1>3, <1>5, <2>1, <2>2 DEF Work
<1> HIDE DEF taken
<1>7. ReadBroken(w) \in Work /\ SameLines(work, ReadBroken(w))
  <2>1. ReadBroken(w) \in Work
    BY <1>5 DEF ReadBroken, Warned, Faulty, Work, Faults
  <2>2. SameLines(w, ReadBroken(w))
    BY <1>5, LocalsKeepLines DEF ReadBroken
  <2> QED BY <1>5, <2>1, <2>2 DEF SameLines
<1>8. PICK p \in Seq(Nat) : p = seen \o Outputs(script.results)
  <2>1. Outputs(script.results) \in Seq(Nat) /\ seen \in Seq(Nat)
    BY OutputsOfResults DEF LinesInv
  <2>2. seen \o Outputs(script.results) \in Seq(Nat)
    BY <2>1
  <2> QED BY <2>2
<1>9. work.output \in Seq(Nat)
  BY <1>1 DEF Work
<1>10. PICK out \in Seq(Nat) : out = work.output
  BY <1>9
<1>11. PICK q \in Seq(Nat) : q = p \o out
  <2>1. p \o out \in Seq(Nat)
    OBVIOUS
  <2> QED BY <2>1
<1>12. Reported = q \o buffer /\ Reported' = (p \o work'.output) \o buffer'
  BY <1>4, <1>8, <1>10, <1>11 DEF Reported
<1>13. Accounts(q \o buffer, written, lost)
  BY <1>12 DEF LinesInv
<1>14. q \o buffer = (q \o top) \o rest /\ q \o top = p \o (out \o top)
  <2>1. (p \o out) \o top = p \o (out \o top)
    BY LinesInARow
  <2>2. (q \o top) \o rest = q \o (top \o rest)
    BY LinesInARow
  <2> QED BY <1>3, <1>11, <2>1, <2>2
<1>15. ASSUME buffer' = rest, lost' = lost, SameLines(taken, work')
       PROVE  Accounts(Reported', written', lost') /\ work'.page = work.page
  <2>1. work'.output = out \o top /\ work'.page = work.page
    BY <1>6, <1>10, <1>15 DEF SameLines
  <2>2. Reported' = q \o buffer
    BY <1>12, <1>14, <1>15, <2>1
  <2> QED BY <1>4, <1>13, <1>15, <2>1, <2>2
<1>16. ASSUME \/ buffer' = buffer /\ lost' = lost
              \/ buffer' = rest /\ lost' = lost \cup ToSet(top),
              SameLines(work, work')
       PROVE  Accounts(Reported', written', lost') /\ work'.page = work.page
  <2>1. work'.output = out /\ work'.page = work.page
    BY <1>10, <1>16 DEF SameLines
  <2>2. Reported' = q \o buffer'
    BY <1>11, <1>12, <2>1
  <2>3. Accounts(q \o rest, written, lost \cup ToSet(top))
    BY <1>13, <1>14, LosingLines
  <2> QED BY <1>4, <1>13, <1>16, <2>1, <2>2, <2>3
<1>17. SameLines(taken, taken)
  BY DEF SameLines
<1>18. \A v \in Closed(taken, "output cursor") : SameLines(taken, v)
  BY <1>6, LocalsKeepLines
<1>19. \A v \in Closed(ReadBroken(w), "output cursor") : SameLines(work, v)
  <2>1. \A v \in Closed(ReadBroken(w), "output cursor") : SameLines(ReadBroken(w), v)
    BY <1>7, LocalsKeepLines
  <2> QED BY <1>7, <2>1 DEF SameLines
<1>20. Accounts(Reported', written', lost') /\ work'.page = work.page
  BY <1>4, <1>15, <1>16, <1>17, <1>18, <1>19
<1>21. step' \in {"output", "shape", "close"}
  BY <1>4 DEF AfterOutput
<1>22. step' # "output" /\ excused' = "no" => buffer' = <<>>
  BY <1>2, <1>3, <1>4
<1>23. Shown'
  BY <1>4 DEF LinesInv, Shown
<1> QED BY <1>4, <1>20, <1>21, <1>22, <1>23 DEF LinesInv, Drained

\* A script with one statement less to run, and the results a.
LEMMA ScriptAnswered ==
  ASSUME NEW t \in [size : Int, left : Int, results : Seq(ResultType)], NEW a \in Seq(ResultType)
  PROVE  /\ [t EXCEPT !.left = @ - 1, !.results = a] \in [size : Int, left : Int, results : Seq(ResultType)]
         /\ [t EXCEPT !.left = @ - 1, !.results = a].results = a
<1>1. PICK n \in Int : n = t.left - 1
  <2>1. t.left \in Int
    OBVIOUS
  <2> QED BY <2>1
<1>2. [t EXCEPT !.left = @ - 1, !.results = a] = [t EXCEPT !.left = n, !.results = a]
  BY <1>1
<1>3. /\ [t EXCEPT !.left = n, !.results = a] \in [size : Int, left : Int, results : Seq(ResultType)]
      /\ [t EXCEPT !.left = n, !.results = a].results = a
  OBVIOUS
<1> QED BY <1>2, <1>3

\* The output of a statement goes on to the results of its script.
LEMMA AnswerKeepsLines ==
  ASSUME WorkInv, LinesInv, Answer
  PROVE  LinesInv'
<1>1. /\ step = "answer" /\ ~work.page /\ UNCHANGED <<grid, pane, seen, output>>
      /\ script' = [script EXCEPT
                      !.left = @ - 1,
                      !.results = IF work.error = "none" THEN Appended(@, Result(work)) ELSE @]
      /\ \/ work' = NoWork /\ step' \in {"next", "present"} /\ work.error = "none"
         \/ work' = work /\ step' = "present" /\ work.error # "none"
  BY DEF Answer, Becomes, Stops, ui
<1>2. work \in Work /\ work.output \in Seq(Nat) /\ script.results \in Seq(ResultType)
      /\ script \in [size : Int, left : Int, results : Seq(ResultType)]
  BY DEF WorkInv, Work, LinesInv
<1>3. NoWork.output = <<>> /\ NoWork.error = "none" /\ NoWork.page = FALSE
  BY DEF NoWork
<1>4. /\ script'.results \in Seq(ResultType)
      /\ script' \in [size : Int, left : Int, results : Seq(ResultType)]
      /\ (seen \o Outputs(script'.results)) \o work'.output
           = (seen \o Outputs(script.results)) \o work.output
  <2>1. CASE work.error = "none"
    <3>1. Result(work) \in ResultType /\ Result(work).output = work.output
      BY <1>2 DEF Result, ResultType, Work
    <3>2. /\ Appended(script.results, Result(work)) \in Seq(ResultType)
          /\ Outputs(Appended(script.results, Result(work))) = Outputs(script.results) \o work.output
      BY <1>2, <3>1, OutputsAppended
    <3>3. /\ script'.results = Appended(script.results, Result(work))
          /\ script' \in [size : Int, left : Int, results : Seq(ResultType)]
      <4>1. PICK a \in Seq(ResultType) : a = Appended(script.results, Result(work))
        BY <3>2
      <4>2. script' = [script EXCEPT !.left = @ - 1, !.results = a]
        BY <1>1, <2>1, <4>1
      <4> QED BY <1>2, <4>1, <4>2, ScriptAnswered
    <3>4. PICK o \in Seq(Nat), l \in Seq(Nat), s \in Seq(Nat) :
            o = Outputs(script.results) /\ l = work.output /\ s = seen
      BY <1>2, OutputsOfResults DEF LinesInv
    <3>5. (s \o (o \o l)) \o <<>> = s \o (o \o l)
      OBVIOUS
    <3>6. s \o (o \o l) = (s \o o) \o l
      BY LinesInARow
    <3>7. work'.output = <<>>
      BY <1>1, <1>3, <2>1
    <3> QED BY <3>2, <3>3, <3>4, <3>5, <3>6, <3>7
  <2>2. CASE work.error # "none"
    <3>1. script' = [script EXCEPT !.left = @ - 1, !.results = script.results]
      BY <1>1, <2>2
    <3>2. /\ script'.results = script.results
          /\ script' \in [size : Int, left : Int, results : Seq(ResultType)]
      BY <1>2, <3>1, ScriptAnswered
    <3>3. work' = work
      BY <1>1, <2>2
    <3> QED BY <1>2, <3>2, <3>3
  <2> QED BY <2>1, <2>2
<1>5. Accounts(Reported', written', lost')
  BY <1>1, <1>4 DEF Reported, LinesInv, output
<1>6. Shown'
  BY <1>1 DEF LinesInv, Shown
<1>7. ~work'.page /\ step' # "idle" /\ (step' = "present" /\ work'.error = "none" => work'.output = <<>>)
  BY <1>1, <1>3
<1>8. excused' = "no" => buffer' = <<>>
  BY <1>1 DEF LinesInv, Drained, output
<1> QED BY <1>1, <1>4, <1>5, <1>6, <1>7, <1>8 DEF LinesInv

\* A pane that shows lines of s, and after them the next ones.
LEMMA ShowingMore ==
  ASSUME NEW p \in Seq(Nat), NEW s \in Seq(Nat), NEW m \in Seq(Nat),
         Increasing(p), ToSet(p) \subseteq ToSet(s), Increasing(s \o m)
  PROVE  p \o m \in Seq(Nat) /\ Increasing(p \o m) /\ ToSet(p \o m) = ToSet(p) \cup ToSet(m)
         /\ ToSet(p \o m) \subseteq ToSet(s \o m)
<1>1. Increasing(m) /\ Ahead(s, m)
  BY IncreasingConcat
<1>2. Ahead(p, m)
  BY <1>1 DEF Ahead
<1>3. Increasing(p \o m)
  BY <1>1, <1>2, IncreasingConcat
<1>4. ToSet(p \o m) = ToSet(p) \cup ToSet(m) /\ ToSet(s \o m) = ToSet(s) \cup ToSet(m)
  BY ConcatElements
<1> QED BY <1>3, <1>4

\* The answer is shown: the results of the script, and after a failure what
\* the failed statement has written.
LEMMA PresentKeepsLines ==
  ASSUME WorkInv, LinesInv, Present
  PROVE  LinesInv'
<1>1. /\ step = "present" /\ step' = "idle" /\ work' = NoWork /\ script' = NoScript
      /\ UNCHANGED output
      /\ FinishExecution \/ \E interrupted \in BOOLEAN : HandleExecutionError(interrupted)
  BY DEF Present, Becomes, FinishExecution, HandleExecutionError
<1>2. work.output \in Seq(Nat) /\ script.results \in Seq(ResultType) /\ buffer \in Seq(Nat)
      /\ seen \in Seq(Nat) /\ pane \in Seq(Nat)
  BY DEF WorkInv, Work, LinesInv
<1>3. PICK o \in Seq(Nat), l \in Seq(Nat), s \in Seq(Nat), b \in Seq(Nat) :
        o = Outputs(script.results) /\ l = work.output /\ s = seen /\ b = buffer
  BY <1>2, OutputsOfResults
<1>4. Accounts(((s \o o) \o l) \o b, written, lost)
  BY <1>3 DEF LinesInv, Reported
<1>5. /\ (s \o o) \o l \in Seq(Nat) /\ s \o o \in Seq(Nat) /\ o \o l \in Seq(Nat)
      /\ (s \o o) \o <<>> = s \o o /\ (s \o o) \o l = s \o (o \o l)
      /\ <<>> \o l = l /\ pane \o <<>> = pane /\ <<>> \in Seq(Nat)
  <2>1. (s \o o) \o l = s \o (o \o l)
    BY LinesInARow
  <2> QED BY <1>2, <2>1
<1>6. Increasing((s \o o) \o l) /\ Increasing(s \o o)
  <2>1. Increasing((s \o o) \o l)
    BY <1>4, <1>5, IncreasingConcat DEF Accounts
  <2> QED BY <1>5, <2>1, IncreasingConcat
<1>7. Increasing(o) /\ Increasing(l) /\ Increasing(o \o l) /\ Increasing(<<>>)
  <2>1. Increasing(o) /\ Increasing(l)
    BY <1>5, <1>6, IncreasingConcat
  <2>2. Increasing(o \o l)
    BY <1>5, <1>6, IncreasingConcat
  <2> QED BY <2>1, <2>2 DEF Increasing
<1>8. /\ ToSet(s \o o) = ToSet(s) \cup ToSet(o) /\ ToSet(o \o l) = ToSet(o) \cup ToSet(l)
      /\ ToSet((s \o o) \o l) = ToSet(s) \cup ToSet(o) \cup ToSet(l) /\ ToSet(<<>>) = {}
  <2>1. ToSet(s \o o) = ToSet(s) \cup ToSet(o) /\ ToSet(o \o l) = ToSet(o) \cup ToSet(l)
    BY ConcatElements
  <2>2. ToSet((s \o o) \o l) = ToSet(s \o o) \cup ToSet(l)
    <3>1. PICK so \in Seq(Nat) : so = s \o o
      BY <1>5
    <3>2. ToSet(so \o l) = ToSet(so) \cup ToSet(l)
      BY ConcatElements
    <3> QED BY <3>1, <3>2
  <2>3. ToSet(<<>>) = {}
    BY DEF ToSet
  <2> QED BY <2>1, <2>2, <2>3
<1>9. /\ Rendered(script.results) \in [on : BOOLEAN, more : BOOLEAN, output : Seq(Nat)]
      /\ Rendered(script.results).on => ToSet(Rendered(script.results).output) \subseteq ToSet(o)
  BY <1>2, <1>3, RenderedShown
<1>10. /\ seen' = (s \o o) \o l /\ pane' \in Seq(Nat)
       /\ grid' \in [on : BOOLEAN, more : BOOLEAN, output : Seq(Nat)] /\ Shown'
  <2>1. CASE FinishExecution
    <3>1. /\ work.error = "none" /\ grid' = Rendered(script.results) /\ pane' = o /\ seen' = s \o o
      BY <1>3, <2>1 DEF FinishExecution
    <3>2. l = <<>>
      BY <1>1, <1>3, <3>1 DEF LinesInv
    <3>3. seen' = (s \o o) \o l
      BY <1>5, <3>1, <3>2
    <3>4. Shown'
      BY <1>7, <1>8, <1>9, <3>1 DEF Shown
    <3> QED BY <1>9, <3>1, <3>3, <3>4
  <2>2. ASSUME NEW interrupted \in BOOLEAN, HandleExecutionError(interrupted)
        PROVE  /\ seen' = (s \o o) \o l /\ pane' \in Seq(Nat)
               /\ grid' \in [on : BOOLEAN, more : BOOLEAN, output : Seq(Nat)] /\ Shown'
    <3>1. seen' = (s \o o) \o l
      BY <1>3, <2>2 DEF HandleExecutionError
    <3>2. CASE script.results # <<>>
      <4>1. grid' = Rendered(script.results) /\ pane' \in {o, o \o l}
        BY <1>3, <2>2, <3>2 DEF HandleExecutionError
      <4>2. Shown'
        BY <1>7, <1>8, <1>9, <3>1, <4>1 DEF Shown
      <4> QED BY <1>5, <1>9, <3>1, <4>1, <4>2
    <3>3. CASE script.results = <<>>
      <4>1. o = <<>> /\ Rendered(script.results) = NoGrid
        <5>1. [i \in DOMAIN script.results |-> script.results[i].output] = <<>>
              /\ {i \in DOMAIN script.results : script.results[i].rows} = {}
          BY <3>3
        <5> QED BY <1>3, <5>1, FlattenEmpty DEF Outputs, Rendered
      <4>2. \/ grid' = NoGrid /\ pane' \in {<<>> \o l, <<>>}
            \/ grid' = grid /\ pane' \in {pane \o l, pane}
        BY <1>3, <2>2, <3>3, <4>1 DEF HandleExecutionError
      <4>3. CASE grid' = NoGrid /\ pane' \in {<<>> \o l, <<>>}
        <5>1. pane' \in {l, <<>>} /\ ~grid'.on
          BY <1>5, <4>3 DEF NoGrid
        <5>2. Shown'
          BY <1>7, <1>8, <3>1, <5>1 DEF Shown
        <5>3. NoGrid \in [on : BOOLEAN, more : BOOLEAN, output : Seq(Nat)]
          BY <1>5 DEF NoGrid
        <5> QED BY <1>5, <3>1, <4>3, <5>1, <5>2, <5>3
      <4>4. CASE grid' = grid /\ pane' \in {pane \o l, pane}
        <5>1. s \o l = (s \o o) \o l
          <6>1. s \o <<>> = s
            OBVIOUS
          <6> QED BY <4>1, <6>1
        <5>2. Increasing(pane) /\ ToSet(pane) \subseteq ToSet(s) /\ Increasing(s \o l)
          BY <1>3, <1>6, <5>1 DEF LinesInv, Shown
        <5>3. /\ pane \o l \in Seq(Nat) /\ Increasing(pane \o l)
              /\ ToSet(pane \o l) = ToSet(pane) \cup ToSet(l)
          BY <1>2, <5>2, ShowingMore
        <5>4. grid.on => ToSet(grid.output) \subseteq ToSet(pane)
          BY DEF LinesInv, Shown
        <5>5. Shown'
          BY <1>8, <3>1, <4>4, <5>2, <5>3, <5>4 DEF Shown
        <5>6. grid \in [on : BOOLEAN, more : BOOLEAN, output : Seq(Nat)]
          BY DEF LinesInv
        <5> QED BY <1>2, <3>1, <4>4, <5>3, <5>5, <5>6
      <4> QED BY <4>2, <4>3, <4>4
    <3> QED BY <3>2, <3>3
  <2> QED BY <1>1, <2>1, <2>2
<1>11. NoWork.output = <<>> /\ NoWork.page = FALSE /\ NoWork.error = "none" /\ NoScript.results = <<>>
       /\ Outputs(<<>>) = <<>> /\ NoScript \in [size : Int, left : Int, results : Seq(ResultType)]
  <2>1. Outputs(<<>>) = <<>>
    <3>1. [i \in DOMAIN <<>> |-> <<>>[i].output] = <<>>
      OBVIOUS
    <3> QED BY <3>1, FlattenEmpty DEF Outputs
  <2>2. <<>> \in Seq(ResultType)
    OBVIOUS
  <2> QED BY <2>1, <2>2 DEF NoWork, NoScript
<1>12. Accounts(Reported', written', lost')
  <2>1. PICK all \in Seq(Nat) : all = (s \o o) \o l
    BY <1>5
  <2>2. (all \o <<>>) \o <<>> = all
    OBVIOUS
  <2>3. Reported' = all \o b
    BY <1>1, <1>3, <1>10, <1>11, <2>1, <2>2 DEF Reported, output
  <2> QED BY <1>1, <1>4, <2>1, <2>3 DEF output
<1>13. excused' = "no" => buffer' = <<>>
  BY <1>1 DEF LinesInv, Drained, output
<1> QED BY <1>1, <1>5, <1>10, <1>11, <1>12, <1>13 DEF LinesInv

\* A page adds its lines to those of the pane and of its result, or is dropped
\* with them when its result is gone.
LEMMA PresentPageKeepsLines ==
  ASSUME WorkInv, LinesInv, PresentPage
  PROVE  LinesInv'
<1>1. /\ step = "answer" /\ work.page /\ step' = "idle" /\ work' = NoWork
      /\ UNCHANGED <<script, buffer, written, excused>>
      /\ \/ lost' = lost \cup ToSet(work.output) /\ UNCHANGED <<grid, pane, seen>>
         \/ /\ grid' = IF ~grid.on THEN grid
                       ELSE [grid EXCEPT !.more = work.more, !.output = @ \o work.output]
            /\ pane' = pane \o work.output /\ seen' = seen \o work.output /\ lost' = lost
  BY DEF PresentPage, Becomes, Merged, ui
<1>2. /\ work.output \in Seq(Nat) /\ work.more \in BOOLEAN /\ buffer \in Seq(Nat) /\ seen \in Seq(Nat)
      /\ pane \in Seq(Nat) /\ grid \in [on : BOOLEAN, more : BOOLEAN, output : Seq(Nat)]
  BY DEF WorkInv, Work, LinesInv
<1>3. script.results = <<>> /\ Outputs(script.results) = <<>>
  <2>1. script.results = <<>>
    BY <1>1 DEF LinesInv
  <2>2. [i \in DOMAIN script.results |-> script.results[i].output] = <<>>
    BY <2>1
  <2> QED BY <2>1, <2>2, FlattenEmpty DEF Outputs
<1>4. PICK l \in Seq(Nat), s \in Seq(Nat), b \in Seq(Nat) : l = work.output /\ s = seen /\ b = buffer
  BY <1>2
<1>5. Accounts((s \o l) \o b, written, lost)
  <2>1. s \o <<>> = s
    OBVIOUS
  <2> QED BY <1>3, <1>4, <2>1 DEF LinesInv, Reported
<1>6. NoWork.output = <<>> /\ NoWork.page = FALSE /\ NoWork.error = "none"
  BY DEF NoWork
<1>7. Reported' = seen' \o b
  <2>1. seen' \in Seq(Nat)
    <3>1. s \o l \in Seq(Nat)
      OBVIOUS
    <3> QED BY <1>1, <1>4, <3>1
  <2>2. PICK t \in Seq(Nat) : t = seen'
    BY <2>1
  <2>3. (t \o <<>>) \o <<>> = t
    OBVIOUS
  <2> QED BY <1>1, <1>3, <1>4, <1>6, <2>2, <2>3 DEF Reported
<1>8. CASE lost' = lost \cup ToSet(work.output) /\ UNCHANGED <<grid, pane, seen>>
  <2>1. Accounts(s \o b, written, lost \cup ToSet(l))
    BY <1>5, LosingLines
  <2>2. Accounts(Reported', written', lost')
    BY <1>1, <1>4, <1>7, <1>8, <2>1
  <2> QED BY <1>1, <1>3, <1>6, <1>8, <2>2 DEF LinesInv, Shown, Drained
<1>9. CASE /\ grid' = IF ~grid.on THEN grid
                      ELSE [grid EXCEPT !.more = work.more, !.output = @ \o work.output]
           /\ pane' = pane \o work.output /\ seen' = seen \o work.output /\ lost' = lost
  <2>1. Accounts(Reported', written', lost')
    BY <1>1, <1>4, <1>5, <1>7, <1>9
  <2>2. Increasing(s \o l)
    <3>1. s \o l \in Seq(Nat)
      OBVIOUS
    <3> QED BY <1>5, <3>1, IncreasingConcat DEF Accounts
  <2>3. /\ pane \o l \in Seq(Nat) /\ Increasing(pane \o l) /\ ToSet(pane \o l) = ToSet(pane) \cup ToSet(l)
        /\ ToSet(pane \o l) \subseteq ToSet(s \o l)
    BY <1>2, <1>4, <2>2, ShowingMore DEF LinesInv, Shown
  <2>4. /\ grid' \in [on : BOOLEAN, more : BOOLEAN, output : Seq(Nat)]
        /\ grid'.on => ToSet(grid'.output) \subseteq ToSet(pane')
    <3>1. CASE ~grid.on
      BY <1>2, <1>9, <3>1
    <3>2. CASE grid.on
      <4>1. PICK g \in Seq(Nat) : g = grid.output
        BY <1>2
      <4>2. g \o l \in Seq(Nat) /\ ToSet(g \o l) = ToSet(g) \cup ToSet(l)
        BY ConcatElements
      <4>3. grid' = [grid EXCEPT !.more = work.more, !.output = g \o l]
        BY <1>4, <1>9, <3>2, <4>1
      <4>4. /\ grid' \in [on : BOOLEAN, more : BOOLEAN, output : Seq(Nat)]
            /\ grid'.output = g \o l
        BY <1>2, <4>2, <4>3
      <4>5. ToSet(g) \subseteq ToSet(pane)
        BY <3>2, <4>1 DEF LinesInv, Shown
      <4> QED BY <1>4, <1>9, <2>3, <4>2, <4>4, <4>5
    <3> QED BY <3>1, <3>2
  <2>5. Shown'
    BY <1>4, <1>9, <2>3, <2>4 DEF Shown
  <2>6. pane' \in Seq(Nat) /\ seen' \in Seq(Nat)
    BY <1>4, <1>9, <2>3
  <2> QED BY <1>1, <1>3, <1>6, <2>1, <2>4, <2>5, <2>6 DEF LinesInv, Drained
<1> QED BY <1>1, <1>8, <1>9

\* A script, a page or a help page begins; a table goes; a session dies.
LEMMA UiKeepsLines ==
  ASSUME WorkInv, LinesInv,
         \/ \E n \in 1..plan.size : Run(n)
         \/ FetchMore \/ Help \/ RollbackEnds \/ SessionDiesStep \/ UNCHANGED allVars
  PROVE  LinesInv'
<1>1. <<>> \in Seq(Nat) /\ <<>> \in Seq(ResultType)
  OBVIOUS
<1>2. NoGrid \in [on : BOOLEAN, more : BOOLEAN, output : Seq(Nat)] /\ NoGrid.on = FALSE
  BY <1>1 DEF NoGrid
<1>3. ASSUME NEW n \in 1..plan.size, Run(n) PROVE LinesInv'
  <2>1. /\ step = "idle" /\ step' = "next" /\ UNCHANGED <<work, grid, pane, seen, output>>
        /\ script' = [size |-> n, left |-> n, results |-> <<>>]
    BY <1>3 DEF Run, ui
  <2>2. script.results = <<>> /\ script'.results = <<>>
    BY <2>1 DEF LinesInv
  <2>3. Reported' = Reported
    BY <2>1, <2>2 DEF Reported, output
  <2>4. script' \in [size : Int, left : Int, results : Seq(ResultType)]
    <3>1. n \in Int
      <4>1. plan.size \in Nat
        BY ExecutionAssumption DEF WorkInv
      <4> QED BY <4>1
    <3> QED BY <1>1, <2>1, <3>1
  <2> QED BY <2>1, <2>2, <2>3, <2>4 DEF LinesInv, Shown, Drained, output
<1>4. CASE FetchMore
  <2>1. /\ step = "idle" /\ step' = "rows" /\ UNCHANGED <<script, grid, pane, seen, output>>
        /\ work' = [Cursor EXCEPT !.page = TRUE]
    BY <1>4 DEF FetchMore, Becomes, ui
  <2>2. work.output = <<>> /\ work'.output = <<>>
    <3>1. work = NoWork /\ Cursor \in Work
      BY <2>1, NothingYet DEF WorkInv
    <3>2. Cursor.output = <<>>
      BY DEF Cursor, Opened, NoWork
    <3> QED BY <2>1, <3>1, <3>2 DEF Work, NoWork
  <2>3. Reported' = Reported
    BY <2>1, <2>2 DEF Reported, output
  <2>4. script.results = <<>>
    BY <2>1 DEF LinesInv
  <2> QED BY <2>1, <2>3, <2>4 DEF LinesInv, Shown, Drained, output
<1>5. CASE Help
  <2>1. /\ UNCHANGED <<step, work, script, seen, output>> /\ grid' = NoGrid /\ pane' = <<>>
    BY <1>5 DEF Help, ClearTable
  <2>2. Reported' = Reported
    BY <2>1 DEF Reported, output
  <2>3. Shown'
    BY <1>2, <2>1 DEF Shown, Increasing, ToSet
  <2> QED BY <1>1, <1>2, <2>1, <2>2, <2>3 DEF LinesInv, output
<1>6. CASE RollbackEnds
  <2>1. UNCHANGED <<step, work, script, pane, seen, output>> /\ grid' \in {grid, NoGrid}
    BY <1>6 DEF RollbackEnds, Elsewhere
  <2>2. Reported' = Reported
    BY <2>1 DEF Reported, output
  <2>3. Shown' /\ grid' \in [on : BOOLEAN, more : BOOLEAN, output : Seq(Nat)]
    BY <1>2, <2>1 DEF LinesInv, Shown
  <2> QED BY <2>1, <2>2, <2>3 DEF LinesInv, output
<1>7. CASE SessionDiesStep \/ UNCHANGED allVars
  <2>1. UNCHANGED <<step, work, script, grid, pane, seen, output>>
    BY <1>7 DEF SessionDiesStep, allVars, execution, ui
  <2>2. Reported' = Reported
    BY <2>1 DEF Reported, output
  <2> QED BY <2>1, <2>2 DEF LinesInv, Shown, output
<1> QED BY <1>3, <1>4, <1>5, <1>6, <1>7

\* An edited row's trigger writes, an explain plan clears the table, and a new
\* session starts with an empty buffer.
LEMMA OthersKeepLines ==
  ASSUME WorkInv, LinesInv, OtherOperation \/ ReconnectStep
  PROVE  LinesInv'
<1>1. <<>> \in Seq(Nat)
  OBVIOUS
<1>2. NoGrid \in [on : BOOLEAN, more : BOOLEAN, output : Seq(Nat)] /\ NoGrid.on = FALSE
  BY <1>1 DEF NoGrid
<1>3. step = "idle" /\ step' = "idle" /\ work' = work /\ script' = script
  BY DEF OtherOperation, ReconnectStep, Elsewhere
<1>4. PICK p \in Seq(Nat) : p = (seen \o Outputs(script.results)) \o work.output
  <2>1. Outputs(script.results) \in Seq(Nat) /\ work.output \in Seq(Nat) /\ seen \in Seq(Nat)
    BY OutputsOfResults DEF LinesInv, WorkInv, Work
  <2>2. (seen \o Outputs(script.results)) \o work.output \in Seq(Nat)
    BY <2>1
  <2> QED BY <2>2
<1>5. Accounts(p \o buffer, written, lost)
  BY <1>4 DEF LinesInv, Reported
<1>6. seen' = seen => Reported' = p \o buffer'
  BY <1>3, <1>4 DEF Reported
<1>7. CASE OtherOperation
  <2>1. UNCHANGED ui \/ ClearTable
    BY <1>7 DEF OtherOperation
  <2>2. UNCHANGED output \/ (Write(1) /\ excused' = "unread")
    BY <1>7 DEF OtherOperation
  <2>3. seen' = seen
    BY <2>1 DEF ui, ClearTable
  <2>4. Accounts(Reported', written', lost')
    <3>1. CASE UNCHANGED output
      BY <1>5, <1>6, <2>3, <3>1 DEF output
    <3>2. CASE Write(1)
      BY <1>5, <1>6, <2>3, <3>2, WriteAccounts DEF WorkInv
    <3> QED BY <2>2, <3>1, <3>2
  <2>5. /\ grid' \in [on : BOOLEAN, more : BOOLEAN, output : Seq(Nat)] /\ pane' \in Seq(Nat)
        /\ Shown'
    <3>1. CASE UNCHANGED ui
      BY <3>1 DEF ui, LinesInv, Shown
    <3>2. CASE ClearTable
      BY <1>1, <1>2, <3>2 DEF ClearTable, Shown, Increasing, ToSet
    <3> QED BY <2>1, <3>1, <3>2
  <2>6. excused' = "no" => buffer' = <<>>
    BY <1>3, <2>2 DEF LinesInv, Drained, output
  <2> QED BY <1>3, <2>3, <2>4, <2>5, <2>6 DEF LinesInv
<1>8. CASE ReconnectStep
  <2>1. /\ grid' = NoGrid /\ UNCHANGED <<pane, seen, written>> /\ buffer' = <<>>
        /\ lost' = lost \cup ToSet(buffer)
    BY <1>8 DEF ReconnectStep
  <2>2. Accounts(Reported', written', lost')
    <3>1. PICK b \in Seq(Nat) : b = buffer
      BY DEF WorkInv
    <3>2. (p \o b) \o <<>> = p \o b
      OBVIOUS
    <3>3. Accounts(p \o <<>>, written, lost \cup ToSet(b))
      BY <1>1, <1>5, <3>1, <3>2, LosingLines
    <3> QED BY <1>6, <2>1, <3>1, <3>3
  <2>3. Shown'
    BY <1>2, <2>1 DEF LinesInv, Shown
  <2> QED BY <1>2, <1>3, <2>1, <2>2, <2>3 DEF LinesInv
<1> QED BY <1>7, <1>8

\* "DBMS_OUTPUT is collected after each statement and after every fetched
\* result page": every line is shown once, in the order written, with the
\* answer of its statement, for any number of lines and of results.
THEOREM OutputReportedOnceHolds == CallsSpec => []OutputReportedOnce
<1>1. CallsInit => WorkInv /\ LinesInv
  BY WorkInit, LinesInit
<1>2. WorkInv /\ LinesInv /\ [CallsNext]_allVars => WorkInv' /\ LinesInv'
  <2>1. 1..MaxRows \subseteq Nat /\ 0 \in Nat /\ "dml" \in Statement
    BY DEF Statement
  <2>2. SUFFICES ASSUME WorkInv, LinesInv, [CallsNext]_allVars PROVE LinesInv'
    BY WorkStays
  <2>3. ASSUME NEW s \in Statement, Execute(s, 0) PROVE LinesInv'
    BY <2>1, <2>2, <2>3, ExecuteKeepsLines
  <2>4. ASSUME NEW rows \in 1..MaxRows, Execute("dml", rows) PROVE LinesInv'
    BY <2>1, <2>2, <2>4, ExecuteKeepsLines
  <2> QED
    BY <2>2, <2>3, <2>4, CallsLeaveLines, ReadOutputKeepsLines, AnswerKeepsLines, PresentKeepsLines,
       PresentPageKeepsLines, UiKeepsLines, OthersKeepLines
       DEF CallsNext
<1> QED BY <1>1, <1>2, LinesInvSuffices, PTL DEF CallsSpec
=============================================================================
