------------------------- MODULE OracleTransaction -------------------------
(***************************************************************************)
(* What OracleWorkspace believes about its transaction (db/transactions.py *)
(* and the statement, edit and explain paths that keep it up to date),     *)
(* against what the Oracle session really holds.  The worker thread runs   *)
(* one operation at a time; an operation that makes several driver calls   *)
(* takes one step per call, and every call may succeed, fail, or fail      *)
(* because the session has died.                                           *)
(***************************************************************************)
EXTENDS Naturals

CONSTANT MaxRows           \* bound on the rows changed in one transaction

ASSUME TransactionAssumption == MaxRows \in Nat \ {0}

VARIABLES
  \* what never changes while the program runs: its read-only mode, whether
  \* the driver reports transaction_in_progress, and whether a commit may fail
  \* on a deferred constraint, which rolls the transaction back
  readOnly, tipReadable, deferredChecks,
  \* OracleWorkspace
  autocommit,
  pending,       \* [rows: pending_rows_changed, unknown: pending_unknown_changes]
  \* the driver connection and the session behind it
  conn,          \* "none", "open", or "dead": is_healthy() is false
  driverAuto,    \* connection.autocommit
  txn,           \* the transaction: is one open, rows changed, other work
  \* the operation under way
  pc,
  call,          \* its locals
  lostAnswer,    \* history: a call that commits work died without an answer
  misreported    \* history: a commit was reported with rows it did not commit

fixed     == <<readOnly, tipReadable, deferredChecks>>
workspace == <<autocommit, pending, misreported>>
driver    == <<conn, driverAuto, txn>>
vars      == <<fixed, workspace, driver, pc, call, lostAnswer>>

Transaction == [open : BOOLEAN, rows : 0..MaxRows, other : BOOLEAN]
NoTxn       == [open |-> FALSE, rows |-> 0, other |-> FALSE]
Pending     == [rows : 0..MaxRows, unknown : BOOLEAN]
Clear       == [rows |-> 0, unknown |-> FALSE]
Unknown     == [rows |-> 0, unknown |-> TRUE]

\* Locals of a multi-step operation: what it is (a statement by what is left to
\* do for it, an edit or an explain plan), whether a full rollback is safe,
\* whether the savepoint still exists, the transaction before it, whether the
\* body and the rollback to the savepoint failed.
NoCall == [op |-> "none", safe |-> FALSE, savepoint |-> FALSE, saved |-> NoTxn,
           failed |-> FALSE, undoFailed |-> FALSE, previousAuto |-> FALSE]
Call   == [op : {"none", "query", "plain", "kinded", "ddl", "edit", "explain"},
           safe : BOOLEAN, savepoint : BOOLEAN, saved : Transaction,
           failed : BOOLEAN, undoFailed : BOOLEAN, previousAuto : BOOLEAN]

\* Statements, by what they do; transaction_statement_kind sees the classes
\* of Kind, and read_only_rejection_reason allows those of ReadOnlyKind.
Statement == {"query", "forUpdate", "lockTable", "dml", "plsql", "ddl", "commit",
              "rollback", "rollbackTo"}
IsQuery(s) == s \in {"query", "forUpdate"}
Kind(s) == IF s \in {"query", "forUpdate", "lockTable"} THEN "" ELSE s
ReadOnlyAllows(s) == s \in {"query", "rollback", "rollbackTo"}

Init == /\ tipReadable \in BOOLEAN /\ deferredChecks \in BOOLEAN
        /\ autocommit \in BOOLEAN /\ readOnly \in BOOLEAN
        /\ pending = Clear
        /\ conn = "none" /\ driverAuto = FALSE /\ txn = NoTxn
        /\ pc = "idle" /\ call = NoCall
        /\ lostAnswer = FALSE /\ misreported = FALSE

-----------------------------------------------------------------------------
(* The bookkeeping of TransactionMixin.                                    *)

\* has_uncommitted_changes
Has(p) == p.rows > 0 \/ p.unknown

\* connection_transaction_in_progress: the driver's own flag.  A dead session
\* may still report it as it last was, or not at all.
Tip(c, t) ==
  LET flag == IF t.open THEN "yes" ELSE "no"
  IN  IF c = "open" THEN (IF tipReadable THEN {flag} ELSE {"unreadable"})
                    ELSE {flag, "unreadable"}

\* record_statement_transaction_state
Record(p, s, rows) ==
  CASE Kind(s) \in {"commit", "rollback", "ddl"} -> Clear
    [] Kind(s) = "rollbackTo"                     -> Unknown
    [] Kind(s) = "dml" /\ ~autocommit             -> [p EXCEPT !.rows = @ + rows]
    [] Kind(s) = "plsql" /\ ~autocommit           -> [p EXCEPT !.unknown = TRUE]
    [] OTHER                                      -> p

\* Mutation: an open transaction found by the driver is not taken over.
SynchronizeClearsOnly(p, t) == IF t = "no" THEN Clear ELSE p

\* synchronize_pending_transaction
Synchronize(p, t) ==
  CASE t = "no"              -> Clear
    [] t = "yes" /\ ~Has(p)  -> [p EXCEPT !.unknown = TRUE]
    [] OTHER                 -> p

\* reconcile_uncertain_edit_failure
Reconcile(t) == IF t = "no" THEN Clear ELSE Unknown

\* Mutation: one grid edit is counted as two rows.
EditCountedTwice(p) == [p EXCEPT !.rows = @ + 2]

\* record_pending_rows_changed(1) at the end of a grid edit
EditCounted(p) == [p EXCEPT !.rows = @ + 1]

\* Mutation: the health of the session is not asked after a failure.
AfterFailureHopeful(p) == p

\* _mark_transaction_unknown_if_unhealthy, for the statement under way
AfterFailure(p) == IF conn = "dead" /\ call.op \in {"kinded", "ddl"} THEN Unknown ELSE p

\* A commit that fails may have rolled the transaction back (a deferred
\* constraint): ORA-02091.
AfterFailedCommit == {txn} \cup (IF deferredChecks THEN {NoTxn} ELSE {})

-----------------------------------------------------------------------------
(* execute_statement.                                                      *)

Usable == pc = "idle" /\ conn = "open"

\* The transaction after a statement that succeeded; the driver commits every
\* statement but a query when its autocommit flag is on.
Done(s, rows) ==
  IF driverAuto /\ ~IsQuery(s) THEN {NoTxn} ELSE
  CASE s = "query" -> {txn}
    [] s \in {"forUpdate", "lockTable"} -> {[txn EXCEPT !.open = TRUE, !.other = TRUE]}
    [] s \in {"ddl", "commit", "rollback"} -> {NoTxn}
    [] s = "dml" -> {[txn EXCEPT !.open = @ \/ rows > 0, !.rows = @ + rows]}
    [] s = "plsql" -> {txn, NoTxn, [txn EXCEPT !.open = TRUE, !.other = TRUE],
                       [NoTxn EXCEPT !.open = TRUE, !.other = TRUE]}
    [] s = "rollbackTo" -> {t \in Transaction : /\ t.open = txn.open
                                                /\ t.rows <= txn.rows
                                                /\ t.other => txn.other}

\* After one that failed: a failing DDL may have committed first, a failing
\* block may have committed or rolled back, and all else is undone.
Failed(s) ==
  IF s \in {"ddl", "plsql"} THEN {txn, NoTxn}
  ELSE IF s = "commit" \/ (driverAuto /\ ~IsQuery(s)) THEN AfterFailedCommit ELSE {txn}

\* Does the statement, if it takes effect, make work durable?
Commits(s) == s \in {"ddl", "commit", "plsql"} \/ (driverAuto /\ s = "dml")

Permitted(s) == Usable /\ (readOnly => ReadOnlyAllows(s))

\* Local of the steps after the call that runs the statement.
Running(s) ==
  [NoCall EXCEPT !.op = CASE IsQuery(s) -> "query" [] s = "ddl" -> "ddl"
                          [] Kind(s) = "" -> "plain" [] OTHER -> "kinded"]

\* A statement that succeeds is recorded and reconciled with the driver; its
\* rows or its compilation errors are still to be read.
ExecuteOk(s, rows) ==
  /\ Permitted(s)
  /\ s = "rollbackTo" => txn.open
  /\ txn.rows + rows <= MaxRows /\ pending.rows + rows <= MaxRows
  /\ txn' \in Done(s, rows)
  /\ \E t \in Tip(conn, txn') : pending' = Synchronize(Record(pending, s, rows), t)
  /\ pc' = "reading" /\ call' = Running(s)
  /\ UNCHANGED <<fixed, autocommit, misreported, conn, driverAuto, lostAnswer>>

\* A statement that fails, or whose session dies under it.
ExecuteFails(s) ==
  /\ Permitted(s)
  /\ \/ conn' = "open" /\ txn' \in Failed(s) /\ UNCHANGED lostAnswer
     \/ conn' = "dead" /\ txn' = txn /\ lostAnswer' = (lostAnswer \/ Commits(s))
  /\ \E t \in Tip(conn', txn') : pending' = Synchronize(pending, t)
  /\ pc' = "raising" /\ call' = Running(s)
  /\ UNCHANGED <<fixed, autocommit, misreported, driverAuto>>

\* What has to be read is read: under autocommit a commit follows, unless the
\* statement returned rows.
ReadingDone ==
  /\ pc = "reading"
  /\ IF autocommit /\ call.op # "query" THEN pc' = "autocommit" /\ UNCHANGED call
                                        ELSE pc' = "idle" /\ call' = NoCall
  /\ UNCHANGED <<fixed, workspace, driver, lostAnswer>>

\* DDL that left compilation errors is committed, and reported as a failure.
CompilationFails ==
  /\ pc = "reading" /\ call.op = "ddl"
  /\ pc' = IF autocommit THEN "autocommit" ELSE "raising"
  /\ call' = [call EXCEPT !.failed = TRUE]
  /\ UNCHANGED <<fixed, workspace, driver, lostAnswer>>

\* The call that reads the rows or the compilation errors fails: no commit.
ReadingFails ==
  /\ pc = "reading" /\ call.op \in {"query", "ddl"}
  /\ conn' \in {conn, "dead"}
  /\ pc' = "raising"
  /\ UNCHANGED <<fixed, workspace, driverAuto, txn, call, lostAnswer>>

\* One commit call: it succeeds, fails, or the session is or turns dead.
CommitOk    == conn = "open" /\ txn' = NoTxn /\ UNCHANGED <<conn, lostAnswer>>
CommitFails == \/ /\ conn = "open" /\ txn' \in AfterFailedCommit
                  /\ UNCHANGED <<conn, lostAnswer>>
               \/ /\ conn' = "dead" /\ UNCHANGED txn
                  /\ lostAnswer' = (lostAnswer \/ (conn = "open" /\ txn.rows > 0))

\* _commit_autocommit
CommitAutocommitOk ==
  /\ pc = "autocommit"
  /\ CommitOk
  /\ \E t \in Tip(conn, txn') : pending' = Synchronize(pending, t)
  /\ IF call.failed THEN pc' = "raising" /\ UNCHANGED call
                    ELSE pc' = "idle" /\ call' = NoCall
  /\ UNCHANGED <<fixed, autocommit, misreported, driverAuto>>

CommitAutocommitFails ==
  /\ pc = "autocommit"
  /\ CommitFails
  /\ \E t \in Tip(conn', txn') :
       LET p == Synchronize(pending, t)
       IN  pending' = IF call.op \in {"kinded", "ddl"} \/ Has(p) THEN Unknown ELSE p
  /\ pc' = "raising"
  /\ UNCHANGED <<fixed, autocommit, misreported, driverAuto, call>>

\* The statement's exception leaves execute_statement.
Raise ==
  /\ pc = "raising"
  /\ pending' = AfterFailure(pending)
  /\ pc' = "idle" /\ call' = NoCall
  /\ UNCHANGED <<fixed, autocommit, misreported, driver, lostAnswer>>

-----------------------------------------------------------------------------
(* Editing a row of a result, and explaining a statement: the body runs     *)
(* behind a savepoint with driver autocommit off, and what it did is undone *)
(* if it fails (an edit) or in any case (an explain plan).  A transaction   *)
(* that is sure to be the operation's own is rolled back whole, so that     *)
(* none stays open.                                                         *)

\* Mutation: only a transaction the driver reports counts as earlier work.
SafeUnlessReported(t, hadPending) == t # "yes"

\* safe_to_rollback of the savepoint context managers
SafeToRollBack(t, hadPending) == t = "no" /\ ~hadPending

\* An explain plan that is not sure to start from a clean session first marks
\* the pending work as unknown.  (In read-only mode an edit is refused, and an
\* explain runs the query instead: the statement "query" above.)
StartCall(op) ==
  /\ Usable /\ ~readOnly
  /\ txn.rows < MaxRows /\ pending.rows < MaxRows
  /\ \E t \in Tip(conn, txn) :
       /\ call' = [NoCall EXCEPT !.op = op, !.safe = SafeToRollBack(t, Has(pending)),
                                 !.saved = txn, !.previousAuto = driverAuto]
       /\ pending' = IF op = "explain" /\ t # "no" /\ ~Has(pending)
                     THEN [pending EXCEPT !.unknown = TRUE] ELSE pending
  /\ driverAuto' = (driverAuto /\ ~(op = "explain" \/ autocommit))
  /\ pc' = "savepoint"
  /\ UNCHANGED <<fixed, autocommit, misreported, conn, txn, lostAnswer>>

\* A driver call of the operation fails, and the session may be dead by then.
CallFails == /\ conn' \in {conn, "dead"}
             /\ UNCHANGED <<txn, lostAnswer>>

\* Mutation: the driver's flag is restored only after a success.
RestoreOnSuccess == driverAuto' = (IF call.failed THEN driverAuto ELSE call.previousAuto)

\* The driver's autocommit flag is put back as it was found.
RestoreDriverAuto == driverAuto' = call.previousAuto

\* The operation leaves: driver autocommit is restored (a local flag of the
\* driver, whose write does not fail), the cursor is closed, and the pending
\* work is brought up to date.  mayHaveChanges is what the error says of a
\* cleanup that failed; a cursor that cannot be closed counts as one too.
Finish(mayHaveChanges) ==
  /\ pc' = "idle" /\ call' = NoCall
  /\ RestoreDriverAuto
  /\ \/ /\ call.op = "explain"
        /\ \E closeFails \in BOOLEAN :
             pending' = IF mayHaveChanges \/ closeFails
                        THEN [pending EXCEPT !.unknown = TRUE] ELSE pending
     \/ /\ call.op = "edit"
        /\ \E t \in Tip(conn', txn') :
             pending' = IF mayHaveChanges THEN Reconcile(t) ELSE Synchronize(pending, t)
  /\ UNCHANGED <<fixed, autocommit, misreported>>

Continue(next) == /\ pc' = next
                  /\ UNCHANGED <<fixed, workspace, driverAuto>>

Savepoint ==
  /\ pc = "savepoint"
  /\ \/ /\ conn = "open"
        /\ UNCHANGED <<conn, txn, lostAnswer>>
        /\ call' = [call EXCEPT !.savepoint = TRUE]
        /\ Continue("body")
     \/ CallFails /\ Finish(FALSE)

\* The body: an edit changes one row and reads it back, an explain plan adds
\* to PLAN_TABLE and reads the plan.  It may fail before or after the change.
Body ==
  /\ pc = "body"
  /\ \E failed \in BOOLEAN :
       /\ call' = [call EXCEPT !.failed = failed]
       /\ \/ /\ conn = "open"
             /\ txn' = [txn EXCEPT !.open = TRUE, !.rows = @ + 1]
             /\ conn' \in IF failed THEN {"open", "dead"} ELSE {"open"}
             /\ UNCHANGED lostAnswer
          \/ failed /\ CallFails
       /\ IF failed \/ call.op = "explain" THEN Continue("undo") ELSE Continue("keep")

\* The end of an edit: committed under autocommit, else recorded as pending.
KeepEdit ==
  /\ pc = "keep"
  /\ IF autocommit
     THEN \/ /\ CommitOk
             /\ \E t \in Tip(conn, txn') : pending' = Synchronize(pending, t)
             /\ pc' = "idle" /\ call' = NoCall /\ RestoreDriverAuto
             /\ UNCHANGED <<fixed, autocommit, misreported>>
          \/ /\ CommitFails
             /\ call' = [call EXCEPT !.failed = TRUE,
                                     !.savepoint = @ /\ txn' # NoTxn]
             /\ Continue("undo")
     ELSE /\ UNCHANGED <<conn, driverAuto, txn, lostAnswer, fixed, autocommit, misreported>>
          /\ \E t \in Tip(conn, txn) :
               pending' = Synchronize(EditCounted(pending), t)
          /\ pc' = "idle" /\ call' = NoCall

\* Rollback to the savepoint.
Undo ==
  /\ pc = "undo"
  /\ \/ /\ conn = "open" /\ call.savepoint
        /\ txn' = [call.saved EXCEPT !.open = txn.open]
        /\ UNCHANGED <<conn, lostAnswer>>
        /\ IF call.safe THEN Continue("fullRollback") /\ UNCHANGED call
                        ELSE Finish(FALSE)
     \/ /\ CallFails
        /\ IF call.safe THEN /\ Continue("fullRollback")
                             /\ call' = [call EXCEPT !.undoFailed = TRUE]
                        ELSE Finish(TRUE)

\* The full rollback of a transaction that is the operation's own.  If it
\* fails after the savepoint was reached, an edit ignores that.
FullRollback ==
  /\ pc = "fullRollback"
  /\ \/ conn = "open" /\ txn' = NoTxn /\ UNCHANGED <<conn, lostAnswer>> /\ Finish(FALSE)
     \/ CallFails /\ Finish(call.undoFailed \/ call.op = "explain")

-----------------------------------------------------------------------------
(* Commit, rollback, the transaction mode, and the session.                *)

Commit ==
  /\ Usable /\ ~readOnly
  /\ \/ /\ CommitOk /\ pending' = Clear
        /\ misreported' = \/ misreported
                          \/ tipReadable /\ ~pending.unknown /\ pending.rows # txn.rows
     \/ CommitFails /\ UNCHANGED <<pending, misreported>>
  /\ UNCHANGED <<fixed, autocommit, driverAuto, pc, call>>

RollbackOk ==
  /\ Usable
  /\ txn' = NoTxn /\ pending' = Clear
  /\ UNCHANGED <<fixed, autocommit, misreported, conn, driverAuto, pc, call, lostAnswer>>

RollbackFails ==
  /\ Usable
  /\ CallFails
  /\ UNCHANGED <<fixed, workspace, driverAuto, pc, call>>

\* set_transaction_mode: a switch to autocommit with pending work needs a
\* resolution, and only if that succeeds is the mode changed.
ResolutionFor(enabled) ==
  IF enabled /\ ~autocommit /\ Has(pending) THEN {"commit", "rollback"} ELSE {"none"}

SwitchMode(enabled) ==
  /\ autocommit' = enabled
  /\ driverAuto' = IF conn' = "none" THEN driverAuto ELSE enabled

SwitchFreely(enabled) ==
  /\ pc = "idle" /\ "none" \in ResolutionFor(enabled)
  /\ UNCHANGED <<fixed, misreported, pending, conn, txn, pc, call, lostAnswer>>
  /\ SwitchMode(enabled)

\* The pending work is committed first, and the mode kept if that fails.
SwitchCommitting ==
  /\ pc = "idle" /\ "commit" \in ResolutionFor(TRUE) /\ ~readOnly
  /\ \/ CommitOk /\ pending' = Clear /\ SwitchMode(TRUE)
     \/ conn = "open" /\ CommitFails /\ UNCHANGED <<autocommit, pending, driverAuto>>
  /\ UNCHANGED <<fixed, misreported, pc, call>>

\* The same with a rollback.
SwitchRollingBack ==
  /\ pc = "idle" /\ "rollback" \in ResolutionFor(TRUE) /\ conn = "open"
  /\ \/ /\ txn' = NoTxn /\ pending' = Clear
        /\ UNCHANGED <<conn, lostAnswer>>
        /\ SwitchMode(TRUE)
     \/ CallFails /\ UNCHANGED <<autocommit, pending, driverAuto>>
  /\ UNCHANGED <<fixed, misreported, pc, call>>

\* close() and then connect(), or connect() alone: whatever fails, the old
\* session is gone and nothing is pending.  A connection is kept only if all
\* of its set-up succeeded.
Reconnect ==
  /\ pc = "idle"
  /\ conn' \in {"none", "open"}
  /\ driverAuto' = (conn' = "open" /\ autocommit)
  /\ txn' = NoTxn /\ pending' = Clear
  /\ lostAnswer' = FALSE
  /\ UNCHANGED <<fixed, autocommit, misreported, pc, call>>

\* The network: the session dies between two calls.
SessionDies ==
  /\ conn = "open"
  /\ conn' = "dead"
  /\ UNCHANGED <<fixed, workspace, driverAuto, txn, pc, call, lostAnswer>>

Next ==
  \/ \E s \in Statement : ExecuteOk(s, 0) \/ ExecuteFails(s)
  \/ \E rows \in 1..MaxRows : ExecuteOk("dml", rows)
  \/ ReadingDone \/ CompilationFails \/ ReadingFails \/ Raise
  \/ CommitAutocommitOk \/ CommitAutocommitFails
  \/ \E op \in {"edit", "explain"} : StartCall(op)
  \/ Savepoint \/ Body \/ KeepEdit \/ Undo \/ FullRollback
  \/ Commit \/ RollbackOk \/ RollbackFails
  \/ SwitchCommitting \/ SwitchRollingBack \/ \E enabled \in BOOLEAN : SwitchFreely(enabled)
  \/ Reconnect \/ SessionDies

Spec == Init /\ [][Next]_vars

-----------------------------------------------------------------------------
(* Properties.                                                             *)

TypeOK ==
  /\ tipReadable \in BOOLEAN /\ deferredChecks \in BOOLEAN
  /\ autocommit \in BOOLEAN /\ readOnly \in BOOLEAN /\ pending \in Pending
  /\ conn \in {"none", "open", "dead"} /\ driverAuto \in BOOLEAN /\ txn \in Transaction
  /\ pc \in {"idle", "reading", "autocommit", "raising", "savepoint", "body", "keep",
            "undo", "fullRollback"}
  /\ call \in Call /\ lostAnswer \in BOOLEAN /\ misreported \in BOOLEAN

\* Between operations the workspace reports uncommitted changes whenever the
\* session holds changed rows, and, if the driver reports its transactions,
\* whenever one is open: the quit, reconnect and mode prompts rely on it.
LiveWorkTracked ==
  pc = "idle" => /\ txn.rows > 0 => Has(pending)
                 /\ conn = "open" /\ tipReadable /\ txn.open => Has(pending)

\* An edit or an explain plan, whichever of its calls fail, takes no earlier
\* work of the transaction with it (a commit that Oracle rolls back may).
EarlierWorkKept ==
  [][(pc \in {"savepoint", "body", "undo", "fullRollback"} /\ txn.rows >= call.saved.rows)
       => /\ txn'.rows >= call.saved.rows
          /\ txn.other /\ call.saved.other => txn'.other]_vars

\* "Direct DML and ROWID grid edits contribute exact row counts": a count
\* that is not marked unknown is the number of rows the transaction holds, as
\* long as no commit fails on a deferred constraint.
RowCountExact ==
  pc = "idle" /\ conn = "open" /\ tipReadable /\ ~deferredChecks /\ ~pending.unknown
    => pending.rows = txn.rows

\* The same, as the user sees it: "commit and rollback messages include ...
\* the tracked row count", so a commit reports the rows it has committed.
CommitReportExact == ~misreported

\* The driver's autocommit flag, switched off behind a savepoint, is again
\* the workspace's mode when the operation is over, whatever failed.
DriverFollowsMode == pc = "idle" /\ conn = "open" => driverAuto = autocommit

\* A session that died before it answered a call that commits work leaves
\* the workspace saying that the outcome is open.
UncertainOutcomeRemembered ==
  pc = "idle" /\ conn = "dead" /\ lostAnswer => Has(pending)
=============================================================================
