------------------------------ MODULE Execution ------------------------------
(***************************************************************************)
(* The calls of a statement, a script or a further page, one by one, on    *)
(* top of the transaction they change (db/execution.py), and what the UI   *)
(* shows of their answers (ui/query_controller.py, ui/result_presenter.py).*)
(* A statement that ran still has compilation errors or rows to read, a    *)
(* commit to make, DBMS_OUTPUT to collect and cursors to close.  Each of   *)
(* these calls may fail, alone or after another one.                       *)
(*                                                                         *)
(* Lines of DBMS_OUTPUT are numbered in the order they are written.        *)
(***************************************************************************)
EXTENDS OracleTransaction, SequencesExt

CONSTANTS
  FetchLines,      \* DBMS_OUTPUT_FETCH_LINES, the lines one call returns
  Plans            \* bounds: what a behaviour may run, and how much of it

\* Statements, the most of them in a script, the most lines written, the most
\* rows changed, and the values of readOnly, tipReadable and deferredChecks.
ASSUME ExecutionAssumption ==
  /\ FetchLines \in Nat \ {0}
  /\ \A p \in Plans : /\ p.statements \subseteq Statement
                      /\ p.size \in Nat \ {0} /\ p.lines \in Nat
                      /\ p.rows \in 0..MaxRows
                      /\ p.fixed \subseteq BOOLEAN \X BOOLEAN \X BOOLEAN

VARIABLES
  plan,       \* the bounds of this behaviour
  step,       \* the next call of the operation under way
  work,       \* the locals of execute_statement or fetch_more_rows
  script,     \* the worker's loop: statements, those left, results so far
  buffer,     \* the lines the session's DBMS_OUTPUT buffer holds
  written,    \* lines written so far
  grid,       \* active_result: is there one, more_rows, dbms_output
  pane,       \* state.dbms_output
  seen,       \* history: the lines shown, in that order
  lost,       \* history: lines that no answer will show any more
  excused     \* history: why the buffer may hold lines of earlier operations: a
              \* read was "broken" off, or what a trigger wrote is "unread"

ui        == <<grid, pane, seen>>
output    == <<buffer, written, lost, excused>>
execution == <<plan, step, work, script, ui, output>>
allVars   == <<vars, execution>>

\* The calls, in the order they are made; "answer" and "present" hand over.
Steps == {"idle", "next", "diagnose", "commit", "rows", "output", "shape", "close",
          "answer", "present"}

\* A close that fails is named for its cursor.
Cursors == {"statement cursor", "errors cursor", "output cursor"}
Faults == {"execute", "compile", "read errors", "fetch", "materialize", "editability",
           "commit", "read output"} \cup Cursors

\* An operation's locals: its rows, the exception on its way, the warnings and
\* lines of its answer, whether rows are left; as history, what went wrong and
\* which cursors are open.
NoWork == [page |-> FALSE, query |-> FALSE, error |-> "none", warnings |-> {},
           output |-> <<>>, more |-> FALSE, faults |-> {}, open |-> {}]
NoScript == [size |-> 0, left |-> 0, results |-> <<>>]
NoGrid   == [on |-> FALSE, more |-> FALSE, output |-> <<>>]

CallsInit ==
  /\ Init
  /\ plan \in Plans /\ fixed \in plan.fixed
  /\ step = "idle" /\ work = NoWork /\ script = NoScript
  /\ buffer = <<>> /\ written = 0
  /\ grid = NoGrid /\ pane = <<>> /\ seen = <<>> /\ lost = {} /\ excused = "no"

\* A call that fails adds to what went wrong; a warning is what the answer
\* says of it when the exception, if any, is another one.
Faulty(w, fault)  == [w EXCEPT !.faults = @ \cup {fault}]
Warned(w, fault)  == [Faulty(w, fault) EXCEPT !.warnings = @ \cup {fault}]
Raised(w, fault)  == [Faulty(w, fault) EXCEPT !.error = fault]

\* A cursor is closed, or its failing close is a warning.
Closed(w, cursor) ==
  {[w EXCEPT !.open = @ \ {cursor}], Warned(w, cursor)}

Opened(w, cursor) == [w EXCEPT !.open = @ \cup {cursor}]

Becomes(w, next) == work' = w /\ step' = next /\ UNCHANGED plan

-----------------------------------------------------------------------------
(* Lines written by a statement or by the trigger of an edited row.  Oracle *)
(* may drop what a broken-off read has left when the next line is put.     *)

LinesOf(s) == CASE s = "plsql" -> 0..plan.lines
                [] s \in {"query", "forUpdate", "dml"} -> {0, 1}
                [] OTHER -> {0}
Lines(n) == [i \in 1..n |-> written + i]

Write(n) ==
  /\ written + n <= plan.lines
  /\ written' = written + n
  /\ \E kept \in IF excused = "broken" /\ n > 0 THEN {buffer, <<>>} ELSE {buffer} :
       /\ buffer' = kept \o Lines(n)
       /\ lost' = lost \cup (ToSet(buffer) \ ToSet(kept))

-----------------------------------------------------------------------------
(* The worker's loop over the statements of a script, and execute_statement.*)

\* run_current_statement, run_script, run_selected_script
Run(n) ==
  /\ step = "idle" /\ pc = "idle" /\ conn # "none"
  /\ script' = [size |-> n, left |-> n, results |-> <<>>]
  /\ step' = "next"
  /\ UNCHANGED <<vars, plan, work, ui, output>>

Cursor == Opened(NoWork, "statement cursor")

\* cursor.execute; the output is read after a failure as well.
Execute(s, rows) ==
  /\ step = "next" /\ s \in plan.statements /\ txn.rows + rows <= plan.rows
  /\ \/ /\ ExecuteOk(s, rows)
        /\ \E created \in IF s = "ddl" THEN BOOLEAN ELSE {FALSE} :
             Becomes([Cursor EXCEPT !.query = IsQuery(s)],
                     CASE created    -> "diagnose"
                       [] IsQuery(s) -> "rows"
                       [] OTHER      -> "commit")
     \/ ExecuteFails(s) /\ Becomes(Raised(Cursor, "execute"), "output")
  /\ \E n \in LinesOf(s) : Write(n)
  /\ UNCHANGED <<script, ui, excused>>

\* ensure_statement_allowed and ensure_connected refuse before anything runs.
Refuse ==
  /\ step = "next"
  /\ conn = "dead" \/ readOnly
  /\ Becomes(Raised(NoWork, "execute"), "answer")
  /\ UNCHANGED <<vars, script, ui, output>>

\* _plsql_compilation_result of a created PL/SQL object
Diagnose ==
  /\ step = "diagnose"
  /\ LET w == Opened(work, "errors cursor")
     IN  \/ /\ conn = "open"
            /\ \E v \in Closed(w, "errors cursor") : Becomes(v, "commit")
            /\ UNCHANGED vars
         \/ /\ conn = "open" /\ CompilationFails
            /\ \E v \in Closed(Raised(w, "compile"), "errors cursor") :
                 Becomes(v, IF autocommit THEN "commit" ELSE "output")
         \/ /\ ReadingFails
            /\ \E v \in Closed(Raised(w, "read errors"), "errors cursor") :
                 Becomes(v, "output")
  /\ UNCHANGED <<script, ui, output>>

\* Mutation: a failing commit is not told next to compilation errors.
CommitUntold(w) == IF w.error = "none" THEN [Raised(w, "commit") EXCEPT !.warnings = {"commit"}]
                                       ELSE Faulty(w, "commit")

\* A failing commit is a warning next to the compilation errors and what they were
\* told with, or the exception if there are none: that one is made without the
\* warnings of the compilation.
CommitFailed(w) == IF w.error = "none" THEN [Raised(w, "commit") EXCEPT !.warnings = {"commit"}]
                                       ELSE Warned(w, "commit")

\* The commit of a statement without rows, in autocommit mode.
CommitStep ==
  /\ step = "commit"
  /\ \/ /\ pc = "reading" /\ ReadingDone
        /\ Becomes(work, IF autocommit THEN "commit" ELSE "output")
     \/ CommitAutocommitOk /\ Becomes(work, "output")
     \/ CommitAutocommitFails /\ Becomes(CommitFailed(work), "output")
  /\ UNCHANGED <<script, ui, output>>

PageFails == CallFails /\ UNCHANGED <<fixed, workspace, driverAuto, pc, call>>

\* fetchmany, for the first rows of a query or for a further page; only the
\* first is followed by what a statement may do to the transaction.
Rows ==
  /\ step = "rows"
  /\ \/ /\ \E more \in BOOLEAN : Becomes([work EXCEPT !.more = more], "output")
        /\ UNCHANGED vars
     \/ /\ IF work.page THEN PageFails ELSE ReadingFails
        /\ Becomes(Raised(work, "fetch"), "output")
  /\ UNCHANGED <<script, ui, output>>

-----------------------------------------------------------------------------
(* read_dbms_output: get_lines until it returns fewer lines than asked for.  *)

\* Mutation: what was read before the failure is dropped.
ReadBrokenEmpty(w) == [Warned(w, "read output") EXCEPT !.output = <<>>]

\* The lines read before a failure are kept, and the failure is a warning.
ReadBroken(w) == Warned(w, "read output")

\* What follows the output: the rows of a query that has not failed are turned
\* into a result, else the cursor is closed.
AfterOutput(w) == IF (w.query \/ w.page) /\ w.error = "none" THEN "shape" ELSE "close"

ReadOutput ==
  /\ step = "output"
  /\ LET w     == Opened(work, "output cursor")
         count == IF Len(buffer) < FetchLines THEN Len(buffer) ELSE FetchLines
         taken == [w EXCEPT !.output = @ \o SubSeq(buffer, 1, count)]
         rest  == SubSeq(buffer, count + 1, Len(buffer))
     IN  \/ /\ conn = "open" /\ UNCHANGED <<conn, lost>>
            /\ buffer' = rest
            /\ IF count = FetchLines
               THEN Becomes(taken, "output") /\ UNCHANGED excused
               ELSE /\ \E v \in Closed(taken, "output cursor") : Becomes(v, AfterOutput(v))
                    /\ excused' = "no"
         \/ /\ conn' \in {conn, "dead"}
            /\ \/ UNCHANGED <<buffer, lost>>
               \/ buffer' = rest /\ lost' = lost \cup ToSet(SubSeq(buffer, 1, count))
            /\ \E v \in Closed(ReadBroken(w), "output cursor") : Becomes(v, AfterOutput(v))
            /\ excused' = "broken"
  /\ UNCHANGED <<fixed, workspace, driverAuto, txn, pc, call, lostAnswer>>
  /\ UNCHANGED <<script, ui, written>>

\* The rows are materialized, which may read LOBs; whether they may be edited
\* is asked; a query with more rows than a page keeps its cursor.  A page in
\* the same way keeps the cursor of its result, or closes it.
Shape ==
  /\ step = "shape"
  /\ \/ /\ IF work.page THEN UNCHANGED vars ELSE ReadingDone
        /\ \E w \in {work} \cup {v \in {Warned(work, "editability")} : ~work.page} :
             IF work.more THEN Becomes([w EXCEPT !.open = {}], "answer")
                          ELSE Becomes(w, "close")
     \/ /\ IF work.page THEN UNCHANGED vars ELSE ReadingFails
        /\ Becomes([Raised(work, "materialize") EXCEPT !.more = FALSE], "close")
  /\ UNCHANGED <<script, ui, output>>

\* The finally clause, and the exit of a page that ends its result's cursor.
Close ==
  /\ step = "close"
  /\ IF pc = "raising" THEN Raise ELSE UNCHANGED vars
  /\ \E w \in Closed(work, "statement cursor") : Becomes(w, "answer")
  /\ UNCHANGED <<script, ui, output>>

\* Is the script at its end?
Stops(w) == w.error # "none" \/ script.left = 1

Result(w) == [rows |-> w.query, more |-> w.more, output |-> w.output]

\* append_script_worker_result: the query before this one loses its cursor.
Appended(results, result) ==
  Append([i \in DOMAIN results |-> [results[i] EXCEPT !.more = @ /\ ~result.rows]], result)

\* The loop takes the result of a statement, or stops at its failure.
Answer ==
  /\ step = "answer" /\ ~work.page
  /\ script' = [script EXCEPT
                  !.left = @ - 1,
                  !.results = IF work.error = "none" THEN Appended(@, Result(work)) ELSE @]
  /\ IF Stops(work) THEN Becomes(IF work.error = "none" THEN NoWork ELSE work, "present")
                    ELSE Becomes(NoWork, "next")
  /\ UNCHANGED <<vars, ui, output>>

-----------------------------------------------------------------------------
(* The UI: answers taken up by the presenter, further pages, and help.      *)

Outputs(results) == FlattenSeq([i \in DOMAIN results |-> results[i].output])

\* render_results: the last result with rows is shown as the grid.
Rendered(results) ==
  LET tables == {i \in DOMAIN results : results[i].rows}
      table  == results[Max(tables)]
  IN  IF tables = {} THEN NoGrid
      ELSE [on |-> TRUE, more |-> table.more, output |-> table.output]

\* finish_execution
FinishExecution ==
  /\ step = "present" /\ work.error = "none"
  /\ grid' = Rendered(script.results)
  /\ pane' = Outputs(script.results)
  /\ seen' = seen \o pane'

\* handle_execution_error: the results before the failure, then the failure
\* with its output.  A table of an earlier run stays if nothing replaces it
\* and the operation was interrupted or lost its session.
HandleExecutionError(interrupted) ==
  /\ step = "present" /\ work.error # "none"
  /\ LET partial == script.results # <<>>
         cleared == ~partial /\ ((conn = "open" /\ ~interrupted) \/ ~grid.on)
         shown   == IF partial THEN Outputs(script.results) ELSE IF cleared THEN <<>> ELSE pane
     IN  /\ grid' = IF partial \/ cleared THEN Rendered(script.results) ELSE grid
         /\ pane' = IF script.size > 1 THEN shown \o work.output ELSE shown
         /\ seen' = seen \o Outputs(script.results) \o work.output

Present ==
  /\ FinishExecution \/ \E interrupted \in BOOLEAN : HandleExecutionError(interrupted)
  /\ Becomes(NoWork, "idle") /\ script' = NoScript
  /\ UNCHANGED <<vars, output>>

\* fetch_next_result_page_if_needed, and fetch_more_rows as it begins
FetchMore ==
  /\ step = "idle" /\ pc = "idle" /\ conn # "none" /\ grid.on /\ grid.more
  /\ Becomes([Cursor EXCEPT !.page = TRUE], "rows")
  /\ UNCHANGED <<vars, script, ui, output>>

\* Lines of a page or of its failure are added to those shown.
Merged(lines) == pane' = pane \o lines /\ seen' = seen \o lines

\* apply_fetch_more_result, which drops a page whose result is gone, and
\* handle_fetch_more_error, which does not
PresentPage ==
  /\ step = "answer" /\ work.page
  /\ IF work.error = "none" /\ ~grid.on
     THEN /\ lost' = lost \cup ToSet(work.output)
          /\ UNCHANGED ui
     ELSE /\ grid' = IF ~grid.on THEN grid
                     ELSE [grid EXCEPT !.more = work.more, !.output = @ \o work.output]
          /\ Merged(work.output)
          /\ UNCHANGED lost
  /\ Becomes(NoWork, "idle")
  /\ UNCHANGED <<vars, script, buffer, written, excused>>

ClearTable == grid' = NoGrid /\ pane' = <<>> /\ UNCHANGED seen

\* show_help, at any time
Help == ClearTable /\ UNCHANGED <<vars, plan, step, work, script, output>>

-----------------------------------------------------------------------------
(* The other operations of the workspace, as OracleTransaction has them.    *)

Elsewhere == step = "idle" /\ UNCHANGED <<plan, step, work, script>>

\* The triggers of an edited row may write; nothing reads it.  The answer of
\* an explain plan clears the table, its failure in most cases.
OtherOperation ==
  /\ Elsewhere
  /\ \/ /\ txn.rows < plan.rows /\ \E op \in {"edit", "explain"} : StartCall(op)
        /\ UNCHANGED <<ui, output>>
     \/ Body /\ UNCHANGED ui
        /\ \/ UNCHANGED output
           \/ call.op = "edit" /\ txn' # txn /\ Write(1) /\ excused' = "unread"
     \/ /\ Savepoint \/ KeepEdit \/ Undo \/ FullRollback
        /\ UNCHANGED output
        /\ \/ UNCHANGED ui
           \/ call.op = "explain" /\ pc' = "idle" /\ ClearTable
     \/ /\ Commit \/ RollbackFails \/ SwitchCommitting \/ \E e \in BOOLEAN : SwitchFreely(e)
        /\ UNCHANGED <<ui, output>>

\* A rollback takes the table away; a mode switch that rolls back, if it does.
RollbackEnds ==
  /\ Elsewhere
  /\ \/ RollbackOk /\ grid' = NoGrid
     \/ SwitchRollingBack /\ grid' = IF autocommit' THEN NoGrid ELSE grid
  /\ UNCHANGED <<pane, seen, output>>

\* A new session starts with an empty buffer.
ReconnectStep ==
  /\ Elsewhere
  /\ Reconnect
  /\ grid' = NoGrid /\ UNCHANGED <<pane, seen>>
  /\ buffer' = <<>> /\ lost' = lost \cup ToSet(buffer) /\ excused' = "no"
  /\ UNCHANGED written

SessionDiesStep == SessionDies /\ UNCHANGED execution

CallsNext ==
  \/ \E n \in 1..plan.size : Run(n)
  \/ \E s \in Statement : Execute(s, 0)
  \/ \E rows \in 1..MaxRows : Execute("dml", rows)
  \/ Refuse \/ Diagnose \/ CommitStep \/ Rows \/ ReadOutput \/ Shape \/ Close \/ Answer
  \/ Present \/ FetchMore \/ PresentPage \/ Help
  \/ OtherOperation \/ RollbackEnds \/ ReconnectStep \/ SessionDiesStep

CallsSpec == CallsInit /\ [][CallsNext]_allVars

-----------------------------------------------------------------------------
(* Properties.                                                             *)

CallsTypeOK ==
  /\ TypeOK
  /\ plan \in Plans /\ step \in Steps
  /\ work.error \in Faults \cup {"none"} /\ work.warnings \cup work.faults \subseteq Faults
  /\ work.open \subseteq Cursors
  /\ script.left <= script.size /\ Len(script.results) <= script.size
  /\ buffer \in Seq(1..written) /\ pane \in Seq(1..written) /\ seen \in Seq(1..written)
  /\ grid.output \in Seq(1..written) /\ lost \subseteq 1..written
  /\ excused \in {"no", "broken", "unread"}

Increasing(s) == \A i, j \in DOMAIN s : i < j => s[i] < s[j]

\* "DBMS_OUTPUT is collected after each statement and after every fetched
\* result page": every line is shown once, in the order written, and with the
\* answer of its statement -- unless reading it failed, an edited row's trigger
\* wrote it, its page was dropped for a result that is gone, or its session
\* was replaced.  The lines of the grid's result are those of its pane.
OutputReportedOnce ==
  LET all == seen \o Outputs(script.results) \o work.output \o buffer
  IN  /\ Increasing(all)
      /\ (1..written) \ ToSet(all) = lost
      /\ step \in {"idle", "next"} /\ excused = "no" => buffer = <<>>
      /\ grid.on => Increasing(pane) /\ ToSet(grid.output) \subseteq ToSet(pane)

\* "Output-read or cursor-cleanup failures are displayed as warnings while
\* preserving successfully fetched rows" (README.md): an answer tells of everything
\* that failed, is an exception only if the statement, its rows, its compilation
\* or its commit failed, and leaves no cursor behind but those it tells
\* of.  The one failure it may leave out, a divergence, is that of closing the
\* cursor of the compilation errors when the commit fails after it.
FailuresTold ==
  step = "answer" =>
    LET untold == IF work.error = "commit" THEN {"errors cursor"} ELSE {}
    IN  /\ work.faults \ untold = work.warnings \cup ({work.error} \ {"none"})
        /\ work.error \notin Cursors \cup {"read output", "editability"}
        /\ work.open \ untold \subseteq work.warnings
==============================================================================
