# A TLA+ verification development for plsqlwks

plsqlwks is a curses workspace for Oracle SQL and PL/SQL: an editor with tabs, a
result grid with cell editing and paging, explain plans, plugins that export results.
All access to the database goes through one worker thread that owns the session; the
curses thread starts operations on it and polls their events. This directory models
that program in TLA+, checks the models with TLC and proves the core of them with TLAPS.

## The system

| Part | Where | State | Operations | What makes it hard |
| --- | --- | --- | --- | --- |
| Worker thread | `ui/db_worker.py` | queue, current command, accepting/terminal/stopped, published session state, handles with events and a done flag | submit, cancel, shutdown, ignore; run a command, snapshot, publish, finish, fail the rest, close | two threads, crashes, a stop that races submissions, a cancel that races the end of its command |
| Foreground operations and event loop | `ui/db_operations.py`, `ui/app.py` | the one running operation, the UI's session snapshot, the workers built | start, interrupt, poll, wait, background submit, replace worker, leave | looks at queue and flag separately, callbacks that start the next operation or attach a cursor, timeouts on exit |
| Workspace transactions | `db/transactions.py`, `db/execution.py`, `db/editing.py`, `db/explain.py`, `db/session.py` | autocommit, read-only, pending rows, pending unknown; the driver's autocommit flag and the session's transaction | execute, edit a cell, insert a row, explain, commit, rollback, switch mode, connect, close | every driver call may fail or die half-way; savepoints; a driver flag that cannot always be read |
| Session, mode and quit flows | `ui/db_session.py`, `ui/application_controller.py`, `ui/input_controller.py` | quit_pending, the operation with its callbacks | reconnect, choose mode, commit or roll back before quit | an answer given at a prompt is carried out later on the worker, by a chain of callbacks, any link of which may fail |
| Statements and their answers | `db/execution.py`, `ui/query_controller.py`, `ui/result_presenter.py` | rows, DBMS_OUTPUT lines, warnings and cursors of the statement under way; the results of a script; the grid and the DBMS_OUTPUT pane | run a statement or a script, read compilation errors, rows, LOBs and output, commit, close, show the answer or the failure, fetch a page | a statement that succeeded is followed by up to a dozen calls, each of which may fail alone or after another one |
| Result cursors | `db/execution.py`, `ui/result_presenter.py`, `ui/result_controller.py` | continuation registry of the session, tokens and drafts in the results of tabs | first page, next page, close, detach, insert draft, edit cell | a page for a result that is gone, a token that is stale, cursors that leak |
| Documents | `ui/documents.py`, `ui/buffer.py`, `exporting.py` | buffers, tracked file version, dirty flag, tabs | open, save, save as, rename, close tab, quit | other programs change the file between look and replace |
| Editor buffer | `ui/buffer.py`, `ui/editor_controller.py` | lines, cursor, selection, undo and redo, clipboard | insert, delete, move, comment, change of case, search, undo, redo | undo across edits of every kind; answers from Oracle that arrive while the user types |
| SQL text | `sqlsplit.py`, `sqlbinds.py`, `db/sql_analysis.py`, `db/editing.py`, `ui/sql.py`, `ui/syntax.py` | none | split, preflight, find binds, mask, highlight, decide whether a result may be edited | six scanners of one syntax that must agree; cursor positions carried through them |
| Configuration | `config/` | config.ini: settings and session tabs | load, save a setting, save and restore tabs | read, change and write of one file by two programs and by one program at different times |
| Plugins and export | `ui/plugin_host.py`, `ui/result_export.py`, `plugins/` | the export job | export loaded rows or all pages | source result changes between pages |
| Catalog, browser and completion | `ui/catalog.py`, `ui/completion.py`, `ui/browser.py` | objects and columns of the schema, filter, expanded types, selection | load, filter, open a definition, complete | late answers: the cursor, the tab, the filter or the session has changed meanwhile |
| Screen and keys | `ui/viewport.py`, `ui/renderer.py`, `ui/input_controller.py`, `ui/state.py`, `ui/keys.py` | focus, layout, selection and scroll of each pane, the frame last drawn | draw, route a key to a pane, move, scroll | a key acts on state that a completion or a new terminal size may have changed since the frame was drawn |

The parts meet in few places. The curses thread calls `submit`,
`cancel_current_operation`, `shutdown` and `session_state` of the worker and reads the
event queue and the done flag of handles. The worker thread calls the workspace.
Completions run callbacks on the curses thread, inside `poll`; callbacks start the next
operation. Every decision of the UI about pending work uses the last snapshot it was
given, never the workspace itself. The editor is read by the SQL scanners when a command
starts, and written by its answer, if it is still where it was. A key is answered by the
pane that has the focus, and the user chooses it by the frame drawn before it.

The hazards that follow, each with the line where it bites and the property that would
catch it, are listed in `PROJECT.json` under "hazards".

## Modules

| Module | Models | State in the module → state in the code |
| --- | --- | --- |
| `CommandService` | what a client may expect of the worker: commands are accepted while open, start in order one at a time, each is answered once | no code of its own; the abstract specification of `DatabaseWorker` |
| `DatabaseWorker` | `ui/db_worker.py`, whole | `commands`, `current`, `accepting`, `terminal`, `ready`, `session`, `shutdownError` are the fields of `DatabaseWorker`; `events`, `done`, `ignored` those of `DbCommandHandle`; `pc`, `job`, `mode`, `report` where the thread is in `_run` and `_run_command` and its locals; `workspace` is the session behind it |
| `DatabaseOperations` | `ui/db_operations.py`, the exit of `App.run` | extends `DatabaseWorker`: the same worker thread runs under it. `op` is `state.db_operation`, `ui` is `state.db`, `live` whether any result holds a cursor or an editing handle, `uiPc` where the curses thread is (inside `poll`, in `wait`, in `join`) |
| `OracleTransaction` | the transaction bookkeeping of `db/transactions.py`, `db/execution.py`, `db/editing.py`, `db/explain.py`, `db/session.py`; the tasks of `ui/db_session.py` | `autocommit`, `pending` are fields of `OracleWorkspace`; `driverAuto` is `connection.autocommit`; `txn` the transaction Oracle really has; `pc`, `call` the position in a statement, an edit or an explain plan, and its locals |
| `Execution` | the other calls of a statement, a script or a page (`db/execution.py`) and what the UI shows of their answers (`ui/query_controller.py`, `ui/result_presenter.py`) | extends `OracleTransaction`, whose actions are the driver calls that touch the transaction. `step`, `work` are the position and the locals in `execute_statement` or `fetch_more_rows`; `script` the worker's loop; `buffer` the session's DBMS_OUTPUT buffer; `grid`, `pane` are `active_result` and `state.dbms_output`; `written`, `seen`, `lost`, `excused` are history |
| `ResultCursors` | first pages, further pages, exports, help, rollback, reconnect, tab closing | `tabs`, `res` the results the tabs show; `queue`, `op` the commands and the operation; `open` is `_result_continuations` of the workspace; `conn`, `worker` the session and the worker |
| `ResultGrid` | cell edits and insert drafts of one grid (`ui/result_controller.py`, `ui/viewport.py`) | `grid` the result's `rows`, `original_rows`, `editable_context`, the tab's draft, selection and scroll; `op` the edit with what its closures captured; `table` the rows in the database |
| `SessionControl` | the flows that end a transaction, a session or the program, and config.ini across restarts (`ui/db_session.py`, `ui/application_controller.py`, `config/`) | `db` and `worker` the workspace and its thread; `ui` is `state.db`; `op` the operation with what its callbacks captured (`answer`, `next`); `desk` the tabs; `file` config.ini; `save` a change of it between its read and its replace; `known` is history |
| `SqlText` | what is code in a text: the lexeme scanners of `sqlsplit.py` and `sqlbinds.py`, the mode scanner of `db/sql_analysis.py`, the line scanner of `ui/syntax.py` | functions of a text; a text is a sequence of characters in which a word is one character |
| `SqlStatements` | splitting, the statement at the cursor, preflight (`sqlsplit.py`) | functions of a text |
| `EditableSelect` | which results may be edited, and which column of the table each of their columns is (`db/editing.py`, `db/sql_analysis.py`) | functions of a text, and a reference that says what Oracle would take it for |
| `EditorBuffer` | one buffer: `ui/buffer.py`, search and identifiers of `ui/completion.py` | `text`, `at`, `anchor`, `undo`, `redo` are lines, cursor, selection anchor and history of `Buffer` |
| `EditorSession` | keys, commands and answers over several buffers (`ui/editor_controller.py`, `ui/query_controller.py`, `ui/catalog.py`, error places in `ui/result_presenter.py`) | `buffers`, `active`, `focus`, `clipboard`; `operation` the running command with the context captured for it; `diagnostics` of each tab; `columns`, `objectsLoaded` the completion cache |
| `Documents` | `ui/documents.py`, the file side of `ui/buffer.py`, the atomic write of `exporting.py` | `tabs` the buffers with path, source key, tracked version, clean checkpoint, undo and redo; `disk` the files; `flow` the save, close or quit in progress, at the prompt or step it has reached |
| `Screen` | focus, layout, selection, scrolling and key routing of editor, results and browser (`ui/viewport.py`, `ui/input_controller.py`, `ui/browser.py`, `ui/catalog.py`, `ui/result_controller.py`, `ui/result_presenter.py`, `ui/state.py`) | extends `Documents`: the same tabs are on the screen. `view` is `LayoutState` and the terminal; `panes` the `ResultsState` of each tab; `browser` is `BrowserState`; `load` the operation with the tab it started from; `frame` the last frame drawn, `turn` where the event loop is; `did` is history |
| `MC...` | nothing of its own | constants, symmetry and plans for TLC |
| `...Proofs` | nothing of their own | the theorems about the module of that name, and about the one it extends or is extended by (`DatabaseOperations` and the worker, `Execution` and the transaction, `Documents` and the screen; `EditorProofs` about the buffer, the texts and the session of the editor), with their lemmas |
| `SequenceLemmas` | nothing of its own | induction over numbers and over sequences, and what `FlattenSeq` does to any sequence |

`DatabaseOperations` composes the event loop with the detailed worker. The modules
above it on the UI side (`ResultCursors`, `ResultGrid`, `SessionControl`, `EditorSession`,
`Screen`) take a command as one step, which `DatabaseWorker` justifies: commands run one at
a time, in order, and each is answered once, whatever crashes. Below it, `OracleTransaction`
and `Execution` open up what one command does, one step per driver call. `EditorSession` composes the
buffer with the functions of `SqlText`, `SqlStatements` and `EditableSelect`: their properties
are stated of every text the user can make. `Screen` composes the documents with the panes
around them.

A definition named after a method is that method. Definitions introduced by the comment
"Mutation:" are faulty variants of the definition that follows; `PROJECT.json` says which
property each of them breaks. They take no part in the specifications.

## Runs

| Run | Question | Bounds, and why they suffice |
| --- | --- | --- |
| `worker` | The worker thread against any client: FIFO, nobody stranded after crash or shutdown, interrupts hit only their target, pending work survives a crash, a closed worker stops; the worker implements `CommandService` with its liveness; and the inductive invariant of the proofs | 2 commands, 1 progress event, sinks that may fail, snapshots that succeed, fail or crash; every task leaves an open session with pending work, the case a crash can lose (`ops` has the other sessions). Two commands are what every race here is between; the theorems below remove the bound |
| `ops` | The UI's side: one operation, no pending work hidden from the prompts, handles detached by whoever tells the UI that the session is gone, interrupts that are recorded have acted | 3 commands (one foreground, the next one, maybe started by the completion, one background), 2 workers, so that one may be replaced. That is enough for the exception of `DetachedWhenTold`, see below |
| `ops_live` | Every operation completes for the UI and the program can always be left | 2 commands, 1 progress event, 3 workers, failing sinks and snapshots |
| `ops_lost` | Violation, see Findings | 2 commands |
| `transaction` | The workspace's belief about its transaction against the session's, whatever call fails; every line of DBMS_OUTPUT shown once; every failure told, with one exception | `Execution`, in one of four plans. *Transactions*: every kind of statement, up to 2 rows, so that work before a statement and its own differ, and every combination of read-only, readable transaction flag and deferred constraints. *Output*: scripts of up to 2 queries or blocks and their pages, 3 lines read 2 at a time, so that a read has a first, a full and a short batch. *Compilation*: scripts that create objects, in either mode. *Triggers*: statements and edited rows that write output |
| `transaction_report` | Violation, see Findings | `OracleTransaction` alone, up to 3 rows |
| `cursors` | No row skipped, open cursors match the results shown, a full export is full, results of an ended session or transaction are inert | 2 tabs, 4 results (two shown, one in flight, one being closed), queries of up to 3 pages of one row: first, middle and last page |
| `grid` | No row of a grid without a row in the database but the draft, one draft inserted once | 2 rows and the draft, 2 values, a page of one row, so that every scroll moves the selection |
| `grid_shifted` | Violation, see Findings | the same |
| `session` | Uncommitted work ends by choice only, the lock of a quit ends, a restart restores the tabs and the mode last saved | 3 files, one of them deleted by the restart, and 4 arrangements of tabs in which the active tab has another number on the screen, in the file and after the restart; any number of restarts, kills and writes by other programs |
| `screen` | Files: no version overwritten unseen, unchanged means saved, one tab per file and per schema object, quit asks for each tab. Screen: a key acts on what the frame shows | 2 files, 2 objects of 2 types, 3 tabs, 2 texts, 1 undo level (the limit drops the oldest), 2 writes by other programs; results of up to 2 rows on terminals with 1 or 2 lines for them, so that a result fits or does not; a filter of at most one letter. Four plans, see below |
| `text` | The scanners agree on what is code, what is run is what was written, edits of results change the cell they show, undo is a timeline, completions and error places land where they belong | 2 tabs, 2 undo levels, 4 steps of the user in one of five plans, see below |

Three large state spaces are cut into plans, each a way to use the program in which the
parts that matter to one kind of question interact, the others being still. `MCScreen`
restricts `Next` of `Screen` to one of: *documents* (files, tabs, other programs; nothing on
the screen changes), *browser* (browser keys, layout, resizing, loads of objects and
definitions), *results* (a query's pages, edits, rollback and reconnect, layout, resizing), and
*tabs* (tabs opened, saved, renamed and closed while a table is shown; at most one file, one
edited tab and one table). `MCText` gives `EditorSession` the initial texts, the fragments
that may be typed and the kinds of commands of one plan: *selecting* and *writing* build
every text of up to four fragments of a query or a script, *editing*, *running* and
*completing* start from a text with the interesting places in it. Fragments are several
characters long, so that four of them reach a terminated PL/SQL unit, a q-string with a
quote in it, or a query with an alias and a comment.

Deadlock is checked in `transaction`, `cursors` and `grid`, whose environment never ends.
In the others the worker, the program or the user's plan does stop, so their runs say
`CHECK_DEADLOCK FALSE`; that the worker and the program stop only when they should is what
`NobodyStranded`, `ClosedWorkerStops` and `LeavingEnds` are for. Symmetry is used in runs
with invariants and action properties only, never with liveness.

The bounds are named constants: `MaxCommands`, `MaxProgress`, `MaxWorkers`, `MaxRows`,
the `size`, `lines` and `rows` of a plan, `MaxTabs`, `MaxFilter`, `UndoLimit`, `UndoHistoryLimit`, `MaxWrites`, `PageSize`, and the
`edits` of a plan. `Room` in `DatabaseOperations` keeps one command number free for an operation
that may be interrupted, so that the bound never refuses the command that closes its cursors.

## Fairness

* `WF(Serve)`: the worker is a running Python thread; between two tasks it waits for nothing
  but its queue, and `Take` is enabled only when that holds something.
* `WF(Task)`: a task ends. A driver call returns, fails, or is broken off by
  `connection.cancel()`; that the network layer answers at all is an assumption. Nothing in
  the program bounds the time of a call, and while one hangs no answer is promised, by the
  code or here. In `SessionControl` the same assumption is `WF(TaskRuns \/ WorkerCrashes)`.
* `WF(Poll)`, `WF(WorkerBuilt)`, `WF(StopWorker)`, `WF(Leave)`: the event loop polls around
  every key and at least every 200 ms, and the exit path is straight-line code.
* The user, other programs, other sessions and every failure have no fairness: nothing
  depends on a key ever being pressed or a crash ever happening.

The safety-only specifications (`OracleTransaction`, `Execution`, `ResultCursors`, `ResultGrid`,
`Documents`, `Screen`, `EditorSession`) have none.

## What is proved

Eight modules hold theorems, one of them only the lemmas that others share. The theorems hold
for every value of the constants that satisfies the
named assumption of the module (`WorkerAssumption`, `OperationsAssumption`, ...): every number
of commands, workers, rows, lines, files, tabs and texts, where the runs have a few of each.

| Module | Theorem | Statement |
| --- | --- | --- |
| `DatabaseOperationsProofs` | `InvariantHolds` | `Spec => [](TypeOK /\ WorkerInvariant)` |
| | `TypeCorrect`, `SerialFifoHolds`, `NobodyStrandedHolds`, `CleanShutdownDrainsHolds`, `InterruptHitsItsTargetHolds` | `Spec => []` of the property |
| | `PendingSurvivesCrashHolds` | `Spec => PendingSurvivesCrash`, an action property |
| | `WorkerImplementsService` | `Spec => Service!Init /\ [][Service!Next]_(Service!svars)` |
| `DatabaseOperationsProofs` | `OperationsInvariantHolds`, `OpsTypeCorrect` | `OpsSpec => []` of types, `WorkerInvariant` and `OperationsInvariant` |
| | `OneForegroundOperationHolds`, `RecordedInterruptActsHolds` | `OpsSpec => []` of the property |
| | `DetachedWhenToldHolds` | `OpsSpec => DetachedWhenTold`, an action property |
| | `NoHiddenPendingWorkHolds` | `SnapshotOutcomes = {"ok"} => (OpsSpec => []NoHiddenPendingWork)` |
| `ExecutionProofs` | `InvariantHolds`, `TypeCorrect` | `Spec => [](TypeOK /\ TransactionInvariant)` |
| | `LiveWorkTrackedHolds`, `RowCountExactHolds`, `DriverFollowsModeHolds`, `UncertainOutcomeRememberedHolds` | `Spec => []` of the property |
| | `EarlierWorkKeptHolds` | `Spec => EarlierWorkKept`, an action property |
| | `CallsImplementTransaction` | `CallsSpec => Spec` |
| | `CallsKeepTheBooks` | `CallsSpec` implies the five properties of `OracleTransaction` |
| | `FailuresToldHolds` | `CallsSpec => []FailuresTold` |
| | `OutputReportedOnceHolds` | `CallsSpec => []OutputReportedOnce` |
| `DocumentsProofs` | `InvariantHolds`, `TypeCorrect` | `Spec` and `ScreenSpec` imply `[](TypeOK /\ DocumentsInvariant)` |
| | `NothingOverwrittenUnseenHolds`, `CleanMeansSavedHolds`, `OneTabPerFileHolds` | `Spec` and `ScreenSpec` imply `[]` of the property |
| | `QuitAsksForEveryTabHolds` | `Spec` and `ScreenSpec` imply `QuitAsksForEveryTab`, an action property |
| | `KeysActOnWhatIsShownHolds` | `ScreenSpec => []ScreenInvariant /\ []KeysActOnWhatIsShown` |
| `ResultGridProofs` | `InvariantHolds`, `TypeCorrect` | `Spec => [](TypeOK /\ GridInvariant)` |
| | `NoPhantomRowHolds`, `InsertedOnceHolds` | `Spec => []` of the property |
| `ResultCursorsProofs` | `InvariantHolds`, `TypeCorrect` | `Spec => []IInv`, which is types, `Session` and `CursorInvariant` |
| | `NoRowsSkippedHolds`, `CursorsMatchResultsHolds`, `FullExportCompleteHolds`, `StaleResultsInertHolds` | `Spec => []` of the property |
| `SessionControlProofs` | `InvariantHolds` | `Spec => []SessionInvariant` |
| | `WorkEndsByChoiceHolds` | `Spec => WorkEndsByChoice`, an action property |
| | `FileInvariantHolds`, `RestartRestoresHolds` | `Spec => []FileInvariant`, `Spec => RestartRestores`, an action property |
| `EditorProofs` | `EditorInvariantHolds` | `Spec => []EditorInvariant` |
| | `UndoTimelineHolds`, `CompletionWhereAskedHolds`, `ErrorsPointAtSourceHolds` | `Spec` implies the property, an action property |
| | `ScannersAgree` | for every text, the first parts of `SameCode`: the scanners that look for lexemes, those that go character by character, the binds they find and, where no `q'` is followed by a blank, the loop of `split_script` |

Two more things are assumed, both in statements. `NoHiddenPendingWorkHolds` has the
hypothesis that the state of a workspace can always be read, as that of `OracleWorkspace` can
(its health check catches what the driver raises, `db/session.py:80-83`, and the rest are its own
fields); the run `ops` has it too. It is needed: when the state cannot be read the worker
publishes the one it knew before. `DocumentsAssumption` says that
templates, schema objects and files have different keys; the code gives them the prefixes
`template:`, `schema://` and `file:`. The assumptions of `SessionControl`, `Screen` and
`EditorSession` say what the constants are: a desk has one tab per file (`OneTabPerFile`) and its
active tab is one of them; the names in the browser are those of the objects, each once; texts
are sequences of strings, and the characters the program itself writes are strings (`Written`),
which the provers do not take for granted.

No property is inductive. What each invariant adds:

**The worker.** `NobodyStranded` says nothing of a thread that has yet to stop, `SerialFifo`
nothing of the queue. `WorkerInvariant` has four parts, and is also checked by the run `worker`:

* `QueueInOrder`: the queue holds exactly the latest commands, in the order of their
  numbers, a stop only as its last item, and a queued stop means that nothing more is
  accepted. This is where the lock around submit and shutdown is used.
* `InHand`: the command the thread works on is the last one taken, is not done, and is the
  published current command exactly while its task may be interrupted.
* `TakenAnswered`: every command taken is done or in hand, and has run unless the thread is
  failing what was left over. `SerialFifo` follows from it together with `InHand`.
* `WayOut`: a thread on its way out accepts nothing and leaves an empty queue.
  `NobodyStranded` and `CleanShutdownDrains` follow from it with `TakenAnswered`.

The same invariant carries the refinement: the state of `CommandService` is computed from
the variables of the worker, and each action is shown to be one of its steps or a stutter, for
which `Take` has to take the oldest open command and nothing but the command in hand may be
answered by a running thread.

**Operations.** The worker's steps are those of `DatabaseWorker`, the client's are the UI's, so
the theorem starts by carrying `WorkerInvariant` over: a completion that submits several
closing commands keeps it (`BatchedKeeps`). `OperationsInvariant` then ties the two threads
together. `OneOperation` says that a foreground command whose completion has not been emitted is
the operation: this is what makes "one at a time" true of the worker and not only of the UI's
flag. `EventsInOrder` says that a completion is in the queue only once the thread has emitted it.
`PendingInvariant` follows the knowledge of pending work on its way: in the workspace and
published, or in a command on its way to its report (`PendingPublished`); in the report
(`PendingReported`); in the completion the operation has still to see (`PendingDelivered`).
`DetachedWhenTold` is about the order within one completion, in which the session may be found lost
by the event, by the release of the previous result, by the callback's next operation or by closing
cursors after an interrupt, while the callback attaches a result in between. `PollEventDetaches`
goes through these cases. The exception the property names is described under "What the code does
otherwise".

**Transactions.** `StatementInv` says that outside of edits and explain plans the belief of the
workspace is about the session's transaction and the driver's flag is the mode; `EditInv` that
within them the belief is about the transaction before the savepoint, and that a rollback of
the whole transaction is allowed only when none was open then; `ProgressInv` how far each
step may be from that point, whichever call has failed; `OutcomeInv` where a call without an
answer leaves the program. `WellFormed` is a fact about Oracle: rows are changed in an open
transaction. `Execution` only takes steps of `OracleTransaction` or leaves it alone, so that
`CallsImplementTransaction` carries every theorem over to whole statements and scripts.
`FailuresTold` needs, for each call of a statement, the cursors still to be closed and
whether there can be an exception yet (`WorkInv`). It also says which warnings there can be when the
compilation is looked at and when the commit is called: the cursor of the compilation errors at
most. That is all an exception made of a failing commit alone can leave out, and what the
property excuses.

`OutputReportedOnce` is about the order of lines that are spread over five places. `LinesInv`
puts these in a row: what was shown, the results of the script so far, the output of the
statement under way, what is left in the session's buffer. That row, with the lost lines taken out of
what was written, is every line once and in order (`Accounts`); each call only moves a piece of
it to the left, which takes lemmas on `FlattenSeq` and concatenation for sequences of any length
(`SequenceLemmas`).

**Documents.** `Kept` says what one tab remembers: every record of its undo and redo history
carries its present path, the marker compares with the last load or save, and the tracked version is
of that moment. `Apart` says that keys of files and objects are not shared. `Sound` says,
for each prompt and step of a save, that no other tab has the target, that what will be
replaced is absent, agreed to or tracked, and is still on the disk unless another program came in
between, and that a quit has settled the tabs before the active one. `NothingOverwrittenUnseen` is
about steps of several flows and of other programs, and follows from `Sound` at the one
step that writes.

**The screen.** `KeysActOnWhatIsShown` compares a key with the frame drawn before it. `FrameKept` says
that at the time a key is awaited the frame is that of the present state: between the drawing
and the key nothing but a resize, which draws again, may come. It needs `View` (the table has the
screen to itself exactly if the layout says so), `Pane` (a tab has a table or a plan) and that there
is one pane for each tab, whichever flow of `Documents` opens or closes one.
Under the screen, loads of definitions open tabs too: `LoadInvariant`
says that no tab with the object of a load has appeared since it began, and that no tab is
closed while an operation runs, so that the tab the load began in is there when it ends.

**The grid.** `RowsOnce` says that no row of the table is shown twice, nor the row an insert has
returned shown before its callback takes it over: a draft that becomes that row is then the
only place of it. `AnswerKnown` says what an answer carries. `DraftSentOnce` ties the draft to
the insert that sends it: until the callback has run the draft cannot be sent again, and
once the table has the row, the callback turns the draft into it or detaches the grid,
also when the answer is lost or interrupted. That the table has finitely many rows is assumed
(`GridAssumption`).

**Cursors.** Three parties know something of an open cursor: the result of a tab, by its token;
the queue, by a task that will use it or a command that will close it; the session, by its registry.
`CursorsMatchResults` holds only when the queue is empty, so `CursorInvariant` says what they
know of each other before that. `Honoured` and `NoneLeaks` are its two halves: a token is in the
registry, and what is in the registry is held or about to be closed, the new results of a script
that has yet to be told included. `ClosingLetGo` keeps the two apart: what is about to be closed
nobody holds any more, which takes that a result is shown by one tab only (`TabsApart`).
`InStep`, `PageKnown` and `ExportKnown` follow the rows: the next row of a cursor is
the one after those of the result, or after those of the page or the export under way.
`NoRowsSkipped` and `FullExportComplete` follow from them. `Fresh`, `NoSession` and
`TaskKnown` say that rollback, lost sessions and reconnects leave no token behind.

A page that has come makes the token of its result a step old until the UI is told, and so
does a rollback for all of them; `Spent` and `Ahead` are these exceptions. Within one step of
the UI several helpers follow each other, so the lemmas about them speak of `Good(s, X, Y,
leak)`, the invariant of a record `s` but for the results `X` and `Y` and with cursors nobody
holds when a failure is about to detach them all. A handler ends with the exceptions gone, or in the
detachment of every result (`CompletionKeeps`). That there are finitely many results, of which
`close_all_result_continuations` visits those of the tabs, is assumed
(`CursorsAssumption`).

**The session.** `WorkEndsByChoice` compares two states, and needs to know of the first that
whoever acts next knows of the work. `WorkKnown` says who that is: between two operations the
UI's snapshot, mode included, which decides whether a question is asked; after a task its report,
which the completion gives to the UI; while one is under way the task itself, which leaves the work
alone or was started with an answer. That holds in both modes, for an edit may leave work in
autocommit mode. A quit goes on only when no work is left. `AnswersGiven` says that a
commit, a rollback and whatever follows them were asked for; `TaskAlone` that a task runs on a worker
that is up and never beside the save that ends the program.

`RestartRestores` compares the program after a restart with what was last saved before it.
`FileKnown` says what config.ini holds meanwhile, whoever has written the rest of it; `CopyCurrent` that
the copy a save is about to write back is the file, unless the save has been raced;
`QuitKeepsDesk` that the arrangement saved by a quit is the one the user sees. What the restored
tabs are is computed from the saved list without the files that are gone (`Among`), and the number of
the active tab from the tabs before it: lemmas on filtered sequences, by induction.

**The editor.** `EditorInvariant` is what each part must know of a text it did not make. `BufferOK`:
the cursor is in the text and undo and redo together stay within the limit, so that redo never drops
an entry and walks the line of texts back as far as it goes. With it every command of the
buffer is a step along the timeline, an edit that one undo takes back, or leaves the history alone
(`OnTimeline`); the lemmas go through every command, down to the lines that a toggled
comment rewrites and the SQL that is generated. `OperationOK`: what runs stands in the text it was sent
from at the place kept for it (`StandsAt`), which rests on what splitting, preflight and the mapping of lines and
columns do to any text: `SplitScriptStands`, `PreflightInText`, `PieceAtPlace`.
`DiagnosticsOK`: each diagnostic is at the place of a character of what was sent, so that moving to
it, now or after any number of edits and undos that bring the text back, puts the cursor on
that character. `CompletionWhereAsked` adds that a completion replaces the word before the
cursor and leaves what is behind it (`CompletionIsChange`).

**The scanners.** `ScannersAgree` is about texts alone. One kind of scanner (`Kinds`) jumps from
where a literal begins to where it ends, which it looks for with `find`; the other (`Scan`) keeps a
mode and decides at each character whether it ends there. Both are recursive functions, whose
equations hold only if such functions exist: `RecursionExists` proves that they do
(`Recurs`), by induction over what is left of the text. `ModesRead` says what one read of `Scan`
contributes, `EndsAt` when a read closes the mode and `RunsTo` that from there to the
first such place all characters have one mode. `KindsAreModes` puts them side by side: where a lexeme begins the
scan is in code, opens its mode and runs to its end, and both go on from there. A quote that is doubled
makes this less than obvious: the scan with `doubled` reads two characters at once, the one
that jumps looks for the first quote without another behind it, and `sql_code_mask` and the loop
of `split_script` differ in doing so for quoted identifiers; `ScansSame` shows that a scan that
closes at one quote and opens again at the next gives every character the same mode.

**Induction.** Where a proof needs what a recursive function or a fold computes, the induction is over
numbers or over the length of a sequence, with the claim given as a set of numbers: the
library's induction theorems take an operator, which the provers cannot instantiate, and
`SequenceLemmas` derives set forms of them from the least element of a set. The scanners are
functions whose argument moves towards the end of the text; the general facts on such functions
(`EditorProofs`: `Walks`, `Gathers`, `Arrives`, `RecursionExists`) are proved once, by a measure of the argument.

The proof that a step preserves an invariant has one case per action. The inductive invariants
have been checked with TLC before they were proved, with the constants of the runs: `TypeOK` and
`TransactionInvariant` on `OracleTransaction` with 3 rows, `OperationsInvariant` and
`PendingInvariant` on the run `ops` (`OperationsInvariant` also with snapshots that fail),
`DocumentsInvariant` on the run `screen`, `GridInvariant` on `grid`, `CursorInvariant` on
`cursors`, `SessionInvariant` and `FileInvariant` on `session`, `LinesInv` on `transaction`,
`ScreenInvariant` on `screen`, `EditorInvariant` on `text`. They are not among the properties of the runs, which
state what the program promises.

### Only model-checked

* Liveness (`QuitLockEnds` and the others), and the fairness part of `ImplementsService`: outside
  what the prover handles.
* `EveryScanSeesTheSameCode`, `EveryRunIsTheScript` and `EditsChangeWhatIsShown`. They hold of the
  texts the user can make from the fragments of the run `text`, and not of every `Plans`, so
  there is no theorem to state of them for all constants:
  * `SameCode` fails for a text with a `q'` and a blank behind it, and `StatementsAreTheScript` for `/;`
    (both under "What the code does otherwise"). Oracle accepts neither. Of `SameCode`, `ScannersAgree`
    proves what the scanners of whole texts see; that the highlighter, line by line, and the
    stripping of comments agree with them stays with TLC. Of `StatementsAreTheScript`, that every
    statement stands in the script where it is reported to is proved (`SplitScriptStands`), in every
    text; that it is read as one statement on its own, and that only comments and separators
    are left between statements, is not.
  * `EditsLandOnTheirColumn` compares the program's reading of a query with what Oracle makes of
    it, two grammars over lexemes that recurse into brackets and subqueries.

## Findings

Each is a run that violates a property taken from the project's own words.

* `ops_lost`: `poll` looks into the event queue before it looks at the done flag
  (`ui/db_operations.py:234-236`). A completion emitted in between is never read; the
  operation completes with a made-up error that says the session is gone, though it is there.
* `transaction_report`: a commit that fails because Oracle rolls the transaction back (a
  deferred constraint) leaves the tracked row count as it was; the next commit reports rows it
  did not commit (`db/transactions.py:290`).
* `grid_shifted`: an edit below an insert draft writes its result back by row number
  (`ui/result_controller.py:567-576`). If the draft is cancelled meanwhile, the value and
  the "original" the next edit is compared with end up in the wrong row.

## What the models assume or leave out

Worker and operations
: A background command only closes cursors, which is all the program submits that way.
  `OracleWorkspace` can always be snapshotted; other workspaces, which the worker allows for,
  may fail (`AnyRead`). A replaced worker is terminal and is dropped from the model. The
  content of results is nothing here.

Transactions
: Writing the driver's autocommit flag is local and does not fail on a live connection. A
  dead session reports its last transaction flag, or none. Oracle undoes a failed statement.
  The savepoint is gone when a commit has been answered by a rollback. In read-only mode
  explain plan only runs the query itself. The connect inside `ensure_connected` is the action
  `Reconnect`.

Statements and their answers
: A line of DBMS_OUTPUT is its number; a page of rows is whether more are left; values, LOBs and
  the wording of warnings are left out. A call after the session has died fails. `get_lines`
  that fails may have taken its lines from the buffer or not; the next line written may then
  drop what is left in it, as Oracle does. Closing a cursor succeeds or fails; which one failed
  is what an answer has to tell. The registry of cursors between pages is that of
  `ResultCursors`; here one grid has at most one. History variables record what each property
  compares: `faults` what failed, `open` the cursors of the operation, `lost` the lines no
  answer will show.

Cursors
: A page is one row; a result without columns has no cursor and is not represented; a result
  that nothing refers to is collected and its identity used again; a closed tab is a tab that
  shows nothing; handlers run with their operation's tab active, so the active tab is
  implicit. The made-up completion of `ops_lost` is left to `DatabaseOperations`. `size`
  and `current` are history. A rollback or commit that precedes a reconnect is a step of its
  own, whose error may keep the table (`preserve_results_on_error`).

Grid
: One editable column; running a statement is one step; rollback and reconnect are the step
  that drops the result; row detail and the cell viewer change no row. The place of a deleted
  row that is still shown is not given to another row. `inserted` and `readFrom` are history.

Documents
: A path is the file it resolves to. Other programs write only versions that save would not
  write (`Foreign`), at most `MaxWrites` times, at any step, prompts included. One key is
  handled to its end before the next. Closing and quitting are refused while a database
  operation runs; the question about pending work appears as a free choice whether the
  program goes on (`SessionControl` has it). The window between the last look at a file and
  `os.replace` is in the model, and no property forbids the loss in it.

Session and configuration
: A task is one step, in which the session may die and after which the worker may have died.
  `e.db.work => e.db.pending`, that work is tracked, is taken from `OracleTransaction`. The
  made-up completion of `ops_lost` is left to `DatabaseOperations`. `write_ini_atomic` replaces
  the file in one step or not at all, and so do other programs; the default options are added
  in the step that starts the program. Cursor positions of the saved tabs are left out. When
  two programs write between each other's read and replace, one section is lost: `raced`
  marks that case and `RestartRestores` allows it, since nothing in the code or its documents
  promises more. With a worker or session that died with pending work, commit and rollback are
  refused, and only a reconnect that discards the work lets the user quit.

SQL text
: A word is one character with the blank after it, and one word stands for all words the code
  treats alike (named in the modules); case, labels before blocks, `or replace`,
  `editionable`, brackets in names, and the classification of DML are left out.
  `EditsLandOnTheirColumn` speaks of queries that Oracle would run on one base table
  (`OracleRuns`).

Editor
: The display width of characters, the system clipboard and quoted or qualified names in
  completion are left out. A dialog and its keys are one step. The answer of a command is one
  step with the tab it came from made active, as `poll` does it.

Screen
: How many rows fit is a function of the terminal's height and the layout, without the lines of
  borders; the layouts half and third are one, `split`. The terminal may be resized at any
  time. Values of cells, insert drafts, columns and horizontal scrolling, the scroll positions
  of text panes, Alt-digit tab numbers, and the effects of a metadata load for completion are
  left out. Commit and a switch of mode complete as a rollback or a connect does, as far as
  focus and results go, and are represented by these. Without pressing a key `did` is unchanged;
  it and `frame` are what the properties compare.

### What the code does otherwise

Behaviour that a reader might not expect. The models contain it; where a property would
speak of it, the property says that it does not.

* `split_script` gives a statement of several lines an `end_col` that is at least its first
  column (`sqlsplit.py`, the `flush` helper), so in
  `select 1 from dual; delete from a⏎where b;commit` with the cursor on `commit` the statement
  chosen is the `delete` (`statement_contains_cursor`).
* Two failures are not told, by intent of the code: closing the cursor of a query that a later
  query of the same script supersedes (`ui/query_controller.py:118`), and closing a cursor in
  the background (`ui/result_presenter.py:246`). The README of the program says that cleanup
  failures are shown as warnings; `FailuresTold` speaks of the cursors of one
  statement or page.
* A third failure is lost against those words. When the autocommit of a statement that compiled
  fails, the exception is made without the warnings of the compilation (`db/execution.py:252-267`),
  so the failure to close the cursor of the compilation errors (`db/execution.py:173-178`) is not told,
  as it is when the commit succeeds. `FailuresTold` excuses this one. A failed first fetch
  (`db/execution.py:182-193`) leaves the same warnings out, but what is compiled has no rows to fetch.
* A result may keep its cursor and editing handles while the UI shows no session, against
  ARCHITECTURE.md:58-60. A query's completion says connected, and the worker crashes in a background
  command before the UI handles it. Showing the result first releases the cursor of the previous one
  (`ui/result_presenter.py:350-351`); this is refused, and all results are detached
  (`ui/db_operations.py:409-422`). Then the new result is attached with its cursor
  (`ui/result_presenter.py:402`), and the last look (`ui/db_operations.py:296-304`), which is there for
  results attached late, goes by what the event said. `DetachedWhenTold` excuses this step and no
  other; without the exception TLC finds it within the bounds of `ops`. The next
  submission, refused in turn, or a reconnect that discards the session detaches the result.
* An edit in autocommit mode whose commit fails, and whose rollback to the savepoint and of the
  transaction fails too or may not be tried (`db/transactions.py:93-138`), leaves its work uncommitted.
  It is marked as pending (`db/transactions.py:349-354`), so reconnect and quit ask about it; but the
  next statement that autocommits commits it without a question. `WorkEndsByChoice` counts a
  statement of the user as a choice, in either mode.
* A page whose result is gone when it arrives, by F1 say, is dropped with its DBMS_OUTPUT lines.
  What the trigger of an edited row writes is not read by the edit and comes with the answer of
  the next statement. `OutputReportedOnce` allows for both (`lost`, `excused`). A full export
  does not show the output of its pages; it is not in `Execution`.
* The preflight for client commands looks at the first code of each line only
  (`sqlsplit.py:484-488`): `select 1 from dual; prompt x` passes it and is refused by Oracle.
  `CommandAfterStatement` names this case.
* `split_script` takes a blank behind `q'` as the delimiter of a literal (`sqlsplit.py:765-767`), as no
  other scanner of the program and as Oracle does not (`db/sql_analysis.py:21`,
  `sqlsplit.py:565`): after `q' a'` its loop is still in a literal, the mask is in code.
* `/;` passes the preflight, which looks for a line of `/` or `;` alone, and is split into the
  statement `/`, which Oracle refuses and the preflight would have.
* A failed load of a definition leaves the tab active from which it was asked for.
* With the table full screen and DBMS_OUTPUT (F6) or row detail (F8) selected behind it,
  `_prepare_results` returns early, so the grid on the screen no longer follows its selection
  (`frame.behind`). F9 and Tab can move the focus to a pane that the full-screen layout does
  not draw. `result_grid_fullscreen` belongs to the application
  while results belong to tabs.
* A completion that ends while the user types into the browser's filter may move the focus to
  the editor; the keys that follow go there.

### Not modelled

Colours, borders and drawing (`ui/renderer.py` but for the frame it prepares), key decoding
(`ui/keys.py`, `ui/key_reader.py`) and dialogs: no other part relies on their state. File formats
of exports and Markdown or CSV output: formatting of data. Loading of plugins: one pass over a
directory at start. The parsing of error texts and of compilation errors: text. The
developer tools: not part of the program. The mixins `ui/app_*.py`: nothing imports them.

## Plan

Every safety invariant and every action property of the runs is proved, but for the three above
("Only model-checked"), and the refinement of `CommandService` but for its fairness. What could be added:

* `ScannersAgree` for the stripping of comments and the highlighter: `StripSqlComments` deletes and
  inserts characters, so the second scan runs over another text, and `TokenizeSqlLines` starts
  anew on each line from the mode the last has left. Both fit the lemmas on `Scan`.
* `StatementsAreTheScript` with the literals and slashes above excluded: `Cut` is a scan of the rest
  of the script, and a statement on its own has to be cut at the same place.

