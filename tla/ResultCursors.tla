--------------------------- MODULE ResultCursors ---------------------------
(***************************************************************************)
(* The life of a server cursor: a query leaves one open on the session     *)
(* when its rows exceed a page, the result shown in a tab holds its token  *)
(* (the continuation), further pages and full exports advance it, and it   *)
(* is closed by the worker, on its own, on behalf of the UI or with the    *)
(* session (db/execution.py, db/session.py, ui/result_presenter.py,        *)
(* ui/result_export.py, ui/query_controller.py, ui/db_operations.py,       *)
(* ui/db_session.py).  The UI's lists and the session's registry are kept  *)
(* equal only by commands that cross the worker's queue.                   *)
(*                                                                         *)
(* A command runs in one step here; DatabaseWorker has the steps inside.   *)
(***************************************************************************)
EXTENDS Integers, Sequences, FiniteSets, SequencesExt, TLC

CONSTANTS
  Result,         \* results with columns; one stands for its token, too
  Tab,            \* editor tabs; a closed tab is one that shows nothing
  None,           \* no result, no tab
  MaxRows         \* bound on the rows of a query; a page holds one row

ASSUME CursorsAssumption == /\ MaxRows \in Nat \ {0} /\ None \notin Result \cup Tab
                            /\ IsFiniteSet(Result)

VARIABLES
  tabs,           \* what each tab shows, and its last result
  res,            \* the UI's copy of each result
  ui,             \* state.db.connected: the snapshot the UI decides by
  queue,          \* commands the worker has not taken yet
  op,             \* the foreground operation, with its reply once it ran
  open,           \* _result_continuations: the cursors open on the session,
                  \* with the rows handed out and the rows of the query
  conn,           \* the session: open, dead (unnoticed by close), none
  worker          \* is the worker serving, or terminal?

vars == <<tabs, res, ui, queue, op, open, conn, worker>>
uiVars == <<tabs, res, ui>>
sessionVars == <<open, conn>>

Kinds == {"none", "execute", "explain", "more", "rollback", "other", "connect",
          "export-fetch", "export-write"}
Rows == BoundedSeq(1..MaxRows, MaxRows)
Shown == [active : Result \cup {None}, last : Result \cup {None}]
Blank == [active |-> None, last |-> None]

\* QueryResult: rows by their place in the query, has_more_rows, a
\* continuation, an editable context; and, as history, how many rows the
\* query has and whether the session and transaction it was read in still
\* exist.  Unread stands for a result that nothing refers to.
Unread == [rows |-> <<>>, more |-> FALSE, cursor |-> FALSE, edit |-> FALSE,
           size |-> 0, current |-> FALSE]
Idle == [kind |-> "none", tab |-> None, of |-> None, full |-> FALSE, rows |-> <<>>,
         cursor |-> FALSE, cancel |-> FALSE, reply |-> "pending", news |-> <<>>,
         page |-> [row |-> 0, more |-> FALSE], up |-> FALSE]

Start(kind, t, r) == [Idle EXCEPT !.kind = kind, !.tab = t, !.of = r]

Init == /\ tabs = [t \in Tab |-> Blank]
        /\ res = [r \in Result |-> Unread]
        /\ ui = TRUE /\ queue = <<>> /\ op = Idle
        /\ open = << >>
        /\ conn = "open" /\ worker = "serving"

Busy == op.kind # "none"
InTabs(ts) == {r \in Result : \E t \in Tab : r \in {ts[t].active, ts[t].last}}
Closing == {queue[i].of : i \in 1..Len(queue)}
Unused == Result \ (InTabs(tabs) \cup {op.of} \cup Range(op.news) \cup DOMAIN open \cup Closing)
Command(kind, r) == [kind |-> kind, of |-> r]

-----------------------------------------------------------------------------
(* The UI's helpers, on a record s of what a UI step changes.              *)

Ui == [tabs |-> tabs, res |-> res, ui |-> ui, queue |-> queue, op |-> op]
Becomes(s) ==
  LET kept == InTabs(s.tabs) \cup {s.op.of} \cup Range(s.op.news)
  IN  /\ tabs' = s.tabs /\ ui' = s.ui /\ queue' = s.queue /\ op' = s.op
      /\ res' = [r \in Result |-> IF r \in kept THEN s.res[r] ELSE Unread]

Stripped(s, rs, keep) ==
  [s EXCEPT !.res = [r \in Result |->
     IF r \in rs THEN [s.res[r] EXCEPT !.cursor = FALSE, !.edit = keep /\ @] ELSE s.res[r]]]

\* _detach_live_result_state
Detach(s) == Stripped(s, InTabs(s.tabs), FALSE)

\* submit_background; a refusal synchronizes the snapshot
SubmitBackground(s, cmd) ==
  IF worker = "serving" THEN [s EXCEPT !.queue = Append(@, cmd)]
                        ELSE Detach([s EXCEPT !.ui = FALSE])

\* close_all_result_continuations: each of rs that holds a token lets go of it
\* and has its cursor closed, in some order, or is refused that.
ReleaseAll(s, rs) ==
  LET held == {r \in rs \ {None} : s.res[r].cursor}
      free == [s EXCEPT !.res = [r \in Result |-> [s.res[r] EXCEPT !.cursor = @ /\ r \notin held]]]
  IN  IF held = {} THEN s
      ELSE IF worker = "serving"
           THEN [free EXCEPT !.queue = @ \o SetToSeq({Command("close", r) : r \in held})]
           ELSE Detach([free EXCEPT !.ui = FALSE])

\* Mutation: the token is dropped without a command to close it.
ReleaseSilently(s, r) == IF r = None THEN s ELSE [s EXCEPT !.res[r].cursor = FALSE]

\* release_result_continuation
Release(s, r) == ReleaseAll(s, {r})

\* _clear_table_result_state, and what explain does to the tab's table
ClearTable(s, t) == [Release(s, s.tabs[t].active) EXCEPT !.tabs[t].active = None]

\* invalidate_results_after_rollback
Invalidate(s) == [Stripped(s, InTabs(s.tabs), TRUE) EXCEPT !.tabs = [t \in Tab |-> Blank]]

\* render_results: the last table is shown, the others and what was shown
\* before let their cursors go.  Results without columns hold no cursor and
\* are not represented.
Render(s, t, list) ==
  LET shown == IF list = <<>> THEN None ELSE Last(list)
  IN  [ReleaseAll(Release(s, s.tabs[t].active), Range(list) \ {shown})
        EXCEPT !.tabs[t] = [active |-> shown, last |-> shown]]

\* handle_fetch_more_error
PageFailed(s, t) == LET r == s.tabs[t].active
                    IN  IF r = None THEN s ELSE [s EXCEPT !.res[r].cursor = FALSE]

-----------------------------------------------------------------------------
(* Operations the user starts.  start() refuses a second one, and one for  *)
(* a worker that is gone; only connecting replaces such a worker.          *)

StartOn(s, o) == IF worker = "serving"
                 THEN [s EXCEPT !.op = o, !.queue = Append(@, Command("task", None))]
                 ELSE Detach([s EXCEPT !.ui = FALSE, !.op = Idle])

StartPlain(kind, t) ==
  /\ ~Busy
  /\ Becomes(StartOn(Ui, Start(kind, t, None)))
  /\ UNCHANGED <<sessionVars, worker>>

RunStatements(t) == StartPlain("execute", t)
Explain(t)       == StartPlain("explain", t)
Rollback(t)      == StartPlain("rollback", t)
StartOther(t)    == StartPlain("other", t)

\* fetch_next_result_page_if_needed
FetchMore(t) ==
  LET r == tabs[t].active
  IN  /\ ~Busy /\ ui /\ r # None
      /\ res[r].cursor
      /\ Becomes(StartOn(Ui, Start("more", t, r)))
      /\ UNCHANGED <<sessionVars, worker>>

\* Mutation: a reconnect leaves the results as they are.
KeepResults(s) == s

\* What _start_connect(force=True) does before the operation starts.
LetGo(s) == Invalidate(ReleaseAll(s, InTabs(s.tabs)))

\* _start_connect(force=True).  A terminal worker is replaced, with its
\* queue, its registry and its session.
Reconnect(t) ==
  LET o == Start("connect", t, None)
  IN  /\ ~Busy
      /\ worker' = "serving"
      /\ \/ /\ worker = "serving"
            /\ Becomes(StartOn(LetGo(Ui), o))
            /\ UNCHANGED sessionVars
         \/ /\ worker = "gone"
            /\ Becomes([LetGo(Ui) EXCEPT !.op = o, !.queue = <<Command("task", None)>>])
            /\ UNCHANGED sessionVars

\* show_help: not refused while an operation runs.
Help(t) == /\ Becomes(ClearTable(Ui, t))
           /\ UNCHANGED <<sessionVars, worker>>

\* close_active_tab
CloseTab(t) ==
  /\ ~Busy
  /\ Becomes([ReleaseAll(Ui, {tabs[t].active, tabs[t].last}) EXCEPT !.tabs[t] = Blank])
  /\ UNCHANGED <<sessionVars, worker>>

\* interrupt(): taken into account for a command that has not ended, and
\* by an export's own flag at any time.
Interrupt == /\ Busy /\ ~op.cancel
             /\ op.reply = "pending" \/ op.kind \in {"export-fetch", "export-write"}
             /\ op' = [op EXCEPT !.cancel = TRUE]
             /\ UNCHANGED <<uiVars, queue, sessionVars, worker>>

-----------------------------------------------------------------------------
(* Exports.  The job travels in op: its private rows and token.            *)

SourceIsCurrent(s, job) == s.tabs[job.tab].active = job.of

\* _abort_changed_result
Abort(s, job) ==
  LET dropped == [s EXCEPT !.res[job.of].cursor = FALSE]
  IN  IF job.cursor THEN SubmitBackground(dropped, Command("close", job.of)) ELSE dropped

StartWriter(s, job) ==
  IF SourceIsCurrent(s, job)
  THEN StartOn(s, [job EXCEPT !.kind = "export-write", !.reply = "pending"])
  ELSE Abort(s, job)

FetchNextPage(s, job) ==
  IF ~SourceIsCurrent(s, job) THEN Abort(s, job)
  ELSE IF ~job.cursor THEN StartWriter(s, job)
  ELSE StartOn(s, [job EXCEPT !.kind = "export-fetch", !.reply = "pending"])

\* Mutation: an export of all rows does not ask for a cursor.
ExportAnyway(t, full) == ~Busy /\ tabs[t].active # None

\* The conditions under which __call__ goes on to the file name.
Exportable(t, full) ==
  /\ ~Busy /\ tabs[t].active # None
  /\ LET r == res[tabs[t].active]
     IN  full => /\ r.more => r.cursor
                 /\ r.cursor => ui

Export(t, full) ==
  LET r == tabs[t].active
      job == [Start("export-write", t, r) EXCEPT
                !.full = full, !.rows = res[r].rows, !.cursor = res[r].cursor]
  IN  /\ Exportable(t, full)
      /\ Becomes(IF full THEN FetchNextPage(Ui, job) ELSE StartWriter(Ui, job))
      /\ UNCHANGED <<sessionVars, worker>>

-----------------------------------------------------------------------------
(* The worker runs the command at the head of its queue.                   *)

Failures == {"error", "interrupted"}
Serving(kind) == /\ worker = "serving" /\ queue # <<>>
                 /\ Head(queue).kind = kind
                 /\ queue' = Tail(queue)

\* The reply of the task, with the session state the worker publishes.
Reply(o) == op' = [o EXCEPT !.up = (conn' = "open")]
Task(kinds) == Serving("task") /\ op.kind \in kinds /\ UNCHANGED <<tabs, ui, worker>>

\* ensure_connected opens a session where there is none; a dead one stays.
Connected == conn # "dead" /\ conn' = "open"
\* A failure may be the end of the session, or find none.
Failed == \/ conn = "open" /\ conn' \in {"open", "dead"}
          \/ conn # "open" /\ conn' = conn
\* A statement may fail on the session that was opened for it.
StatementFailed == Failed \/ (conn = "none" /\ conn' \in {"open", "dead"})

\* What was read before the session or its transaction ended is not current.
Aged(ended) == res' = [r \in Result |-> [res[r] EXCEPT !.current = @ /\ ~ended]]

Without(rs) == Restrict(open, DOMAIN open \ rs)

CloseRuns == /\ Serving("close")
             /\ open' = Without({Head(queue).of})
             /\ UNCHANGED <<tabs, res, ui, op, conn, worker>>

CloseAllRuns == /\ Serving("closeAll")
                /\ open' = << >>
                /\ UNCHANGED <<tabs, res, ui, op, conn, worker>>

\* Mutation: a page that is just full is taken for one with more to follow.
MoreIfFull(row, rows) == row <= rows

\* The lookahead row: is there one after the last row of the page?
MoreAfter(row, rows) == row < rows

\* append_script_worker_result: a later table closes the cursor of the one
\* before it.
KeptOpen(list) == IF list = <<>> THEN {} ELSE {Last(list)}

\* execute_statement for each statement: the results so far, and how the
\* last statement ended.  A table with more than a page keeps its cursor.
ExecuteRuns ==
  /\ Task({"execute"})
  /\ \E list \in BoundedSeq(Unused, 2),
        sizes \in [Unused -> 1..MaxRows], reply \in {"ok"} \cup Failures :
       LET paged == {r \in Range(list) : MoreAfter(1, sizes[r])}
           new == [r \in Range(list) |->
                     [rows |-> <<1>>, more |-> r \in paged, edit |-> TRUE,
                      cursor |-> r \in paged \cap KeptOpen(list),
                      size |-> sizes[r], current |-> conn' = "open"]]
       IN  /\ IsInjective(list)
           /\ \A r \in Unused \ Range(list) : sizes[r] = 1
           /\ \/ reply = "ok" /\ Connected
              \/ reply # "ok" /\ list = <<>> /\ StatementFailed
              \/ reply # "ok" /\ list # <<>> /\ conn # "dead" /\ conn' \in {"open", "dead"}
           /\ res' = [r \in Result |->
                IF r \in Range(list) THEN new[r]
                ELSE [res[r] EXCEPT !.current = @ /\ conn' = conn]]
           /\ open' = [r \in DOMAIN open \cup (paged \cap KeptOpen(list)) |->
                IF r \in DOMAIN open THEN open[r] ELSE [at |-> 1, size |-> sizes[r]]]
           /\ Reply([op EXCEPT !.reply = reply, !.news = list])

\* A task that leaves the registry alone: explain, commit, edit, metadata.
OtherRuns ==
  /\ Task({"explain", "other"})
  /\ \E reply \in {"ok"} \cup Failures :
       /\ IF reply = "ok" THEN Connected ELSE StatementFailed
       /\ Aged(conn' # conn)
       /\ Reply([op EXCEPT !.reply = reply])
  /\ UNCHANGED open

\* fetch_more_rows closes the cursor once it has nothing more to give.
LastPage(r) == open' = Without({r})

\* An export that was cancelled does not get as far as the cursor.
FetchCancelled ==
  /\ Task({"export-fetch"}) /\ op.cancel
  /\ UNCHANGED <<res, sessionVars>>
  /\ Reply([op EXCEPT !.reply = "error"])

\* fetch_more_rows: a row from the lookahead, or no such cursor, or a
\* failure, which closes it.
FetchRuns ==
  LET r == op.of IN
  /\ Task({"more", "export-fetch"})
  /\ op.kind = "export-fetch" => ~op.cancel
  /\ \/ /\ r \in DOMAIN open /\ conn = "open"
        /\ LET row == open[r].at + 1
               more == MoreAfter(row, open[r].size)
           IN  /\ IF more THEN open' = [open EXCEPT ![r].at = row] ELSE LastPage(r)
               /\ UNCHANGED <<res, conn>>
               /\ Reply([op EXCEPT !.reply = "ok", !.page = [row |-> row, more |-> more]])
     \/ /\ Failed
        /\ open' = Without({r})
        /\ Aged(conn' # conn)
        /\ \E reply \in Failures : Reply([op EXCEPT !.reply = reply])

\* rollback and close_all_result_continuations; a rollback that fails does
\* not get to the cursors.
RollbackRuns ==
  /\ Task({"rollback"})
  /\ \/ /\ conn # "dead" /\ UNCHANGED conn
        /\ open' = << >>
        /\ Aged(TRUE)
        /\ Reply([op EXCEPT !.reply = "ok"])
     \/ /\ Failed /\ UNCHANGED open
        /\ Aged(conn' # conn)
        /\ \E reply \in Failures : Reply([op EXCEPT !.reply = reply])

\* close() and ensure_connected(): the old cursors go with the old session.
ConnectRuns ==
  /\ Task({"connect"})
  /\ open' = << >>
  /\ conn' \in {"open", "none"}
  /\ Aged(TRUE)
  /\ \E reply \in IF conn' = "open" THEN {"ok"} ELSE Failures : Reply([op EXCEPT !.reply = reply])

WriteRuns ==
  /\ Task({"export-write"})
  /\ \E reply \in {"ok", "error"} :
       /\ op.cancel => reply = "error"
       /\ UNCHANGED <<res, sessionVars>>
       /\ Reply([op EXCEPT !.reply = reply])

\* The server or the network ends the session, at any time.
SessionDies == /\ conn = "open" /\ conn' = "dead"
               /\ Aged(TRUE)
               /\ UNCHANGED <<tabs, ui, queue, op, open, worker>>

\* An exception of the kind that ends the worker (see DatabaseWorker): what
\* waits is failed, the session is closed.
WorkerDies ==
  /\ worker = "serving" /\ worker' = "gone"
  /\ queue' = <<>> /\ conn' = "none" /\ open' = << >>
  /\ Aged(TRUE)
  /\ op' = IF Busy /\ op.reply = "pending" THEN [op EXCEPT !.reply = "error", !.up = FALSE] ELSE op
  /\ UNCHANGED <<tabs, ui>>

-----------------------------------------------------------------------------
(* The UI polls the completion of the operation.                           *)

WasLost     == ~op.up
Interrupted == (op.cancel \/ op.reply = "interrupted") /\ op.kind # "export-write"
Succeeded   == op.reply = "ok"

\* The UI when the completion is handed to its handler.
Told == LET told == [Ui EXCEPT !.ui = op.up, !.op = Idle]
        IN  IF WasLost \/ Interrupted THEN Detach(told) ELSE told

\* Mutation: no second look after the handler.
HandledOnce(s) == s

\* What poll does after the handler, which may have attached a cursor again.
Handled(s) == IF WasLost THEN Detach(s)
              ELSE IF Interrupted THEN SubmitBackground(Detach(s), Command("closeAll", None))
              ELSE s

\* poll, with what the operation's handler makes of the UI
Completes(kinds, s) == /\ op.kind \in kinds /\ op.reply # "pending"
                       /\ Becomes(Handled(s))
                       /\ UNCHANGED <<sessionVars, worker>>

\* An error message replaces the table: of a statement, unless its rows are
\* worth keeping; of another operation, unless it is started to keep them.
ErrorOfStatement(s) == IF (s.ui /\ ~Interrupted) \/ s.tabs[op.tab].active = None
                       THEN ClearTable(s, op.tab) ELSE s
ErrorShown(s, keep) == IF keep THEN s ELSE ClearTable(s, op.tab)

\* finish_execution and handle_execution_error, with partial results
ExecuteCompletes ==
  Completes({"execute"}, IF Succeeded \/ op.news # <<>> THEN Render(Told, op.tab, op.news)
                                                        ELSE ErrorOfStatement(Told))

\* show_explain_result and handle_explain_error
ExplainCompletes ==
  Completes({"explain"}, IF Succeeded THEN ClearTable(Told, op.tab) ELSE ErrorOfStatement(Told))

\* apply_fetch_more_result
PageTaken(s) ==
  IF s.tabs[op.tab].active # op.of THEN Release(s, op.of)
  ELSE LET r == s.res[op.of]
       IN  [s EXCEPT !.res[op.of] =
              [r EXCEPT !.rows = Append(r.rows, op.page.row),
                        !.cursor = op.page.more, !.more = op.page.more]]

MoreCompletes ==
  Completes({"more"}, IF Succeeded THEN PageTaken(Told) ELSE PageFailed(Told, op.tab))

\* _page_loaded: the visible result follows the cursor without taking the
\* rows.
PageLoaded(s) ==
  LET job == [op EXCEPT !.rows = Append(@, op.page.row), !.cursor = op.page.more]
      followed == [s EXCEPT !.res[op.of].cursor = op.page.more]
  IN  IF ~SourceIsCurrent(s, op) THEN Abort(s, op)
      ELSE IF ~s.ui \/ op.cancel THEN followed
      ELSE FetchNextPage(followed, job)

PageCompletes ==
  Completes({"export-fetch"}, IF Succeeded THEN PageLoaded(Told)
                              ELSE IF op.cancel THEN Told ELSE PageFailed(Told, op.tab))

WriteCompletes == Completes({"export-write"}, Told)

RollbackCompletes ==
  \E keep \in BOOLEAN :
    Completes({"rollback"}, IF Succeeded THEN Invalidate(Told) ELSE ErrorShown(Told, keep))

OtherCompletes ==
  \E keep \in BOOLEAN :
    Completes({"connect", "other"}, IF Succeeded THEN Told ELSE ErrorShown(Told, keep))

-----------------------------------------------------------------------------
UserSteps(t) == \/ RunStatements(t) \/ Explain(t) \/ Rollback(t) \/ StartOther(t)
                \/ FetchMore(t) \/ Reconnect(t) \/ Help(t) \/ CloseTab(t)
                \/ \E full \in BOOLEAN : Export(t, full)
WorkerSteps == \/ CloseRuns \/ CloseAllRuns \/ ExecuteRuns \/ OtherRuns \/ FetchCancelled
               \/ FetchRuns \/ RollbackRuns \/ ConnectRuns \/ WriteRuns
Completions == \/ ExecuteCompletes \/ ExplainCompletes \/ MoreCompletes \/ PageCompletes
               \/ WriteCompletes \/ RollbackCompletes \/ OtherCompletes
Next == \/ \E t \in Tab : UserSteps(t)
        \/ Interrupt \/ WorkerSteps \/ SessionDies \/ WorkerDies \/ Completions

Spec == Init /\ [][Next]_vars

-----------------------------------------------------------------------------
(* Properties.                                                             *)

\* Every variable keeps to its set.
TypeOK ==
  /\ tabs \in [Tab -> Shown]
  /\ res \in [Result -> [rows : Rows, more : BOOLEAN, cursor : BOOLEAN, edit : BOOLEAN,
                         size : 0..MaxRows, current : BOOLEAN]]
  /\ ui \in BOOLEAN
  /\ queue \in Seq([kind : {"task", "close", "closeAll"}, of : Result \cup {None}])
  /\ op \in [kind : Kinds, tab : Tab \cup {None}, of : Result \cup {None}, full : BOOLEAN,
             rows : Rows, cursor : BOOLEAN, cancel : BOOLEAN,
             reply : {"pending", "ok"} \cup Failures, news : Seq(Result), up : BOOLEAN,
             page : [row : 0..MaxRows, more : BOOLEAN]]
  /\ DOMAIN open \subseteq Result
  /\ Range(open) \subseteq [at : 1..MaxRows, size : 1..MaxRows]
  /\ conn \in {"open", "dead", "none"} /\ worker \in {"serving", "gone"}

\* The rows of a result, and those of an export's private buffer, are an
\* unbroken beginning of the query's rows: no row is skipped or taken twice,
\* though the grid and an export share one cursor and either may stop
\* half-way (apply_fetch_more_result, _page_loaded, _detach_live_result_state).
NoRowsSkipped ==
  \A rows \in {res[r].rows : r \in Result} \cup {op.rows} : rows = [i \in 1..Len(rows) |-> i]

\* Once everything asked of the worker is done, the cursors open on the
\* session are exactly those whose tokens the results of tabs hold: none
\* leaks, and none that the grid would page is gone (render_results, the
\* interrupt and disconnect handling of poll, fetch_more_rows, the exports).
CursorsMatchResults ==
  (~Busy /\ queue = <<>> /\ ui /\ worker = "serving" /\ conn = "open") =>
    DOMAIN open = {r \in InTabs(tabs) : res[r].cursor}

\* An export of all available rows that reaches the file writer has every
\* row of its query, though a page may have failed, the result may have gone
\* or the session may have ended in between (result_export.py).
FullExportComplete ==
  (op.kind = "export-write" /\ op.full) => op.rows = [i \in 1..res[op.of].size |-> i]

\* A result read before a rollback, a lost session or a reconnect is never
\* left with a cursor or an editing handle that the next session or
\* transaction would be asked to honour.
StaleResultsInert ==
  (~Busy /\ ui /\ conn = "open" /\ worker = "serving") =>
    \A r \in InTabs(tabs) : (res[r].cursor \/ res[r].edit) => res[r].current

-----------------------------------------------------------------------------
(* The inductive invariant: what the four properties rest on.  The parts   *)
(* about the UI speak of a record s, as its helpers do.                    *)

Queued(s, cmd) == \E i \in 1..Len(s.queue) : s.queue[i] = cmd
Fetching(o) == o.kind \in {"more", "export-fetch"}
Done(o) == o.kind # "none" /\ o.reply # "pending"
Fetched(s) == IF s.op.kind = "more" THEN s.res[s.op.of].rows ELSE s.op.rows

\* Each tab shows its last result or nothing, no result is of two tabs, and
\* only what is shown has a token.
TabsApart(s) ==
  /\ \A t \in Tab : s.tabs[t].active \in {None, s.tabs[t].last}
  /\ \A t, u \in Tab : s.tabs[t].last = s.tabs[u].last => t = u \/ s.tabs[t].last = None
  /\ \A t \in Tab : LET r == s.tabs[t].last
                    IN  r # None /\ s.res[r].cursor => s.tabs[t].active = r

\* A task waits only as the operation, and no command to close all cursors
\* comes after it.
QueueInOrder(s) ==
  /\ worker = "gone" => s.queue = <<>>
  /\ \A i \in 1..Len(s.queue) : s.queue[i].kind = "task" =>
       /\ s.op.kind # "none" /\ s.op.reply = "pending"
       /\ \A j \in 1..Len(s.queue) : i < j => s.queue[j].kind = "close"

\* What is to be closed, nobody holds.
ClosingLetGo(s) ==
  /\ \A r \in Result : Queued(s, Command("close", r)) =>
       r \notin Range(s.op.news) /\ (r \in InTabs(s.tabs) => ~s.res[r].cursor)
  /\ Queued(s, Command("closeAll", None)) =>
       s.op.news = <<>> /\ \A r \in InTabs(s.tabs) : ~s.res[r].cursor

\* Without a session, and while one is opened in the place of another, there
\* are no results.
NoSession(s) ==
  /\ worker = "gone" => conn = "none"
  /\ conn = "none" => open = << >>
  /\ (s.op.kind = "connect" \/ (worker = "serving" /\ conn = "none")) =>
       InTabs(s.tabs) = {} /\ s.op.news = <<>>

\* A result with a token or an editing handle is of this session and of this
\* transaction, but for a rollback yet to be told.
Fresh(s) ==
  conn = "open" /\ ~(s.op.kind = "rollback" /\ s.op.reply = "ok") =>
    \A r \in InTabs(s.tabs) \cup Range(s.op.news) :
      (s.res[r].cursor \/ s.res[r].edit) => s.res[r].current

\* What the session knows of a cursor is what the UI's result says of itself.
OpenKnown(s) ==
  /\ \A r \in DOMAIN open : open[r].at < open[r].size
  /\ \A r \in DOMAIN open \cap (InTabs(s.tabs) \cup {s.op.of} \cup Range(s.op.news)) :
       open[r].size = s.res[r].size /\ (conn = "open" => s.res[r].current)

\* Rows are the first of the query, and all of them if there are no more.
RowsKnown(s) ==
  \A r \in Result :
    /\ s.res[r].rows = [i \in 1..Len(s.res[r].rows) |-> i]
    /\ Len(s.res[r].rows) <= s.res[r].size
    /\ ~s.res[r].more => Len(s.res[r].rows) = s.res[r].size

\* A token is honoured by the session, but for those of X.
Honoured(s, X) ==
  conn = "open" =>
    \A r \in (InTabs(s.tabs) \cup Range(s.op.news)) \ X :
      s.res[r].cursor => r \in DOMAIN open

\* The next row it gives is the one after those of the result, but for X.
InStep(s, X) ==
  conn = "open" =>
    \A r \in (InTabs(s.tabs) \cup Range(s.op.news)) \ X :
      s.res[r].cursor /\ r \in DOMAIN open => open[r].at = Len(s.res[r].rows)

\* A cursor is held, or about to be closed.
NoneLeaks(s) ==
  conn = "open" =>
    \A r \in DOMAIN open :
      \/ r \in InTabs(s.tabs) \cup Range(s.op.news) /\ s.res[r].cursor
      \/ Queued(s, Command("close", r)) \/ Queued(s, Command("closeAll", None))

\* The results of a script are new, and at most the last one has a token.
NewsKnown(s) ==
  /\ s.op.news # <<>> => s.op.kind = "execute" /\ s.op.reply # "pending"
  /\ \A r \in Range(s.op.news) : r \notin InTabs(s.tabs)
  /\ \A i \in 1..Len(s.op.news) : s.res[s.op.news[i]].cursor => i = Len(s.op.news)
  /\ s.op.kind = "execute" => s.op.of = None
  /\ IsInjective(s.op.news)

\* A page or an export belongs to its tab.
SourceKnown(s) ==
  /\ s.op.kind = "none" => s.op = Idle
  /\ s.op.kind # "none" => s.op.tab \in Tab
  /\ s.op.kind \in {"more", "export-fetch", "export-write"} =>
       s.op.of # None /\ s.tabs[s.op.tab].last = s.op.of

\* While its result is shown, a page is for the token that it holds.
SourceHeld(s) ==
  Fetching(s.op) /\ worker = "serving" /\ s.tabs[s.op.tab].active = s.op.of =>
    s.res[s.op.of].cursor

\* The rows of an export are the first of the query, and all of them when it
\* comes to the file.
ExportKnown(s) ==
  /\ s.op.rows = [i \in 1..Len(s.op.rows) |-> i] /\ Len(s.op.rows) <= MaxRows
  /\ s.op.kind = "export-fetch" => /\ s.op.full /\ s.op.cursor
                                   /\ Len(s.op.rows) <= s.res[s.op.of].size
  /\ s.op.kind = "export-write" /\ s.op.full => Len(s.op.rows) = s.res[s.op.of].size

\* A page under way is the one after the rows it is for.
PageKnown(s) ==
  Fetching(s.op) =>
    /\ s.op.reply = "pending" /\ conn = "open" /\ s.op.of \in DOMAIN open =>
          open[s.op.of].at = Len(Fetched(s))
    /\ s.op.reply = "ok" =>
         /\ s.op.page.row = Len(Fetched(s)) + 1 /\ s.op.page.row <= s.res[s.op.of].size
         /\ s.op.page.more = (s.op.page.row < s.res[s.op.of].size)
         /\ conn = "open" => s.res[s.op.of].current
         /\ s.op.of \in DOMAIN open => s.op.page.more /\ open[s.op.of].at = s.op.page.row
    /\ s.op.reply \in Failures /\ ~(s.op.kind = "export-fetch" /\ s.op.cancel)
          /\ conn = "open" => s.op.of \notin DOMAIN open

\* The other tasks leave what their answers say.
TaskKnown(s) ==
  /\ Done(s.op) /\ ~s.op.up => conn # "open"
  /\ s.op.kind = "rollback" /\ s.op.reply = "ok" => open = << >>

\* Results whose token is behind: of the page under way, and all of them when a
\* rollback has closed their cursors.
Spent(s) == {r \in Result : \/ /\ r = s.op.of /\ Fetching(s.op) /\ s.op.reply # "pending"
                               /\ ~(s.op.reply = "ok" /\ s.op.page.more)
                            \/ s.op.kind = "rollback" /\ s.op.reply = "ok"}
Ahead(s) == {r \in Result : r = s.op.of /\ Fetching(s.op)}

UiInvariant(s) ==
  /\ TabsApart(s) /\ QueueInOrder(s) /\ ClosingLetGo(s) /\ NoSession(s) /\ Fresh(s)
  /\ OpenKnown(s) /\ RowsKnown(s) /\ NoneLeaks(s) /\ NewsKnown(s) /\ SourceKnown(s)
  /\ SourceHeld(s)
  /\ ExportKnown(s) /\ PageKnown(s) /\ TaskKnown(s)
  /\ Honoured(s, Spent(s)) /\ InStep(s, Ahead(s))
CursorInvariant == UiInvariant(Ui)
=============================================================================
