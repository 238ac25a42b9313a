--------------------------- MODULE SessionControl ---------------------------
(***************************************************************************)
(* The flows of the curses thread that end a transaction, a session or the *)
(* program (ui/db_session.py, ui/application_controller.py, the key lock of *)
(* ui/input_controller.py), and what of them survives a restart: the mode  *)
(* and the open tabs in config.ini (config/).  A flow asks the user, starts *)
(* a task on the worker and goes on, or back, when the completion is polled.*)
(* A task is one step here; DatabaseWorker and DatabaseOperations justify  *)
(* that.  Prompts are modal: a key is handled to its end, answers included. *)
(***************************************************************************)
EXTENDS Integers, SequencesExt

CONSTANTS File,            \* files that tabs can show
          NoFile,          \* the path of an untitled, template or object tab
          Gone,            \* files deleted by the time of a restart
          Desk             \* the arrangements of tabs the user makes

VARIABLES
  prog,      \* is a program running?
  db,        \* the workspace of the worker and the Oracle session behind it
  worker,    \* "up", or "gone" for good
  ui,        \* state.db: the session as last reported to the UI
  op,        \* state.db_operation, with what its callbacks captured
  quitPending,  \* state.application.quit_pending
  desk,      \* the tabs and the active one
  file,      \* config.ini
  save,      \* a change of config.ini between its read and its replace
  known      \* history: the settings last written, by whom ever

vars == <<prog, db, worker, ui, op, quitPending, desk, file, save, known>>

Unknown == "unknown"

ASSUME SessionControlAssumption ==
  /\ NoFile \notin File /\ Gone \subseteq File
  /\ Desk \subseteq [tabs : Seq(File \cup {NoFile}), active : Nat]
  /\ \A d \in Desk : /\ d.active \in DOMAIN d.tabs
                     /\ \A i, j \in DOMAIN d.tabs : d.tabs[i] = d.tabs[j] => i = j \/ d.tabs[i] = NoFile

\* work: the session has uncommitted changes.  pending: the workspace says so.
Database == {d \in [conn : {"none", "live", "dead"}, auto : BOOLEAN, pending : BOOLEAN, work : BOOLEAN] :
               d.work => d.conn = "live"}
Closed(auto) == [conn |-> "none", auto |-> auto, pending |-> FALSE, work |-> FALSE]
Snapshot(d) == [connected |-> d.conn = "live", auto |-> d.auto, pending |-> d.pending]

\* An operation: the task, the answer to the question about pending work, what
\* the completion does next, the mode asked for, whether the session is to be
\* closed first, the tab it was started from; then its outcome and snapshot.
Answer == {"none", "commit", "rollback", "discard"}
NoOp == [task |-> "none", answer |-> "none", next |-> "stay", auto |-> FALSE, force |-> FALSE,
         tab |-> 1, outcome |-> "none", sess |-> [connected |-> FALSE, auto |-> FALSE, pending |-> FALSE]]
Active == op.task # "none"
NoDesk == [tabs |-> <<>>, active |-> 0]
NoFileYet == [mode |-> "absent", tabs |-> <<>>, active |-> 0]
NoSave == [section |-> "none", copy |-> NoFileYet, desk |-> NoDesk, auto |-> FALSE, raced |-> FALSE]

-----------------------------------------------------------------------------
(* config.ini.                                                             *)

\* read_autocommit: a missing or malformed option counts as manual.
Stored(f) == f.mode = "yes"
Option(auto) == IF auto THEN "yes" ELSE "no"

\* The elements of a sequence that are in a set, in their order.
Among(s, T) == FlattenSeq([i \in DOMAIN s |-> IF s[i] \in T THEN <<s[i]>> ELSE <<>>])

\* persist_session_tabs: only tabs with a path; the active one is renumbered,
\* an untitled one counts as the first.  Numbers in the file start at 0.
SessionTabs(d) ==
  [tabs |-> Among(d.tabs, File),
   active |-> IF d.tabs[d.active] = NoFile THEN 0
              ELSE Len(Among(SubSeq(d.tabs, 1, d.active - 1), File))]

\* read_session_tabs: an active tab the file does not have is the first one.
SavedTabs(f) ==
  [tabs |-> f.tabs, active |-> IF f.active + 1 \in DOMAIN f.tabs THEN f.active + 1 ELSE 1]

Untitled == [tabs |-> <<NoFile>>, active |-> 1]
Opened(tabs) == Among(tabs, File \ Gone)

\* restore_session_tabs: what can no longer be opened is skipped, and the
\* active tab is renumbered once more.
RestoredDesk(saved) ==
  LET there == Opened(saved.tabs)
      shown == {i \in DOMAIN there : there[i] = saved.tabs[saved.active]}
  IN  IF there = <<>> THEN Untitled
      ELSE [tabs |-> there, active |-> IF shown = {} THEN 1 ELSE CHOOSE i \in shown : TRUE]

\* save_session_tabs and save_autocommit on the copy that was read.
WithTabs(f, t) == [f EXCEPT !.tabs = t.tabs, !.active = t.active]
WithMode(f, auto) == [f EXCEPT !.mode = Option(auto)]

\* ensure_config_file: an option the file does not have yet is written.
EnsuredConfig(f) == IF f.mode = "absent" THEN WithMode(f, FALSE) ELSE f

\* The read of a change; the replace is a step of its own.
BeginSave(section, auto, d) ==
  save' = [section |-> section, copy |-> file, desk |-> d, auto |-> auto, raced |-> FALSE]

Init == /\ prog = "down"
        /\ db = Closed(FALSE) /\ worker = "gone" /\ ui = Snapshot(Closed(FALSE))
        /\ op = NoOp /\ quitPending = FALSE
        /\ desk = Untitled
        /\ file = NoFileYet
        /\ save = NoSave
        /\ known = [mode |-> Unknown, desk |-> NoDesk]

-----------------------------------------------------------------------------
(* Starting operations.                                                    *)

\* The UI thread takes keys between two completions.
Keys == prog = "up" /\ save.section = "none" /\ ~quitPending
Free == Keys /\ ~Active

Task(task) == [NoOp EXCEPT !.task = task, !.tab = desk.active]

\* DatabaseOperations.start: refused when the worker is gone.
Start(o) == /\ op' = IF worker = "up" THEN o ELSE NoOp
            /\ UNCHANGED <<db, worker>>

\* start(replace_terminal_worker=True): the new workspace takes the mode over.
StartReplacing(o) ==
  /\ op' = o
  /\ worker' = "up"
  /\ db' = IF worker = "up" THEN db ELSE Closed(ui.auto)

\* _start_connect
Connect(force, answer) ==
  StartReplacing([Task("connect") EXCEPT !.force = force, !.answer = answer])

\* Mutation: reconnecting does not ask about pending work.
ReconnectUnasked ==
  /\ Free
  /\ Connect(TRUE, "none")
  /\ UNCHANGED <<prog, ui, quitPending, desk, file, save, known>>

\* reconnect_database: pending work is committed, rolled back, or discarded
\* with the session; only a success goes on to reconnect.
Reconnect ==
  /\ Free
  /\ \/ ~ui.pending /\ Connect(TRUE, "none")
     \/ ui.pending /\ Connect(TRUE, "discard")
     \/ \E a \in {"commit", "rollback"} :
          ui.pending /\ Start([Task(a) EXCEPT !.answer = a, !.next = "reconnect"])
  /\ UNCHANGED <<prog, ui, quitPending, desk, file, save, known>>

\* commit_transaction and rollback_transaction from their keys.
EndTransaction(a) ==
  /\ Free
  /\ Start([Task(a) EXCEPT !.answer = a])
  /\ UNCHANGED <<prog, ui, quitPending, desk, file, save, known>>

\* choose_transaction_mode: only leaving manual mode with pending work asks.
ChooseMode(auto) ==
  /\ Free
  /\ \E a \in IF auto /\ ~ui.auto /\ ui.pending THEN {"commit", "rollback"} ELSE {"none"} :
       Start([Task("mode") EXCEPT !.answer = a, !.auto = auto])
  /\ UNCHANGED <<prog, ui, quitPending, desk, file, save, known>>

\* Any statement, script, edit or metadata query of the user.
RunStatement ==
  /\ Free
  /\ Start(Task("statement"))
  /\ UNCHANGED <<prog, ui, quitPending, desk, file, save, known>>

\* finish_quit: the tabs are saved, then the program ends.  As a completion it
\* runs with the operation's tab as the active one.
FinishQuit(tab) == BeginSave("tabs", FALSE, [desk EXCEPT !.active = tab])

\* Mutation: the keys are not locked while a quit is resolved.
RequestQuitUnlocked ==
  /\ Free
  /\ \/ ~ui.pending /\ FinishQuit(desk.active) /\ UNCHANGED <<db, worker, op, quitPending>>
     \/ \E a \in {"commit", "rollback"} :
          /\ ui.pending
          /\ Start([Task(a) EXCEPT !.answer = a, !.next = "quit"])
          /\ UNCHANGED <<quitPending, save>>
  /\ UNCHANGED <<prog, ui, desk, file, known>>

\* request_quit, once the changed tabs are settled (Documents) and while no
\* operation runs.
RequestQuit ==
  /\ Free
  /\ \/ ~ui.pending /\ FinishQuit(desk.active) /\ UNCHANGED <<db, worker, op, quitPending>>
     \/ \E a \in {"commit", "rollback"} :
          /\ ui.pending
          /\ Start([Task(a) EXCEPT !.answer = a, !.next = "quit"])
          /\ quitPending' = (worker = "up")
          /\ UNCHANGED save
  /\ UNCHANGED <<prog, ui, desk, file, known>>

\* Opening, closing, switching tabs: also while an operation runs, except that
\* no tab is closed then.
Arrange(d) ==
  /\ Keys
  /\ Active => d.tabs = desk.tabs
  /\ desk' = d
  /\ UNCHANGED <<prog, db, worker, ui, op, quitPending, file, save, known>>

-----------------------------------------------------------------------------
(* What a task may do to the workspace: the set of its ends.               *)

End(d, outcome) == [db |-> d, outcome |-> outcome]

\* A call on a live session may also find out that the session has died.
Dies(d) == {End([d EXCEPT !.conn = "dead", !.work = FALSE], "error")}

\* ensure_connected: opens a session if there is none; a dead one is not
\* replaced.
Ensured(d) == CASE d.conn = "none" -> {End([Closed(d.auto) EXCEPT !.conn = "live"], "ok"), End(Closed(d.auto), "error")}
                [] d.conn = "live" -> {End(d, "ok")}
                [] d.conn = "dead" -> {End(d, "error")}

\* commit() and rollback(): a commit that fails may have ended the transaction.
Resolved(d, a) ==
  UNION {IF e.outcome = "error" THEN {e}
         ELSE {End([e.db EXCEPT !.pending = FALSE, !.work = FALSE], "ok"), End(e.db, "error")}
              \cup (IF a = "commit" THEN {End([e.db EXCEPT !.work = FALSE], "error")} ELSE {})
              \cup Dies(e.db) : e \in Ensured(d)}

\* set_mode: an unresolved transaction leaves the mode as it was.
ModeSet(d, a, auto) ==
  UNION {IF e.outcome = "error" THEN {e}
         ELSE {End([e.db EXCEPT !.auto = auto], "ok"), End(e.db, "error")} :
           e \in IF a = "none" THEN {End(d, "ok")} ELSE Resolved(d, a)}

\* connect: with force the old session goes first, its work with it.
Connected(d, force) == Ensured(IF force THEN Closed(d.auto) ELSE d)

\* A statement or an edit.  In autocommit mode, too, it may leave work behind: if its
\* commit fails, and the rollback of an edit to its savepoint.  OracleTransaction
\* shows that work is always tracked as pending.
StatementRun(d) ==
  UNION {IF e.outcome = "error" THEN {e}
         ELSE [db : {b \in Database : b.conn = "live" /\ b.auto = d.auto},
               outcome : {"ok", "error"}]
              \cup Dies(e.db) : e \in Ensured(d)}

Ends(o, d) ==
  {e \in CASE o.task = "connect"                -> Connected(d, o.force)
           [] o.task \in {"commit", "rollback"} -> Resolved(d, o.task)
           [] o.task = "mode"                   -> ModeSet(d, o.answer, o.auto)
           [] o.task = "statement"              -> StatementRun(d)
     : e.db.work => e.db.pending}

-----------------------------------------------------------------------------
(* The worker, and completions.                                            *)

Running == Active /\ op.outcome = "none"

TaskRuns ==
  /\ Running
  /\ \E e \in Ends(op, db) :
       /\ db' = e.db
       /\ op' = [op EXCEPT !.outcome = e.outcome, !.sess = Snapshot(e.db)]
  /\ UNCHANGED <<prog, worker, ui, quitPending, desk, file, save, known>>

\* The task kills the worker thread, which closes the workspace; the report
\* keeps what was pending.
WorkerCrashes ==
  /\ Running
  /\ \E e \in Ends(op, db) :
       /\ db' = Closed(e.db.auto)
       /\ op' = [op EXCEPT !.outcome = "error",
                           !.sess = [Snapshot(e.db) EXCEPT !.connected = FALSE]]
  /\ worker' = "gone"
  /\ UNCHANGED <<prog, ui, quitPending, desk, file, save, known>>

SessionDies ==
  /\ db.conn = "live"
  /\ db' = [db EXCEPT !.conn = "dead", !.work = FALSE]
  /\ UNCHANGED <<prog, worker, ui, op, quitPending, desk, file, save, known>>

Done(outcome) == prog = "up" /\ save.section = "none" /\ op.outcome = outcome /\ ui' = op.sess

\* The on_success callbacks.
Completed ==
  /\ Done("ok")
  /\ CASE op.next = "quit" ->
            /\ quitPending' = FALSE /\ FinishQuit(op.tab)
            /\ op' = NoOp /\ UNCHANGED <<db, worker>>
       [] op.next = "reconnect" ->
            Connect(TRUE, op.answer) /\ UNCHANGED <<quitPending, save>>
       [] op.task = "mode" ->
            /\ BeginSave("mode", op.auto, desk)
            /\ op' = NoOp /\ UNCHANGED <<db, worker, quitPending>>
       [] OTHER ->
            op' = NoOp /\ UNCHANGED <<db, worker, quitPending, save>>
  /\ UNCHANGED <<prog, desk, file, known>>

\* Mutation: the lock of a quit is not taken back when its task fails.
FailedKeepsLock ==
  /\ Done("error")
  /\ op' = NoOp
  /\ UNCHANGED <<prog, db, worker, quitPending, desk, file, save, known>>

\* The on_error callbacks: a reconnect or a quit is given up.
Failed ==
  /\ Done("error")
  /\ op' = NoOp
  /\ quitPending' = (quitPending /\ op.next # "quit")
  /\ UNCHANGED <<prog, db, worker, desk, file, save, known>>

-----------------------------------------------------------------------------
(* Saving, ending and starting the program.                                *)

Ended == /\ prog' = "down" /\ worker' = "gone"
         /\ db' = Closed(FALSE) /\ ui' = Snapshot(Closed(FALSE))
         /\ op' = NoOp /\ quitPending' = FALSE /\ save' = NoSave

\* What anybody who reads config.ini afterwards should find in it.
Written ==
  IF save.section = "tabs"
  THEN [mode |-> IF save.raced THEN Unknown ELSE known.mode, desk |-> desk]
  ELSE [mode |-> Option(save.auto), desk |-> IF save.raced THEN NoDesk ELSE known.desk]

\* write_ini_atomic replaces the file, or leaves it as it was.  A failure to
\* save does not keep the program from ending.
FinishSave ==
  /\ save.section # "none"
  /\ \/ /\ file' = IF save.section = "tabs" THEN WithTabs(save.copy, SessionTabs(save.desk))
                                            ELSE WithMode(save.copy, save.auto)
        /\ known' = Written
     \/ UNCHANGED <<file, known>>
  /\ IF save.section = "tabs" THEN Ended
     ELSE save' = NoSave /\ UNCHANGED <<prog, db, worker, ui, op, quitPending>>
  /\ UNCHANGED desk

\* The process is killed, at any point.
Killed == prog = "up" /\ Ended /\ UNCHANGED <<desk, file, known>>

\* main: options of the command line go before the file and are not saved.  The
\* tabs are restored and the first connect is started.
StartProgram(option) ==
  LET auto == IF option = "stored" THEN Stored(file) ELSE option = "auto"
  IN  /\ prog = "down" /\ prog' = "up"
      /\ file' = EnsuredConfig(file)
      /\ known' = IF file.mode = "absent" THEN [known EXCEPT !.mode = "no"] ELSE known
      /\ desk' = RestoredDesk(SavedTabs(file))
      /\ worker' = "up" /\ db' = Closed(auto) /\ ui' = Snapshot(Closed(auto))
      /\ op' = [NoOp EXCEPT !.task = "connect", !.tab = RestoredDesk(SavedTabs(file)).active]
      /\ UNCHANGED <<quitPending, save>>

\* Another program with the same workspace, or an editor, replaces the file;
\* each changes one section.
OtherProgram ==
  /\ \/ \E m \in {"yes", "no", "bad"} :
          /\ file' = [file EXCEPT !.mode = m]
          /\ known' = [known EXCEPT !.mode = m]
     \/ \E d \in Desk :
          /\ file' = WithTabs(file, SessionTabs(d))
          /\ known' = [known EXCEPT !.desk = d]
  /\ save' = IF save.section = "none" THEN save ELSE [save EXCEPT !.raced = TRUE]
  /\ UNCHANGED <<prog, db, worker, ui, op, quitPending, desk>>

UserKey == \/ Reconnect \/ RunStatement \/ RequestQuit
           \/ \E a \in {"commit", "rollback"} : EndTransaction(a)
           \/ \E auto \in BOOLEAN : ChooseMode(auto)
           \/ \E d \in Desk : Arrange(d)

Poll == Completed \/ Failed
Next == \/ UserKey \/ Poll \/ TaskRuns \/ WorkerCrashes \/ SessionDies \/ FinishSave
        \/ Killed \/ OtherProgram \/ \E option \in {"stored", "auto", "manual"} : StartProgram(option)

\* The worker runs its tasks and the event loop polls (see DatabaseOperations).
Fairness == WF_vars(TaskRuns \/ WorkerCrashes) /\ WF_vars(Poll)

Spec == Init /\ [][Next]_vars /\ Fairness

-----------------------------------------------------------------------------
(* Properties.                                                             *)

TypeOK ==
  /\ prog \in {"down", "up"} /\ worker \in {"up", "gone"} /\ quitPending \in BOOLEAN
  /\ db \in Database /\ (db.work => db.pending)
  /\ op.answer \in Answer /\ op.outcome \in {"none", "ok", "error"}
  /\ desk.active \in DOMAIN desk.tabs
  /\ file.mode \in {"absent", "yes", "no", "bad"} /\ save.section \in {"none", "mode", "tabs"}

\* "Commit or rollback must succeed before reconnect closes the session", and
\* quitting or leaving manual mode asks: uncommitted work of a live session
\* never ends but by a statement of the user, by an answer the user has given for
\* it, or because the session, the worker or the process died; and work of manual
\* mode never comes under autocommit, where any statement would commit it.
WorkEndsByChoice ==
  [][/\ db.work /\ ~db'.work =>
          \/ op.answer # "none" \/ op.task = "statement"
          \/ db'.conn = "dead" \/ (worker = "up" /\ worker' = "gone" /\ save.section # "tabs")
     /\ db.work /\ ~db.auto /\ db'.work => ~db'.auto]_vars

\* The keys are locked while a quit waits for its commit or rollback.  The lock
\* is taken back whatever happens to that task: it fails, the worker dies under
\* it, it is refused.
QuitLockEnds == quitPending ~> ~quitPending

\* "On the next start the app tries each saved path", "the selected transaction
\* mode is stored": a program starts with the tabs, the active one among them,
\* and the mode that were last saved in config.ini, although the two are saved
\* at different times by rewriting the whole file, and other programs change it
\* (unless one did so between the read and the replace of a save).
RestartRestores ==
  [][prog = "down" /\ prog' = "up" =>
       /\ known.mode # Unknown /\ file.mode # "absent" => file.mode = known.mode
       /\ known.desk # NoDesk =>
            LET was  == known.desk
                here == Among(was.tabs, File \ Gone)
                top  == was.tabs[was.active]
            IN  IF here = <<>> THEN desk'.tabs = <<NoFile>>
                ELSE /\ desk'.tabs = here
                     /\ desk'.tabs[desk'.active] = IF top \in ToSet(here) THEN top ELSE here[1]]_vars

-----------------------------------------------------------------------------
(* What WorkEndsByChoice rests on.                                         *)

\* A task runs on a worker that is up, in a program that saves nothing yet.
TaskAlone ==
  /\ Running => worker = "up"
  /\ Active => prog = "up" /\ save.section = "none"
  /\ prog = "down" => worker = "gone" /\ save.section = "none"

\* What commits or rolls back, and all that follows it, was asked for.
AnswersGiven ==
  /\ op.task \in {"commit", "rollback"} => op.answer # "none"
  /\ op.next # "stay" => op.task \in {"commit", "rollback"}

\* Uncommitted work is known to whoever decides next: the UI, the report of a
\* task, or a task that leaves it alone or was given an answer for it.
WorkKnown ==
  db.work =>
    /\ worker = "up" /\ save.section # "tabs"
    /\ ~Active => ui.pending /\ ui.auto = db.auto
    /\ Active /\ ~Running => op.sess.pending /\ op.sess.auto = db.auto
    /\ Running /\ op.answer = "none" => /\ ~(op.task = "connect" /\ op.force)
                                        /\ op.task = "mode" /\ op.auto => db.auto
    /\ op.next = "quit" => op.outcome # "ok"

SessionInvariant == TaskAlone /\ AnswersGiven /\ WorkKnown

-----------------------------------------------------------------------------
(* What RestartRestores rests on.                                          *)

Arrangement == {d \in [tabs : Seq(File \cup {NoFile}), active : Nat] : d.active \in DOMAIN d.tabs}
Content == [mode : {"absent", "yes", "no", "bad"}, tabs : Seq(File), active : Nat]

\* What the copy of a save does not know was written by somebody else.
CopyCurrent == save.section # "none" /\ ~save.raced => save.copy = file

\* A quit saves the arrangement the user sees: none is made once its question
\* is answered, and it is saved with the tab it was asked in.
QuitKeepsDesk ==
  /\ op.next = "quit" => quitPending /\ op.tab = desk.active
  /\ save.section = "tabs" => save.desk = desk

\* The file holds what was last written, whoever wrote the rest of it.
FileKnown ==
  /\ known.mode # Unknown /\ file.mode # "absent" => file.mode = known.mode
  /\ known.desk # NoDesk =>
       /\ known.desk \in Arrangement
       /\ file.tabs = SessionTabs(known.desk).tabs /\ file.active = SessionTabs(known.desk).active

FileInvariant ==
  /\ desk \in Arrangement /\ file \in Content /\ (save.section # "none" => save.copy \in Content)
  /\ CopyCurrent /\ QuitKeepsDesk /\ FileKnown
=============================================================================
