------------------------- MODULE DatabaseOperations -------------------------
(***************************************************************************)
(* The curses thread's side of the database boundary (ui/db_operations.py  *)
(* and the event loop of ui/app.py) composed with the worker thread it     *)
(* drives.  The UI thread runs one action at a time; the worker thread's   *)
(* steps fall between them, and in the one place that matters inside one:  *)
(* poll first finds the event queue empty and only then asks whether the   *)
(* handle is done.                                                         *)
(***************************************************************************)
EXTENDS DatabaseWorker

CONSTANT MaxWorkers        \* bound on the workers one session builds

ASSUME OperationsAssumption == MaxWorkers \in Nat \ {0}

VARIABLES
  op,        \* state.db_operation
  ui,        \* state.db: the last session snapshot the UI was given
  live,      \* does a result of some tab hold a cursor or editing handle?
  uiPc,      \* where the UI thread is
  loop,      \* the event loop of App.run: running, or left (timed: while busy)
  workers,   \* workers built so far
  lost       \* history: a completion event was emitted but never delivered

workerVars == vars
uiVars     == <<op, ui, live, uiPc, loop, workers, lost>>
allVars    == <<vars, uiVars>>

Operation == [id : Command \cup {None}, interruptible : BOOLEAN, cooperative : BOOLEAN,
              cancelRequested : BOOLEAN]
NoOperation == [id |-> None, interruptible |-> FALSE, cooperative |-> FALSE,
                cancelRequested |-> FALSE]
NewOperation(intr, coop) == [id |-> nextId, interruptible |-> intr, cooperative |-> coop,
                             cancelRequested |-> FALSE]
UiPC == {"idle", "empty", "building", "rebuilding", "waiting", "joining", "left"}

OpsInit == /\ Init
           /\ op = NoOperation
           /\ ui = NoSession
           /\ live = FALSE
           /\ uiPc = "idle"
           /\ loop = "running"
           /\ workers = 1
           /\ lost = FALSE

\* The UI thread serves the user only between two polls of the event loop.
Free == uiPc = "idle" /\ loop = "running" /\ ready
Active == op.id # None

-----------------------------------------------------------------------------
(* Helpers.                                                                *)

\* The bound on commands keeps one number free for the command that the
\* completion of an operation that may be interrupted has to submit.
Room(n) == nextId + n <= MaxCommands

\* A batch of submissions in order; a background command is ignored from
\* the start.
SubmitAll(flagsOf) ==
  LET n == Len(flagsOf)
  IN  /\ accepting
      /\ commands' = commands \o [k \in 1..n |-> nextId + k - 1]
      /\ nextId' = nextId + n
      /\ ignored' = [i \in Command |-> IF i >= nextId /\ i < nextId + n
                                       THEN flagsOf[i - nextId + 1] ELSE ignored[i]]

\* Mutation: a refused submission leaves the live handles alone.
SyncedOnly(stays) == ui' = session /\ live' = stays

\* _sync_worker_session_state after a refused submission: take over what
\* the worker published, and drop live handles if it is disconnected.
Synced(stays) == /\ ui' = session
                 /\ live' = (stays /\ session.connected)

\* The same when a result with handles is attached after it.
SyncedBefore == ui' = session /\ live' = TRUE

\* The fields of a new worker, and its thread before its first step.
FreshWorker ==
  /\ commands' = <<>> /\ nextId' = 1 /\ current' = None /\ accepting' = TRUE
  /\ terminal' = FALSE /\ ready' = FALSE /\ stopped' = FALSE /\ shutdownError' = FALSE
  /\ session' = NoSession /\ workspace' = NoSession
  /\ ignored' = [i \in Command |-> FALSE] /\ done' = [i \in Command |-> FALSE]
  /\ events' = [i \in Command |-> <<>>] /\ read' = [i \in Command |-> 0]
  /\ pc' = "starting" /\ job' = None /\ mode' = "serving" /\ preClose' = FALSE
  /\ report' = [outcome |-> "ok", session |-> NoSession]
  /\ ran' = {} /\ asked' = {} /\ broken' = {}

\* Mutation: a worker is replaced again and again.
NewWorkerUnlimited == workers' = workers + 1 /\ FreshWorker

\* _replace_worker: a new workspace and a new thread.  The old worker is
\* terminal and nothing of the UI refers to it any more.
NewWorker ==
  /\ workers < MaxWorkers
  /\ workers' = workers + 1
  /\ FreshWorker

-----------------------------------------------------------------------------
(* Starting operations.                                                    *)

\* Mutation: an operation is started over the one that runs.
StartAnother(intr, coop) ==
  /\ Free /\ Room(1)
  /\ Submit(FALSE)
  /\ op' = NewOperation(intr, coop)
  /\ UNCHANGED <<ui, live, uiPc, loop, workers, lost>>

\* start(), accepted.
StartOperation(intr, coop) ==
  /\ Free /\ ~Active /\ Room(1)
  /\ Submit(FALSE)
  /\ op' = NewOperation(intr, coop)
  /\ UNCHANGED <<ui, live, uiPc, loop, workers, lost>>

\* start(), refused: the worker is gone and must not be replaced.
StartRefused ==
  /\ Free /\ ~Active /\ ~accepting
  /\ Synced(live)
  /\ UNCHANGED <<vars, op, uiPc, loop, workers, lost>>

\* start(replace_terminal_worker=True).  A worker seen to be terminal is
\* replaced before the submission; one that turns terminal only after it was
\* looked at is replaced when the submission fails.
StartReplacing ==
  /\ Free /\ ~Active /\ ~accepting /\ terminal
  /\ NewWorker
  /\ \E p \in {"building", "rebuilding"} : uiPc' = p
  /\ UNCHANGED <<op, ui, live, loop, lost>>

\* The constructor returns: the connect task is submitted to the new worker,
\* or the first new worker is replaced by a second one, or the start fails.
WorkerBuilt ==
  /\ uiPc \in {"building", "rebuilding"} /\ ready
  /\ \/ /\ Submit(FALSE)
        /\ op' = NewOperation(TRUE, FALSE)
        /\ uiPc' = "idle"
        /\ UNCHANGED <<ui, live, workers>>
     \/ /\ ~accepting /\ uiPc = "building"
        /\ NewWorker
        /\ uiPc' = "rebuilding"
        /\ UNCHANGED <<op, ui, live>>
     \/ /\ ~accepting /\ (uiPc = "rebuilding" \/ workers = MaxWorkers)
        /\ Synced(live)
        /\ uiPc' = "idle"
        /\ UNCHANGED <<vars, op, workers>>
  /\ UNCHANGED <<loop, lost>>

\* submit_background(): a cursor the UI let go of is closed on the worker.
ReleaseCursor ==
  /\ Free /\ live
  /\ \E stays \in BOOLEAN :
       \/ /\ Room(IF op.interruptible THEN 1 ELSE 0)
          /\ Submit(TRUE)
          /\ live' = stays
          /\ UNCHANGED ui
       \/ /\ ~accepting
          /\ Synced(stays)
          /\ UNCHANGED vars
  /\ UNCHANGED <<op, uiPc, loop, workers, lost>>

-----------------------------------------------------------------------------
(* Interrupting and polling.                                               *)

\* Mutation: an interrupt counts as requested although nothing was hit.
InterruptRecorded ==
  /\ Free /\ Active /\ ~op.cancelRequested
  /\ IF op.interruptible THEN \E hit \in BOOLEAN : Cancel(op.id, hit) ELSE UNCHANGED vars
  /\ op' = [op EXCEPT !.cancelRequested = TRUE]
  /\ UNCHANGED <<ui, live, uiPc, loop, workers, lost>>

\* interrupt(): the request counts only if something will act on it: the
\* driver call was hit, or the task itself watches for the request.
Interrupt ==
  /\ Free /\ Active /\ ~op.cancelRequested
  /\ \/ /\ op.interruptible
        /\ \E hit \in BOOLEAN :
             /\ Cancel(op.id, hit)
             /\ op' = [op EXCEPT !.cancelRequested = hit \/ op.cooperative]
     \/ /\ ~op.interruptible
        /\ op' = [op EXCEPT !.cancelRequested = TRUE]
        /\ UNCHANGED vars
  /\ UNCHANGED <<ui, live, uiPc, loop, workers, lost>>

\* poll() on a completion, its callbacks included.  A callback may let go of
\* a cursor (background command), attach a new one to a result, and start
\* the next operation, in this order; an interrupted completion closes every
\* cursor after that.  If the session is reported lost, or the operation was
\* interrupted, the handles are detached before and after the callback; if a
\* submission is refused they are at that point, with no second look afterwards.
Complete(outcome, s) ==
  \E hitError, releases, attaches, chains \in BOOLEAN :
    LET lostSession == ~s.connected
        interrupted == op.interruptible /\ (op.cancelRequested \/ hitError)
        closesAll   == interrupted /\ ~lostSession
        batch       == (IF releases THEN <<TRUE>> ELSE <<>>)
                       \o (IF chains THEN <<FALSE>> ELSE <<>>)
                       \o (IF closesAll THEN <<TRUE>> ELSE <<>>)
        kept        == (attaches \/ (live /\ ~releases)) /\ ~lostSession /\ ~interrupted
    IN  /\ hitError => outcome = "error"
        /\ \/ /\ Room(Len(batch) - (IF chains THEN 0 ELSE 1))
              /\ SubmitAll(batch)
              /\ op' = IF chains
                       THEN [NewOperation(TRUE, FALSE) EXCEPT
                               !.id = nextId + (IF releases THEN 1 ELSE 0)]
                       ELSE NoOperation
              /\ ui' = s
              /\ live' = kept
           \/ /\ ~accepting
              /\ op' = NoOperation
              /\ CASE batch = <<>> -> ui' = s /\ live' = kept
                   [] batch # <<>> /\ attaches /\ kept /\ ~chains -> SyncedBefore
                   [] batch # <<>> /\ ~(attaches /\ kept /\ ~chains) -> Synced(kept)
              /\ UNCHANGED <<commands, nextId, ignored>>

PollEvent ==
  /\ uiPc \in {"idle", "waiting"} /\ Active
  /\ read[op.id] < Len(events[op.id])
  /\ read' = [read EXCEPT ![op.id] = @ + 1]
  /\ LET e == events[op.id][read[op.id] + 1]
     IN  IF e = Progress
         THEN UNCHANGED <<commands, nextId, ignored, op, ui, live>>
         ELSE Complete(e.outcome, e.session)
  /\ UNCHANGED <<accepting, current, flags, session, done, events, workspace, pc, locals,
                 history, uiPc, loop, workers, lost>>

\* poll(), first half: get_nowait finds no event.
PollEmpty ==
  /\ uiPc \in {"idle", "waiting"} /\ Active
  /\ read[op.id] = Len(events[op.id])
  /\ uiPc' = "empty"
  /\ UNCHANGED <<vars, op, ui, live, loop, workers, lost>>

\* Mutation: poll goes on waiting for an event when the handle is done.
PollPatient ==
  /\ uiPc = "empty"
  /\ uiPc' = IF loop = "running" THEN "idle" ELSE "waiting"
  /\ UNCHANGED <<vars, op, ui, live, loop, workers, lost>>

\* poll(), second half: a handle that is done without an event is completed
\* with a made-up one that reports the session as disconnected.
PollDone ==
  /\ uiPc = "empty"
  /\ uiPc' = IF loop = "running" THEN "idle" ELSE "waiting"
  /\ \/ /\ ~done[op.id]
        /\ UNCHANGED <<commands, nextId, ignored, op, ui, live, lost>>
     \/ /\ done[op.id]
        /\ Complete("error", [session EXCEPT !.connected = FALSE])
        /\ lost' = (lost \/ read[op.id] < Len(events[op.id]))
  /\ UNCHANGED <<accepting, current, flags, session, done, events, read, workspace, pc,
                 locals, history, loop, workers>>

-----------------------------------------------------------------------------
(* Leaving the event loop (the finally block of App.run).                  *)

\* The loop ends. A running operation is cancelled, without recording it.
Quit ==
  /\ Free
  /\ loop' = IF Active THEN "timed" ELSE "untimed"
  /\ uiPc' = "waiting"
  /\ IF Active THEN \E hit \in BOOLEAN : Cancel(op.id, hit) ELSE UNCHANGED vars
  /\ UNCHANGED <<op, ui, live, workers, lost>>

\* wait() is over, the operation done or the timeout passed: live cursors are
\* closed in the background and the worker is told to stop.
StopWorker ==
  /\ uiPc = "waiting"
  /\ uiPc' = "joining"
  /\ live' = FALSE
  /\ LET batch == IF live /\ nextId \in Command THEN <<nextId>> ELSE <<>>
     IN  IF accepting
         THEN /\ commands' = commands \o batch \o <<Stop>>
              /\ nextId' = nextId + Len(batch)
              /\ ignored' = [i \in Command |-> ignored[i] \/ (live /\ i = nextId)]
              /\ UNCHANGED ui
         ELSE /\ ui' = IF live THEN session ELSE ui
              /\ UNCHANGED <<commands, nextId, ignored>>
  /\ accepting' = FALSE
  /\ UNCHANGED <<current, flags, session, done, events, read, workspace, pc, locals,
                 history, op, loop, workers, lost>>

\* join() returns; with a timeout (an operation was active) it may give up.
Leave ==
  /\ uiPc = "joining"
  /\ stopped \/ loop = "timed"
  /\ uiPc' = "left"
  /\ UNCHANGED <<vars, op, ui, live, loop, workers, lost>>

-----------------------------------------------------------------------------
(* The worker thread as the UI drives it.  A background command only closes *)
(* cursors: it leaves pending work and the connection as they are.          *)
ForegroundTask == /\ pc = "task" /\ ~ignored[job]
                  /\ Task
BackgroundTask == /\ pc = "task" /\ ignored[job]
                  /\ \/ \E o \in {"ok", "error"} : TaskReturns(o, workspace)
                     \/ TaskCrashes(workspace)

OpsThread == /\ Serve \/ ReportProgress \/ ForegroundTask \/ BackgroundTask \/ ConnectionDies
             /\ UNCHANGED uiVars

Poll == PollEvent \/ PollEmpty \/ PollDone

UI == \/ \E intr, coop \in BOOLEAN : StartOperation(intr, coop)
      \/ StartRefused \/ StartReplacing \/ WorkerBuilt \/ ReleaseCursor
      \/ Interrupt \/ Poll \/ Quit \/ StopWorker \/ Leave

OpsNext == UI \/ OpsThread

\* The event loop polls before and after every key, at least every 200 ms;
\* the worker thread is scheduled and its tasks end.
OpsFairness ==
  /\ WF_allVars(Poll) /\ WF_allVars(WorkerBuilt)
  /\ WF_allVars(StopWorker) /\ WF_allVars(Leave)
  /\ WF_allVars(Serve /\ UNCHANGED uiVars)
  /\ WF_allVars((ForegroundTask \/ BackgroundTask) /\ UNCHANGED uiVars)

OpsSpec == OpsInit /\ [][OpsNext]_allVars /\ OpsFairness

-----------------------------------------------------------------------------
(* Properties.                                                             *)

OpsTypeOK ==
  /\ TypeOK
  /\ op \in Operation /\ ui \in Session
  /\ live \in BOOLEAN /\ lost \in BOOLEAN
  /\ uiPc \in UiPC /\ loop \in {"running", "timed", "untimed"}
  /\ workers \in 1..MaxWorkers

\* "allows one foreground operation": a foreground command that the worker
\* has not finished is the one operation the UI shows as running; none is
\* ever left behind, whatever poll, an interrupt or a refused start did.
OneForegroundOperation ==
  uiPc \in {"idle", "empty", "waiting"} =>
    \A i \in Accepted :
      (~ignored[i] /\ ~done[i] /\ \A k \in 1..Len(events[i]) : events[i][k] = Progress)
        => i = op.id

\* Between operations the snapshot the UI decides by (quit, reconnect, mode
\* change) never hides pending work of the workspace, although background
\* commands publish states the UI does not see.
NoHiddenPendingWork ==
  ~Active /\ uiPc = "idle" => (workspace.pending => ui.pending)

\* "Interrupts and disconnects preserve conservative warnings; live cursor and
\* editing handles are detached" (ARCHITECTURE.md), whoever tells the UI that the
\* session is gone, an event, a refused command or a worker that stopped, and
\* although the completion's own callback may attach a new result.  The one way
\* around it, a divergence, is a completion that says connected, of a worker that
\* by now refuses commands.
DetachedWhenTold ==
  [][live' /\ ~ui'.connected =>
       \/ live /\ ui' = ui
       \/ Active /\ ~accepting /\ read'[op.id] # read[op.id]
          /\ events[op.id][read'[op.id]].session.connected]_allVars

\* An interrupt recorded as requested (and so refused the next time) has
\* reached the driver call of this very operation, or is watched by its task.
RecordedInterruptActs ==
  op.cancelRequested /\ op.interruptible /\ ~op.cooperative => op.id \in broken

\* Every operation the UI has started is completed for the UI, also when the
\* worker crashes under it.
EveryOperationCompletes ==
  \A i \in Command : op.id = i ~> (op.id # i \/ uiPc = "left")

\* Leaving the event loop always ends the program, with the worker stopped
\* unless the loop was left while an operation ran.
LeavingEnds ==
  loop # "running" ~> (uiPc = "left" /\ (stopped \/ loop = "timed"))

\* "emits progress or completion events.  Polling those events ... invokes
\* ResultPresenter or an operation-specific callback" (ARCHITECTURE.md): an
\* emitted completion is what the operation completes with.
EmittedCompletionDelivered == ~lost

-----------------------------------------------------------------------------
(* The invariant the safety properties rest on.                            *)

\* No completion among the events of this command.
OnlyProgress(i) == \A k \in 1..Len(events[i]) : events[i][k] = Progress

\* A foreground command whose completion is still to come is the operation.
OneOperation == \A i \in Accepted :
                  ~ignored[i] /\ ~done[i] /\ OnlyProgress(i) => i = op.id

\* Where the UI thread stands with an operation, and without one.
UiShape ==
  /\ ~Active => ~op.cancelRequested
  /\ uiPc \in {"building", "rebuilding"} => ~Active
  /\ uiPc = "empty" => Active

\* A command has no completion event before the thread has emitted it.
EventsInOrder ==
  \A i \in Command : i >= NextTaken \/ (i = job /\ pc # "done") => OnlyProgress(i)

\* Pending work of the workspace is published, except by a foreground command
\* on its way from its task to its completion, and is in every report of a
\* command, and in the completion the operation has still to see.
PendingPublished ==
  workspace.pending => \/ session.pending
                       \/ job # None /\ ~ignored[job] /\ pc \in {"clear", "snapshot", "publish"}
PendingReported ==
  workspace.pending /\ pc \in {"publish", "emit"} => report.session.pending
PendingDelivered ==
  workspace.pending /\ Active =>
    \A k \in 1..Len(events[op.id]) :
      events[op.id][k] # Progress => events[op.id][k].session.pending

\* What every step of the UI and of the worker it drives preserves.
OperationsInvariant ==
  /\ OneOperation /\ UiShape /\ EventsInOrder
  /\ RecordedInterruptActs

\* What is preserved besides, when the workspace's state can always be read.
PendingInvariant ==
  PendingPublished /\ PendingReported /\ PendingDelivered /\ NoHiddenPendingWork
=============================================================================
