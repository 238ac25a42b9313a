--------------------------- MODULE DatabaseWorker ---------------------------
(***************************************************************************)
(* The persistent database thread (ui/db_worker.py) and the client-side    *)
(* operations on it.  The client is any thread that holds the worker: it   *)
(* submits, cancels, reads the events of a handle, ignores a handle and    *)
(* shuts the worker down, at any point of the thread's progress.  One      *)
(* action of the thread is what it does between two points at which the    *)
(* client may observe it: a lock section, a queue operation, an event.     *)
(***************************************************************************)
EXTENDS Naturals, Sequences

CONSTANTS MaxCommands,       \* bound on the commands one worker is given
          MaxProgress,       \* bound on the progress events of one command
          TaskLeaves,        \* the workspace states a task may leave behind
          SnapshotOutcomes,  \* how reading the workspace state may end
          SinkMayFail        \* may publishing an event itself raise?

\* DbSessionState, less the two mode flags, which nothing here changes.
Session  == [connected : BOOLEAN, pending : BOOLEAN]
NoSession == [connected |-> FALSE, pending |-> FALSE]

ASSUME WorkerAssumption == /\ MaxCommands \in Nat
                           /\ MaxProgress \in Nat
                           /\ TaskLeaves \subseteq Session
                           /\ SnapshotOutcomes \subseteq {"ok", "error", "fatal"}
                           /\ "ok" \in SnapshotOutcomes
                           /\ SinkMayFail \in BOOLEAN

VARIABLES
  \* fields of DatabaseWorker
  commands,        \* _commands: the FIFO queue
  nextId,          \* _next_command_id
  current,         \* _current_command_id
  accepting,       \* _accepting_commands
  terminal,        \* _terminal_error is not None
  ready,           \* _ready
  stopped,         \* _stopped
  shutdownError,   \* _shutdown_error is not None
  session,         \* _session_state, as published to the client
  \* fields of the handles
  ignored, done, events, read,
  \* the workspace the thread owns
  workspace,
  \* locals of the thread
  pc, job, mode, report, preClose,
  \* history: commands whose task was called, whose interrupt was asked
  \* for, and whose driver call a cancel has hit
  ran, asked, broken

client  == <<commands, nextId, accepting>>
handles == <<ignored, done, events, read>>
flags   == <<terminal, ready, stopped, shutdownError>>
locals  == <<job, mode, report, preClose>>
history == <<ran, asked, broken>>
vars    == <<client, current, flags, session, handles, workspace, pc, locals, history>>

Command == 1..MaxCommands
Stop    == 0                  \* the _STOP sentinel of the queue
None    == 0                  \* no command

Outcome  == {"ok", "error", "fatal", "unrun"}
Progress == [kind |-> "progress"]
Finished(o, s) == [kind |-> "finished", outcome |-> o, session |-> s]
Event    == {Progress} \cup {Finished(o, s) : o \in Outcome, s \in Session}

PC == {"starting", "get", "begin", "task", "clear", "snapshot", "publish", "emit",
       "done", "fatal", "drain", "closing", "final", "exited"}

Accepted == {i \in Command : i < nextId}

Init == /\ commands = <<>>
        /\ nextId = 1
        /\ current = None
        /\ accepting = TRUE
        /\ terminal = FALSE /\ ready = FALSE /\ stopped = FALSE /\ shutdownError = FALSE
        /\ session = NoSession
        /\ ignored = [i \in Command |-> FALSE]
        /\ done = [i \in Command |-> FALSE]
        /\ events = [i \in Command |-> <<>>]
        /\ read = [i \in Command |-> 0]
        /\ workspace = NoSession
        /\ pc = "starting" /\ job = None /\ mode = "serving"
        /\ report = [outcome |-> "ok", session |-> NoSession]
        /\ preClose = FALSE
        /\ ran = {} /\ asked = {} /\ broken = {}

-----------------------------------------------------------------------------
(* The client. The constructor returns only once ready is set.             *)

Submit(isIgnored) ==
  /\ ready /\ accepting /\ nextId \in Command
  /\ commands' = Append(commands, nextId)
  /\ nextId' = nextId + 1
  /\ ignored' = [ignored EXCEPT ![nextId] = isIgnored]
  /\ UNCHANGED <<accepting, current, flags, session, done, events, read, workspace, pc,
                 locals, history>>

\* Mutation: whatever command is running is cancelled.
HitsWhatRuns(i) == current # None

\* The driver call a cancel breaks is that of the command in the thread's
\* hands, whoever asked: only the test on the id ties the two together.
\* hit is the answer: a session without a connection, or a driver without
\* cancel, is not hit.
Hittable(i) == current = i

Cancel(i, hit) ==
  /\ i \in Accepted
  /\ hit => Hittable(i)
  /\ asked' = asked \cup {i}
  /\ broken' = IF hit THEN broken \cup {job} ELSE broken
  /\ UNCHANGED <<client, current, flags, session, handles, workspace, pc, locals, ran>>

\* events.get_nowait of a handle that holds an event
Receive(i) ==
  /\ i \in Accepted /\ read[i] < Len(events[i])
  /\ read' = [read EXCEPT ![i] = @ + 1]
  /\ UNCHANGED <<client, current, flags, session, ignored, done, events, workspace, pc,
                 locals, history>>

Ignore(i) ==
  /\ i \in Accepted /\ ~ignored[i]
  /\ ignored' = [ignored EXCEPT ![i] = TRUE]
  /\ read' = [read EXCEPT ![i] = Len(events[i])]
  /\ UNCHANGED <<client, current, flags, session, done, events, workspace, pc, locals,
                 history>>

\* Mutation: the sentinel overtakes the commands that wait.
ShutdownAtOnce ==
  /\ ready /\ accepting
  /\ accepting' = FALSE
  /\ commands' = <<Stop>> \o commands
  /\ UNCHANGED <<nextId, current, flags, session, handles, workspace, pc, locals, history>>

Shutdown ==
  /\ ready /\ accepting
  /\ accepting' = FALSE
  /\ commands' = Append(commands, Stop)
  /\ UNCHANGED <<nextId, current, flags, session, handles, workspace, pc, locals, history>>

Client == \/ \E b \in BOOLEAN : Submit(b)
          \/ \E i \in Command, hit \in BOOLEAN : Cancel(i, hit)
          \/ \E i \in Command : Receive(i) \/ Ignore(i)
          \/ Shutdown

\* The network: an established session dies under the driver.
ConnectionDies ==
  /\ workspace.connected
  /\ workspace' = [workspace EXCEPT !.connected = FALSE]
  /\ UNCHANGED <<client, current, flags, session, handles, pc, locals, history>>

-----------------------------------------------------------------------------
(* The thread.                                                             *)

InitialSnapshot ==
  /\ pc = "starting"
  /\ \/ /\ session' = workspace
        /\ ready' = TRUE
        /\ pc' = "get"
     \/ /\ SnapshotOutcomes # {"ok"}
        /\ pc' = "fatal"
        /\ UNCHANGED <<session, ready>>
  /\ UNCHANGED <<client, current, terminal, stopped, shutdownError, handles, workspace,
                 locals, history>>

\* Mutation: the newest command is taken first.
TakeNewest ==
  /\ pc = "get" /\ commands # <<>>
  /\ commands' = SubSeq(commands, 1, Len(commands) - 1)
  /\ IF commands[Len(commands)] = Stop
     THEN pc' = "closing" /\ UNCHANGED job
     ELSE pc' = "begin" /\ job' = commands[Len(commands)]
  /\ UNCHANGED <<nextId, accepting, current, flags, session, handles, workspace, mode,
                 report, preClose, history>>

\* Mutation: the sentinel is run like a command.
TakeUnchecked ==
  /\ pc = "get" /\ commands # <<>>
  /\ commands' = Tail(commands)
  /\ pc' = "begin" /\ job' = Head(commands)
  /\ UNCHANGED <<nextId, accepting, current, flags, session, handles, workspace, mode,
                 report, preClose, history>>

\* Mutation: the sentinel is skipped.
TakeSkippingStop ==
  /\ pc = "get" /\ commands # <<>>
  /\ commands' = Tail(commands)
  /\ IF Head(commands) = Stop
     THEN UNCHANGED <<pc, job>>
     ELSE pc' = "begin" /\ job' = Head(commands)
  /\ UNCHANGED <<nextId, accepting, current, flags, session, handles, workspace, mode,
                 report, preClose, history>>

Take ==
  /\ pc = "get" /\ commands # <<>>
  /\ commands' = Tail(commands)
  /\ IF Head(commands) = Stop
     THEN pc' = "closing" /\ UNCHANGED job
     ELSE pc' = "begin" /\ job' = Head(commands)
  /\ UNCHANGED <<nextId, accepting, current, flags, session, handles, workspace, mode,
                 report, preClose, history>>

Begin ==
  /\ pc = "begin"
  /\ current' = job
  /\ ran' = ran \cup {job}
  /\ pc' = "task"
  /\ UNCHANGED <<client, flags, session, handles, workspace, locals, asked, broken>>

\* _emit: an ignored handle drops the event.
Emitted(i, e) == IF ignored[i] THEN events ELSE [events EXCEPT ![i] = Append(@, e)]

ReportProgress ==
  /\ pc = "task" /\ Len(events[job]) < MaxProgress /\ ~ignored[job]
  /\ events' = Emitted(job, Progress)
  /\ UNCHANGED <<client, current, flags, session, ignored, done, read, workspace, pc,
                 locals, history>>

\* The task returns or raises an Exception, leaving the workspace as w.
TaskReturns(o, w) ==
  /\ pc = "task"
  /\ workspace' = w
  /\ report' = [report EXCEPT !.outcome = o]
  /\ pc' = "clear"
  /\ UNCHANGED <<client, current, flags, session, handles, job, mode, preClose, history>>

\* The task raises another BaseException: the worker is terminal at once.
TaskCrashes(w) ==
  /\ pc = "task"
  /\ workspace' = w
  /\ report' = [report EXCEPT !.outcome = "fatal"]
  /\ terminal' = TRUE
  /\ accepting' = FALSE
  /\ mode' = "failing"
  /\ pc' = "clear"
  /\ UNCHANGED <<commands, nextId, current, ready, stopped, shutdownError, session, handles,
                 job, preClose, history>>

\* Mutation: the command stays current after its task has returned.
CurrentKept ==
  /\ pc = "clear"
  /\ pc' = "snapshot"
  /\ UNCHANGED <<client, current, flags, session, handles, workspace, locals, history>>

ClearCurrent ==
  /\ pc = "clear"
  /\ current' = None
  /\ pc' = "snapshot"
  /\ UNCHANGED <<client, flags, session, handles, workspace, locals, history>>

\* Mutation: the completion carries the state published before the task.
SnapshotStale(s) ==
  /\ report' = [report EXCEPT !.session = session]
  /\ UNCHANGED <<mode, terminal, accepting>>

\* A state that cannot be read falls back on the published one; a fatal
\* failure shows the session as disconnected.
SnapshotWith(s) ==
  LET seen    == IF s = "ok" THEN workspace ELSE session
      failing == mode = "failing" \/ s = "fatal"
  IN  /\ report' = [outcome |-> IF s # "ok" /\ report.outcome = "ok" THEN "error"
                                ELSE report.outcome,
                    session |-> IF failing THEN [seen EXCEPT !.connected = FALSE] ELSE seen]
      /\ mode' = IF failing THEN "failing" ELSE mode
      /\ terminal' = (terminal \/ failing)
      /\ accepting' = (accepting /\ ~failing)

Snapshot ==
  /\ pc = "snapshot"
  /\ \E s \in SnapshotOutcomes : SnapshotWith(s)
  /\ pc' = "publish"
  /\ UNCHANGED <<commands, nextId, current, ready, stopped, shutdownError, session, handles,
                 workspace, job, preClose, history>>

Publish ==
  /\ pc = "publish"
  /\ session' = report.session
  /\ pc' = "emit"
  /\ UNCHANGED <<client, current, flags, handles, workspace, locals, history>>

\* Mutation: the handle is done before its event is there.
EmitDoneFirst ==
  /\ pc = "emit"
  /\ done' = [done EXCEPT ![job] = TRUE]
  /\ pc' = "done"
  /\ UNCHANGED <<client, current, flags, session, ignored, events, read, workspace, locals,
                 history>>

\* _finish_handle, first half: the completion event, or a sink that raises.
\* The done flag is set either way; a raise while serving is fatal.
Emit ==
  /\ pc = "emit"
  /\ \/ /\ events' = Emitted(job, Finished(report.outcome, report.session))
        /\ UNCHANGED mode
     \/ /\ SinkMayFail
        /\ ~ignored[job]
        /\ mode' = IF mode = "draining" THEN mode ELSE "failing"
        /\ UNCHANGED events
  /\ pc' = "done"
  /\ UNCHANGED <<client, current, flags, session, ignored, done, read, workspace, job,
                 report, preClose, history>>

\* _finish_handle, second half.
MarkDone ==
  /\ pc = "done"
  /\ done' = [done EXCEPT ![job] = TRUE]
  /\ job' = None
  /\ pc' = CASE mode = "serving" -> "get" [] mode = "failing" -> "fatal" [] OTHER -> "drain"
  /\ UNCHANGED <<client, current, flags, session, ignored, events, read, workspace, mode,
                 report, preClose, history>>

\* Mutation: a failing worker goes on accepting while it drains its queue.
FailOpen ==
  /\ pc = "fatal"
  /\ session' = [session EXCEPT !.connected = FALSE]
  /\ terminal' = TRUE
  /\ mode' = "draining"
  /\ pc' = "drain"
  /\ UNCHANGED <<client, current, ready, stopped, shutdownError, handles, workspace, job,
                 report, preClose, history>>

\* The outer exception handler of _run, up to _fail_queued_commands.
Fail ==
  /\ pc = "fatal"
  /\ session' = [session EXCEPT !.connected = FALSE]
  /\ terminal' = TRUE
  /\ accepting' = FALSE
  /\ mode' = "draining"
  /\ pc' = "drain"
  /\ UNCHANGED <<commands, nextId, current, ready, stopped, shutdownError, handles,
                 workspace, job, report, preClose, history>>

\* Mutation: the commands left are thrown away.
DrainSilently ==
  /\ pc = "drain" /\ commands # <<>>
  /\ commands' = Tail(commands)
  /\ UNCHANGED <<nextId, accepting, current, flags, session, handles, workspace, pc, locals,
                 history>>

\* _fail_queued_commands: every command left is reported as not run.
Drain ==
  /\ pc = "drain" /\ commands # <<>>
  /\ commands' = Tail(commands)
  /\ IF Head(commands) = Stop
     THEN UNCHANGED <<job, report, pc>>
     ELSE /\ job' = Head(commands)
          /\ report' = [outcome |-> "unrun", session |-> session]
          /\ pc' = "emit"
  /\ UNCHANGED <<nextId, accepting, current, flags, session, handles, workspace, mode,
                 preClose, history>>

Drained ==
  /\ pc = "drain" /\ commands = <<>>
  /\ pc' = "closing"
  /\ UNCHANGED <<client, current, flags, session, handles, workspace, locals, history>>

\* The finally block: the workspace forgets its connection and its pending
\* work even when closing it raises.
Close ==
  /\ pc = "closing"
  /\ ready' = TRUE
  /\ preClose' = session.pending
  /\ workspace' = NoSession
  /\ \E raises \in BOOLEAN : shutdownError' = (raises /\ mode = "serving")
  /\ pc' = "final"
  /\ UNCHANGED <<client, current, terminal, stopped, session, handles, job, mode, report,
                 history>>

\* Mutation: the last published state is that of the closed workspace.
ExitForgets ==
  /\ pc = "final"
  /\ session' = workspace
  /\ shutdownError' = (shutdownError \/ mode # "serving")
  /\ accepting' = FALSE
  /\ stopped' = TRUE
  /\ pc' = "exited"
  /\ UNCHANGED <<commands, nextId, current, terminal, ready, handles, workspace, locals,
                 history>>

Exit ==
  /\ pc = "final"
  /\ \E s \in SnapshotOutcomes :
       LET seen == IF s = "ok" THEN workspace ELSE session
       IN  /\ session' = IF mode = "serving" THEN seen
                         ELSE [connected |-> FALSE, pending |-> preClose \/ seen.pending]
           /\ shutdownError' = (shutdownError \/ s = "fatal" \/ mode # "serving")
  /\ accepting' = FALSE
  /\ stopped' = TRUE
  /\ pc' = "exited"
  /\ UNCHANGED <<commands, nextId, current, terminal, ready, handles, workspace, locals,
                 history>>

Task == \E w \in TaskLeaves : TaskCrashes(w) \/ \E o \in {"ok", "error"} : TaskReturns(o, w)

\* What the thread does between two tasks, without the database's help.
Serve == \/ InitialSnapshot \/ Take \/ Begin \/ ClearCurrent \/ Snapshot \/ Publish
         \/ Emit \/ MarkDone \/ Fail \/ Drain \/ Drained \/ Close \/ Exit

Thread == Serve \/ ReportProgress \/ Task

Next == Client \/ ConnectionDies \/ Thread

\* The thread is always scheduled again, and every task ends: a driver call
\* returns, fails or is broken off.
Fairness == WF_vars(Serve) /\ WF_vars(Task)

Spec == Init /\ [][Next]_vars /\ Fairness

-----------------------------------------------------------------------------
(* Properties.                                                             *)

WorkerTypes ==
  /\ commands \in Seq(Command \cup {Stop}) /\ nextId \in 1..(MaxCommands + 1)
  /\ current \in Command \cup {None} /\ accepting \in BOOLEAN
  /\ terminal \in BOOLEAN /\ ready \in BOOLEAN /\ stopped \in BOOLEAN
  /\ shutdownError \in BOOLEAN /\ session \in Session

HandleTypes ==
  /\ ignored \in [Command -> BOOLEAN] /\ done \in [Command -> BOOLEAN]
  /\ events \in [Command -> Seq(Event)] /\ read \in [Command -> Nat]

ThreadTypes ==
  /\ workspace \in Session /\ job \in Command \cup {None} /\ preClose \in BOOLEAN
  /\ pc \in PC /\ mode \in {"serving", "failing", "draining"}
  /\ report \in [outcome : Outcome, session : Session]
  /\ ran \subseteq Command /\ asked \subseteq Command /\ broken \subseteq Command

\* The type of every variable of worker, handles and thread.
TypeOK == WorkerTypes /\ HandleTypes /\ ThreadTypes

\* "Serialize all access to one database workspace on one persistent
\* thread": while a command is in the thread's hands, or once it is done,
\* every command accepted before it is done, crash or no crash.
SerialFifo ==
  \A i, j \in Accepted : i < j /\ (j = job \/ done[j]) => done[i]

\* Whatever made the thread stop, no handle is left waiting and no command
\* is left in the queue: a submit cannot slip in behind the last drain.
NobodyStranded ==
  stopped => commands = <<>> /\ \A i \in Accepted : done[i]

\* shutdown "drains queued work": a worker that stopped without an error
\* has run every command it accepted.
CleanShutdownDrains ==
  stopped /\ ~shutdownError => Accepted \subseteq ran

\* "Cancel only if command_id is still the command being executed": a
\* driver call is broken off only if its own command's interrupt was asked
\* for, however late the request is.
InterruptHitsItsTarget == broken \subseteq asked

\* Once a failing thread has published what its last task left, the
\* published state never forgets pending work, although closing the
\* workspace clears it there: the client can still warn of it.
PendingSurvivesCrash ==
  [][(mode \in {"failing", "draining"} /\ pc # "publish" /\ session.pending)
       => session'.pending]_vars

\* A worker that has been shut down, or has crashed, stops.
ClosedWorkerStops == ~accepting ~> stopped

\* The worker implements the command service.
Service ==
  INSTANCE CommandService WITH
    open <- accepting,
    status <- [i \in Command |-> IF i \notin Accepted THEN "absent"
                                 ELSE IF done[i] THEN "reported"
                                 ELSE IF i \in ran THEN "running" ELSE "queued"]

\* Commands are accepted, run and reported as CommandService promises,
\* liveness included.
ImplementsService == Service!Spec
-----------------------------------------------------------------------------
(* The invariant the safety properties rest on.                            *)

\* The number of commands in a queue, its Stop left out.
WaitingIn(q) == IF q # <<>> /\ q[Len(q)] = Stop THEN Len(q) - 1 ELSE Len(q)

\* The queue holds the latest commands before n, in order, and a Stop only as
\* its last item.
InOrder(q, n) ==
  /\ WaitingIn(q) < n
  /\ \A k \in 1..Len(q) : q[k] = IF k <= WaitingIn(q) THEN n - WaitingIn(q) + k - 1 ELSE Stop

\* Every command before this one has been taken out of the queue.
NextTaken == nextId - WaitingIn(commands)

\* A Stop in the queue closes the worker for good.
QueueInOrder ==
  /\ InOrder(commands, nextId)
  /\ WaitingIn(commands) # Len(commands) => ~accepting

\* The command in the thread's hands is the last one taken, and is not done.
InHand ==
  /\ job # None <=> pc \in {"begin", "task", "clear", "snapshot", "publish", "emit", "done"}
  /\ job # None => job = NextTaken - 1 /\ ~done[job]
  /\ current = IF pc \in {"task", "clear"} THEN job ELSE None

\* Every command taken is done or in hand, and has run unless the thread is
\* failing what was left; no other command is done.
TakenAnswered ==
  \A i \in Command :
    /\ done[i] => i < NextTaken
    /\ i < NextTaken => /\ done[i] \/ i = job
                        /\ i \in ran \/ mode = "draining" \/ (i = job /\ pc = "begin")

\* A thread on its way out accepts nothing and leaves an empty queue.
WayOut ==
  /\ mode = "draining" \/ pc \in {"drain", "closing", "final", "exited"} => ~accepting
  /\ pc = "drain" => mode = "draining"
  /\ mode = "draining" => pc \in {"drain", "emit", "done", "closing", "final", "exited"}
  /\ pc \in {"closing", "final", "exited"} => commands = <<>>
  /\ stopped => pc = "exited"
  /\ stopped /\ ~shutdownError => mode = "serving"

\* Together with the types, what every step of worker and client preserves:
\* the order and the answering of commands follow from it.
WorkerInvariant == QueueInOrder /\ InHand /\ TakenAnswered /\ WayOut
=============================================================================
