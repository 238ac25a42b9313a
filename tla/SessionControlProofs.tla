------------------------ MODULE SessionControlProofs ------------------------
(***************************************************************************)
(* Proofs about the flows that end a transaction, a session or the         *)
(* program, and about what of them a restart finds again, for any files,   *)
(* any arrangement of tabs, any failure and any other writer of the file.  *)
(***************************************************************************)
EXTENDS SessionControl, SequenceLemmas, TLAPS

-----------------------------------------------------------------------------
(* The state, as far as uncommitted work depends on it.                    *)

Report == [connected : BOOLEAN, auto : BOOLEAN, pending : BOOLEAN]

\* An operation and a save have these fields; the tab of the one and the
\* contents of the other do not matter here.
IsOp(o) ==
  /\ o = [task |-> o.task, answer |-> o.answer, next |-> o.next, auto |-> o.auto,
          force |-> o.force, tab |-> o.tab, outcome |-> o.outcome, sess |-> o.sess]
  /\ o.task \in {"none", "connect", "commit", "rollback", "mode", "statement"}
  /\ o.answer \in Answer /\ o.next \in {"stay", "quit", "reconnect"}
  /\ o.auto \in BOOLEAN /\ o.force \in BOOLEAN
  /\ o.outcome \in {"none", "ok", "error"} /\ o.sess \in Report
  /\ o.task = "none" => o.outcome = "none"
IsSave(s) ==
  /\ s = [section |-> s.section, copy |-> s.copy, desk |-> s.desk, auto |-> s.auto,
          raced |-> s.raced]
  /\ s.section \in {"none", "mode", "tabs"}

Types == /\ db \in Database /\ ui \in Report /\ worker \in {"up", "gone"}
         /\ IsOp(op) /\ IsSave(save)

IInv == Types /\ SessionInvariant

\* The fields of the records that operations and saves are made from.
LEMMA Values ==
  /\ IsOp(NoOp) /\ NoOp.task = "none" /\ NoOp.answer = "none" /\ NoOp.next = "stay"
  /\ NoOp.outcome = "none"
  /\ IsSave(NoSave) /\ NoSave.section = "none"
  /\ \A auto \in BOOLEAN : /\ Closed(auto) \in Database /\ ~Closed(auto).work
                           /\ ~Closed(auto).pending /\ Closed(auto).auto = auto
                           /\ Closed(auto).conn = "none"
<1>1. [connected |-> FALSE, auto |-> FALSE, pending |-> FALSE] \in Report
  BY DEF Report
<1>2. IsOp(NoOp) /\ NoOp.task = "none" /\ NoOp.answer = "none" /\ NoOp.next = "stay"
      /\ NoOp.outcome = "none"
  BY <1>1 DEF NoOp, IsOp, Answer
<1>3. IsSave(NoSave) /\ NoSave.section = "none"
  BY DEF NoSave, IsSave
<1>4. ASSUME NEW auto \in BOOLEAN
      PROVE  /\ Closed(auto) \in Database /\ ~Closed(auto).work
             /\ ~Closed(auto).pending /\ Closed(auto).auto = auto
             /\ Closed(auto).conn = "none"
  BY DEF Closed, Database
<1> QED BY <1>2, <1>3, <1>4

\* A report repeats what the workspace says.
LEMMA SnapshotFields ==
  ASSUME NEW d \in Database
  PROVE  /\ Snapshot(d) \in Report /\ Snapshot(d).pending = d.pending
         /\ Snapshot(d).auto = d.auto
         /\ [Snapshot(d) EXCEPT !.connected = FALSE] \in Report
         /\ [Snapshot(d) EXCEPT !.connected = FALSE].pending = d.pending
         /\ [Snapshot(d) EXCEPT !.connected = FALSE].auto = d.auto
<1>1. PICK c : c = (d.conn = "live")
  OBVIOUS
<1>2. PICK s : s = Snapshot(d)
  OBVIOUS
<1>3. s = [connected |-> c, auto |-> d.auto, pending |-> d.pending]
  BY <1>1, <1>2 DEF Snapshot
<1>4. PICK r : r = [s EXCEPT !.connected = FALSE]
  OBVIOUS
<1>5. r = [connected |-> FALSE, auto |-> d.auto, pending |-> d.pending]
  BY <1>3, <1>4
<1>6. c \in BOOLEAN /\ d.auto \in BOOLEAN /\ d.pending \in BOOLEAN
  BY <1>1 DEF Database
<1>7. s \in Report /\ r \in Report
  BY <1>3, <1>5, <1>6 DEF Report
<1>8. /\ s.pending = d.pending /\ s.auto = d.auto /\ r.pending = d.pending /\ r.auto = d.auto
  BY <1>3, <1>5
<1> QED BY <1>2, <1>4, <1>7, <1>8

\* Before the first start nothing is under way.
LEMMA InitIInv == Init => IInv
<1> SUFFICES ASSUME Init PROVE IInv
  OBVIOUS
<1>1. Closed(FALSE) \in Database /\ ~Closed(FALSE).work
  BY Values
<1>2. Types
  BY <1>1, Values, SnapshotFields DEF Init, Types
<1>3. SessionInvariant
  BY <1>1, Values DEF Init, SessionInvariant, TaskAlone, AnswersGiven, WorkKnown, Active, Running
<1> QED BY <1>2, <1>3 DEF IInv

-----------------------------------------------------------------------------
(* Tasks.                                                                  *)

\* How a task may leave the workspace d: with work of manual mode only in manual
\* mode, and without work it had only if the session died or the task may end it.
Sane(e, d, mayEnd) ==
  /\ e.db \in Database /\ e.outcome \in {"ok", "error"}
  /\ d.work /\ ~d.auto /\ e.db.work => ~e.db.auto
  /\ d.work /\ ~e.db.work => mayEnd \/ e.db.conn = "dead"

\* ensure_connected takes no work away, and opens a session without any.
LEMMA EnsuredEnds ==
  ASSUME NEW d \in Database, NEW e \in Ensured(d)
  PROVE  /\ Sane(e, d, FALSE) /\ e.db.auto = d.auto
         /\ e.outcome = "ok" => e.db.conn = "live"
<1>1. d.conn \in {"none", "live", "dead"} /\ d.auto \in BOOLEAN /\ (d.work => d.conn = "live")
  BY DEF Database
<1>2. CASE d.conn = "none"
  <2>1. e \in {End([Closed(d.auto) EXCEPT !.conn = "live"], "ok"), End(Closed(d.auto), "error")}
    BY <1>2 DEF Ensured
  <2>2. PICK new : new = [Closed(d.auto) EXCEPT !.conn = "live"]
    OBVIOUS
  <2>3. new \in Database /\ ~new.work /\ new.auto = d.auto /\ new.conn = "live"
    BY <1>1, <2>2 DEF Closed, Database
  <2>4. \/ e.db = new /\ e.outcome = "ok"
        \/ e.db = Closed(d.auto) /\ e.outcome = "error"
    BY <2>1, <2>2 DEF End
  <2>5. ~d.work
    BY <1>1, <1>2
  <2> QED BY <1>1, <2>3, <2>4, <2>5, Values DEF Sane
<1>3. CASE d.conn # "none"
  <2>1. e.db = d /\ e.outcome \in {"ok", "error"} /\ (e.outcome = "ok" => d.conn = "live")
    BY <1>1, <1>3 DEF Ensured, End
  <2> QED BY <2>1 DEF Sane
<1> QED BY <1>2, <1>3

\* commit and rollback: a success leaves no work.
LEMMA ResolvedEnds ==
  ASSUME NEW d \in Database, NEW a, NEW e \in Resolved(d, a)
  PROVE  /\ Sane(e, d, TRUE) /\ e.db.auto = d.auto
         /\ e.outcome = "ok" => ~e.db.work
<1>1. PICK f \in Ensured(d) :
        e \in IF f.outcome = "error" THEN {f}
              ELSE {End([f.db EXCEPT !.pending = FALSE, !.work = FALSE], "ok"), End(f.db, "error")}
                   \cup (IF a = "commit" THEN {End([f.db EXCEPT !.work = FALSE], "error")} ELSE {})
                   \cup Dies(f.db)
  BY DEF Resolved
<1>2. Sane(f, d, FALSE) /\ f.db.auto = d.auto
  BY <1>1, EnsuredEnds
<1>3. f.db \in Database
  BY <1>2 DEF Sane
<1>4. PICK b1, b2, b3 : /\ b1 = [f.db EXCEPT !.pending = FALSE, !.work = FALSE]
                        /\ b2 = [f.db EXCEPT !.work = FALSE]
                        /\ b3 = [f.db EXCEPT !.conn = "dead", !.work = FALSE]
  OBVIOUS
<1>5. \A b \in {b1, b2, b3} : b \in Database /\ ~b.work /\ b.auto = f.db.auto
  BY <1>3, <1>4 DEF Database
<1>6. \/ f.outcome = "error" /\ e = f
      \/ e.db = b1 /\ e.outcome = "ok"
      \/ e.db \in {f.db, b2, b3} /\ e.outcome = "error"
  BY <1>1, <1>4 DEF Dies, End
<1> QED BY <1>2, <1>3, <1>5, <1>6 DEF Sane

\* A switch of mode leaves work alone without an answer, and none of manual mode
\* in a session that then commits by itself.
LEMMA ModeEnds ==
  ASSUME NEW d \in Database, NEW a, NEW auto \in BOOLEAN,
         d.work /\ a = "none" /\ auto => d.auto, NEW e \in ModeSet(d, a, auto)
  PROVE  Sane(e, d, a # "none")
<1>1. PICK f \in IF a = "none" THEN {End(d, "ok")} ELSE Resolved(d, a) :
        e \in IF f.outcome = "error" THEN {f}
              ELSE {End([f.db EXCEPT !.auto = auto], "ok"), End(f.db, "error")}
  BY DEF ModeSet
<1>2. /\ Sane(f, d, a # "none") /\ f.db.auto = d.auto
      /\ f.outcome = "ok" /\ f.db.work => a = "none" /\ f.db = d
  <2>1. CASE a = "none"
    <3>1. f.db = d /\ f.outcome = "ok"
      BY <1>1, <2>1 DEF End
    <3> QED BY <2>1, <3>1 DEF Sane
  <2>2. CASE a # "none"
    BY <1>1, <2>2, ResolvedEnds DEF Sane
  <2> QED BY <2>1, <2>2
<1>3. PICK b : b = [f.db EXCEPT !.auto = auto]
  OBVIOUS
<1>4. b \in Database /\ b.work = f.db.work /\ b.auto = auto /\ b.conn = f.db.conn
  BY <1>2, <1>3 DEF Sane, Database
<1>5. \/ e = f
      \/ e.db = f.db /\ e.outcome = "error"
      \/ e.db = b /\ e.outcome = "ok" /\ f.outcome = "ok"
  BY <1>1, <1>2, <1>3 DEF End, Sane
<1> QED BY <1>2, <1>4, <1>5 DEF Sane

\* A statement may end the transaction, and leaves the mode alone.
LEMMA StatementEnds ==
  ASSUME NEW d \in Database, NEW e \in StatementRun(d)
  PROVE  Sane(e, d, TRUE)
<1>1. PICK f \in Ensured(d) :
        e \in IF f.outcome = "error" THEN {f}
              ELSE [db : {b \in Database : b.conn = "live" /\ b.auto = d.auto},
                    outcome : {"ok", "error"}]
                   \cup Dies(f.db)
  BY DEF StatementRun
<1>2. Sane(f, d, FALSE) /\ f.db.auto = d.auto /\ f.db \in Database
      /\ (f.outcome = "ok" => f.db.conn = "live")
  BY <1>1, EnsuredEnds DEF Sane
<1>3. CASE e = f
  BY <1>2, <1>3 DEF Sane
<1>4. CASE e \in Dies(f.db)
  <2>1. PICK b : b = [f.db EXCEPT !.conn = "dead", !.work = FALSE]
    OBVIOUS
  <2>2. b \in Database /\ ~b.work /\ b.conn = "dead"
    BY <1>2, <2>1 DEF Database
  <2>3. e.db = b /\ e.outcome = "error"
    BY <1>4, <2>1 DEF Dies, End
  <2> QED BY <2>2, <2>3 DEF Sane
<1>5. CASE e # f /\ e \notin Dies(f.db)
  <2>1. e.outcome \in {"ok", "error"} /\ e.db \in Database /\ e.db.auto = d.auto
    BY <1>1, <1>5
  <2> QED BY <2>1, Zenon DEF Sane
<1> QED BY <1>3, <1>4, <1>5

\* What the task of the operation under way may do.
LEMMA TaskEnds ==
  ASSUME IInv, Running, NEW e \in Ends(op, db)
  PROVE  /\ Sane(e, db, op.answer # "none" \/ op.task = "statement")
         /\ e.db.work => e.db.pending
         /\ op.next = "quit" /\ e.db.work => e.outcome # "ok"
<1>1. /\ db \in Database /\ IsOp(op) /\ op.task # "none"
      /\ op.auto \in BOOLEAN
      /\ op.task \in {"connect", "commit", "rollback", "mode", "statement"}
      /\ op.task \in {"commit", "rollback"} => op.answer # "none"
      /\ op.next # "stay" => op.task \in {"commit", "rollback"}
      /\ db.work /\ op.answer = "none" => /\ ~(op.task = "connect" /\ op.force)
                                          /\ op.task = "mode" /\ op.auto => db.auto
  BY DEF IInv, Types, IsOp, Running, Active, SessionInvariant, AnswersGiven, WorkKnown
<1>2. e.db.work => e.db.pending
  BY DEF Ends
<1>3. CASE op.task = "connect"
  <2>1. PICK d : d = IF op.force THEN Closed(db.auto) ELSE db
    OBVIOUS
  <2>2. d \in Database /\ d.auto = db.auto /\ e \in Ensured(d)
    <3>1. db.auto \in BOOLEAN
      BY <1>1 DEF Database
    <3>2. e \in Connected(db, op.force)
      BY <1>3 DEF Ends
    <3> QED BY <1>1, <2>1, <3>1, <3>2, Values DEF Connected
  <2>3. Sane(e, d, FALSE) /\ e.db.auto = db.auto
    BY <2>2, EnsuredEnds
  <2>4. op.next # "quit"
    BY <1>1, <1>3
  <2>5. db.work => d.work \/ op.answer # "none"
    BY <1>1, <1>3, <2>1
  <2> QED BY <1>2, <2>3, <2>4, <2>5 DEF Sane
<1>4. CASE op.task \in {"commit", "rollback"}
  <2>1. e \in Resolved(db, op.task) /\ op.answer # "none"
    BY <1>1, <1>4 DEF Ends
  <2>2. Sane(e, db, TRUE) /\ (e.outcome = "ok" => ~e.db.work)
    BY <1>1, <2>1, ResolvedEnds
  <2> QED BY <1>2, <2>1, <2>2 DEF Sane
<1>5. CASE op.task = "mode"
  <2>1. e \in ModeSet(db, op.answer, op.auto) /\ op.next # "quit"
    BY <1>1, <1>5 DEF Ends
  <2>2. db.work /\ op.answer = "none" /\ op.auto => db.auto
    BY <1>1, <1>5
  <2>3. Sane(e, db, op.answer # "none")
    BY <1>1, <2>1, <2>2, ModeEnds
  <2> QED BY <1>2, <2>1, <2>3 DEF Sane
<1>6. CASE op.task = "statement"
  <2>1. e \in StatementRun(db) /\ op.next # "quit"
    BY <1>1, <1>6 DEF Ends
  <2>2. Sane(e, db, TRUE)
    BY <1>1, <2>1, StatementEnds
  <2> QED BY <1>2, <1>6, <2>1, <2>2 DEF Sane
<1> QED BY <1>1, <1>3, <1>4, <1>5, <1>6

-----------------------------------------------------------------------------
(* Steps.  Each keeps the invariant, ends no work unasked, and brings none  *)
(* of manual mode under autocommit.                                        *)

Choice == /\ db.work /\ ~db'.work =>
               \/ op.answer # "none" \/ op.task = "statement"
               \/ db'.conn = "dead"
               \/ worker = "up" /\ worker' = "gone" /\ save.section # "tabs"
          /\ db.work /\ ~db.auto /\ db'.work => ~db'.auto

\* The task of the operation runs on the worker.
LEMMA TaskRunsKeeps == ASSUME IInv, TaskRuns PROVE IInv' /\ Choice
<1>1. PICK e \in Ends(op, db) :
        /\ db' = e.db
        /\ op' = [op EXCEPT !.outcome = e.outcome, !.sess = Snapshot(e.db)]
  BY DEF TaskRuns
<1>2. /\ Running /\ Types /\ TaskAlone /\ AnswersGiven /\ WorkKnown
      /\ UNCHANGED <<prog, worker, ui, quitPending, desk, file, save, known>>
  BY DEF TaskRuns, IInv, SessionInvariant
<1>3. /\ Sane(e, db, op.answer # "none" \/ op.task = "statement")
      /\ e.db.work => e.db.pending
      /\ op.next = "quit" /\ e.db.work => e.outcome # "ok"
  BY <1>1, <1>2, TaskEnds
<1>4. e.db \in Database /\ e.outcome \in {"ok", "error"}
  BY <1>3 DEF Sane
<1>5. PICK s : s = Snapshot(e.db)
  OBVIOUS
<1>6. s \in Report /\ s.pending = e.db.pending /\ s.auto = e.db.auto
  BY <1>4, <1>5, SnapshotFields
<1>7. op' = [task |-> op.task, answer |-> op.answer, next |-> op.next, auto |-> op.auto,
             force |-> op.force, tab |-> op.tab, outcome |-> e.outcome, sess |-> s]
  BY <1>1, <1>2, <1>5 DEF Types, IsOp
<1>8. /\ op'.task = op.task /\ op'.answer = op.answer /\ op'.next = op.next
      /\ op'.outcome = e.outcome /\ op'.sess = s
      /\ IsOp(op')
  <2>1. /\ op'.task = op.task /\ op'.answer = op.answer /\ op'.next = op.next
        /\ op'.outcome = e.outcome /\ op'.sess = s /\ op'.auto = op.auto
        /\ op'.force = op.force /\ op'.tab = op.tab
    BY <1>7
  <2>2. op.task # "none"
    BY <1>2 DEF Running, Active
  <2> QED BY <1>2, <1>4, <1>6, <1>7, <2>1, <2>2 DEF Types, IsOp
<1>9. Types'
  BY <1>1, <1>2, <1>4, <1>8 DEF Types, IsOp, IsSave, Report
<1>10. TaskAlone' /\ AnswersGiven'
  BY <1>2, <1>4, <1>8 DEF TaskAlone, AnswersGiven, Running, Active
<1>11. WorkKnown'
  BY <1>1, <1>2, <1>3, <1>4, <1>6, <1>8 DEF WorkKnown, TaskAlone, Running, Active
<1>12. Choice
  BY <1>1, <1>3 DEF Choice, Sane
<1> QED BY <1>9, <1>10, <1>11, <1>12 DEF IInv, SessionInvariant

\* The records that an operation is started with.
Asked(o, task, answer, next) ==
  IsOp(o) /\ o.task = task /\ o.answer = answer /\ o.next = next /\ o.outcome = "none"

\* Each of them asks for what its caller says, and for nothing else.
LEMMA TaskFields ==
  ASSUME NEW t \in {"connect", "commit", "rollback", "mode", "statement"}, NEW a \in Answer,
         NEW n \in {"stay", "quit", "reconnect"}, NEW b \in BOOLEAN
  PROVE  /\ Asked(Task(t), t, "none", "stay")
         /\ Asked([Task(t) EXCEPT !.answer = a], t, a, "stay")
         /\ Asked([Task(t) EXCEPT !.answer = a, !.next = n], t, a, n)
         /\ Asked([Task(t) EXCEPT !.answer = a, !.auto = b], t, a, "stay")
         /\ [Task(t) EXCEPT !.answer = a, !.auto = b].auto = b
         /\ Asked([Task(t) EXCEPT !.force = b, !.answer = a], t, a, "stay")
<1>1. PICK no : no = NoOp
  OBVIOUS
<1>2. PICK r : r = [connected |-> FALSE, auto |-> FALSE, pending |-> FALSE]
  OBVIOUS
<1>3. r \in Report
  BY <1>2 DEF Report
<1>4. no = [task |-> "none", answer |-> "none", next |-> "stay", auto |-> FALSE, force |-> FALSE,
            tab |-> 1, outcome |-> "none", sess |-> r]
  BY <1>1, <1>2 DEF NoOp
<1>5. PICK at : at = desk.active
  OBVIOUS
<1>6. PICK k : k = [no EXCEPT !.task = t, !.tab = at]
  OBVIOUS
<1>7. k = Task(t)
  BY <1>1, <1>5, <1>6 DEF Task
<1>8. k = [task |-> t, answer |-> "none", next |-> "stay", auto |-> FALSE, force |-> FALSE,
           tab |-> at, outcome |-> "none", sess |-> r]
  BY <1>4, <1>6
<1>9. Asked(k, t, "none", "stay")
  BY <1>3, <1>8 DEF Asked, IsOp, Answer
<1>10. ASSUME NEW o, o = [k EXCEPT !.answer = a]
       PROVE  Asked(o, t, a, "stay")
  <2>1. o = [task |-> t, answer |-> a, next |-> "stay", auto |-> FALSE, force |-> FALSE,
             tab |-> at, outcome |-> "none", sess |-> r]
    BY <1>8, <1>10
  <2> QED BY <1>3, <2>1 DEF Asked, IsOp, Answer
<1>11. ASSUME NEW o, o = [k EXCEPT !.answer = a, !.next = n]
       PROVE  Asked(o, t, a, n)
  <2>1. o = [task |-> t, answer |-> a, next |-> n, auto |-> FALSE, force |-> FALSE,
             tab |-> at, outcome |-> "none", sess |-> r]
    BY <1>8, <1>11
  <2> QED BY <1>3, <2>1 DEF Asked, IsOp, Answer
<1>12. ASSUME NEW o, o = [k EXCEPT !.answer = a, !.auto = b]
       PROVE  Asked(o, t, a, "stay") /\ o.auto = b
  <2>1. o = [task |-> t, answer |-> a, next |-> "stay", auto |-> b, force |-> FALSE,
             tab |-> at, outcome |-> "none", sess |-> r]
    BY <1>8, <1>12
  <2> QED BY <1>3, <2>1 DEF Asked, IsOp, Answer
<1>13. ASSUME NEW o, o = [k EXCEPT !.force = b, !.answer = a]
       PROVE  Asked(o, t, a, "stay")
  <2>1. o = [task |-> t, answer |-> a, next |-> "stay", auto |-> FALSE, force |-> b,
             tab |-> at, outcome |-> "none", sess |-> r]
    BY <1>8, <1>13
  <2> QED BY <1>3, <2>1 DEF Asked, IsOp, Answer
<1> QED BY <1>7, <1>9, <1>10, <1>11, <1>12, <1>13

\* While no operation runs, pending work is known to the UI.
LEMMA FreeKnows ==
  ASSUME IInv, Free
  PROVE  /\ Types /\ prog = "up" /\ save.section = "none" /\ op.task = "none"
         /\ db.work => worker = "up" /\ ui.pending /\ ui.auto = db.auto
BY DEF IInv, SessionInvariant, WorkKnown, Free, Keys, Active

\* An operation that will not end work it was given no answer for may start.
LEMMA StartKeeps ==
  ASSUME IInv, Free, NEW o, IsOp(o), o.task # "none", o.outcome = "none",
         o.task \in {"commit", "rollback"} => o.answer # "none",
         o.next # "stay" => o.task \in {"commit", "rollback"},
         o.task # "connect",
         db.work /\ o.answer = "none" /\ o.task = "mode" /\ o.auto => db.auto,
         Start(o), UNCHANGED <<prog, ui, save>>
  PROVE  IInv' /\ Choice
<1>1. /\ Types /\ prog = "up" /\ save.section = "none" /\ op.task = "none"
      /\ db.work => worker = "up" /\ ui.pending /\ ui.auto = db.auto
  BY FreeKnows
<1>2. /\ UNCHANGED <<prog, db, worker, ui, save>>
      /\ \/ worker = "up" /\ op' = o
         \/ worker # "up" /\ op' = NoOp
  BY DEF Start
<1>3. CASE worker = "up" /\ op' = o
  <2>1. Types'
    BY <1>1, <1>2, <1>3 DEF Types, IsOp, IsSave
  <2>2. TaskAlone' /\ AnswersGiven'
    BY <1>1, <1>2, <1>3 DEF TaskAlone, AnswersGiven, Running, Active
  <2>3. WorkKnown'
    BY <1>1, <1>2, <1>3 DEF WorkKnown, Running, Active
  <2>4. Choice
    BY <1>2 DEF Choice
  <2> QED BY <2>1, <2>2, <2>3, <2>4 DEF IInv, SessionInvariant
<1>4. CASE worker # "up" /\ op' = NoOp
  <2>1. Types'
    BY <1>1, <1>2, <1>4, Values DEF Types, IsOp, IsSave
  <2>2. TaskAlone' /\ AnswersGiven' /\ WorkKnown' /\ Choice
    BY <1>1, <1>2, <1>4, Values DEF TaskAlone, AnswersGiven, WorkKnown, Choice, Running, Active
  <2> QED BY <2>1, <2>2 DEF IInv, SessionInvariant
<1> QED BY <1>2, <1>3, <1>4

\* A connect that closes the old session is started when there is no work in
\* it, or with an answer.
LEMMA ConnectKeeps ==
  ASSUME IInv, NEW a \in Answer, Connect(TRUE, a), db.work => a # "none",
         prog = "up", save.section = "none", ui' \in Report, UNCHANGED <<prog, save>>
  PROVE  IInv' /\ Choice
<1>1. PICK o : o = [Task("connect") EXCEPT !.force = TRUE, !.answer = a]
  OBVIOUS
<1>2. Asked(o, "connect", a, "stay")
  BY <1>1, TaskFields
<1>3. /\ op' = o /\ worker' = "up"
      /\ \/ worker = "up" /\ db' = db
         \/ worker # "up" /\ db' = Closed(ui.auto)
  BY <1>1 DEF Connect, StartReplacing
<1>4. Types /\ ui.auto \in BOOLEAN /\ WorkKnown
  BY DEF IInv, SessionInvariant, Types, Report
<1>5. db' = db \/ (~db.work /\ db' \in Database /\ ~db'.work)
  BY <1>3, <1>4, Values DEF WorkKnown
<1>6. Types'
  BY <1>2, <1>3, <1>4, <1>5 DEF Types, Asked, IsOp, IsSave
<1>7. TaskAlone' /\ AnswersGiven'
  BY <1>2, <1>3 DEF TaskAlone, AnswersGiven, Running, Active, Asked
<1>8. WorkKnown' /\ Choice
  BY <1>2, <1>3, <1>4, <1>5 DEF WorkKnown, Choice, Running, Active, Asked
<1> QED BY <1>6, <1>7, <1>8 DEF IInv, SessionInvariant

-----------------------------------------------------------------------------
(* The keys.                                                               *)

\* reconnect_database, with the question about pending work.
LEMMA ReconnectKeeps == ASSUME IInv, Reconnect PROVE IInv' /\ Choice
<1>1. /\ Free /\ UNCHANGED <<prog, ui, save>>
      /\ \/ ~ui.pending /\ Connect(TRUE, "none")
         \/ ui.pending /\ Connect(TRUE, "discard")
         \/ \E a \in {"commit", "rollback"} :
              Start([Task(a) EXCEPT !.answer = a, !.next = "reconnect"])
  BY DEF Reconnect
<1>2. /\ Types /\ prog = "up" /\ save.section = "none" /\ (db.work => ui.pending)
      /\ ui' \in Report
  BY <1>1, FreeKnows DEF Types
<1>3. CASE ~ui.pending /\ Connect(TRUE, "none")
  BY <1>1, <1>2, <1>3, ConnectKeeps DEF Answer
<1>4. CASE Connect(TRUE, "discard")
  BY <1>1, <1>2, <1>4, ConnectKeeps DEF Answer
<1>5. ASSUME NEW a \in {"commit", "rollback"},
             Start([Task(a) EXCEPT !.answer = a, !.next = "reconnect"])
      PROVE  IInv' /\ Choice
  <2>1. PICK o : o = [Task(a) EXCEPT !.answer = a, !.next = "reconnect"]
    OBVIOUS
  <2>2. Asked(o, a, a, "reconnect") /\ Start(o)
    BY <1>5, <2>1, TaskFields DEF Answer
  <2> QED BY <1>1, <2>2, StartKeeps DEF Asked
<1> QED BY <1>1, <1>3, <1>4, <1>5

\* The keys of commit and rollback, of the transaction mode, and of statements.
LEMMA StartedKeeps ==
  ASSUME IInv,
         \/ \E a \in {"commit", "rollback"} : EndTransaction(a)
         \/ \E auto \in BOOLEAN : ChooseMode(auto)
         \/ RunStatement
  PROVE  IInv' /\ Choice
<1>1. ASSUME NEW a \in {"commit", "rollback"}, EndTransaction(a)
      PROVE  IInv' /\ Choice
  <2>1. PICK o : o = [Task(a) EXCEPT !.answer = a]
    OBVIOUS
  <2>2. Asked(o, a, a, "stay") /\ Start(o) /\ Free /\ UNCHANGED <<prog, ui, save>>
    BY <1>1, <2>1, TaskFields DEF Answer, EndTransaction
  <2> QED BY <2>2, StartKeeps DEF Asked
<1>2. ASSUME NEW auto \in BOOLEAN, ChooseMode(auto)
      PROVE  IInv' /\ Choice
  <2>1. PICK a \in IF auto /\ ~ui.auto /\ ui.pending THEN {"commit", "rollback"} ELSE {"none"} :
          Start([Task("mode") EXCEPT !.answer = a, !.auto = auto])
    BY <1>2 DEF ChooseMode
  <2>2. PICK o : o = [Task("mode") EXCEPT !.answer = a, !.auto = auto]
    OBVIOUS
  <2>3. a \in Answer
    BY <2>1 DEF Answer
  <2>4. Asked(o, "mode", a, "stay") /\ o.auto = auto /\ Start(o)
    BY <2>1, <2>2, <2>3, TaskFields
  <2>5. Free /\ UNCHANGED <<prog, ui, save>>
    BY <1>2 DEF ChooseMode
  <2>6. db.work /\ a = "none" /\ auto => db.auto
    BY <2>1, <2>5, FreeKnows
  <2> QED BY <2>4, <2>5, <2>6, StartKeeps DEF Asked
<1>3. CASE RunStatement
  <2>1. PICK o : o = Task("statement")
    OBVIOUS
  <2>2. Asked(o, "statement", "none", "stay") /\ Start(o) /\ Free /\ UNCHANGED <<prog, ui, save>>
    BY <1>3, <2>1, TaskFields DEF Answer, RunStatement
  <2> QED BY <2>2, StartKeeps DEF Asked
<1> QED BY <1>1, <1>2, <1>3

\* The fields of a save that begins.
LEMMA SaveFields ==
  ASSUME NEW section \in {"mode", "tabs"}, NEW auto, NEW d, BeginSave(section, auto, d)
  PROVE  IsSave(save') /\ save'.section = section
<1>1. PICK f : f = file
  OBVIOUS
<1>2. save' = [section |-> section, copy |-> f, desk |-> d, auto |-> auto, raced |-> FALSE]
  BY <1>1 DEF BeginSave
<1> QED BY <1>2 DEF IsSave

\* A quit without pending work saves the tabs; with some it asks.
LEMMA RequestQuitKeeps == ASSUME IInv, RequestQuit PROVE IInv' /\ Choice
<1>1. Free /\ UNCHANGED <<prog, ui>>
  BY DEF RequestQuit
<1>2. /\ Types /\ prog = "up" /\ save.section = "none" /\ op.task = "none"
      /\ db.work => ui.pending
  BY <1>1, FreeKnows
<1>3. CASE ~ui.pending /\ FinishQuit(desk.active) /\ UNCHANGED <<db, worker, op, quitPending>>
  <2>1. PICK d : d = [desk EXCEPT !.active = desk.active]
    OBVIOUS
  <2>2. BeginSave("tabs", FALSE, d)
    BY <1>3, <2>1 DEF FinishQuit
  <2>3. IsSave(save') /\ save'.section = "tabs"
    BY <2>2, SaveFields
  <2>4. Types'
    BY <1>1, <1>2, <1>3, <2>3 DEF Types, IsOp, IsSave
  <2>5. TaskAlone' /\ AnswersGiven' /\ WorkKnown' /\ Choice
    BY <1>1, <1>2, <1>3, <2>3 DEF TaskAlone, AnswersGiven, WorkKnown, Choice, Running, Active,
                                  IInv, SessionInvariant
  <2> QED BY <2>4, <2>5 DEF IInv, SessionInvariant
<1>4. ASSUME NEW a \in {"commit", "rollback"},
             Start([Task(a) EXCEPT !.answer = a, !.next = "quit"]), UNCHANGED save
      PROVE  IInv' /\ Choice
  <2>1. PICK o : o = [Task(a) EXCEPT !.answer = a, !.next = "quit"]
    OBVIOUS
  <2>2. Asked(o, a, a, "quit") /\ Start(o)
    BY <1>4, <2>1, TaskFields DEF Answer
  <2> QED BY <1>1, <1>4, <2>2, StartKeeps DEF Asked
<1> QED BY <1>3, <1>4 DEF RequestQuit

\* Tabs are opened, closed and switched.
LEMMA ArrangeKeeps == ASSUME IInv, NEW d \in Desk, Arrange(d) PROVE IInv' /\ Choice
<1>1. UNCHANGED <<prog, db, worker, ui, op, save>>
  BY DEF Arrange
<1> QED BY <1>1 DEF IInv, Types, IsOp, IsSave, SessionInvariant, TaskAlone, AnswersGiven,
                    WorkKnown, Running, Active, Choice

-----------------------------------------------------------------------------
(* Completions.                                                            *)

\* The worker thread dies under the task; the workspace is closed.
LEMMA WorkerCrashesKeeps == ASSUME IInv, WorkerCrashes PROVE IInv' /\ Choice
<1>1. PICK e \in Ends(op, db) :
        /\ db' = Closed(e.db.auto)
        /\ op' = [op EXCEPT !.outcome = "error",
                            !.sess = [Snapshot(e.db) EXCEPT !.connected = FALSE]]
  BY DEF WorkerCrashes
<1>2. /\ Running /\ Types /\ TaskAlone /\ AnswersGiven /\ WorkKnown
      /\ worker' = "gone" /\ UNCHANGED <<prog, ui, save>>
  BY DEF WorkerCrashes, IInv, SessionInvariant
<1>3. e.db \in Database /\ e.db.auto \in BOOLEAN
  BY <1>1, <1>2, TaskEnds DEF Sane, Database
<1>4. PICK s : s = [Snapshot(e.db) EXCEPT !.connected = FALSE]
  OBVIOUS
<1>5. s \in Report
  BY <1>3, <1>4, SnapshotFields
<1>6. op' = [task |-> op.task, answer |-> op.answer, next |-> op.next, auto |-> op.auto,
             force |-> op.force, tab |-> op.tab, outcome |-> "error", sess |-> s]
  BY <1>1, <1>2, <1>4 DEF Types, IsOp
<1>7. /\ op'.task = op.task /\ op'.answer = op.answer /\ op'.next = op.next
      /\ op'.outcome = "error" /\ op'.sess = s /\ op'.auto = op.auto
      /\ op'.force = op.force /\ op'.tab = op.tab
  BY <1>6
<1>8. IsOp(op')
  <2>1. op.task # "none"
    BY <1>2 DEF Running, Active
  <2> QED BY <1>2, <1>5, <1>6, <1>7, <2>1 DEF Types, IsOp
<1>9. db' \in Database /\ ~db'.work
  BY <1>1, <1>3, Values
<1>10. Types'
  BY <1>2, <1>8, <1>9 DEF Types, IsOp, IsSave
<1>11. TaskAlone' /\ AnswersGiven' /\ WorkKnown'
  BY <1>2, <1>7, <1>9 DEF TaskAlone, AnswersGiven, WorkKnown, Running, Active
<1>12. Choice
  BY <1>2, <1>9 DEF Choice, TaskAlone, Running, Active
<1> QED BY <1>10, <1>11, <1>12 DEF IInv, SessionInvariant

\* The server ends the session, and the work in it.
LEMMA SessionDiesKeeps == ASSUME IInv, SessionDies PROVE IInv' /\ Choice
<1>1. /\ db' = [db EXCEPT !.conn = "dead", !.work = FALSE]
      /\ UNCHANGED <<prog, worker, ui, op, save>>
  BY DEF SessionDies
<1>2. db' \in Database /\ ~db'.work /\ db'.conn = "dead"
  BY <1>1 DEF IInv, Types, Database
<1> QED BY <1>1, <1>2 DEF IInv, Types, IsOp, IsSave, SessionInvariant, TaskAlone, AnswersGiven,
                          WorkKnown, Running, Active, Choice

\* What a completion finds.
LEMMA DoneKnows ==
  ASSUME IInv, NEW outcome \in {"ok", "error"}, Done(outcome)
  PROVE  /\ Types /\ prog = "up" /\ save.section = "none" /\ op.outcome = outcome
         /\ op.task # "none" /\ ui' = op.sess /\ ui' \in Report
         /\ db.work => worker = "up" /\ ui'.pending /\ ui'.auto = db.auto
<1>1. /\ prog = "up" /\ save.section = "none" /\ op.outcome = outcome /\ ui' = op.sess
      /\ Types /\ WorkKnown
  BY DEF Done, IInv, SessionInvariant
<1>2. op.task # "none" /\ ui' \in Report
  BY <1>1 DEF Types, IsOp
<1>3. Active /\ ~Running
  BY <1>1, <1>2 DEF Active, Running
<1>4. db.work => worker = "up" /\ op.sess.pending /\ op.sess.auto = db.auto
  BY <1>1, <1>3 DEF WorkKnown
<1> QED BY <1>1, <1>2, <1>4

\* The operation is over; what comes next is a save, at most.
LEMMA OverKeeps ==
  ASSUME IInv, NEW outcome \in {"ok", "error"}, Done(outcome), op' = NoOp, IsSave(save'),
         save'.section = "tabs" => ~db.work, UNCHANGED <<prog, db, worker>>
  PROVE  IInv' /\ Choice
<1>1. /\ Types /\ prog = "up" /\ ui' \in Report
      /\ db.work => worker = "up" /\ ui'.pending /\ ui'.auto = db.auto
  BY DoneKnows
<1>2. Types'
  BY <1>1, Values DEF Types, IsOp, IsSave
<1>3. TaskAlone' /\ AnswersGiven' /\ WorkKnown' /\ Choice
  BY <1>1, Values DEF TaskAlone, AnswersGiven, WorkKnown, Choice, Running, Active
<1> QED BY <1>2, <1>3 DEF IInv, SessionInvariant

\* The on_success callbacks.
LEMMA CompletedKeeps == ASSUME IInv, Completed PROVE IInv' /\ Choice
<1>1. Done("ok") /\ UNCHANGED prog
  BY DEF Completed
<1>2. /\ Types /\ prog = "up" /\ save.section = "none" /\ op.outcome = "ok" /\ op.task # "none"
      /\ ui' \in Report
  BY <1>1, DoneKnows
<1>3. AnswersGiven /\ WorkKnown
  BY DEF IInv, SessionInvariant
<1>4. op.next # "stay" => op.task # "mode"
  BY <1>3 DEF AnswersGiven
<1>5. CASE op.next = "quit"
  <2>1. FinishQuit(op.tab) /\ op' = NoOp /\ UNCHANGED <<db, worker>>
    BY <1>5, <1>4 DEF Completed
  <2>2. PICK d : d = [desk EXCEPT !.active = op.tab]
    OBVIOUS
  <2>3. IsSave(save')
    <3>1. BeginSave("tabs", FALSE, d)
      BY <2>1, <2>2 DEF FinishQuit
    <3> QED BY <3>1, SaveFields
  <2>4. ~db.work
    BY <1>2, <1>3, <1>5 DEF WorkKnown, Types, Database
  <2> QED BY <1>1, <2>1, <2>3, <2>4, OverKeeps
<1>6. CASE op.next = "reconnect"
  <2>1. Connect(TRUE, op.answer) /\ UNCHANGED save
    BY <1>6, <1>4 DEF Completed
  <2>2. op.answer # "none" /\ op.answer \in Answer
    BY <1>2, <1>3, <1>6 DEF AnswersGiven, Types, IsOp
  <2>3. PICK a : a = op.answer
    OBVIOUS
  <2> QED BY <1>1, <1>2, <2>1, <2>2, <2>3, ConnectKeeps
<1>7. CASE op.next = "stay" /\ op.task = "mode"
  <2>1. BeginSave("mode", op.auto, desk) /\ op' = NoOp /\ UNCHANGED <<db, worker>>
    BY <1>7 DEF Completed
  <2>2. PICK auto, d : auto = op.auto /\ d = desk
    OBVIOUS
  <2>3. IsSave(save') /\ save'.section = "mode"
    <3>1. BeginSave("mode", auto, d)
      BY <2>1, <2>2
    <3> QED BY <3>1, SaveFields
  <2> QED BY <1>1, <2>1, <2>3, OverKeeps
<1>8. CASE op.next = "stay" /\ op.task # "mode"
  <2>1. op' = NoOp /\ UNCHANGED <<db, worker, save>>
    BY <1>8 DEF Completed
  <2>2. IsSave(save') /\ save'.section = "none"
    BY <1>2, <2>1 DEF Types, IsSave
  <2> QED BY <1>1, <2>1, <2>2, OverKeeps
<1>9. op.next \in {"stay", "quit", "reconnect"}
  BY <1>2 DEF Types, IsOp
<1> QED BY <1>5, <1>6, <1>7, <1>8, <1>9

\* The on_error callbacks.
LEMMA FailedKeeps == ASSUME IInv, Failed PROVE IInv' /\ Choice
<1>1. Done("error") /\ op' = NoOp /\ UNCHANGED <<prog, db, worker, save>>
  BY DEF Failed
<1>2. IsSave(save') /\ save'.section = "none"
  BY <1>1, DoneKnows DEF Types, IsSave
<1> QED BY <1>1, <1>2, OverKeeps

-----------------------------------------------------------------------------
(* The program and its file.                                               *)

\* The program ends or is killed; no work outlives it unnoticed.
LEMMA EndedKeeps ==
  ASSUME IInv, Ended, save.section # "tabs" \/ ~db.work
  PROVE  IInv' /\ Choice
<1>1. /\ prog' = "down" /\ worker' = "gone" /\ op' = NoOp /\ save' = NoSave
      /\ db' = Closed(FALSE) /\ ui' = Snapshot(Closed(FALSE))
  BY DEF Ended
<1>2. PICK d : d = Closed(FALSE)
  OBVIOUS
<1>3. d \in Database /\ ~d.work /\ Snapshot(d) \in Report
  BY <1>2, Values, SnapshotFields
<1>4. Types'
  BY <1>1, <1>2, <1>3, Values DEF Types
<1>5. TaskAlone' /\ AnswersGiven' /\ WorkKnown' 
  BY <1>1, <1>2, <1>3, Values DEF TaskAlone, AnswersGiven, WorkKnown, Running, Active
<1>6. Choice
  BY <1>1, <1>2, <1>3 DEF Choice, IInv, SessionInvariant, WorkKnown
<1> QED BY <1>4, <1>5, <1>6 DEF IInv, SessionInvariant

\* A save ends: with the tabs, the program; with the mode, only the save.
LEMMA FinishSaveKeeps == ASSUME IInv, FinishSave PROVE IInv' /\ Choice
<1>1. CASE save.section = "tabs"
  <2>1. Ended /\ ~db.work
    BY <1>1 DEF FinishSave, IInv, Types, Database, SessionInvariant, WorkKnown
  <2> QED BY <2>1, EndedKeeps
<1>2. CASE save.section # "tabs"
  <2>1. save' = NoSave /\ UNCHANGED <<prog, db, worker, ui, op>>
    BY <1>2 DEF FinishSave
  <2>2. Types'
    BY <2>1, Values DEF IInv, Types, IsOp
  <2>3. TaskAlone' /\ AnswersGiven' /\ WorkKnown' /\ Choice
    BY <2>1, Values DEF IInv, SessionInvariant, TaskAlone, AnswersGiven, WorkKnown, Running,
                        Active, Choice
  <2> QED BY <2>2, <2>3 DEF IInv, SessionInvariant
<1> QED BY <1>1, <1>2

\* The process is killed: work in its session is gone with its worker.
LEMMA KilledKeeps == ASSUME IInv, Killed PROVE IInv' /\ Choice
<1>1. Ended
  BY DEF Killed
<1>2. save.section # "tabs" \/ ~db.work
  BY DEF IInv, Types, Database, SessionInvariant, WorkKnown
<1> QED BY <1>1, <1>2, EndedKeeps

\* The program starts, with a connect that closes nothing.
LEMMA StartProgramKeeps == ASSUME IInv, NEW option, StartProgram(option) PROVE IInv' /\ Choice
<1>1. PICK auto : auto = IF option = "stored" THEN Stored(file) ELSE option = "auto"
  OBVIOUS
<1>2. auto \in BOOLEAN
  BY <1>1 DEF Stored
<1>3. PICK tab : tab = RestoredDesk(SavedTabs(file)).active
  OBVIOUS
<1>4. PICK no : no = NoOp
  OBVIOUS
<1>5. PICK d : d = Closed(auto)
  OBVIOUS
<1>6. d \in Database /\ ~d.work /\ Snapshot(d) \in Report
  BY <1>2, <1>5, Values, SnapshotFields
<1>7. /\ prog = "down" /\ prog' = "up" /\ worker' = "up" /\ save' = save
      /\ db' = d /\ ui' = Snapshot(d)
      /\ op' = [NoOp EXCEPT !.task = "connect", !.tab = RestoredDesk(SavedTabs(file)).active]
  BY <1>1, <1>5 DEF StartProgram
<1>8. /\ IsOp(op') /\ op'.task = "connect" /\ op'.next = "stay" /\ op'.outcome = "none"
  <2>1. PICK r : r = [connected |-> FALSE, auto |-> FALSE, pending |-> FALSE]
    OBVIOUS
  <2>2. op' = [task |-> "connect", answer |-> "none", next |-> "stay", auto |-> FALSE,
               force |-> FALSE, tab |-> tab, outcome |-> "none", sess |-> r]
    <3>1. no = [task |-> "none", answer |-> "none", next |-> "stay", auto |-> FALSE,
                force |-> FALSE, tab |-> 1, outcome |-> "none", sess |-> r]
      BY <1>4, <2>1 DEF NoOp
    <3>2. op' = [no EXCEPT !.task = "connect", !.tab = tab]
      BY <1>3, <1>4, <1>7
    <3> QED BY <3>1, <3>2
  <2>3. r \in Report
    BY <2>1 DEF Report
  <2> QED BY <2>2, <2>3 DEF IsOp, Answer
<1>9. Types /\ save.section = "none" /\ ~db.work
  BY <1>7 DEF IInv, Types, Database, SessionInvariant, TaskAlone, WorkKnown
<1>10. Types'
  BY <1>6, <1>7, <1>8, <1>9 DEF Types, IsSave
<1>11. TaskAlone' /\ AnswersGiven' /\ WorkKnown' /\ Choice
  BY <1>6, <1>7, <1>8, <1>9 DEF TaskAlone, AnswersGiven, WorkKnown, Running, Active, Choice
<1> QED BY <1>10, <1>11 DEF IInv, SessionInvariant

\* Another program replaces config.ini.
LEMMA OtherProgramKeeps == ASSUME IInv, OtherProgram PROVE IInv' /\ Choice
<1>1. /\ UNCHANGED <<prog, db, worker, ui, op>>
      /\ save' = IF save.section = "none" THEN save ELSE [save EXCEPT !.raced = TRUE]
  BY DEF OtherProgram
<1>2. IsSave(save') /\ save'.section = save.section
  BY <1>1 DEF IInv, Types, IsSave
<1>3. Types'
  BY <1>1, <1>2 DEF IInv, Types, IsOp
<1>4. TaskAlone' /\ AnswersGiven' /\ WorkKnown' /\ Choice
  BY <1>1, <1>2 DEF IInv, SessionInvariant, TaskAlone, AnswersGiven, WorkKnown, Running,
                    Active, Choice
<1> QED BY <1>3, <1>4 DEF IInv, SessionInvariant

\* Every step keeps the invariant, and ends no work unasked.
LEMMA StepIInv == IInv /\ [Next]_vars => IInv' /\ (Choice \/ UNCHANGED vars)
<1> SUFFICES ASSUME IInv, [Next]_vars PROVE IInv' /\ (Choice \/ UNCHANGED vars)
  OBVIOUS
<1>1. CASE Reconnect
  BY <1>1, ReconnectKeeps
<1>2. CASE RunStatement
  BY <1>2, StartedKeeps
<1>3. CASE RequestQuit
  BY <1>3, RequestQuitKeeps
<1>4. CASE \E a \in {"commit", "rollback"} : EndTransaction(a)
  BY <1>4, StartedKeeps
<1>5. CASE \E auto \in BOOLEAN : ChooseMode(auto)
  BY <1>5, StartedKeeps
<1>6. CASE \E d \in Desk : Arrange(d)
  BY <1>6, ArrangeKeeps
<1>7. CASE Completed
  BY <1>7, CompletedKeeps
<1>8. CASE Failed
  BY <1>8, FailedKeeps
<1>9. CASE TaskRuns
  BY <1>9, TaskRunsKeeps
<1>10. CASE WorkerCrashes
  BY <1>10, WorkerCrashesKeeps
<1>11. CASE SessionDies
  BY <1>11, SessionDiesKeeps
<1>12. CASE FinishSave
  BY <1>12, FinishSaveKeeps
<1>13. CASE Killed
  BY <1>13, KilledKeeps
<1>14. CASE OtherProgram
  BY <1>14, OtherProgramKeeps
<1>15. CASE \E option \in {"stored", "auto", "manual"} : StartProgram(option)
  BY <1>15, StartProgramKeeps
<1>16. CASE UNCHANGED vars
  BY <1>16 DEF vars, IInv, Types, IsOp, IsSave, SessionInvariant, TaskAlone, AnswersGiven,
               WorkKnown, Running, Active
<1> QED BY <1>1, <1>2, <1>3, <1>4, <1>5, <1>6, <1>7, <1>8, <1>9, <1>10, <1>11, <1>12, <1>13,
           <1>14, <1>15, <1>16 DEF Next, UserKey, Poll

-----------------------------------------------------------------------------
(* Theorems.                                                               *)

\* In every reachable state uncommitted work is known to whoever may end it
\* next: the UI between two operations, the report of a task that has run, or a
\* task that leaves it alone or was started with an answer; and nothing runs
\* beside the save that ends the program.
THEOREM InvariantHolds == Spec => []SessionInvariant
<1>1. IInv => SessionInvariant
  BY DEF IInv
<1> QED BY <1>1, InitIInv, StepIInv, PTL DEF Spec

\* reconnect_database, request_quit, choose_transaction_mode and all that
\* follows them: uncommitted work of a live session ends only by a statement, by
\* an answer, or with the session, the worker or the process, and work of manual
\* mode never comes under autocommit.
THEOREM WorkEndsByChoiceHolds == Spec => WorkEndsByChoice
<1>1. IInv /\ [Next]_vars =>
        [/\ db.work /\ ~db'.work =>
              \/ op.answer # "none" \/ op.task = "statement"
              \/ db'.conn = "dead" \/ (worker = "up" /\ worker' = "gone" /\ save.section # "tabs")
         /\ db.work /\ ~db.auto /\ db'.work => ~db'.auto]_vars
  BY StepIInv DEF Choice
<1> QED BY <1>1, InitIInv, StepIInv, PTL DEF Spec, WorkEndsByChoice

-----------------------------------------------------------------------------
(* Elements of a sequence that are in a set.                               *)

\* What an element contributes to the elements of a sequence that are in T.
Part(x, T) == IF x \in T THEN <<x>> ELSE <<>>

\* Nothing of an empty sequence is in a set.
LEMMA AmongEmpty == ASSUME NEW T PROVE Among(<<>>, T) = <<>>
<1>1. PICK f : f = [i \in DOMAIN <<>> |-> IF <<>>[i] \in T THEN <<(<<>>[i])>> ELSE <<>>]
  OBVIOUS
<1>2. f = <<>>
  BY <1>1
<1> QED BY <1>1, <1>2, FlattenEmpty DEF Among

\* One element more is taken or left.
LEMMA AmongAppend ==
  ASSUME NEW S, NEW T, NEW s \in Seq(S), NEW e \in S
  PROVE  /\ e \in T => Among(Append(s, e), T) = Append(Among(s, T), e)
         /\ e \notin T => Among(Append(s, e), T) = Among(s, T)
         /\ Among(s, T) \in Seq(S)
<1>1. PICK f : f = [i \in DOMAIN s |-> IF s[i] \in T THEN <<s[i]>> ELSE <<>>]
  OBVIOUS
<1>2. PICK r : r = Append(s, e)
  OBVIOUS
<1>3. PICK g : g = [i \in DOMAIN r |-> IF r[i] \in T THEN <<r[i]>> ELSE <<>>]
  OBVIOUS
<1>4. PICK n \in Nat : n = Len(s)
  OBVIOUS
<1>5. /\ DOMAIN s = 1..n /\ DOMAIN r = 1..(n + 1) /\ r[n + 1] = e
      /\ \A i \in 1..n : s[i] \in S /\ r[i] = s[i]
  BY <1>2, <1>4
<1>6. \A x \in S : Part(x, T) \in Seq(S)
  BY DEF Part
<1>7. f = [i \in 1..n |-> Part(s[i], T)] /\ g = [i \in 1..(n + 1) |-> Part(r[i], T)]
  BY <1>1, <1>3, <1>5 DEF Part
<1>8. f \in Seq(Seq(S)) /\ Len(f) = n
  BY <1>5, <1>6, <1>7
<1>9. g = Append(f, Part(e, T))
  <2>1. Append(f, Part(e, T)) \in Seq(Seq(S)) /\ Len(Append(f, Part(e, T))) = n + 1
    BY <1>6, <1>8
  <2>2. g \in Seq(Seq(S)) /\ Len(g) = n + 1
    <3>1. \A i \in 1..(n + 1) : r[i] \in S
      BY <1>5
    <3> QED BY <1>6, <1>7, <3>1
  <2>3. ASSUME NEW i \in 1..(n + 1) PROVE g[i] = Append(f, Part(e, T))[i]
    BY <1>5, <1>6, <1>7, <1>8
  <2> QED BY <2>1, <2>2, <2>3
<1>10. FlattenSeq(g) = FlattenSeq(f) \o Part(e, T)
  BY <1>6, <1>8, <1>9, FlattenAppend
<1>11. FlattenSeq(f) \in Seq(S)
  BY <1>8, FlattenTyped
<1>12. Among(s, T) = FlattenSeq(f) /\ Among(Append(s, e), T) = FlattenSeq(g)
  BY <1>1, <1>2, <1>3 DEF Among
<1> QED BY <1>10, <1>11, <1>12 DEF Part

\* What is taken was in the sequence and is in the set.
LEMMA AmongTyped ==
  ASSUME NEW S, NEW T
  PROVE  \A s \in Seq(S) : Among(s, T) \in Seq(S \cap T)
<1>1. PICK G : G = {s \in Seq(S) : Among(s, T) \in Seq(S \cap T)}
  OBVIOUS
<1>2. <<>> \in G
  <2>1. <<>> \in Seq(S) /\ <<>> \in Seq(S \cap T)
    OBVIOUS
  <2> QED BY <1>1, <2>1, AmongEmpty
<1>3. ASSUME NEW s \in Seq(S), NEW e \in S, s \in G PROVE Append(s, e) \in G
  <2>1. Append(s, e) \in Seq(S) /\ Among(s, T) \in Seq(S \cap T)
    BY <1>1, <1>3
  <2>2. Among(Append(s, e), T) \in {Among(s, T), Append(Among(s, T), e)}
        /\ (e \notin T => Among(Append(s, e), T) = Among(s, T))
    BY AmongAppend
  <2>3. Among(Append(s, e), T) \in Seq(S \cap T)
    BY <2>1, <2>2
  <2> QED BY <1>1, <2>1, <2>3
<1>4. \A s \in Seq(S) : s \in G
  BY <1>2, <1>3, SeqInduct
<1> QED BY <1>1, <1>4

\* Taking twice is taking once what both sets have.
LEMMA AmongTwice ==
  ASSUME NEW S, NEW T, NEW U
  PROVE  \A s \in Seq(S) : Among(Among(s, T), U) = Among(s, T \cap U)
<1>1. PICK G : G = {s \in Seq(S) : Among(Among(s, T), U) = Among(s, T \cap U)}
  OBVIOUS
<1>2. <<>> \in G
  <2>1. <<>> \in Seq(S)
    OBVIOUS
  <2>2. Among(Among(<<>>, T), U) = Among(<<>>, T \cap U)
    BY AmongEmpty
  <2> QED BY <1>1, <2>1, <2>2
<1>3. ASSUME NEW s \in Seq(S), NEW e \in S, s \in G PROVE Append(s, e) \in G
  <2>1. Append(s, e) \in Seq(S) /\ Among(Among(s, T), U) = Among(s, T \cap U)
    BY <1>1, <1>3
  <2>2. PICK V : V = T \cap U
    OBVIOUS
  <2>3. PICK a : a = Among(s, T)
    OBVIOUS
  <2>4. /\ a \in Seq(S)
        /\ e \in T => Among(Append(s, e), T) = Append(a, e)
        /\ e \notin T => Among(Append(s, e), T) = a
    BY <2>3, AmongAppend
  <2>5. /\ e \in V => Among(Append(s, e), V) = Append(Among(s, V), e)
        /\ e \notin V => Among(Append(s, e), V) = Among(s, V)
    BY AmongAppend
  <2>6. /\ e \in U => Among(Append(a, e), U) = Append(Among(a, U), e)
        /\ e \notin U => Among(Append(a, e), U) = Among(a, U)
    BY <2>4, AmongAppend
  <2>7. Among(a, U) = Among(s, V)
    BY <2>1, <2>2, <2>3
  <2>8. Among(Among(Append(s, e), T), U) = Among(Append(s, e), V)
    <3>1. CASE e \in T
      <4>1. Among(Among(Append(s, e), T), U) = Among(Append(a, e), U)
        BY <2>4, <3>1
      <4>2. (e \in U) <=> (e \in V)
        BY <2>2, <3>1
      <4> QED BY <2>5, <2>6, <2>7, <4>1, <4>2
    <3>2. CASE e \notin T
      <4>1. e \notin V
        BY <2>2, <3>2
      <4> QED BY <2>4, <2>5, <2>7, <3>2, <4>1
    <3> QED BY <3>1, <3>2
  <2> QED BY <1>1, <2>1, <2>2, <2>8
<1>4. \A s \in Seq(S) : s \in G
  BY <1>2, <1>3, SeqInduct
<1> QED BY <1>1, <1>4

\* The place of an element among those taken is behind the ones before it.
Placed(s, T, k) ==
  /\ Len(Among(SubSeq(s, 1, k - 1), T)) + 1 \in DOMAIN Among(s, T)
  /\ Among(s, T)[Len(Among(SubSeq(s, 1, k - 1), T)) + 1] = s[k]
LEMMA AmongPlace ==
  ASSUME NEW S, NEW T
  PROVE  \A s \in Seq(S) : \A k \in DOMAIN s : s[k] \in T => Placed(s, T, k)
<1>1. PICK G : G = {s \in Seq(S) : \A k \in DOMAIN s : s[k] \in T => Placed(s, T, k)}
  OBVIOUS
<1>2. <<>> \in G
  <2>1. <<>> \in Seq(S) /\ DOMAIN <<>> = {}
    OBVIOUS
  <2> QED BY <1>1, <2>1
<1>3. ASSUME NEW s \in Seq(S), NEW e \in S, s \in G PROVE Append(s, e) \in G
  <2>1. PICK r : r = Append(s, e)
    OBVIOUS
  <2>2. PICK n \in Nat : n = Len(s)
    OBVIOUS
  <2>3. PICK a : a = Among(s, T)
    OBVIOUS
  <2>4. /\ a \in Seq(S)
        /\ e \in T => Among(r, T) = Append(a, e)
        /\ e \notin T => Among(r, T) = a
    BY <2>1, <2>3, AmongAppend
  <2>5. /\ r \in Seq(S) /\ DOMAIN r = 1..(n + 1) /\ r[n + 1] = e /\ DOMAIN s = 1..n
        /\ \A i \in 1..n : r[i] = s[i]
    BY <2>1, <2>2
  <2>6. Len(a) \in Nat
    BY <2>4
  <2>7. /\ \A i \in DOMAIN a : i \in DOMAIN Among(r, T) /\ Among(r, T)[i] = a[i]
        /\ e \in T => Len(a) + 1 \in DOMAIN Among(r, T) /\ Among(r, T)[Len(a) + 1] = e
    BY <2>4, <2>6
  <2>8. ASSUME NEW k \in 1..(n + 1), r[k] \in T PROVE Placed(r, T, k)
    <3>1. CASE k \in 1..n
      <4>1. SubSeq(r, 1, k - 1) = SubSeq(s, 1, k - 1)
        <5>1. SubSeq(r, 1, k - 1) \in Seq(S) /\ SubSeq(s, 1, k - 1) \in Seq(S)
          BY <2>2, <2>5, <3>1
        <5>2. Len(SubSeq(r, 1, k - 1)) = k - 1 /\ Len(SubSeq(s, 1, k - 1)) = k - 1
          BY <2>2, <2>5, <3>1
        <5>3. \A i \in 1..(k - 1) : SubSeq(r, 1, k - 1)[i] = SubSeq(s, 1, k - 1)[i]
          BY <2>2, <2>5, <3>1
        <5> QED BY <5>1, <5>2, <5>3
      <4>2. Placed(s, T, k)
        BY <1>1, <1>3, <2>5, <2>8, <3>1
      <4> QED BY <2>3, <2>5, <2>7, <3>1, <4>1, <4>2 DEF Placed
    <3>2. CASE k = n + 1
      <4>1. SubSeq(r, 1, k - 1) = s
        <5>1. SubSeq(r, 1, n) \in Seq(S) /\ Len(SubSeq(r, 1, n)) = n
          BY <2>2, <2>5, <2>1
        <5>2. \A i \in 1..n : SubSeq(r, 1, n)[i] = s[i]
          BY <2>5, <2>1, <2>2
        <5> QED BY <2>2, <3>2, <5>1, <5>2
      <4> QED BY <2>3, <2>5, <2>7, <2>8, <3>2, <4>1 DEF Placed
    <3> QED BY <2>8, <3>1, <3>2
  <2> QED BY <1>1, <2>1, <2>5, <2>8
<1>4. \A s \in Seq(S) : s \in G
  BY <1>2, <1>3, SeqInduct
<1> QED BY <1>1, <1>4

-----------------------------------------------------------------------------
(* The tabs through a save and a restart.                                  *)

\* Fields of what is saved and of what is read back.
LEMMA TabsSaved ==
  ASSUME NEW d \in Arrangement
  PROVE  /\ SessionTabs(d).tabs = Among(d.tabs, File) /\ SessionTabs(d).tabs \in Seq(File)
         /\ SessionTabs(d).active \in Nat
<1>1. /\ d.tabs \in Seq(File \cup {NoFile}) /\ d.active \in 1..Len(d.tabs)
      /\ Len(d.tabs) \in Nat
  BY DEF Arrangement
<1>2. Among(d.tabs, File) \in Seq((File \cup {NoFile}) \cap File)
  BY <1>1, AmongTyped
<1>3. (File \cup {NoFile}) \cap File = File
  OBVIOUS
<1>4. PICK r : r = SubSeq(d.tabs, 1, d.active - 1)
  OBVIOUS
<1>5. r \in Seq(File \cup {NoFile})
  BY <1>1, <1>4
<1>6. Among(r, File) \in Seq((File \cup {NoFile}) \cap File)
  BY <1>5, AmongTyped
<1>7. Len(Among(r, File)) \in Nat
  BY <1>6
<1>8. Among(d.tabs, File) \in Seq(File)
  BY <1>2, <1>3
<1>9. PICK t, a : /\ t = Among(d.tabs, File)
                  /\ a = IF d.tabs[d.active] = NoFile THEN 0 ELSE Len(Among(r, File))
  OBVIOUS
<1>10. SessionTabs(d) = [tabs |-> t, active |-> a]
  BY <1>4, <1>9 DEF SessionTabs
<1>11. a \in Nat
  BY <1>7, <1>9
<1>12. SessionTabs(d).tabs = t /\ SessionTabs(d).active = a
  BY <1>10
<1> QED BY <1>8, <1>9, <1>11, <1>12

\* The arrangement a program starts with: what is left of the saved tabs, with
\* the saved one active if it is left, else the first.
LEMMA DeskRestored ==
  ASSUME NEW tabs \in Seq(File), NEW a \in Nat,
         NEW saved, saved = [tabs |-> tabs, active |-> a],
         NEW there, there = Opened(tabs)
  PROVE  /\ RestoredDesk(saved) \in Arrangement
         /\ there \in Seq(File \ Gone)
         /\ there = <<>> => RestoredDesk(saved).tabs = <<NoFile>>
         /\ there # <<>> =>
              /\ RestoredDesk(saved).tabs = there
              /\ there[RestoredDesk(saved).active] =
                   IF tabs[a] \in ToSet(there) THEN tabs[a] ELSE there[1]
<1>1. saved.tabs = tabs /\ saved.active = a
  OBVIOUS
<1>2. there \in Seq(File \ Gone)
  <2>1. there \in Seq(File \cap (File \ Gone))
    BY AmongTyped DEF Opened
  <2>2. File \cap (File \ Gone) = File \ Gone
    OBVIOUS
  <2> QED BY <2>1, <2>2
<1>3. CASE there = <<>>
  <2>1. RestoredDesk(saved) = [tabs |-> <<NoFile>>, active |-> 1]
    BY <1>1, <1>3 DEF RestoredDesk, Untitled
  <2>2. RestoredDesk(saved) \in Arrangement /\ RestoredDesk(saved).tabs = <<NoFile>>
    <3>1. PICK u : u = <<NoFile>>
      OBVIOUS
    <3>2. u \in Seq(File \cup {NoFile}) /\ 1 \in DOMAIN u
      BY <3>1
    <3>3. PICK x : x = [tabs |-> u, active |-> 1]
      OBVIOUS
    <3>4. x \in [tabs : Seq(File \cup {NoFile}), active : Nat] /\ x.active \in DOMAIN x.tabs
          /\ x.tabs = u
      BY <3>2, <3>3
    <3>5. x \in Arrangement
      BY <3>4 DEF Arrangement
    <3>6. RestoredDesk(saved) = x
      BY <2>1, <3>1, <3>3
    <3> QED BY <3>1, <3>4, <3>5, <3>6
  <2> QED BY <1>2, <1>3, <2>2
<1>4. CASE there # <<>>
  <2>1. PICK shown : shown = {i \in DOMAIN there : there[i] = tabs[a]}
    OBVIOUS
  <2>2. PICK n : n = IF shown = {} THEN 1 ELSE CHOOSE i \in shown : TRUE
    OBVIOUS
  <2>3. RestoredDesk(saved) = [tabs |-> there, active |-> n]
    BY <1>1, <1>4, <2>1, <2>2 DEF RestoredDesk
  <2>4. 1 \in DOMAIN there
    BY <1>2, <1>4
  <2>5. n \in DOMAIN there /\ there[n] = IF tabs[a] \in ToSet(there) THEN tabs[a] ELSE there[1]
    <3>1. CASE shown = {}
      <4>1. tabs[a] \notin ToSet(there)
        BY <2>1, <3>1 DEF ToSet
      <4> QED BY <2>2, <2>4, <3>1, <4>1
    <3>2. CASE shown # {}
      <4>1. n \in shown
        BY <2>2, <3>2
      <4>2. tabs[a] \in ToSet(there)
        BY <2>1, <4>1 DEF ToSet
      <4> QED BY <2>1, <4>1, <4>2
    <3> QED BY <3>1, <3>2
  <2>6. there \in Seq(File \cup {NoFile}) /\ n \in Nat
    BY <1>2, <2>5
  <2> QED BY <1>2, <1>4, <2>3, <2>5, <2>6 DEF Arrangement
<1> QED BY <1>3, <1>4

\* read_session_tabs finds the tabs of the file, and one of them active.
LEMMA TabsRead ==
  ASSUME NEW f \in Content
  PROVE  /\ SavedTabs(f).active \in Nat
         /\ SavedTabs(f) = [tabs |-> f.tabs, active |-> SavedTabs(f).active]
         /\ SavedTabs(f).active = IF f.active + 1 \in DOMAIN f.tabs THEN f.active + 1 ELSE 1
<1>1. f.active \in Nat
  BY DEF Content
<1>2. PICK a : a = IF f.active + 1 \in DOMAIN f.tabs THEN f.active + 1 ELSE 1
  OBVIOUS
<1>3. a \in Nat
  BY <1>1, <1>2
<1>4. SavedTabs(f) = [tabs |-> f.tabs, active |-> a]
  BY <1>2 DEF SavedTabs
<1> QED BY <1>2, <1>3, <1>4

\* What is left of the arrangement d, the active tab if it is left.
Restores(r, d) ==
  LET here == Among(d.tabs, File \ Gone)
      top  == d.tabs[d.active]
  IN  IF here = <<>> THEN r.tabs = <<NoFile>>
      ELSE /\ r.tabs = here
           /\ r.tabs[r.active] = IF top \in ToSet(here) THEN top ELSE here[1]

\* A program that finds the tabs of the arrangement d in the file starts with
\* those of them that can be opened, and in the tab that was active.
LEMMA RestoresTabs ==
  ASSUME NEW d \in Arrangement, NEW f \in Content, f.tabs = SessionTabs(d).tabs,
         f.active = SessionTabs(d).active, NEW r, r = RestoredDesk(SavedTabs(f))
  PROVE  Restores(r, d)
<1>1. PICK k, a, here, top : /\ k = f.tabs /\ a = SavedTabs(f).active
                             /\ here = Among(d.tabs, File \ Gone) /\ top = d.tabs[d.active]
  OBVIOUS
<1>2. /\ k = Among(d.tabs, File) /\ k \in Seq(File) /\ a \in Nat
      /\ SavedTabs(f) = [tabs |-> k, active |-> a]
      /\ a = IF f.active + 1 \in DOMAIN k THEN f.active + 1 ELSE 1
  BY <1>1, TabsSaved, TabsRead
<1>3. d.tabs \in Seq(File \cup {NoFile}) /\ d.active \in DOMAIN d.tabs
  BY DEF Arrangement
<1>9. here = Among(d.tabs, File \ Gone) /\ top = d.tabs[d.active]
  BY <1>1
<1>4. Opened(k) = here
  <2>1. Among(Among(d.tabs, File), File \ Gone) = Among(d.tabs, File \cap (File \ Gone))
    BY <1>3, AmongTwice
  <2>2. File \cap (File \ Gone) = File \ Gone
    OBVIOUS
  <2> QED BY <1>2, <1>9, <2>1, <2>2 DEF Opened
<1>5. /\ here \in Seq(File \ Gone)
      /\ here = <<>> => r.tabs = <<NoFile>>
      /\ here # <<>> => /\ r.tabs = here
                        /\ here[r.active] = IF k[a] \in ToSet(here) THEN k[a] ELSE here[1]
  BY <1>2, <1>4, DeskRestored
<1>6. SUFFICES ASSUME here # <<>>
               PROVE  (IF k[a] \in ToSet(here) THEN k[a] ELSE here[1])
                        = IF top \in ToSet(here) THEN top ELSE here[1]
  BY <1>5, <1>9 DEF Restores
<1>7. CASE top # NoFile
  <2>1. top \in File
    BY <1>3, <1>7, <1>9
  <2>2. Placed(d.tabs, File, d.active)
    BY <1>3, <1>9, <2>1, AmongPlace
  <2>3. f.active = Len(Among(SubSeq(d.tabs, 1, d.active - 1), File))
    BY <1>7, <1>9 DEF SessionTabs
  <2>4. f.active + 1 \in DOMAIN k /\ k[f.active + 1] = top
    BY <1>2, <1>9, <2>2, <2>3 DEF Placed
  <2> QED BY <1>2, <2>4
<1>8. CASE top = NoFile
  <2>1. NoFile \notin File
    BY SessionControlAssumption
  <2>2. \A x \in ToSet(here) : x \in File \ Gone
    <3>1. \A i \in DOMAIN here : here[i] \in File \ Gone
      BY <1>5
    <3> QED BY <3>1 DEF ToSet
  <2>3. f.active = 0
    BY <1>8, <1>9 DEF SessionTabs
  <2>4. a = 1
    BY <1>2, <2>3
  <2>5. CASE k[1] \in ToSet(here)
    <3>1. k # <<>>
      <4>1. SUFFICES ASSUME k = <<>> PROVE FALSE
        OBVIOUS
      <4> QED BY <1>4, <1>6, <4>1, AmongEmpty DEF Opened
    <3>2. 1 \in DOMAIN k /\ k[1] \in File \ Gone
      <4>1. 1 \in DOMAIN k
        BY <1>2, <3>1
      <4> QED BY <2>2, <2>5, <4>1
    <3>3. Placed(k, File \ Gone, 1)
      BY <1>2, <3>2, AmongPlace
    <3>4. SubSeq(k, 1, 1 - 1) = <<>>
      BY <1>2
    <3>5. Len(Among(SubSeq(k, 1, 1 - 1), File \ Gone)) = 0
      <4>1. Among(SubSeq(k, 1, 1 - 1), File \ Gone) = <<>>
        BY <3>4, AmongEmpty
      <4> QED BY <4>1
    <3>6. here[1] = k[1]
      BY <1>4, <3>3, <3>5 DEF Placed, Opened
    <3> QED BY <1>8, <2>1, <2>2, <2>4, <3>6
  <2> QED BY <1>8, <2>1, <2>2, <2>4, <2>5
<1> QED BY <1>7, <1>8

-----------------------------------------------------------------------------
(* The file, and what was last written to it.                              *)

\* Nothing is saved, and the file is not there, before the first start.
LEMMA InitFile == Init => FileInvariant
<1> SUFFICES ASSUME Init PROVE FileInvariant
  OBVIOUS
<1>1. PICK u : u = <<NoFile>>
  OBVIOUS
<1>2. u \in Seq(File \cup {NoFile}) /\ 1 \in DOMAIN u
  BY <1>1
<1>3. PICK x : x = [tabs |-> u, active |-> 1]
  OBVIOUS
<1>4. x \in [tabs : Seq(File \cup {NoFile}), active : Nat] /\ x.active \in DOMAIN x.tabs
  BY <1>2, <1>3
<1>5. desk \in Arrangement
  BY <1>1, <1>3, <1>4 DEF Init, Untitled, Arrangement
<1>6. PICK e : e = <<>>
  OBVIOUS
<1>7. e \in Seq(File)
  BY <1>6
<1>8. PICK y : y = [mode |-> "absent", tabs |-> e, active |-> 0]
  OBVIOUS
<1>9. y \in Content
  BY <1>7, <1>8 DEF Content
<1>10. file \in Content
  BY <1>6, <1>8, <1>9 DEF Init, NoFileYet
<1>11. save.section = "none" /\ op.next = "stay"
  BY Values DEF Init
<1>12. known.mode = Unknown /\ known.desk = NoDesk
  BY DEF Init
<1> QED BY <1>5, <1>10, <1>11, <1>12 DEF FileInvariant, CopyCurrent, QuitKeepsDesk, FileKnown

\* A step that neither arranges, saves nor asks to quit.
LEMMA FileKept ==
  ASSUME FileInvariant, UNCHANGED <<desk, file, save, known>>,
         op'.next = "quit" => quitPending' /\ op'.tab = desk.active
  PROVE  FileInvariant'
<1>2. /\ desk' \in Arrangement /\ file' \in Content
      /\ save'.section # "none" => save'.copy \in Content
  BY DEF FileInvariant, Arrangement, Content
<1>3. CopyCurrent' /\ FileKnown'
  BY DEF FileInvariant, CopyCurrent, FileKnown, SessionTabs, Arrangement
<1>4. QuitKeepsDesk'
  BY DEF FileInvariant, QuitKeepsDesk
<1> QED BY <1>2, <1>3, <1>4 DEF FileInvariant, Arrangement, Content

\* The records that operations are started with, as to what follows them.
LEMMA TaskTab ==
  ASSUME NEW t, NEW a, NEW n, NEW b
  PROVE  /\ Task(t).next = "stay"
         /\ [Task(t) EXCEPT !.answer = a].next = "stay"
         /\ [Task(t) EXCEPT !.answer = a, !.next = n].next = n
         /\ [Task(t) EXCEPT !.answer = a, !.next = n].tab = desk.active
         /\ [Task(t) EXCEPT !.answer = a, !.auto = b].next = "stay"
         /\ [Task(t) EXCEPT !.force = b, !.answer = a].next = "stay"
<1>1. PICK r, at : r = NoOp.sess /\ at = desk.active
  OBVIOUS
<1>2. PICK no : no = NoOp
  OBVIOUS
<1>3. no = [task |-> "none", answer |-> "none", next |-> "stay", auto |-> FALSE, force |-> FALSE,
            tab |-> 1, outcome |-> "none", sess |-> r]
  BY <1>1, <1>2 DEF NoOp
<1>4. PICK k : k = [no EXCEPT !.task = t, !.tab = at]
  OBVIOUS
<1>5. k = Task(t)
  BY <1>1, <1>2, <1>4 DEF Task
<1>6. k = [task |-> t, answer |-> "none", next |-> "stay", auto |-> FALSE, force |-> FALSE,
           tab |-> at, outcome |-> "none", sess |-> r]
  BY <1>3, <1>4
<1>7. k.next = "stay" /\ [k EXCEPT !.answer = a].next = "stay"
  BY <1>6
<1>8. [k EXCEPT !.answer = a, !.next = n].next = n /\ [k EXCEPT !.answer = a, !.next = n].tab = at
  BY <1>6
<1>9. [k EXCEPT !.answer = a, !.auto = b].next = "stay"
  BY <1>6
<1>10. [k EXCEPT !.force = b, !.answer = a].next = "stay"
  BY <1>6
<1> QED BY <1>1, <1>5, <1>7, <1>8, <1>9, <1>10

\* A connect is not followed by the end of the program.
LEMMA ConnectNext == ASSUME NEW f, NEW a, Connect(f, a) PROVE op'.next = "stay"
<1>1. op' = [Task("connect") EXCEPT !.force = f, !.answer = a]
  BY DEF Connect, StartReplacing
<1> QED BY <1>1, TaskTab

\* Keys that start an operation other than the end of the program.
LEMMA StartedFile ==
  ASSUME FileInvariant,
         \/ Reconnect
         \/ RunStatement
         \/ \E a \in {"commit", "rollback"} : EndTransaction(a)
         \/ \E auto \in BOOLEAN : ChooseMode(auto)
  PROVE  FileInvariant'
<1>1. UNCHANGED <<desk, file, save, known>>
  BY DEF Reconnect, RunStatement, EndTransaction, ChooseMode
<1>2. CASE Reconnect
  <2>1. CASE \E f, a : Connect(f, a)
    BY <1>1, <2>1, ConnectNext, FileKept
  <2>2. ASSUME NEW a, Start([Task(a) EXCEPT !.answer = a, !.next = "reconnect"])
        PROVE  FileInvariant'
    <3>1. op'.next # "quit"
      BY <2>2, TaskTab, Values DEF Start
    <3> QED BY <1>1, <3>1, FileKept
  <2> QED BY <1>2, <2>1, <2>2 DEF Reconnect
<1>3. CASE RunStatement
  <2>1. op'.next # "quit"
    BY <1>3, TaskTab, Values DEF Start, RunStatement
  <2> QED BY <1>1, <2>1, FileKept
<1>4. ASSUME NEW a, EndTransaction(a) PROVE FileInvariant'
  <2>1. op'.next # "quit"
    BY <1>4, TaskTab, Values DEF Start, EndTransaction
  <2> QED BY <1>1, <2>1, FileKept
<1>5. ASSUME NEW auto, ChooseMode(auto) PROVE FileInvariant'
  <2>1. PICK a : Start([Task("mode") EXCEPT !.answer = a, !.auto = auto])
    BY <1>5 DEF ChooseMode
  <2>2. op'.next # "quit"
    BY <2>1, TaskTab, Values DEF Start
  <2> QED BY <1>1, <2>2, FileKept
<1> QED BY <1>2, <1>3, <1>4, <1>5

\* A task, or the death of its worker, leaves what follows it as it was.
LEMMA TaskFile ==
  ASSUME IInv, FileInvariant, TaskRuns \/ WorkerCrashes
  PROVE  FileInvariant'
<1>1. UNCHANGED <<quitPending, desk, file, save, known>>
  BY DEF TaskRuns, WorkerCrashes
<1>2. \E o, s : op' = [op EXCEPT !.outcome = o, !.sess = s]
  BY DEF TaskRuns, WorkerCrashes
<1>3. op'.next = op.next /\ op'.tab = op.tab
  BY <1>2 DEF IInv, Types, IsOp
<1> QED BY <1>1, <1>3, FileKept DEF FileInvariant, QuitKeepsDesk

\* The server ends the session, an operation fails, or the process is killed.
LEMMA EndedFile ==
  ASSUME FileInvariant, SessionDies \/ Failed \/ Killed
  PROVE  FileInvariant'
<1>1. CASE SessionDies
  BY <1>1, FileKept DEF SessionDies, FileInvariant, QuitKeepsDesk
<1>2. CASE Failed
  BY <1>2, Values, FileKept DEF Failed
<1>3. CASE Killed
  <2>1. UNCHANGED <<desk, file, known>> /\ save' = NoSave /\ op' = NoOp
    BY <1>3 DEF Killed, Ended
  <2>2. save'.section = "none" /\ op'.next = "stay"
    BY <2>1, Values
  <2>3. CopyCurrent' /\ QuitKeepsDesk'
    BY <2>2 DEF CopyCurrent, QuitKeepsDesk
  <2>4. FileKnown'
    BY <2>1 DEF FileInvariant, FileKnown, SessionTabs, Arrangement
  <2> QED BY <2>1, <2>2, <2>3, <2>4 DEF FileInvariant, Arrangement, Content
<1> QED BY <1>1, <1>2, <1>3

\* A save begins with a copy of the file as it is; the operation is over.
LEMMA SaveBeginsFile ==
  ASSUME IInv, FileInvariant, save.section = "none", NEW section \in {"mode", "tabs"}, NEW auto,
         NEW d, BeginSave(section, auto, d), section = "tabs" => d = desk,
         UNCHANGED <<desk, file, known>>, op'.next # "quit"
  PROVE  FileInvariant'
<1>1. PICK f : f = file
  OBVIOUS
<1>2. save' = [section |-> section, copy |-> f, desk |-> d, auto |-> auto, raced |-> FALSE]
  BY <1>1 DEF BeginSave
<1>3. save'.section = section /\ save'.copy = f /\ save'.desk = d
  BY <1>2
<1>4. CopyCurrent' /\ QuitKeepsDesk'
  BY <1>1, <1>3 DEF CopyCurrent, QuitKeepsDesk
<1>5. FileKnown'
  BY DEF FileInvariant, FileKnown, SessionTabs, Arrangement
<1>6. save'.copy \in Content /\ Content' = Content /\ Arrangement' = Arrangement
  BY <1>1, <1>3 DEF FileInvariant, Content, Arrangement
<1>7. desk' \in Arrangement' /\ file' \in Content'
  BY <1>6 DEF FileInvariant
<1> QED BY <1>4, <1>5, <1>6, <1>7 DEF FileInvariant

\* An arrangement is a record of two fields.
LEMMA SameDesk ==
  ASSUME NEW d \in Arrangement, NEW a, a = d.active
  PROVE  [d EXCEPT !.active = a] = d
<1>1. d = [tabs |-> d.tabs, active |-> d.active]
  BY DEF Arrangement
<1> QED BY <1>1

\* request_quit: without pending work the tabs are saved as they are; with some
\* the keys are locked until the answer is carried out.
LEMMA RequestQuitFile == ASSUME IInv, FileInvariant, RequestQuit PROVE FileInvariant'
<1>1. Free /\ UNCHANGED <<desk, file, known>> /\ desk \in Arrangement
  BY DEF RequestQuit, FileInvariant
<1>2. save.section = "none" /\ op.task = "none"
  BY <1>1 DEF Free, Keys, Active
<1>3. op.next = "stay"
  BY <1>2 DEF IInv, Types, IsOp, SessionInvariant, AnswersGiven
<1>4. CASE FinishQuit(desk.active) /\ UNCHANGED <<db, worker, op, quitPending>>
  <2>1. PICK d : d = [desk EXCEPT !.active = desk.active]
    OBVIOUS
  <2>2. d = desk
    BY <1>1, <2>1, SameDesk
  <2>3. BeginSave("tabs", FALSE, d)
    BY <1>4, <2>1 DEF FinishQuit
  <2>4. op'.next # "quit"
    BY <1>3, <1>4
  <2> QED BY <1>1, <1>2, <2>2, <2>3, <2>4, SaveBeginsFile
<1>5. ASSUME NEW a, Start([Task(a) EXCEPT !.answer = a, !.next = "quit"]), UNCHANGED save,
             quitPending' = (worker = "up")
      PROVE  FileInvariant'
  <2>1. PICK o : o = [Task(a) EXCEPT !.answer = a, !.next = "quit"]
    OBVIOUS
  <2>2. o.tab = desk.active
    BY <2>1, TaskTab
  <2>3. op' = IF worker = "up" THEN o ELSE NoOp
    BY <1>5, <2>1 DEF Start
  <2>4. op'.next = "quit" => quitPending' /\ op'.tab = desk.active
    <3>1. CASE worker = "up"
      BY <1>5, <2>2, <2>3, <3>1
    <3>2. CASE worker # "up"
      BY <2>3, <3>2, Values
    <3> QED BY <3>1, <3>2
  <2> QED BY <1>1, <1>5, <2>4, FileKept
<1> QED BY <1>4, <1>5 DEF RequestQuit

\* Tabs are arranged only while no quit waits and nothing is being saved.
LEMMA ArrangeFile ==
  ASSUME IInv, FileInvariant, NEW d \in Desk, Arrange(d)
  PROVE  FileInvariant'
<1>1. /\ save.section = "none" /\ ~quitPending /\ desk' = d
      /\ UNCHANGED <<op, quitPending, file, save, known>>
  BY DEF Arrange, Keys
<1>2. Content' = Content /\ Arrangement' = Arrangement
  BY DEF Content, Arrangement
<1>3. d \in Arrangement
  BY SessionControlAssumption DEF Arrangement
<1>4. op.next # "quit"
  BY <1>1 DEF FileInvariant, QuitKeepsDesk
<1>5. CopyCurrent' /\ QuitKeepsDesk'
  BY <1>1, <1>4 DEF CopyCurrent, QuitKeepsDesk
<1>6. FileKnown'
  BY <1>1 DEF FileInvariant, FileKnown, SessionTabs, Arrangement
<1> QED BY <1>1, <1>2, <1>3, <1>5, <1>6 DEF FileInvariant

\* The on_success callbacks: a quit saves the arrangement it was asked in.
LEMMA CompletedFile == ASSUME IInv, FileInvariant, Completed PROVE FileInvariant'
<1>1. Done("ok") /\ UNCHANGED <<desk, file, known>> /\ desk \in Arrangement
  BY DEF Completed, FileInvariant
<1>2. save.section = "none"
  BY <1>1 DEF Done
<1>3. op.next # "stay" => op.task # "mode"
  BY DEF IInv, SessionInvariant, AnswersGiven
<1>4. op.next \in {"stay", "quit", "reconnect"}
  BY DEF IInv, Types, IsOp
<1>5. CASE op.next = "quit"
  <2>1. FinishQuit(op.tab) /\ op' = NoOp
    BY <1>3, <1>5 DEF Completed
  <2>2. PICK d : d = [desk EXCEPT !.active = op.tab]
    OBVIOUS
  <2>3. op.tab = desk.active
    BY <1>5 DEF FileInvariant, QuitKeepsDesk
  <2>4. d = desk
    BY <1>1, <2>2, <2>3, SameDesk
  <2>5. BeginSave("tabs", FALSE, d)
    BY <2>1, <2>2 DEF FinishQuit
  <2>6. op'.next # "quit"
    BY <2>1, Values
  <2> QED BY <1>1, <1>2, <2>4, <2>5, <2>6, SaveBeginsFile
<1>6. CASE op.next = "reconnect"
  <2>1. Connect(TRUE, op.answer) /\ UNCHANGED save
    BY <1>3, <1>6 DEF Completed
  <2>2. op'.next # "quit"
    BY <2>1, ConnectNext
  <2> QED BY <1>1, <2>1, <2>2, FileKept
<1>7. CASE op.next = "stay" /\ op.task = "mode"
  <2>1. BeginSave("mode", op.auto, desk) /\ op' = NoOp
    BY <1>7 DEF Completed
  <2>2. PICK auto, d : auto = op.auto /\ d = desk
    OBVIOUS
  <2>3. BeginSave("mode", auto, d)
    BY <2>1, <2>2
  <2>4. op'.next # "quit"
    BY <2>1, Values
  <2> QED BY <1>1, <1>2, <2>3, <2>4, SaveBeginsFile
<1>8. CASE op.next = "stay" /\ op.task # "mode"
  <2>1. op' = NoOp /\ UNCHANGED save
    BY <1>8 DEF Completed
  <2>2. op'.next # "quit"
    BY <2>1, Values
  <2> QED BY <1>1, <2>1, <2>2, FileKept
<1> QED BY <1>4, <1>5, <1>6, <1>7, <1>8

\* Each change of config.ini replaces the fields of its section.
LEMMA FileFields ==
  ASSUME NEW f \in Content
  PROVE  /\ \A t \in [tabs : Seq(File), active : Nat] :
              /\ WithTabs(f, t) \in Content /\ WithTabs(f, t).mode = f.mode
              /\ WithTabs(f, t).tabs = t.tabs /\ WithTabs(f, t).active = t.active
         /\ \A m \in {"yes", "no", "bad"} :
              /\ [f EXCEPT !.mode = m] \in Content /\ [f EXCEPT !.mode = m].mode = m
              /\ [f EXCEPT !.mode = m].tabs = f.tabs /\ [f EXCEPT !.mode = m].active = f.active
<1>1. ASSUME NEW t \in [tabs : Seq(File), active : Nat]
      PROVE  /\ WithTabs(f, t) \in Content /\ WithTabs(f, t).mode = f.mode
             /\ WithTabs(f, t).tabs = t.tabs /\ WithTabs(f, t).active = t.active
  <2>1. PICK k, n : k = t.tabs /\ n = t.active
    OBVIOUS
  <2>2. k \in Seq(File) /\ n \in Nat
    BY <2>1
  <2>3. WithTabs(f, t) = [f EXCEPT !.tabs = k, !.active = n]
    BY <2>1 DEF WithTabs
  <2>4. PICK h : h = WithTabs(f, t)
    OBVIOUS
  <2>5. h = [f EXCEPT !.tabs = k, !.active = n]
    BY <2>3, <2>4
  <2>6. f = [mode |-> f.mode, tabs |-> f.tabs, active |-> f.active]
        /\ f.mode \in {"absent", "yes", "no", "bad"}
    BY DEF Content
  <2>7. h = [mode |-> f.mode, tabs |-> k, active |-> n]
    BY <2>5, <2>6
  <2>8. h \in Content /\ h.mode = f.mode /\ h.tabs = k /\ h.active = n
    BY <2>2, <2>6, <2>7 DEF Content
  <2> QED BY <2>1, <2>4, <2>8
<1>2. ASSUME NEW m \in {"yes", "no", "bad"}
      PROVE  /\ [f EXCEPT !.mode = m] \in Content /\ [f EXCEPT !.mode = m].mode = m
             /\ [f EXCEPT !.mode = m].tabs = f.tabs /\ [f EXCEPT !.mode = m].active = f.active
  BY DEF Content
<1> QED BY <1>1, <1>2

\* save_autocommit in the same terms.
LEMMA ModeFields ==
  ASSUME NEW f \in Content, NEW auto
  PROVE  /\ WithMode(f, auto) \in Content /\ WithMode(f, auto).mode = Option(auto)
         /\ WithMode(f, auto).tabs = f.tabs /\ WithMode(f, auto).active = f.active
<1>1. PICK m : m = Option(auto)
  OBVIOUS
<1>2. m \in {"yes", "no", "bad"}
  BY <1>1 DEF Option
<1>3. WithMode(f, auto) = [f EXCEPT !.mode = m]
  BY <1>1 DEF WithMode
<1>4. PICK h : h = [f EXCEPT !.mode = m]
  OBVIOUS
<1>5. h \in Content /\ h.mode = m /\ h.tabs = f.tabs /\ h.active = f.active
  <2>1. f = [mode |-> f.mode, tabs |-> f.tabs, active |-> f.active]
        /\ f.tabs \in Seq(File) /\ f.active \in Nat
    BY DEF Content
  <2>2. h = [mode |-> m, tabs |-> f.tabs, active |-> f.active]
    BY <1>4, <2>1
  <2> QED BY <1>2, <2>1, <2>2 DEF Content
<1> QED BY <1>1, <1>3, <1>4, <1>5

\* write_ini_atomic: what the file holds then is what was written, as far as
\* the copy that was changed was current.
LEMMA FinishSaveFile == ASSUME IInv, FileInvariant, FinishSave PROVE FileInvariant'
<1>1. /\ desk' = desk /\ save.section \in {"mode", "tabs"} /\ Content' = Content
      /\ Arrangement' = Arrangement /\ save.copy \in Content /\ desk \in Arrangement
      /\ save.raced \/ save.copy = file
  BY DEF FinishSave, IInv, Types, IsSave, FileInvariant, CopyCurrent, Content, Arrangement
<1>2. save'.section = "none"
  BY <1>1, Values DEF FinishSave, Ended
<1>3. op'.next # "quit"
  <2>1. CASE save.section = "tabs"
    BY <2>1, Values DEF FinishSave, Ended
  <2>2. CASE save.section = "mode"
    <3>1. op.next # "quit"
      <4>1. ~Active
        BY <1>1 DEF IInv, SessionInvariant, TaskAlone
      <4> QED BY <4>1 DEF IInv, SessionInvariant, AnswersGiven, Active
    <3> QED BY <2>2, <3>1 DEF FinishSave
  <2> QED BY <1>1, <2>1, <2>2
<1>4. CopyCurrent' /\ QuitKeepsDesk'
  BY <1>2, <1>3 DEF CopyCurrent, QuitKeepsDesk
<1>5. CASE UNCHANGED <<file, known>>
  <2>1. FileKnown'
    BY <1>5 DEF FileInvariant, FileKnown, SessionTabs, Arrangement
  <2> QED BY <1>1, <1>2, <1>4, <1>5, <2>1 DEF FileInvariant
<1>6. CASE save.section = "tabs" /\ file' = WithTabs(save.copy, SessionTabs(save.desk))
           /\ known' = Written
  <2>1. PICK m : m = IF save.raced THEN Unknown ELSE known.mode
    OBVIOUS
  <2>2. known' = [mode |-> m, desk |-> desk]
    BY <1>6, <2>1 DEF Written
  <2>3. known'.mode = m /\ known'.desk = desk
    BY <2>2
  <2>4. PICK t : t = SessionTabs(desk)
    OBVIOUS
  <2>5. t \in [tabs : Seq(File), active : Nat]
    <3>1. t.tabs \in Seq(File) /\ t.active \in Nat
      BY <1>1, <2>4, TabsSaved
    <3>2. t = [tabs |-> t.tabs, active |-> t.active]
      BY <2>4 DEF SessionTabs
    <3> QED BY <3>1, <3>2
  <2>6. file' = WithTabs(save.copy, t)
    BY <1>6, <2>4 DEF FileInvariant, QuitKeepsDesk
  <2>7. /\ file' \in Content /\ file'.mode = save.copy.mode
        /\ file'.tabs = t.tabs /\ file'.active = t.active
    <3>1. PICK f : f = save.copy
      OBVIOUS
    <3>2. f \in Content /\ file' = WithTabs(f, t)
      BY <1>1, <2>6, <3>1
    <3>3. /\ WithTabs(f, t) \in Content /\ WithTabs(f, t).mode = f.mode
          /\ WithTabs(f, t).tabs = t.tabs /\ WithTabs(f, t).active = t.active
      BY <2>5, <3>2, FileFields
    <3> QED BY <3>1, <3>2, <3>3
  <2>8. known'.mode # Unknown /\ file'.mode # "absent" => file'.mode = known'.mode
    <3>1. CASE save.raced
      BY <2>1, <2>3, <3>1
    <3>2. CASE ~save.raced
      BY <1>1, <2>1, <2>3, <2>7, <3>2 DEF FileInvariant, FileKnown
    <3> QED BY <3>1, <3>2
  <2>9. FileKnown'
    BY <1>1, <2>3, <2>4, <2>7, <2>8 DEF FileKnown, SessionTabs, Arrangement
  <2> QED BY <1>1, <1>2, <1>4, <2>7, <2>9 DEF FileInvariant
<1>7. CASE save.section = "mode" /\ file' = WithMode(save.copy, save.auto) /\ known' = Written
  <2>1. PICK d, m : d = (IF save.raced THEN NoDesk ELSE known.desk) /\ m = Option(save.auto)
    OBVIOUS
  <2>2. known' = [mode |-> m, desk |-> d]
    BY <1>7, <2>1 DEF Written
  <2>3. known'.mode = m /\ known'.desk = d
    BY <2>2
  <2>4. /\ file' \in Content /\ file'.mode = m
        /\ file'.tabs = save.copy.tabs /\ file'.active = save.copy.active
    <3>1. PICK f, auto : f = save.copy /\ auto = save.auto
      OBVIOUS
    <3>2. f \in Content /\ file' = WithMode(f, auto) /\ m = Option(auto)
      BY <1>1, <1>7, <2>1, <3>1
    <3>3. /\ WithMode(f, auto) \in Content /\ WithMode(f, auto).mode = Option(auto)
          /\ WithMode(f, auto).tabs = f.tabs /\ WithMode(f, auto).active = f.active
      BY <3>2, ModeFields
    <3> QED BY <3>1, <3>2, <3>3
  <2>5. d # NoDesk => /\ d \in Arrangement
                      /\ file'.tabs = SessionTabs(d).tabs /\ file'.active = SessionTabs(d).active
    <3>1. CASE save.raced
      BY <2>1, <3>1
    <3>2. CASE ~save.raced
      BY <1>1, <2>1, <2>4, <3>2 DEF FileInvariant, FileKnown
    <3> QED BY <3>1, <3>2
  <2>6. FileKnown'
    BY <1>1, <2>3, <2>4, <2>5 DEF FileKnown, SessionTabs, Arrangement
  <2> QED BY <1>1, <1>2, <1>4, <2>4, <2>6 DEF FileInvariant
<1>8. \/ UNCHANGED <<file, known>>
      \/ /\ known' = Written
         /\ file' = IF save.section = "tabs" THEN WithTabs(save.copy, SessionTabs(save.desk))
                    ELSE WithMode(save.copy, save.auto)
  BY DEF FinishSave
<1> QED BY <1>1, <1>5, <1>6, <1>7, <1>8

\* The history is a record of two fields.
IsHistory == known = [mode |-> known.mode, desk |-> known.desk]
LEMMA HistoryKept == IsHistory /\ [Next]_vars => IsHistory'
<1> SUFFICES ASSUME IsHistory, [Next]_vars PROVE IsHistory'
  OBVIOUS
<1>1. \/ known' = known
      \/ \E m, d : known' = [mode |-> m, desk |-> d]
      \/ \E m : known' = [known EXCEPT !.mode = m]
      \/ \E d : known' = [known EXCEPT !.desk = d]
  BY DEF Next, vars, UserKey, Poll, Reconnect, RunStatement, RequestQuit, EndTransaction,
         ChooseMode, Arrange, Completed, Failed, TaskRuns, WorkerCrashes, SessionDies,
         FinishSave, Written, Killed, OtherProgram, StartProgram
<1> QED BY <1>1 DEF IsHistory

\* Another program changes one section of the file it finds.
LEMMA OtherProgramFile ==
  ASSUME IInv, FileInvariant, IsHistory, OtherProgram
  PROVE  FileInvariant'
<1>1. /\ UNCHANGED <<op, quitPending, desk>> /\ Content' = Content /\ Arrangement' = Arrangement
      /\ save' = IF save.section = "none" THEN save ELSE [save EXCEPT !.raced = TRUE]
      /\ desk \in Arrangement /\ file \in Content
  BY DEF OtherProgram, FileInvariant, Content, Arrangement
<1>2. /\ save'.section = save.section /\ save'.desk = save.desk /\ save'.copy = save.copy
      /\ save.section # "none" => save'.raced
  BY <1>1 DEF IInv, Types, IsSave
<1>3. CopyCurrent' /\ QuitKeepsDesk'
  BY <1>1, <1>2 DEF FileInvariant, CopyCurrent, QuitKeepsDesk
<1>4. known = [mode |-> known.mode, desk |-> known.desk]
  BY DEF IsHistory
<1>5. ASSUME NEW m \in {"yes", "no", "bad"}, file' = [file EXCEPT !.mode = m],
             known' = [known EXCEPT !.mode = m]
      PROVE  FileInvariant'
  <2>1. PICK f : f = file
    OBVIOUS
  <2>2. PICK h : h = [f EXCEPT !.mode = m]
    OBVIOUS
  <2>3. f \in Content
    BY <1>1, <2>1
  <2>4. h \in Content /\ h.mode = m /\ h.tabs = f.tabs /\ h.active = f.active
    BY <2>2, <2>3, FileFields
  <2>5. file' = h
    BY <1>5, <2>1, <2>2
  <2>6. known'.mode = m /\ known'.desk = known.desk
    BY <1>4, <1>5
  <2>7. FileKnown'
    BY <1>1, <2>1, <2>4, <2>5, <2>6 DEF FileInvariant, FileKnown, SessionTabs, Arrangement
  <2> QED BY <1>1, <1>2, <1>3, <2>4, <2>5, <2>7 DEF FileInvariant
<1>6. ASSUME NEW d \in Desk, file' = WithTabs(file, SessionTabs(d)),
             known' = [known EXCEPT !.desk = d]
      PROVE  FileInvariant'
  <2>1. d \in Arrangement
    BY SessionControlAssumption DEF Arrangement
  <2>2. PICK t : t = SessionTabs(d)
    OBVIOUS
  <2>3. t \in [tabs : Seq(File), active : Nat]
    <3>1. t.tabs \in Seq(File) /\ t.active \in Nat
      BY <2>1, <2>2, TabsSaved
    <3>2. t = [tabs |-> t.tabs, active |-> t.active]
      BY <2>2 DEF SessionTabs
    <3> QED BY <3>1, <3>2
  <2>4. /\ file' \in Content /\ file'.mode = file.mode
        /\ file'.tabs = t.tabs /\ file'.active = t.active
    <3>1. PICK f : f = file
      OBVIOUS
    <3>2. f \in Content /\ file' = WithTabs(f, t)
      BY <1>1, <1>6, <2>2, <3>1
    <3>3. /\ WithTabs(f, t) \in Content /\ WithTabs(f, t).mode = f.mode
          /\ WithTabs(f, t).tabs = t.tabs /\ WithTabs(f, t).active = t.active
      BY <2>3, <3>2, FileFields
    <3> QED BY <3>1, <3>2, <3>3
  <2>5. known'.mode = known.mode /\ known'.desk = d
    BY <1>4, <1>6
  <2>6. FileKnown'
    BY <1>1, <2>1, <2>2, <2>4, <2>5 DEF FileInvariant, FileKnown, SessionTabs, Arrangement
  <2> QED BY <1>1, <1>2, <1>3, <2>4, <2>6 DEF FileInvariant
<1> QED BY <1>5, <1>6 DEF OtherProgram

\* main: an absent option is written; the tabs are restored.
LEMMA StartProgramFile ==
  ASSUME IInv, FileInvariant, IsHistory, NEW option, StartProgram(option)
  PROVE  FileInvariant'
<1>1. /\ UNCHANGED save /\ Content' = Content /\ Arrangement' = Arrangement
      /\ file' = EnsuredConfig(file) /\ desk' = RestoredDesk(SavedTabs(file))
      /\ known' = IF file.mode = "absent" THEN [known EXCEPT !.mode = "no"] ELSE known
      /\ file \in Content /\ save.section = "none"
      /\ known = [mode |-> known.mode, desk |-> known.desk]
  BY DEF StartProgram, FileInvariant, Content, Arrangement, IInv, SessionInvariant, TaskAlone,
         IsHistory
<1>2. PICK tab : tab = RestoredDesk(SavedTabs(file)).active
  OBVIOUS
<1>3. op'.next = "stay"
  <2>1. PICK no : no = NoOp
    OBVIOUS
  <2>2. op' = [no EXCEPT !.task = "connect", !.tab = tab]
    BY <1>2, <2>1 DEF StartProgram
  <2>3. \E s : no = [task |-> "none", answer |-> "none", next |-> "stay", auto |-> FALSE,
                     force |-> FALSE, tab |-> 1, outcome |-> "none", sess |-> s]
    BY <2>1 DEF NoOp
  <2> QED BY <2>2, <2>3
<1>4. CopyCurrent' /\ QuitKeepsDesk'
  BY <1>1, <1>3 DEF CopyCurrent, QuitKeepsDesk
<1>5. desk' \in Arrangement
  <2>1. PICK f : f = file
    OBVIOUS
  <2>2. PICK k, a, saved, there : /\ k = f.tabs /\ a = SavedTabs(f).active
                                  /\ saved = SavedTabs(f) /\ there = Opened(f.tabs)
    OBVIOUS
  <2>3. /\ f \in Content /\ k \in Seq(File) /\ a \in Nat /\ saved = [tabs |-> k, active |-> a]
        /\ there = Opened(k)
    BY <1>1, <2>1, <2>2, TabsRead DEF Content
  <2>4. RestoredDesk(saved) \in Arrangement
    BY <2>3, DeskRestored
  <2> QED BY <1>1, <2>1, <2>2, <2>4
<1>6. CASE file.mode = "absent"
  <2>1. file' = WithMode(file, FALSE) /\ known'.mode = "no" /\ known'.desk = known.desk
    BY <1>1, <1>6 DEF EnsuredConfig
  <2>2. /\ file' \in Content /\ file'.mode = "no"
        /\ file'.tabs = file.tabs /\ file'.active = file.active
    <3>1. PICK f, auto : f = file /\ auto = FALSE
      OBVIOUS
    <3>2. f \in Content /\ file' = WithMode(f, auto) /\ Option(auto) = "no"
      BY <1>1, <2>1, <3>1 DEF Option
    <3>3. /\ WithMode(f, auto) \in Content /\ WithMode(f, auto).mode = Option(auto)
          /\ WithMode(f, auto).tabs = f.tabs /\ WithMode(f, auto).active = f.active
      BY <3>2, ModeFields
    <3> QED BY <3>1, <3>2, <3>3
  <2>3. FileKnown'
    BY <1>1, <2>1, <2>2 DEF FileInvariant, FileKnown, SessionTabs, Arrangement
  <2> QED BY <1>1, <1>4, <1>5, <2>2, <2>3 DEF FileInvariant
<1>7. CASE file.mode # "absent"
  <2>1. file' = file /\ known' = known
    BY <1>1, <1>7 DEF EnsuredConfig
  <2>2. FileKnown'
    BY <2>1 DEF FileInvariant, FileKnown, SessionTabs, Arrangement
  <2> QED BY <1>1, <1>4, <1>5, <2>1, <2>2 DEF FileInvariant
<1> QED BY <1>6, <1>7

\* A start finds in the file what was last written.
LEMMA StartRestores ==
  ASSUME IInv, FileInvariant, [Next]_vars, prog = "down", prog' = "up"
  PROVE  /\ known.mode # Unknown /\ file.mode # "absent" => file.mode = known.mode
         /\ known.desk # NoDesk => Restores(desk', known.desk)
<1>1. PICK option : StartProgram(option)
  BY DEF Next, vars, UserKey, Poll, Reconnect, RunStatement, RequestQuit, EndTransaction,
         ChooseMode, Arrange, Free, Keys, Completed, Failed, Done, TaskRuns, WorkerCrashes,
         SessionDies, FinishSave, Killed, Ended, OtherProgram
<1>2. desk' = RestoredDesk(SavedTabs(file))
  BY <1>1 DEF StartProgram
<1>3. ASSUME known.desk # NoDesk
      PROVE  Restores(desk', known.desk)
  <2>1. PICK d, f, r : d = known.desk /\ f = file /\ r = RestoredDesk(SavedTabs(f))
    OBVIOUS
  <2>2. /\ d \in Arrangement /\ f \in Content
        /\ f.tabs = SessionTabs(d).tabs /\ f.active = SessionTabs(d).active
    BY <1>3, <2>1 DEF FileInvariant, FileKnown
  <2>3. Restores(r, d)
    BY <2>1, <2>2, RestoresTabs
  <2> QED BY <1>2, <2>1, <2>3
<1> QED BY <1>3 DEF FileInvariant, FileKnown

\* What RestartRestores says, read for the step of main.
LEMMA RestartStep ==
  IInv /\ FileInvariant /\ [Next]_vars =>
    [prog = "down" /\ prog' = "up" =>
       /\ known.mode # Unknown /\ file.mode # "absent" => file.mode = known.mode
       /\ known.desk # NoDesk =>
            LET was  == known.desk
                here == Among(was.tabs, File \ Gone)
                top  == was.tabs[was.active]
            IN  IF here = <<>> THEN desk'.tabs = <<NoFile>>
                ELSE /\ desk'.tabs = here
                     /\ desk'.tabs[desk'.active] = IF top \in ToSet(here) THEN top ELSE here[1]]_vars
BY StartRestores DEF Restores

\* Every step keeps what the restart relies on.
LEMMA StepFile ==
  IInv /\ FileInvariant /\ IsHistory /\ [Next]_vars => FileInvariant'
<1> SUFFICES ASSUME IInv, FileInvariant, IsHistory, [Next]_vars PROVE FileInvariant'
  OBVIOUS
<1>1. CASE \/ Reconnect
           \/ RunStatement
           \/ \E a \in {"commit", "rollback"} : EndTransaction(a)
           \/ \E auto \in BOOLEAN : ChooseMode(auto)
  BY <1>1, StartedFile
<1>2. CASE RequestQuit
  BY <1>2, RequestQuitFile
<1>3. CASE \E d \in Desk : Arrange(d)
  BY <1>3, ArrangeFile
<1>4. CASE Completed
  BY <1>4, CompletedFile
<1>5. CASE SessionDies \/ Failed \/ Killed
  BY <1>5, EndedFile
<1>6. CASE TaskRuns \/ WorkerCrashes
  BY <1>6, TaskFile
<1>7. CASE FinishSave
  BY <1>7, FinishSaveFile
<1>8. CASE OtherProgram
  BY <1>8, OtherProgramFile
<1>9. CASE \E option \in {"stored", "auto", "manual"} : StartProgram(option)
  BY <1>9, StartProgramFile
<1>10. CASE UNCHANGED vars
  <2>1. UNCHANGED <<desk, file, save, known>> /\ UNCHANGED <<op, quitPending>>
    BY <1>10 DEF vars
  <2> QED BY <2>1, FileKept DEF FileInvariant, QuitKeepsDesk
<1> QED BY <1>1, <1>2, <1>3, <1>4, <1>5, <1>6, <1>7, <1>8, <1>9, <1>10 DEF Next, UserKey, Poll

-----------------------------------------------------------------------------
(* Theorems about the restart.                                             *)

\* Sessions, config.ini and the history stay in step: the file holds what was
\* last written to it, and a quit saves the arrangement it was asked in.
THEOREM FileInvariantHolds == Spec => []FileInvariant
<1>1. Init => IsHistory
  BY DEF Init, IsHistory
<1> QED BY <1>1, InitIInv, StepIInv, InitFile, StepFile, HistoryKept, PTL DEF Spec

\* read_autocommit, read_session_tabs and restore_session_tabs: a program starts
\* with the tabs, the active one among them, and the mode last saved, for any
\* files, arrangements, deleted files and other writers.
THEOREM RestartRestoresHolds == Spec => RestartRestores
<1>1. Init => IsHistory
  BY DEF Init, IsHistory
<1> QED BY <1>1, InitIInv, StepIInv, InitFile, StepFile, HistoryKept, RestartStep, PTL
        DEF Spec, RestartRestores
=============================================================================
