------------------------------ MODULE ResultGrid ------------------------------
(***************************************************************************)
(* Editing in the result grid: cells of ROWID-backed rows, and the insert  *)
(* draft, a row that exists in the grid alone until Ctrl-Alt-C sends it    *)
(* (ui/result_controller.py, ui/viewport.py, db/editing.py, and what       *)
(* ui/db_operations.py and ui/result_presenter.py do to a grid).  The grid *)
(* may be scrolled, its draft cancelled and its result dropped while an    *)
(* edit runs on the worker.                                                *)
(*                                                                         *)
(* One tab, one editable column, rows of one table.  The driver calls of   *)
(* an edit are one step here; OracleTransaction has them one by one.       *)
(***************************************************************************)
EXTENDS Integers, Sequences, FiniteSets, SequencesExt, TLC

CONSTANTS
  Rowid,          \* where a row of the table may be
  Value,          \* values of the edited column
  None,           \* no row, or no value
  Draft,          \* the marker in the ROWID column of the insert draft
  PageSize        \* result_page_size: rows of the grid on the screen

ASSUME GridAssumption == /\ PageSize \in Nat \ {0} /\ IsFiniteSet(Rowid)
                         /\ None \notin Value /\ {None, Draft} \cap Rowid = {}

VARIABLES
  table,          \* the table as this session sees it
  conn,           \* the session: open, or dead
  ui,             \* state.db.connected: the snapshot the UI decides by
  grid,           \* the tab's result, draft, selection and scroll position
  op,             \* the edit under way, with what its callbacks captured
  inserted,       \* history: rows the database took for the present draft
  readFrom        \* history: the values read from each row for this result

vars == <<table, conn, ui, grid, op, inserted, readFrom>>
session == <<table, conn>>

Cell == Value \cup {None}
Existing == {r \in Rowid : table[r] # None}

\* Where a new row may be: the place of a deleted row that is still shown is
\* not used again.
Free == Rowid \ (Existing \cup {grid.rows[i].of : i \in 1..Len(grid.rows)} \cup {op.of, op.row})
MaxRows == Cardinality(Rowid) + 1

\* A result: its rows as shown, with the ROWID each carries, and
\* original_rows beside them.
NoGrid == [has |-> FALSE, editable |-> FALSE, rows |-> <<>>, originals |-> <<>>,
           draft |-> FALSE, sel |-> 1, scroll |-> 1]
Idle == [kind |-> "none", index |-> 1, of |-> None, orig |-> None, current |-> FALSE,
         cancel |-> FALSE, reply |-> "pending", row |-> None, got |-> None, up |-> FALSE]
Failures == {"error", "interrupted"}

Init == /\ table \in [Rowid -> Cell]
        /\ conn = "open" /\ ui = TRUE
        /\ grid = NoGrid /\ op = Idle
        /\ inserted = 0 /\ readFrom = [r \in Rowid |-> {}]

Busy == op.kind # "none"

-----------------------------------------------------------------------------
(* What the handlers do to a grid g.                                       *)

Total(g) == Len(g.rows)
Clamped(i, low, high) == IF i > high THEN (IF high < low THEN low ELSE high)
                         ELSE IF i < low THEN low ELSE i

\* clamp_cell_view_scroll, counting from 1
ClampedScroll(i, total) == IF total <= PageSize THEN 1 ELSE Clamped(i, 1, total - PageSize + 1)

\* Mutation: the selection is not brought back into the grid.
ScrolledOnly(g) == [g EXCEPT !.scroll = ClampedScroll(@, Total(g))]

\* What the next frame makes of a selection: prepare_results_viewport.
Revealed(g) ==
  LET sel    == Clamped(g.sel, 1, Total(g))
      scroll == ClampedScroll(g.scroll, Total(g))
  IN  [g EXCEPT !.sel = sel,
                !.scroll = IF sel < scroll THEN sel
                           ELSE IF sel >= scroll + PageSize THEN sel - PageSize + 1
                           ELSE scroll]

\* active_insert_draft: tracked, and still the row it was made as
ActiveDraft(g) == g.draft /\ g.rows # <<>> /\ g.rows[1].of = Draft
SelectedDraft(g) == ActiveDraft(g) /\ g.sel = 1

\* remove_insert_draft and discard_insert_draft
WithoutDraft(g) ==
  IF ActiveDraft(g)
  THEN [g EXCEPT !.rows = Tail(@), !.originals = Tail(@), !.draft = FALSE]
  ELSE [g EXCEPT !.draft = FALSE]

\* Mutation: the draft is forgotten but its row stays.
DetachedKeepsRow(g) == IF g.has THEN [g EXCEPT !.editable = FALSE, !.draft = FALSE] ELSE g

\* _detach_live_result_state
Detached(g) == IF g.has THEN [WithoutDraft(g) EXCEPT !.editable = FALSE] ELSE g

Shows(g) == grid' = Revealed(g)

-----------------------------------------------------------------------------
(* Keys.  An edit that runs refuses another one, and nothing else.         *)

UiOnly == UNCHANGED <<session, ui, inserted, readFrom>>

\* The other ways a result comes and goes: a statement is run; rollback,
\* reconnect and help drop it.  All but help need an idle worker.
Query ==
  /\ ~Busy /\ ui /\ conn = "open"
  /\ \E n \in 0..Cardinality(Existing) : \E list \in [1..n -> Existing] :
       /\ IsInjective(list)
       /\ Shows([NoGrid EXCEPT !.has = TRUE, !.editable = TRUE,
                               !.rows = [i \in 1..n |-> [of |-> list[i], text |-> table[list[i]]]],
                               !.originals = [i \in 1..n |-> table[list[i]]]])
       /\ readFrom' = [r \in Rowid |-> IF r \in Range(list) THEN {table[r]} ELSE {}]
  /\ inserted' = 0
  /\ UNCHANGED <<session, ui, op>>

Reconnect == /\ ~Busy
             /\ conn' \in {"open", "dead"} /\ ui' = (conn' = "open")
             /\ grid' = NoGrid
             /\ UNCHANGED <<table, op, inserted, readFrom>>

Help == /\ grid.has
        /\ grid' = NoGrid /\ op' = [op EXCEPT !.current = FALSE]
        /\ UiOnly

\* Up, Down, PageUp, PageDown, Ctrl-Home, Ctrl-End
MoveSelection(delta) ==
  /\ grid.has
  /\ Shows([grid EXCEPT !.sel = IF ActiveDraft(grid) THEN 1 ELSE Clamped(@ + delta, 1, Total(grid))])
  /\ UiOnly /\ UNCHANGED op

\* Ctrl-Up, Ctrl-Down, Ctrl-PageUp, Ctrl-PageDown: scroll_result_grid_window
ScrollWindow(delta) ==
  LET scroll == ClampedScroll(grid.scroll + delta, Total(grid))
  IN  /\ grid.has
      /\ Shows([grid EXCEPT !.scroll = scroll,
                            !.sel = Clamped(@, scroll, Clamped(scroll + PageSize - 1, 1, Total(grid)))])
      /\ UiOnly /\ UNCHANGED op

Steps == {-1, 1, -PageSize, PageSize}

\* start_insert_draft_row
StartDraft ==
  /\ ~Busy /\ grid.has /\ ui /\ grid.editable
  /\ IF ActiveDraft(grid)
     THEN /\ Shows([grid EXCEPT !.sel = 1, !.scroll = 1])
          /\ UNCHANGED inserted
     ELSE /\ Shows([grid EXCEPT !.rows = <<[of |-> Draft, text |-> None]>> \o @,
                                !.originals = <<None>> \o @,
                                !.draft = TRUE, !.sel = 1, !.scroll = 1])
          /\ inserted' = 0
  /\ UNCHANGED <<session, ui, op, readFrom>>

\* edit_insert_draft_cell
EditDraft(v) ==
  /\ SelectedDraft(grid) /\ grid.editable /\ ui
  /\ Shows([grid EXCEPT !.rows[1].text = v])
  /\ UiOnly /\ UNCHANGED op

\* Esc: cancel_insert_draft_if_selected
CancelDraft ==
  /\ SelectedDraft(grid)
  /\ Shows(WithoutDraft(grid))
  /\ UiOnly /\ UNCHANGED op

\* Ctrl-Alt-C: commit_insert_draft_if_active
CommitDraft ==
  /\ ActiveDraft(grid) /\ grid.editable /\ ~Busy /\ ui
  /\ op' = [Idle EXCEPT !.kind = "insert-row", !.current = TRUE]
  /\ UNCHANGED grid /\ UiOnly

\* Enter: edit_selected_result_cell
EditCell ==
  /\ ~Busy /\ grid.has /\ ui /\ grid.editable
  /\ grid.rows # <<>> /\ ~SelectedDraft(grid)
  /\ op' = [Idle EXCEPT !.kind = "update-cell", !.current = TRUE, !.index = grid.sel,
                        !.of = grid.rows[grid.sel].of, !.orig = grid.originals[grid.sel]]
  /\ UNCHANGED grid /\ UiOnly

Interrupt == /\ Busy /\ ~op.cancel
             /\ op' = [op EXCEPT !.cancel = TRUE]
             /\ UNCHANGED grid /\ UiOnly

-----------------------------------------------------------------------------
(* The worker and the database.                                            *)

Running(kind) == op.kind = kind /\ op.reply = "pending"

Reply(o) == /\ op' = [o EXCEPT !.up = conn' = "open"]
            /\ UNCHANGED <<ui, grid, readFrom>>

\* What the caller learns of an edit that took effect: an answer, or none if
\* the session dies under it or the call is interrupted at its commit.
Answered(row, v) ==
  /\ conn' \in {"open", "dead"}
  /\ \/ Reply([op EXCEPT !.reply = "ok", !.row = row, !.got = v])
     \/ conn' = "dead" /\ Reply([op EXCEPT !.reply = "error"])
     \/ op.cancel /\ Reply([op EXCEPT !.reply = "interrupted"])

NoEffect == /\ conn' \in {conn, "dead"}
            /\ UNCHANGED <<table, inserted>>
            /\ \E reply \in Failures : Reply([op EXCEPT !.reply = reply])

\* update_cell_by_rowid: ROWID and loaded value must both match.  What is
\* read back may differ from what was typed (triggers, SYSDATE).
UpdateRuns ==
  /\ Running("update-cell")
  /\ \/ /\ conn = "open" /\ op.of \in Existing /\ table[op.of] = op.orig
        /\ \E v \in Value : table' = [table EXCEPT ![op.of] = v] /\ Answered(op.of, v)
        /\ UNCHANGED inserted
     \/ NoEffect

\* insert_row_for_result
InsertRuns ==
  /\ Running("insert-row")
  /\ \/ /\ conn = "open"
        /\ \E r \in Free, v \in Value :
             table' = [table EXCEPT ![r] = v] /\ Answered(r, v)
        /\ inserted' = inserted + 1
     \/ NoEffect

\* Another session writes or deletes a row, or this one's work is undone.
TableChanges == /\ \E r \in Existing \cup Free, v \in Cell : table' = [table EXCEPT ![r] = v]
                /\ UNCHANGED <<conn, ui, grid, op, inserted, readFrom>>

SessionDies == /\ conn = "open" /\ conn' = "dead"
               /\ UNCHANGED <<table, ui, grid, op, inserted, readFrom>>

-----------------------------------------------------------------------------
(* poll: the callbacks of an edit, between the two looks at its session.   *)

WasLost     == ~op.up
Interrupted == op.cancel \/ op.reply = "interrupted"

\* Mutation: only a lost session detaches the grid.
InterruptKeeps(g) == IF WasLost THEN Detached(g) ELSE g

Told(g) == IF WasLost \/ Interrupted THEN Detached(g) ELSE g

Completes(kind, g) ==
  /\ op.kind = kind /\ op.reply # "pending"
  /\ Shows(Told(g))
  /\ ui' = op.up /\ op' = Idle
  /\ UNCHANGED <<session, inserted>>

\* updated: by the row number taken when the edit was started
Updated(g) ==
  IF op.current /\ op.index <= Total(g)
  THEN [g EXCEPT !.rows[op.index].text = op.got, !.originals[op.index] = op.got]
  ELSE g

UpdateCompletes ==
  /\ Completes("update-cell", IF op.reply = "ok" THEN Updated(Told(grid)) ELSE Told(grid))
  /\ readFrom' = IF op.reply = "ok" /\ op.current THEN [readFrom EXCEPT ![op.of] = @ \cup {op.got}]
                                                   ELSE readFrom

\* inserted: the draft becomes the row the database returned
Inserted(g) == [g EXCEPT !.rows[1] = [of |-> op.row, text |-> op.got],
                         !.originals[1] = op.got, !.draft = FALSE]

InsertCompletes ==
  LET g == Told(grid)
      taken == op.reply = "ok" /\ op.current /\ ActiveDraft(g)
  IN  /\ Completes("insert-row", IF taken THEN Inserted(g)
                                 ELSE IF op.reply = "ok" THEN g ELSE [g EXCEPT !.sel = 1])
      /\ readFrom' = IF taken THEN [readFrom EXCEPT ![op.row] = {op.got}] ELSE readFrom

-----------------------------------------------------------------------------
Keys == \/ Query \/ Reconnect \/ Help \/ StartDraft \/ CancelDraft \/ CommitDraft
        \/ EditCell \/ Interrupt
        \/ \E delta \in Steps : MoveSelection(delta) \/ ScrollWindow(delta)
        \/ \E v \in Value : EditDraft(v)
Next == Keys \/ UpdateRuns \/ InsertRuns \/ UpdateCompletes \/ InsertCompletes
             \/ TableChanges \/ SessionDies

Spec == Init /\ [][Next]_vars

-----------------------------------------------------------------------------
(* Properties.                                                             *)

\* Every variable keeps to its set, and the selection to the grid.
TypeOK ==
  /\ table \in [Rowid -> Cell] /\ conn \in {"open", "dead"} /\ ui \in BOOLEAN
  /\ grid \in [has : BOOLEAN, editable : BOOLEAN, draft : BOOLEAN,
               rows : Seq([of : Rowid \cup {Draft}, text : Cell]), originals : Seq(Cell),
               sel : 1..Clamped(MaxRows, 1, Total(grid)), scroll : 1..MaxRows]
  /\ op \in [kind : {"none", "update-cell", "insert-row"}, index : 1..MaxRows,
             of : Rowid \cup {None, Draft}, orig : Cell, current : BOOLEAN, cancel : BOOLEAN,
             reply : {"pending", "ok"} \cup Failures, row : Rowid \cup {None}, got : Cell,
             up : BOOLEAN]
  /\ inserted \in Nat /\ readFrom \in [Rowid -> SUBSET Value]

\* A row of the grid without a row in the database is the draft, on top and
\* tracked, and rows and original values stay side by side: whatever ends a
\* draft (insert, Esc, help, interrupt, lost session) takes its row with it
\* (remove_insert_draft, _discard_insert_draft, _detach_live_result_state).
NoPhantomRow ==
  /\ Len(grid.rows) = Len(grid.originals)
  /\ \A i \in 1..Total(grid) : grid.rows[i].of = Draft => i = 1 /\ grid.draft

\* One draft never becomes two rows, though its insert may be interrupted
\* when the database has already taken it, or its session may be lost
\* (commit_insert_draft_if_active, poll).
InsertedOnce == inserted <= 1

\* README.md: "Grid edits compare the selected cell's originally loaded typed
\* value as well as the ROWID": in a grid that takes edits, the original value
\* kept beside a row is one that was read from that very row.
OriginalsBelongToTheirRow ==
  grid.editable => \A i \in 1..Total(grid) :
    grid.rows[i].of \in Rowid => grid.originals[i] \in readFrom[grid.rows[i].of]

-----------------------------------------------------------------------------
(* The inductive invariant: what makes the properties above hold.          *)

\* No row of the table is shown twice, nor is the one an insert has returned
\* shown before it is taken over; without a result there are no rows.
RowsOnce ==
  /\ \A i, j \in 1..Total(grid) : i # j => grid.rows[i].of # grid.rows[j].of
  /\ op.kind = "insert-row" /\ op.reply = "ok" =>
       \A i \in 1..Total(grid) : grid.rows[i].of # op.row
  /\ ~grid.has => grid.rows = <<>>

\* An answer brings a row and its value.
AnswerKnown == op.reply = "ok" => op.row \in Rowid /\ op.got \in Value

\* While a draft is sent no other one is started; once the database has taken
\* it, the callback of the insert will find it or detach the grid.
DraftSentOnce ==
  /\ op.kind = "insert-row" /\ ~op.current => ~ActiveDraft(grid)
  /\ Running("insert-row") => inserted = 0
  /\ inserted > 0 /\ ActiveDraft(grid) =>
       op.kind = "insert-row" /\ (op.reply = "ok" \/ WasLost \/ Interrupted)

GridInvariant == NoPhantomRow /\ RowsOnce /\ AnswerKnown /\ DraftSentOnce /\ InsertedOnce
=============================================================================
