-------------------------- MODULE ResultGridProofs --------------------------
(***************************************************************************)
(* Proofs about the result grid, for any table, any page size and any      *)
(* number of rows shown.                                                   *)
(***************************************************************************)
EXTENDS ResultGrid, SequenceTheorems, FiniteSetTheorems, TLAPS

-----------------------------------------------------------------------------
(* Grids.                                                                  *)

\* A grid before the next frame has brought selection and scroll back to it.
Row == [of : Rowid \cup {Draft}, text : Cell]
Shape == [has : BOOLEAN, editable : BOOLEAN, draft : BOOLEAN,
          rows : Seq(Row), originals : Seq(Cell), sel : Int, scroll : Int]

NotShown(g, row) == \A i \in 1..Len(g.rows) : g.rows[i].of # row

Whole(g) ==
  /\ g \in Shape
  /\ Len(g.rows) = Len(g.originals)
  /\ \A i \in 1..Len(g.rows) : g.rows[i].of = Draft => i = 1 /\ g.draft
  /\ \A i, j \in 1..Len(g.rows) : i # j => g.rows[i].of # g.rows[j].of
  /\ ~g.has => g.rows = <<>>

\* After a frame the selection is a row of the grid.
Framed(g) == /\ g.sel \in 1..Clamped(MaxRows, 1, Len(g.rows))
             /\ g.scroll \in 1..MaxRows

\* Two grids with the same rows and the same draft.
Same(h, g) == /\ h.rows = g.rows /\ h.originals = g.originals /\ h.draft = g.draft
              /\ h.has = g.has /\ h.editable = g.editable

\* A function on 1..n is a sequence of n elements.
LEMMA SeqLength ==
  ASSUME NEW S, NEW n \in Nat, NEW f \in [1..n -> S]
  PROVE  f \in Seq(S) /\ Len(f) = n
<1>1. f \in Seq(S)
  BY SeqDef
<1>2. Len(f) \in Nat /\ 1..Len(f) = 1..n
  BY <1>1, LenProperties
<1> QED BY <1>1, <1>2

\* As every row is shown once, a grid has no more rows than there are places
\* for rows, and the draft.
LEMMA RowsBounded ==
  ASSUME NEW g, Whole(g)
  PROVE  /\ Len(g.rows) \in Nat /\ MaxRows \in Nat \ {0}
         /\ Len(g.rows) <= MaxRows
<1> DEFINE n == Len(g.rows)
           f == [i \in 1..n |-> g.rows[i].of]
<1>1. g.rows \in Seq(Row) /\ n \in Nat
  BY LenProperties DEF Whole, Shape
<1>2. f \in Injection(1..n, Rowid \cup {Draft})
  <2>1. f \in [1..n -> Rowid \cup {Draft}]
    <3> SUFFICES ASSUME NEW i \in 1..n PROVE g.rows[i].of \in Rowid \cup {Draft}
      OBVIOUS
    <3>1. g.rows[i] \in Row
      BY <1>1, ElementOfSeq
    <3> QED BY <3>1 DEF Row
  <2>2. IsInjective(f)
    BY DEF IsInjective, Whole
  <2> QED BY <2>1, <2>2 DEF Injection
<1>3. /\ IsFiniteSet(Rowid \cup {Draft})
      /\ Cardinality(Rowid \cup {Draft}) = Cardinality(Rowid) + 1
      /\ Cardinality(Rowid) \in Nat
  BY GridAssumption, FS_AddElement, FS_CardinalityType
<1>4. Cardinality(1..n) = n
  BY <1>1, FS_Interval
<1>5. Cardinality(1..n) <= Cardinality(Rowid \cup {Draft})
  <2> HIDE DEF f
  <2> QED BY <1>2, <1>3, FS_Injection
<1> QED BY <1>1, <1>3, <1>4, <1>5 DEF MaxRows

\* A frame shows the rows it was given, and brings selection and scroll back.
LEMMA FrameKeeps ==
  ASSUME NEW g, Whole(g), Shows(g)
  PROVE  Whole(grid') /\ Framed(grid') /\ Same(grid', g)
<1> DEFINE total == Len(g.rows)
           sel == Clamped(g.sel, 1, total)
           scroll == ClampedScroll(g.scroll, total)
           top == IF sel < scroll THEN sel
                  ELSE IF sel >= scroll + PageSize THEN sel - PageSize + 1 ELSE scroll
<1>1. /\ total \in Nat /\ MaxRows \in Nat \ {0} /\ total <= MaxRows
      /\ PageSize \in Nat \ {0} /\ g.sel \in Int /\ g.scroll \in Int
  BY RowsBounded, GridAssumption DEF Whole, Shape
<1>2. grid' = [g EXCEPT !.sel = sel, !.scroll = top]
  BY DEF Shows, Revealed, Total
<1>3. sel \in 1..Clamped(MaxRows, 1, total) /\ sel \in Nat
  BY <1>1 DEF Clamped
<1>4. Clamped(MaxRows, 1, total) \in 1..MaxRows
  BY <1>1 DEF Clamped
<1>5. scroll \in 1..MaxRows
  BY <1>1 DEF ClampedScroll, Clamped
<1>6. top \in 1..MaxRows
  <2> HIDE DEF sel, scroll
  <2> QED BY <1>1, <1>3, <1>4, <1>5
<1> HIDE DEF sel, top
<1>7. grid' = [has |-> g.has, editable |-> g.editable, draft |-> g.draft, rows |-> g.rows,
               originals |-> g.originals, sel |-> sel, scroll |-> top]
  BY <1>2 DEF Whole, Shape
<1>8. sel \in Int /\ top \in Int
  BY <1>3, <1>6
<1>9. Same(grid', g) /\ grid'.sel = sel /\ grid'.scroll = top
  BY <1>7 DEF Same
<1>10. grid' \in Shape
  BY <1>7, <1>8 DEF Whole, Shape
<1> QED BY <1>3, <1>6, <1>9, <1>10 DEF Framed, Whole, Same

\* A grid whose rows carry the same places is as whole.
LEMMA SameRows ==
  ASSUME NEW g, Whole(g), NEW h \in Shape,
         Len(h.rows) = Len(g.rows), Len(h.originals) = Len(g.originals),
         \A i \in 1..Len(g.rows) : h.rows[i].of = g.rows[i].of,
         h.draft = g.draft, h.has = g.has
  PROVE  Whole(h)
<1>1. g.rows = <<>> => h.rows = <<>>
  <2>1. h.rows \in Seq(Row) /\ g.rows \in Seq(Row)
    BY DEF Whole, Shape
  <2> QED BY <2>1, EmptySeq
<1> QED BY <1>1 DEF Whole

\* A draft is taken away with its row, and no other row becomes one.
LEMMA WithoutDraftKeeps ==
  ASSUME NEW g, Whole(g), NEW h, h = WithoutDraft(g)
  PROVE  /\ Whole(h) /\ ~ActiveDraft(h) /\ h.has = g.has
         /\ \A row : NotShown(g, row) => NotShown(h, row)
<1>1. g \in Shape /\ g.rows \in Seq(Row) /\ g.originals \in Seq(Cell) /\ Len(g.rows) \in Nat
  BY LenProperties DEF Whole, Shape
<1>2. CASE ActiveDraft(g)
  <2>1. /\ g.rows # <<>> /\ g.originals # <<>>
    BY <1>1, <1>2, EmptySeq DEF ActiveDraft, Whole
  <2>2. /\ h.rows = Tail(g.rows) /\ h.originals = Tail(g.originals) /\ h.draft = FALSE
        /\ h.has = g.has /\ h.editable = g.editable /\ h.sel = g.sel /\ h.scroll = g.scroll
        /\ h = [has |-> h.has, editable |-> h.editable, draft |-> h.draft, rows |-> h.rows,
                originals |-> h.originals, sel |-> h.sel, scroll |-> h.scroll]
    BY <1>1, <1>2 DEF WithoutDraft, Shape
  <2>3. /\ h.rows \in Seq(Row) /\ Len(h.rows) = Len(g.rows) - 1
        /\ \A i \in 1..Len(h.rows) : h.rows[i] = g.rows[i + 1]
    BY <1>1, <2>1, <2>2, HeadTailProperties
  <2>4. h.originals \in Seq(Cell) /\ Len(h.originals) = Len(g.originals) - 1
    BY <1>1, <2>1, <2>2, HeadTailProperties
  <2>5. h \in Shape
    BY <1>1, <2>2, <2>3, <2>4 DEF Shape
  <2>6. \A i \in 1..Len(h.rows) : i + 1 \in 1..Len(g.rows) /\ i + 1 # 1
    BY <1>1, <2>3
  <2>7. \A i \in 1..Len(h.rows) : h.rows[i].of # Draft
    BY <2>3, <2>6 DEF Whole
  <2>9. ASSUME NEW i \in 1..Len(h.rows), NEW j \in 1..Len(h.rows), i # j
        PROVE  h.rows[i].of # h.rows[j].of
    <3>1. i + 1 \in 1..Len(g.rows) /\ j + 1 \in 1..Len(g.rows) /\ i + 1 # j + 1
      BY <2>6, <2>9
    <3>2. g.rows[i + 1].of # g.rows[j + 1].of
      BY <3>1 DEF Whole
    <3> QED BY <2>3, <3>2
  <2>10. g.has
    BY <2>1 DEF Whole
  <2> QED BY <2>2, <2>3, <2>4, <2>5, <2>6, <2>7, <2>9, <2>10 DEF Whole, ActiveDraft, NotShown
<1>3. CASE ~ActiveDraft(g)
  <2>1. /\ h.rows = g.rows /\ h.originals = g.originals /\ h.draft = FALSE
        /\ h.has = g.has /\ h \in Shape
    BY <1>1, <1>3 DEF WithoutDraft, Shape
  <2>2. \A i \in 1..Len(g.rows) : g.rows[i].of # Draft
    <3> SUFFICES ASSUME NEW i \in 1..Len(g.rows), g.rows[i].of = Draft PROVE ActiveDraft(g)
      BY <1>3
    <3>1. i = 1 /\ g.draft
      BY DEF Whole
    <3>2. g.rows # <<>>
      BY <1>1, EmptySeq
    <3> QED BY <3>1, <3>2 DEF ActiveDraft
  <2> QED BY <2>1, <2>2 DEF Whole, ActiveDraft, NotShown
<1> QED BY <1>2, <1>3

\* So it is when a lost session or an interrupt detaches the grid.
LEMMA DetachedKeeps ==
  ASSUME NEW g, Whole(g), NEW h, h = Detached(g)
  PROVE  /\ Whole(h) /\ ~ActiveDraft(h) /\ h.has = g.has
         /\ \A row : NotShown(g, row) => NotShown(h, row)
<1>1. CASE g.has
  <2>1. PICK w : w = WithoutDraft(g)
    OBVIOUS
  <2>2. /\ Whole(w) /\ ~ActiveDraft(w) /\ w.has = g.has
        /\ \A row : NotShown(g, row) => NotShown(w, row)
    BY <2>1, WithoutDraftKeeps
  <2>3. h = [w EXCEPT !.editable = FALSE]
    BY <1>1, <2>1 DEF Detached
  <2>4. /\ h.rows = w.rows /\ h.originals = w.originals /\ h.draft = w.draft /\ h.has = w.has
        /\ h \in Shape
    BY <2>2, <2>3 DEF Whole, Shape
  <2>5. \A row : NotShown(h, row) <=> NotShown(w, row)
    BY <2>4 DEF NotShown
  <2>6. Whole(h) /\ ~ActiveDraft(h)
    BY <2>2, <2>4 DEF Whole, ActiveDraft
  <2> QED BY <2>2, <2>4, <2>5, <2>6
<1>2. CASE ~g.has
  BY <1>2 DEF Detached, Whole, ActiveDraft
<1> QED BY <1>1, <1>2

-----------------------------------------------------------------------------
(* The state.                                                              *)

Edit == [kind : {"none", "update-cell", "insert-row"}, index : 1..MaxRows,
         of : Rowid \cup {None, Draft}, orig : Cell, current : BOOLEAN, cancel : BOOLEAN,
         reply : {"pending", "ok"} \cup Failures, row : Rowid \cup {None}, got : Cell,
         up : BOOLEAN]

IInv == TypeOK /\ GridInvariant

\* What a step has to establish of grid and edit, and of the rest.
Rest == /\ table \in [Rowid -> Cell] /\ conn \in {"open", "dead"} /\ ui \in BOOLEAN
        /\ inserted \in {0, 1} /\ readFrom \in [Rowid -> SUBSET Value]
NewRow == op.kind = "insert-row" /\ op.reply = "ok" => NotShown(grid, op.row)

\* What the invariant says, in the terms of the lemmas.
LEMMA Taken ==
  ASSUME IInv
  PROVE  /\ Whole(grid) /\ Framed(grid) /\ op \in Edit /\ Rest /\ NewRow
         /\ AnswerKnown /\ DraftSentOnce
<1>1. grid \in Shape /\ Framed(grid)
  <2>1. grid \in [has : BOOLEAN, editable : BOOLEAN, draft : BOOLEAN,
               rows : Seq([of : Rowid \cup {Draft}, text : Cell]), originals : Seq(Cell),
               sel : 1..Clamped(MaxRows, 1, Total(grid)), scroll : 1..MaxRows]
    BY DEF IInv, TypeOK
  <2> QED BY <2>1 DEF Shape, Row, Framed, Total
<1>2. Whole(grid)
  BY <1>1 DEF IInv, GridInvariant, NoPhantomRow, RowsOnce, Whole, Total
<1>3. op \in Edit
  BY DEF IInv, TypeOK, Edit
<1>4. inserted \in {0, 1}
  BY DEF IInv, TypeOK, GridInvariant, InsertedOnce
<1>5. NewRow
  BY DEF IInv, GridInvariant, RowsOnce, NewRow, NotShown, Total
<1> QED BY <1>1, <1>2, <1>3, <1>4, <1>5 DEF IInv, TypeOK, GridInvariant, Rest

\* What a step has to establish.
LEMMA Regained ==
  ASSUME Whole(grid'), Framed(grid'), op' \in Edit, Rest', NewRow', AnswerKnown', DraftSentOnce'
  PROVE  IInv'
<1>1. TypeOK'
  <2>1. grid' \in [has : BOOLEAN, editable : BOOLEAN, draft : BOOLEAN,
               rows : Seq([of : Rowid \cup {Draft}, text : Cell]), originals : Seq(Cell),
               sel : 1..Clamped(MaxRows, 1, Len(grid'.rows)), scroll : 1..MaxRows]
    BY DEF Whole, Framed, Shape, Row
  <2> QED BY <2>1 DEF TypeOK, Edit, Rest, Total
<1>2. NoPhantomRow' /\ RowsOnce'
  BY DEF Whole, NewRow, NotShown, NoPhantomRow, RowsOnce, Total
<1>3. InsertedOnce'
  BY DEF Rest, InsertedOnce
<1> QED BY <1>1, <1>2, <1>3 DEF IInv, GridInvariant

\* No result, and no edit.
LEMMA Nothing ==
  /\ Whole(NoGrid) /\ Framed(NoGrid) /\ ~ActiveDraft(NoGrid) /\ ~NoGrid.has /\ NoGrid \in Shape
  /\ \A row : NotShown(NoGrid, row)
  /\ Idle \in Edit /\ Idle.kind = "none" /\ Idle.reply = "pending"
<1>1. NoGrid \in Shape /\ NoGrid.rows = <<>> /\ NoGrid.originals = <<>> /\ Len(NoGrid.rows) = 0
  BY EmptySeq DEF NoGrid, Shape
<1>2. Whole(NoGrid)
  BY <1>1 DEF Whole
<1>3. MaxRows \in Nat \ {0}
  BY <1>2, RowsBounded
<1>4. Framed(NoGrid)
  BY <1>1, <1>3 DEF Framed, Clamped, NoGrid
<1>5. Idle \in Edit /\ Idle.kind = "none" /\ Idle.reply = "pending"
  BY <1>3 DEF Idle, Edit, Cell
<1> QED BY <1>1, <1>2, <1>4, <1>5 DEF ActiveDraft, NotShown, NoGrid

\* It holds before there is a result.
LEMMA InitIInv == Init => IInv
<1> SUFFICES ASSUME Init PROVE IInv
  OBVIOUS
<1>1. grid = NoGrid /\ op = Idle /\ inserted = 0
  BY DEF Init
<1>2. Whole(grid) /\ Framed(grid) /\ op \in Edit /\ op.kind = "none" /\ op.reply = "pending"
      /\ ~ActiveDraft(grid)
  BY <1>1, Nothing
<1>3. Rest
  BY DEF Init, Rest
<1>4. TypeOK
  <2>1. grid \in [has : BOOLEAN, editable : BOOLEAN, draft : BOOLEAN,
               rows : Seq([of : Rowid \cup {Draft}, text : Cell]), originals : Seq(Cell),
               sel : 1..Clamped(MaxRows, 1, Len(grid.rows)), scroll : 1..MaxRows]
    BY <1>2 DEF Whole, Framed, Shape, Row
  <2> QED BY <1>2, <1>3, <2>1 DEF TypeOK, Edit, Rest, Total
<1>5. NoPhantomRow /\ RowsOnce
  BY <1>2 DEF Whole, NoPhantomRow, RowsOnce, Total
<1>6. AnswerKnown /\ DraftSentOnce /\ InsertedOnce
  BY <1>1, <1>2 DEF AnswerKnown, DraftSentOnce, InsertedOnce, Running
<1> QED BY <1>4, <1>5, <1>6 DEF IInv, GridInvariant

-----------------------------------------------------------------------------
(* Keys.                                                                   *)

\* A step that neither touches an edit nor brings a draft back.
LEMMA SameEdit ==
  ASSUME IInv, op' = op, inserted' = inserted, Rest', Whole(grid'), Framed(grid'),
         \A row : NotShown(grid, row) => NotShown(grid', row),
         ActiveDraft(grid') => ActiveDraft(grid)
  PROVE  IInv'
<1>1. op' \in Edit
  BY Taken
<1>2. NewRow'
  BY Taken DEF NewRow, NotShown
<1>3. AnswerKnown'
  BY Taken DEF AnswerKnown
<1>4. DraftSentOnce'
  BY Taken DEF DraftSentOnce, Running, WasLost, Interrupted, ActiveDraft
<1> QED BY <1>1, <1>2, <1>3, <1>4, Regained

\* What is shown when nothing about the rows has changed.
LEMMA SameShown ==
  ASSUME NEW g, NEW h, Same(h, g)
  PROVE  /\ \A row : NotShown(g, row) <=> NotShown(h, row)
         /\ ActiveDraft(h) <=> ActiveDraft(g)
BY DEF Same, NotShown, ActiveDraft

\* Moving the selection or the window shows the same rows.
LEMMA MoveKeeps ==
  ASSUME IInv, NEW i \in Int, NEW k \in Int,
         Shows([grid EXCEPT !.sel = i, !.scroll = k]), UiOnly, UNCHANGED op
  PROVE  IInv'
<1>0. PICK g : g = [grid EXCEPT !.sel = i, !.scroll = k]
  OBVIOUS
<1>1. Whole(grid) /\ Rest /\ grid \in Shape
  BY Taken DEF Whole
<1>2. g = [has |-> grid.has, editable |-> grid.editable, draft |-> grid.draft, rows |-> grid.rows,
           originals |-> grid.originals, sel |-> i, scroll |-> k]
  BY <1>0, <1>1 DEF Shape
<1>3. g \in Shape
  BY <1>1, <1>2 DEF Shape
<1>4. Same(g, grid)
  BY <1>2 DEF Same
<1>5. Whole(g)
  BY <1>1, <1>3, <1>4 DEF Whole, Same
<1>6. Shows(g)
  BY <1>0
<1>7. Whole(grid') /\ Framed(grid') /\ Same(grid', g)
  BY <1>5, <1>6, FrameKeeps
<1>8. Same(grid', grid)
  BY <1>4, <1>7 DEF Same
<1>9. Rest'
  BY <1>1 DEF Rest, UiOnly, session, Cell
<1> QED BY <1>7, <1>8, <1>9, SameShown, SameEdit DEF UiOnly

\* Up, Down, PageUp, PageDown, Ctrl-Home and Ctrl-End do no more.
LEMMA MoveSelectionKeeps ==
  ASSUME IInv, NEW delta \in Steps, MoveSelection(delta)
  PROVE  IInv'
<1>1. /\ grid \in Shape /\ Len(grid.rows) \in Nat /\ delta \in Int
      /\ grid.sel \in Int /\ grid.scroll \in Int
  BY Taken, RowsBounded, GridAssumption DEF Whole, Shape, Steps
<1>2. PICK i : i = IF ActiveDraft(grid) THEN 1 ELSE Clamped(grid.sel + delta, 1, Total(grid))
  OBVIOUS
<1>3. i \in Int
  BY <1>1, <1>2 DEF Clamped, Total
<1>4. [grid EXCEPT !.sel = i] = [grid EXCEPT !.sel = i, !.scroll = grid.scroll]
  BY <1>1 DEF Shape
<1>5. Shows([grid EXCEPT !.sel = i, !.scroll = grid.scroll])
  BY <1>2, <1>4 DEF MoveSelection
<1> QED BY <1>1, <1>3, <1>5, MoveKeeps DEF MoveSelection

\* Nor does scrolling the window.
LEMMA ScrollWindowKeeps ==
  ASSUME IInv, NEW delta \in Steps, ScrollWindow(delta)
  PROVE  IInv'
<1>1. /\ grid \in Shape /\ Len(grid.rows) \in Nat /\ delta \in Int /\ PageSize \in Nat
      /\ grid.sel \in Int /\ grid.scroll \in Int
  BY Taken, RowsBounded, GridAssumption DEF Whole, Shape, Steps
<1>2. PICK k : k = ClampedScroll(grid.scroll + delta, Total(grid))
  OBVIOUS
<1>3. PICK i : i = Clamped(grid.sel, k, Clamped(k + PageSize - 1, 1, Total(grid)))
  OBVIOUS
<1>4. k \in Int
  BY <1>1, <1>2 DEF ClampedScroll, Clamped, Total
<1>5. i \in Int
  BY <1>1, <1>3, <1>4 DEF Clamped, Total
<1>6. Shows([grid EXCEPT !.scroll = k, !.sel = i])
  BY <1>2, <1>3 DEF ScrollWindow
<1>7. [grid EXCEPT !.scroll = k, !.sel = i] = [grid EXCEPT !.sel = i, !.scroll = k]
  BY <1>1 DEF Shape
<1> QED BY <1>4, <1>5, <1>6, <1>7, MoveKeeps DEF ScrollWindow

\* What a query shows are rows of the table, each once.
LEMMA QueryKeeps == ASSUME IInv, Query PROVE IInv'
<1>0. PICK n \in 0..Cardinality(Existing) : \E list \in [1..n -> Existing] :
        /\ IsInjective(list)
        /\ Shows([NoGrid EXCEPT !.has = TRUE, !.editable = TRUE,
                               !.rows = [i \in 1..n |-> [of |-> list[i], text |-> table[list[i]]]],
                               !.originals = [i \in 1..n |-> table[list[i]]]])
        /\ readFrom' = [r \in Rowid |-> IF r \in Range(list) THEN {table[r]} ELSE {}]
  BY DEF Query
<1>1. PICK list \in [1..n -> Existing] :
        /\ IsInjective(list)
        /\ Shows([NoGrid EXCEPT !.has = TRUE, !.editable = TRUE,
                               !.rows = [i \in 1..n |-> [of |-> list[i], text |-> table[list[i]]]],
                               !.originals = [i \in 1..n |-> table[list[i]]]])
        /\ readFrom' = [r \in Rowid |-> IF r \in Range(list) THEN {table[r]} ELSE {}]
  BY <1>0
<1>2. n \in Nat
  BY <1>0, FS_Subset, GridAssumption, FS_CardinalityType DEF Existing
<1>3. /\ Rest /\ op \in Edit /\ NewRow /\ AnswerKnown /\ DraftSentOnce
      /\ \A r \in Existing : r \in Rowid /\ table[r] \in Value
  BY Taken DEF Rest, Existing, Cell
<1>4. PICK rows : rows = [i \in 1..n |-> [of |-> list[i], text |-> table[list[i]]]]
  OBVIOUS
<1>5. PICK originals : originals = [i \in 1..n |-> table[list[i]]]
  OBVIOUS
<1>6. PICK g : g = [NoGrid EXCEPT !.has = TRUE, !.editable = TRUE, !.rows = rows,
                                  !.originals = originals]
  OBVIOUS
<1>7. rows \in Seq(Row) /\ Len(rows) = n
  <2>1. rows \in [1..n -> Row]
    BY <1>3, <1>4 DEF Row, Cell
  <2> QED BY <1>2, <2>1, SeqLength
<1>8. originals \in Seq(Cell) /\ Len(originals) = n
  <2>1. originals \in [1..n -> Cell]
    BY <1>3, <1>5 DEF Cell
  <2> QED BY <1>2, <2>1, SeqLength
<1>9. /\ g.has /\ ~g.draft /\ g.rows = rows /\ g.originals = originals
      /\ g \in Shape
  <2>1. g = [has |-> TRUE, editable |-> TRUE, draft |-> FALSE, rows |-> rows,
             originals |-> originals, sel |-> 1, scroll |-> 1]
    BY <1>6 DEF NoGrid
  <2>2. g.has /\ ~g.draft /\ g.rows = rows /\ g.originals = originals
    BY <2>1
  <2> QED BY <1>7, <1>8, <2>1, <2>2 DEF Shape
<1>10. \A i \in 1..n : rows[i].of = list[i] /\ list[i] \in Rowid
  BY <1>3, <1>4
<1>11. \A i, j \in 1..n : i # j => list[i] # list[j]
  BY <1>1 DEF IsInjective
<1>12. Whole(g) /\ ~ActiveDraft(g)
  BY <1>7, <1>8, <1>9, <1>10, <1>11, GridAssumption DEF Whole, ActiveDraft
<1>13. Shows(g)
  BY <1>1, <1>4, <1>5, <1>6
<1>14. Whole(grid') /\ Framed(grid') /\ ~ActiveDraft(grid')
  BY <1>12, <1>13, FrameKeeps, SameShown
<1>15. op' = op /\ inserted' = 0 /\ op.kind = "none"
  BY DEF Query, Busy
<1>16. Rest'
  <2>1. readFrom' \in [Rowid -> SUBSET Value]
    BY <1>1, <1>3 DEF Range
  <2> QED BY <1>3, <1>15, <2>1 DEF Rest, Query, session, Cell
<1>17. op' \in Edit /\ NewRow' /\ AnswerKnown' /\ DraftSentOnce'
  BY <1>3, <1>15 DEF NewRow, AnswerKnown, DraftSentOnce, Running
<1> QED BY <1>14, <1>16, <1>17, Regained

\* A reconnect leaves no result.
LEMMA ReconnectKeeps == ASSUME IInv, Reconnect PROVE IInv'
<1>1. grid' = NoGrid /\ op' = op /\ inserted' = inserted
  BY DEF Reconnect
<1>2. Rest'
  BY Taken DEF Rest, Reconnect, Cell
<1> QED BY <1>1, <1>2, Nothing, SameEdit

\* Esc takes the row of the draft with it.
LEMMA CancelDraftKeeps == ASSUME IInv, CancelDraft PROVE IInv'
<1>1. PICK g : g = WithoutDraft(grid)
  OBVIOUS
<1>2. /\ Whole(g) /\ ~ActiveDraft(g)
      /\ \A row : NotShown(grid, row) => NotShown(g, row)
  BY <1>1, Taken, WithoutDraftKeeps
<1>3. Whole(grid') /\ Framed(grid') /\ Same(grid', g)
  BY <1>1, <1>2, FrameKeeps DEF CancelDraft
<1>4. Rest'
  BY Taken DEF Rest, CancelDraft, UiOnly, session, Cell
<1>5. op' = op /\ inserted' = inserted
  BY DEF CancelDraft, UiOnly
<1> QED BY <1>2, <1>3, <1>4, <1>5, SameShown, SameEdit

\* The text of the draft is all that editing it changes.
LEMMA EditDraftKeeps == ASSUME IInv, NEW v \in Value, EditDraft(v) PROVE IInv'
<1>1. PICK g : g = [grid EXCEPT !.rows[1].text = v]
  OBVIOUS
<1>2. /\ grid \in Shape /\ grid.rows \in Seq(Row) /\ Whole(grid) /\ 1 \in 1..Len(grid.rows)
  BY Taken, EmptySeq DEF Whole, Shape, EditDraft, SelectedDraft, ActiveDraft
<1>3. grid.rows[1] \in Row
  BY <1>2, ElementOfSeq
<1>4. PICK top : top = [grid.rows[1] EXCEPT !.text = v]
  OBVIOUS
<1>5. top \in Row /\ top.of = grid.rows[1].of
  BY <1>3, <1>4 DEF Row, Cell
<1>6. PICK rows : rows = [grid.rows EXCEPT ![1] = top]
  OBVIOUS
<1>7. /\ rows \in Seq(Row) /\ Len(rows) = Len(grid.rows)
      /\ \A i \in 1..Len(grid.rows) : rows[i] = IF i = 1 THEN top ELSE grid.rows[i]
  BY <1>2, <1>5, <1>6, ExceptSeq
<1>8. g = [grid EXCEPT !.rows = rows]
  BY <1>1, <1>2, <1>4, <1>6 DEF Shape
<1>9. /\ g \in Shape /\ g.rows = rows /\ g.originals = grid.originals /\ g.draft = grid.draft
      /\ g.has = grid.has
  BY <1>2, <1>7, <1>8 DEF Shape
<1>10. \A i \in 1..Len(grid.rows) : g.rows[i].of = grid.rows[i].of
  BY <1>5, <1>7, <1>9
<1>11. Whole(g)
  BY <1>2, <1>7, <1>9, <1>10, SameRows
<1>12. /\ \A row : NotShown(grid, row) => NotShown(g, row)
       /\ ActiveDraft(g) => ActiveDraft(grid)
  BY <1>2, <1>7, <1>9, <1>10 DEF NotShown, ActiveDraft, EditDraft, SelectedDraft
<1>13. Whole(grid') /\ Framed(grid') /\ Same(grid', g)
  BY <1>1, <1>11, FrameKeeps DEF EditDraft
<1>14. Rest' /\ op' = op /\ inserted' = inserted
  BY Taken DEF Rest, EditDraft, UiOnly, session, Cell
<1> QED BY <1>12, <1>13, <1>14, SameShown, SameEdit

\* Help drops the result; an edit that runs will find its row gone.
LEMMA HelpKeeps == ASSUME IInv, Help PROVE IInv'
<1>1. /\ grid' = NoGrid /\ op' = [op EXCEPT !.current = FALSE]
      /\ UNCHANGED <<table, conn, ui, inserted, readFrom>>
  BY DEF Help, UiOnly, session
<1>2. op \in Edit /\ Rest /\ AnswerKnown /\ DraftSentOnce
  BY Taken
<1>3. /\ op' \in Edit /\ op'.kind = op.kind /\ op'.reply = op.reply /\ op'.row = op.row
      /\ op'.got = op.got
  BY <1>1, <1>2 DEF Edit
<1>4. Rest' /\ NewRow' /\ AnswerKnown' /\ DraftSentOnce'
  BY <1>1, <1>2, <1>3, Nothing DEF Rest, Cell, NewRow, AnswerKnown, DraftSentOnce, Running
<1> QED BY <1>1, <1>3, <1>4, Nothing, Regained

\* An edit starts or is interrupted: the grid stays as it is.
LEMMA EditBegins ==
  ASSUME IInv, grid' = grid, UiOnly, op' \in Edit, op'.reply = "pending",
         op'.kind = "insert-row" => inserted = 0 /\ op'.current,
         inserted = 0 \/ ~ActiveDraft(grid)
  PROVE  IInv'
<1>1. Whole(grid') /\ Framed(grid') /\ Rest
  BY Taken
<1>2. Rest' /\ NewRow' /\ AnswerKnown' /\ DraftSentOnce'
  BY <1>1 DEF UiOnly, session, Rest, Cell, NewRow, AnswerKnown, DraftSentOnce, Running
<1> QED BY <1>1, <1>2, Regained

\* A draft that is still there has not been inserted yet when it is sent.
LEMMA CommitDraftKeeps == ASSUME IInv, CommitDraft PROVE IInv'
<1>1. op.kind = "none" /\ ActiveDraft(grid) /\ DraftSentOnce /\ inserted \in {0, 1}
  BY Taken DEF CommitDraft, Busy, Rest
<1>2. inserted = 0
  BY <1>1 DEF DraftSentOnce
<1>3. op' \in Edit /\ op'.reply = "pending" /\ op'.current
  BY Nothing DEF CommitDraft, Edit, Idle
<1> QED BY <1>2, <1>3, EditBegins DEF CommitDraft

\* The edit of a cell starts on a row of the grid.
LEMMA EditCellKeeps == ASSUME IInv, EditCell PROVE IInv'
<1>1. /\ Whole(grid) /\ Framed(grid) /\ DraftSentOnce /\ inserted \in {0, 1}
      /\ op.kind = "none" /\ grid.rows # <<>>
      /\ grid.rows \in Seq(Row) /\ grid.originals \in Seq(Cell)
  BY Taken DEF EditCell, Busy, Rest, Whole, Shape
<1>2. /\ Len(grid.rows) \in Nat \ {0} /\ MaxRows \in Nat \ {0} /\ Len(grid.rows) <= MaxRows
  BY <1>1, EmptySeq, RowsBounded
<1>3. grid.sel \in 1..Len(grid.rows) /\ grid.sel \in 1..MaxRows
  BY <1>1, <1>2 DEF Framed, Clamped
<1>4. grid.rows[grid.sel] \in Row /\ grid.originals[grid.sel] \in Cell
  BY <1>1, <1>3, ElementOfSeq DEF Whole
<1>5. inserted = 0 \/ ~ActiveDraft(grid)
  BY <1>1 DEF DraftSentOnce
<1>6. PICK of, orig : of = grid.rows[grid.sel].of /\ orig = grid.originals[grid.sel]
  OBVIOUS
<1>7. of \in Rowid \cup {Draft} /\ orig \in Cell
  BY <1>4, <1>6 DEF Row
<1>8. op' = [Idle EXCEPT !.kind = "update-cell", !.current = TRUE, !.index = grid.sel,
                         !.of = of, !.orig = orig]
  BY <1>6 DEF EditCell
<1>9. op' \in Edit /\ op'.reply = "pending" /\ op'.kind = "update-cell"
  BY <1>3, <1>7, <1>8, Nothing DEF Edit, Idle
<1> QED BY <1>5, <1>9, EditBegins DEF EditCell

\* An interrupt is remembered with the edit.
LEMMA InterruptIsKept == ASSUME IInv, Interrupt PROVE IInv'
<1>1. op \in Edit /\ Rest /\ NewRow /\ AnswerKnown /\ DraftSentOnce /\ Whole(grid) /\ Framed(grid)
  BY Taken
<1>2. /\ op' = [op EXCEPT !.cancel = TRUE] /\ grid' = grid
      /\ UNCHANGED <<table, conn, ui, inserted, readFrom>>
  BY DEF Interrupt, UiOnly, session
<1>3. /\ op' \in Edit /\ op'.kind = op.kind /\ op'.reply = op.reply /\ op'.row = op.row
      /\ op'.got = op.got /\ op'.current = op.current /\ op'.up = op.up /\ op'.cancel
  BY <1>1, <1>2 DEF Edit
<1>4. Rest' /\ NewRow' /\ AnswerKnown'
  BY <1>1, <1>2, <1>3 DEF Rest, Cell, NewRow, AnswerKnown
<1>5. DraftSentOnce'
  BY <1>1, <1>2, <1>3 DEF DraftSentOnce, Running, WasLost, Interrupted
<1> QED BY <1>1, <1>2, <1>3, <1>4, <1>5, Regained

\* A draft is put on top of rows that are none.
LEMMA StartDraftKeeps == ASSUME IInv, StartDraft PROVE IInv'
<1>1. /\ grid \in Shape /\ Whole(grid) /\ op.kind = "none" /\ op' = op /\ grid.has
      /\ Rest /\ op \in Edit /\ NewRow /\ AnswerKnown /\ DraftSentOnce
      /\ UNCHANGED <<table, conn, ui, readFrom>>
  BY Taken DEF Whole, StartDraft, Busy, session
<1>2. CASE ActiveDraft(grid)
  <2>1. Shows([grid EXCEPT !.sel = 1, !.scroll = 1])
    BY <1>2 DEF StartDraft
  <2>2. UiOnly
    BY <1>2 DEF StartDraft, UiOnly, session
  <2>3. 1 \in Int /\ UNCHANGED op
    BY <1>1
  <2> QED BY <2>1, <2>2, <2>3, MoveKeeps
<1>3. CASE ~ActiveDraft(grid)
  <2>1. PICK draft : draft = [of |-> Draft, text |-> None]
    OBVIOUS
  <2>2. PICK rows : rows = <<draft>> \o grid.rows
    OBVIOUS
  <2>3. PICK originals : originals = <<None>> \o grid.originals
    OBVIOUS
  <2>4. PICK g : g = [grid EXCEPT !.rows = rows, !.originals = originals,
                                  !.draft = TRUE, !.sel = 1, !.scroll = 1]
    OBVIOUS
  <2>5. Shows(g) /\ inserted' = 0
    BY <1>1, <1>3, <2>1, <2>2, <2>3, <2>4 DEF StartDraft, Shape
  <2>6. /\ grid.rows \in Seq(Row) /\ grid.originals \in Seq(Cell)
        /\ Len(grid.rows) \in Nat /\ Len(grid.originals) = Len(grid.rows)
        /\ draft \in Row /\ draft.of = Draft /\ None \in Cell
    BY <1>1, <2>1, LenProperties DEF Whole, Shape, Row, Cell
  <2>7. /\ <<draft>> \in Seq(Row) /\ Len(<<draft>>) = 1 /\ <<draft>>[1] = draft
        /\ <<None>> \in Seq(Cell) /\ Len(<<None>>) = 1
    BY <2>6
  <2>8. /\ rows \in Seq(Row) /\ Len(rows) = 1 + Len(grid.rows)
        /\ \A i \in 1..(1 + Len(grid.rows)) :
             rows[i] = IF i <= 1 THEN <<draft>>[i] ELSE grid.rows[i - 1]
    <3>1. /\ rows \in Seq(Row) /\ Len(rows) = Len(<<draft>>) + Len(grid.rows)
          /\ \A i \in 1..(Len(<<draft>>) + Len(grid.rows)) :
               rows[i] = IF i <= Len(<<draft>>) THEN <<draft>>[i]
                         ELSE grid.rows[i - Len(<<draft>>)]
      BY <2>2, <2>6, <2>7, ConcatProperties
    <3> QED BY <2>7, <3>1
  <2>9. originals \in Seq(Cell) /\ Len(originals) = 1 + Len(grid.originals)
    BY <2>3, <2>6, <2>7, ConcatProperties
  <2>10. rows[1] = draft /\ \A i \in 2..(1 + Len(grid.rows)) : /\ i - 1 \in 1..Len(grid.rows)
                                                              /\ rows[i] = grid.rows[i - 1]
    BY <2>6, <2>7, <2>8
  <2>11. \A i \in 1..Len(grid.rows) : grid.rows[i].of # Draft
    <3> SUFFICES ASSUME NEW i \in 1..Len(grid.rows), grid.rows[i].of = Draft
                 PROVE  ActiveDraft(grid)
      BY <1>3
    <3>1. i = 1 /\ grid.draft
      BY <1>1 DEF Whole
    <3>2. grid.rows # <<>>
      BY <2>6, EmptySeq
    <3> QED BY <3>1, <3>2 DEF ActiveDraft
  <2>12. g = [has |-> TRUE, editable |-> grid.editable, draft |-> TRUE, rows |-> rows,
              originals |-> originals, sel |-> 1, scroll |-> 1]
    BY <1>1, <2>4 DEF Shape
  <2>13. g \in Shape /\ g.rows = rows /\ g.originals = originals /\ g.draft /\ g.has
    BY <1>1, <2>8, <2>9, <2>12 DEF Shape
  <2>14. ASSUME NEW i \in 1..Len(rows), i # 1 PROVE rows[i].of # Draft
    <3>1. i \in 2..(1 + Len(grid.rows))
      BY <2>6, <2>8, <2>14
    <3> QED BY <2>10, <2>11, <3>1
  <2>15. ASSUME NEW i \in 1..Len(rows), NEW j \in 1..Len(rows), i # j
         PROVE  rows[i].of # rows[j].of
    <3>1. i \in Nat /\ j \in Nat /\ Len(rows) = 1 + Len(grid.rows) /\ Len(grid.rows) \in Nat
      BY <2>6, <2>8
    <3>2. CASE i = 1 \/ j = 1
      BY <2>6, <2>10, <2>14, <2>15, <3>2
    <3>3. CASE i # 1 /\ j # 1
      <4>1. i \in 2..(1 + Len(grid.rows)) /\ j \in 2..(1 + Len(grid.rows)) /\ i - 1 # j - 1
        BY <2>15, <3>1, <3>3
      <4>2. /\ rows[i] = grid.rows[i - 1] /\ rows[j] = grid.rows[j - 1]
            /\ i - 1 \in 1..Len(grid.rows) /\ j - 1 \in 1..Len(grid.rows)
        BY <2>10, <4>1
      <4>3. grid.rows[i - 1].of # grid.rows[j - 1].of
        BY <1>1, <4>1, <4>2 DEF Whole
      <4> QED BY <4>2, <4>3
    <3> QED BY <3>2, <3>3
  <2>16. Whole(g)
    BY <2>6, <2>8, <2>9, <2>13, <2>14, <2>15 DEF Whole
  <2>17. Whole(grid') /\ Framed(grid')
    BY <2>5, <2>16, FrameKeeps
  <2>18. Rest' /\ NewRow' /\ AnswerKnown' /\ DraftSentOnce'
    BY <1>1, <2>5 DEF Rest, Cell, NewRow, AnswerKnown, DraftSentOnce, Running
  <2> QED BY <1>1, <2>17, <2>18, Regained
<1> QED BY <1>2, <1>3

-----------------------------------------------------------------------------
(* The worker and the database.                                            *)

\* A step of the database: the grid stays as it is.
LEMMA GridStays ==
  ASSUME IInv, grid' = grid, op' \in Edit, Rest', op'.kind = op.kind, op'.current = op.current,
         op'.reply = "ok" => /\ op'.row \in Rowid /\ op'.got \in Value
                             /\ op.kind = "insert-row" => NotShown(grid, op'.row),
         Running("insert-row")' => inserted' = 0,
         \/ inserted' = 0 \/ ~ActiveDraft(grid)
         \/ op.kind = "insert-row" /\ (op'.reply = "ok" \/ ~op'.up \/ op'.cancel)
  PROVE  IInv'
<1>1. Whole(grid') /\ Framed(grid') /\ DraftSentOnce
  BY Taken
<1>2. NewRow' /\ AnswerKnown'
  BY DEF NewRow, AnswerKnown
<1>3. DraftSentOnce'
  BY <1>1 DEF DraftSentOnce, Running, WasLost, Interrupted, ActiveDraft
<1> QED BY <1>1, <1>2, <1>3, Regained

\* An answer changes the edit under way, as far as its reply goes.
LEMMA ReplyFields ==
  ASSUME op \in Edit, NEW reply \in {"ok"} \cup Failures, NEW row \in Rowid \cup {None},
         NEW v \in Cell, Reply([op EXCEPT !.reply = reply, !.row = row, !.got = v])
  PROVE  /\ op' \in Edit /\ op'.kind = op.kind /\ op'.current = op.current
         /\ op'.reply = reply /\ op'.row = row /\ op'.got = v /\ op'.cancel = op.cancel
         /\ op'.up = (conn' = "open")
<1>1. PICK up : up = (conn' = "open")
  OBVIOUS
<1>2. up \in BOOLEAN
  BY <1>1
<1>3. PICK o : o = [op EXCEPT !.reply = reply, !.row = row, !.got = v]
  OBVIOUS
<1>4. o = [kind |-> op.kind, index |-> op.index, of |-> op.of, orig |-> op.orig,
           current |-> op.current, cancel |-> op.cancel, reply |-> reply, row |-> row,
           got |-> v, up |-> op.up]
  BY <1>3 DEF Edit
<1>5. op' = [o EXCEPT !.up = up]
  BY <1>1, <1>3 DEF Reply
<1>6. op' = [kind |-> op.kind, index |-> op.index, of |-> op.of, orig |-> op.orig,
             current |-> op.current, cancel |-> op.cancel, reply |-> reply, row |-> row,
             got |-> v, up |-> up]
  BY <1>4, <1>5
<1>7. op' \in Edit
  BY <1>2, <1>6 DEF Edit
<1> QED BY <1>1, <1>6, <1>7, Zenon

\* A failure changes the reply only.
LEMMA FailedFields ==
  ASSUME op \in Edit, NEW reply \in Failures, Reply([op EXCEPT !.reply = reply])
  PROVE  /\ op' \in Edit /\ op'.kind = op.kind /\ op'.current = op.current
         /\ op'.reply = reply /\ op'.cancel = op.cancel
         /\ op'.up = (conn' = "open") /\ reply # "ok" /\ reply # "pending"
<1>1. PICK row, v : row = op.row /\ v = op.got
  OBVIOUS
<1>2. row \in Rowid \cup {None} /\ v \in Cell
  BY <1>1 DEF Edit
<1>3. [op EXCEPT !.reply = reply] = [op EXCEPT !.reply = reply, !.row = row, !.got = v]
  BY <1>1 DEF Edit
<1>4. Reply([op EXCEPT !.reply = reply, !.row = row, !.got = v])
  BY <1>3
<1>5. reply \in {"ok"} \cup Failures /\ reply # "ok" /\ reply # "pending"
  BY DEF Failures
<1>6. /\ op' \in Edit /\ op'.kind = op.kind /\ op'.current = op.current
      /\ op'.reply = reply /\ op'.cancel = op.cancel /\ op'.up = (conn' = "open")
  BY <1>2, <1>4, <1>5, ReplyFields
<1> QED BY <1>5, <1>6

\* An edit that took effect is answered, or its session is gone, or it was
\* interrupted: the callback learns enough either way.
LEMMA AnsweredFields ==
  ASSUME op \in Edit, NEW row \in Rowid, NEW v \in Value, Answered(row, v)
  PROVE  /\ op' \in Edit /\ op'.kind = op.kind /\ op'.current = op.current
         /\ op'.reply # "pending" /\ (op'.reply = "ok" \/ ~op'.up \/ op'.cancel)
         /\ op'.reply = "ok" => op'.row = row /\ op'.got = v
         /\ conn' \in {"open", "dead"} /\ UNCHANGED <<ui, grid, readFrom>>
<1>1. CASE Reply([op EXCEPT !.reply = "ok", !.row = row, !.got = v])
  <2>1. "ok" \in {"ok"} \cup Failures /\ row \in Rowid \cup {None} /\ v \in Cell
    BY DEF Cell
  <2>2. /\ op' \in Edit /\ op'.kind = op.kind /\ op'.current = op.current
        /\ op'.reply = "ok" /\ op'.row = row /\ op'.got = v
    BY <1>1, <2>1, ReplyFields
  <2> QED BY <1>1, <2>2 DEF Answered, Reply
<1>2. CASE conn' = "dead" /\ Reply([op EXCEPT !.reply = "error"])
  <2>1. "error" \in Failures
    BY DEF Failures
  <2>2. /\ op' \in Edit /\ op'.kind = op.kind /\ op'.current = op.current
        /\ op'.reply = "error" /\ op'.up = (conn' = "open")
    BY <1>2, <2>1, FailedFields
  <2>3. ~op'.up
    BY <1>2, <2>2
  <2> QED BY <1>2, <2>2, <2>3 DEF Answered, Reply
<1>3. CASE op.cancel /\ Reply([op EXCEPT !.reply = "interrupted"])
  <2>1. "interrupted" \in Failures
    BY DEF Failures
  <2>2. /\ op' \in Edit /\ op'.kind = op.kind /\ op'.current = op.current
        /\ op'.reply = "interrupted" /\ op'.cancel = op.cancel
    BY <1>3, <2>1, FailedFields
  <2> QED BY <1>3, <2>2 DEF Answered, Reply
<1> QED BY <1>1, <1>2, <1>3 DEF Answered

\* A call without effect is told of.
LEMMA NoEffectKeeps ==
  ASSUME IInv, op.reply = "pending", op.kind # "none", NoEffect
  PROVE  IInv'
<1>1. PICK reply \in Failures : Reply([op EXCEPT !.reply = reply])
  BY DEF NoEffect
<1>2. op \in Edit /\ Rest /\ DraftSentOnce
  BY Taken
<1>3. /\ op' \in Edit /\ op'.kind = op.kind /\ op'.current = op.current
      /\ op'.reply # "ok" /\ op'.reply # "pending"
  BY <1>1, <1>2, FailedFields
<1>4. Rest' /\ grid' = grid /\ inserted' = inserted
  BY <1>1, <1>2 DEF NoEffect, Reply, Rest, Cell
<1>5. inserted = 0 \/ ~ActiveDraft(grid)
  BY <1>2 DEF DraftSentOnce, Running, Rest
<1> QED BY <1>3, <1>4, <1>5, GridStays DEF Running

\* Updating a cell inserts nothing.
LEMMA UpdateRunsKeeps == ASSUME IInv, UpdateRuns PROVE IInv'
<1>1. op \in Edit /\ Rest /\ DraftSentOnce /\ op.kind = "update-cell" /\ op.reply = "pending"
  BY Taken DEF UpdateRuns, Running
<1>2. CASE NoEffect
  BY <1>1, <1>2, NoEffectKeeps
<1>3. CASE ~NoEffect
  <2>1. /\ op.of \in Existing /\ inserted' = inserted
        /\ \E v \in Value : table' = [table EXCEPT ![op.of] = v] /\ Answered(op.of, v)
    BY <1>3 DEF UpdateRuns
  <2>2. PICK v \in Value : table' = [table EXCEPT ![op.of] = v] /\ Answered(op.of, v)
    BY <2>1
  <2>3. op.of \in Rowid
    BY <2>1 DEF Existing
  <2>4. /\ op' \in Edit /\ op'.kind = op.kind /\ op'.current = op.current
        /\ op'.reply # "pending"
        /\ op'.reply = "ok" => op'.row = op.of /\ op'.got = v
        /\ conn' \in {"open", "dead"} /\ UNCHANGED <<ui, grid, readFrom>>
    BY <1>1, <2>2, <2>3, AnsweredFields
  <2>5. Rest'
    BY <1>1, <2>1, <2>2, <2>4 DEF Rest, Cell
  <2>6. inserted = 0 \/ ~ActiveDraft(grid)
    BY <1>1 DEF DraftSentOnce, Rest
  <2> QED BY <1>1, <2>1, <2>3, <2>4, <2>5, <2>6, GridStays DEF Running
<1> QED BY <1>2, <1>3

\* A draft is inserted for the first time, at a place that is not shown.
LEMMA InsertRunsKeeps == ASSUME IInv, InsertRuns PROVE IInv'
<1>1. /\ op \in Edit /\ Rest /\ DraftSentOnce /\ op.kind = "insert-row" /\ op.reply = "pending"
  BY Taken DEF InsertRuns, Running
<1>2. CASE NoEffect
  BY <1>1, <1>2, NoEffectKeeps
<1>3. CASE ~NoEffect
  <2>1. inserted' = inserted + 1 /\ inserted = 0
    BY <1>1, <1>3 DEF InsertRuns, DraftSentOnce, Running
  <2>2. PICK r \in Free, v \in Value : table' = [table EXCEPT ![r] = v] /\ Answered(r, v)
    BY <1>3 DEF InsertRuns
  <2>3. r \in Rowid /\ NotShown(grid, r)
    BY <2>2 DEF Free, NotShown
  <2>4. /\ op' \in Edit /\ op'.kind = op.kind /\ op'.current = op.current
        /\ op'.reply # "pending" /\ (op'.reply = "ok" \/ ~op'.up \/ op'.cancel)
        /\ op'.reply = "ok" => op'.row = r /\ op'.got = v
        /\ conn' \in {"open", "dead"} /\ UNCHANGED <<ui, grid, readFrom>>
    BY <1>1, <2>2, <2>3, AnsweredFields
  <2>5. Rest'
    <3>1. table' \in [Rowid -> Cell]
      BY <1>1, <2>2 DEF Rest, Cell
    <3>2. inserted' \in {0, 1}
      BY <2>1
    <3> QED BY <1>1, <2>4, <3>1, <3>2 DEF Rest, Cell
  <2> QED BY <1>1, <2>1, <2>3, <2>4, <2>5, GridStays DEF Running
<1> QED BY <1>2, <1>3

\* Other sessions, and the end of this one, leave grid and edit alone.
LEMMA SessionKeeps == ASSUME IInv, TableChanges \/ SessionDies PROVE IInv'
<1>1. Rest /\ Whole(grid) /\ Framed(grid)
  BY Taken
<1>2. Rest'
  <2>1. CASE TableChanges
    <3>1. PICK r \in Existing \cup Free, v \in Cell : table' = [table EXCEPT ![r] = v]
      BY <2>1 DEF TableChanges
    <3> QED BY <1>1, <2>1, <3>1 DEF Rest, TableChanges
  <2>2. CASE SessionDies
    BY <1>1, <2>2 DEF Rest, SessionDies, Cell
  <2> QED BY <2>1, <2>2
<1>3. op' = op /\ inserted' = inserted /\ grid' = grid
  BY DEF TableChanges, SessionDies
<1> QED BY <1>1, <1>2, <1>3, SameEdit

-----------------------------------------------------------------------------
(* Completions.                                                            *)

\* What the callback finds is the grid, or what is left of it; a lost session
\* or an interrupt leaves no draft.
LEMMA ToldKeeps ==
  ASSUME NEW g, Whole(g), NEW h, h = Told(g)
  PROVE  /\ Whole(h)
         /\ \A row : NotShown(g, row) => NotShown(h, row)
         /\ ActiveDraft(h) => h = g /\ ~WasLost /\ ~Interrupted
<1>1. CASE WasLost \/ Interrupted
  <2>1. h = Detached(g)
    BY <1>1 DEF Told
  <2> QED BY <2>1, DetachedKeeps
<1>2. CASE ~WasLost /\ ~Interrupted
  BY <1>2 DEF Told
<1> QED BY <1>1, <1>2

\* The value written is shown in the row of that number, whichever it is now.
LEMMA UpdatedKeeps ==
  ASSUME NEW g, Whole(g), op \in Edit, op.got \in Value, NEW h, h = Updated(g)
  PROVE  /\ Whole(h)
         /\ ActiveDraft(h) => ActiveDraft(g)
<1>1. CASE op.current /\ op.index <= Total(g)
  <2>1. /\ g \in Shape /\ g.rows \in Seq(Row) /\ g.originals \in Seq(Cell)
        /\ Len(g.rows) = Len(g.originals)
        /\ Len(g.rows) \in Nat /\ MaxRows \in Nat /\ op.index \in 1..MaxRows /\ op.got \in Cell
    BY RowsBounded DEF Whole, Shape, Edit, Cell
  <2>2. PICK n : n = op.index
    OBVIOUS
  <2>3. n \in 1..Len(g.rows) /\ n \in 1..Len(g.originals)
    BY <1>1, <2>1, <2>2 DEF Total
  <2>4. PICK shown : shown = [g.rows[n] EXCEPT !.text = op.got]
    OBVIOUS
  <2>5. shown \in Row /\ shown.of = g.rows[n].of
    <3>1. g.rows[n] \in Row
      BY <2>1, <2>3, ElementOfSeq
    <3> QED BY <2>1, <2>4, <3>1 DEF Row
  <2>6. PICK rows : rows = [g.rows EXCEPT ![n] = shown]
    OBVIOUS
  <2>7. PICK originals : originals = [g.originals EXCEPT ![n] = op.got]
    OBVIOUS
  <2>8. h = [g EXCEPT !.rows = rows, !.originals = originals]
    BY <1>1, <2>1, <2>2, <2>4, <2>6, <2>7 DEF Updated, Shape
  <2>9. /\ rows \in Seq(Row) /\ Len(rows) = Len(g.rows)
        /\ \A i \in 1..Len(g.rows) : rows[i] = IF i = n THEN shown ELSE g.rows[i]
    BY <2>1, <2>3, <2>5, <2>6, ExceptSeq
  <2>10. originals \in Seq(Cell) /\ Len(originals) = Len(g.originals)
    BY <2>1, <2>3, <2>7, ExceptSeq
  <2>11. h = [has |-> g.has, editable |-> g.editable, draft |-> g.draft, rows |-> rows,
              originals |-> originals, sel |-> g.sel, scroll |-> g.scroll]
    BY <2>1, <2>8 DEF Shape
  <2>12. /\ h \in Shape /\ h.rows = rows /\ h.originals = originals
         /\ h.draft = g.draft /\ h.has = g.has
    BY <2>1, <2>9, <2>10, <2>11 DEF Shape
  <2>13. \A i \in 1..Len(g.rows) : h.rows[i].of = g.rows[i].of
    BY <2>5, <2>9, <2>12
  <2>14. Whole(h)
    BY <2>9, <2>10, <2>12, <2>13, SameRows
  <2>15. ASSUME ActiveDraft(h) PROVE ActiveDraft(g)
    <3>1. g.rows # <<>> /\ 1 \in 1..Len(g.rows)
      BY <2>1, <2>3, EmptySeq
    <3> QED BY <2>12, <2>13, <2>15, <3>1 DEF ActiveDraft
  <2> QED BY <2>14, <2>15
<1>2. CASE ~(op.current /\ op.index <= Total(g))
  BY <1>2 DEF Updated
<1> QED BY <1>1, <1>2

\* The draft becomes the row that was inserted.
LEMMA InsertedKeeps ==
  ASSUME NEW g, Whole(g), ActiveDraft(g), op.row \in Rowid, op.got \in Value,
         NotShown(g, op.row), NEW h, h = Inserted(g)
  PROVE  Whole(h) /\ ~ActiveDraft(h)
<1>1. /\ g \in Shape /\ g.rows \in Seq(Row) /\ g.originals \in Seq(Cell)
      /\ Len(g.rows) = Len(g.originals) /\ g.rows # <<>> /\ op.got \in Cell
  BY DEF Whole, Shape, ActiveDraft, Cell
<1>2. Len(g.rows) \in Nat \ {0} /\ 1 \in 1..Len(g.rows) /\ 1 \in 1..Len(g.originals)
  BY <1>1, EmptySeq
<1>3. PICK top : top = [of |-> op.row, text |-> op.got]
  OBVIOUS
<1>4. top \in Row /\ top.of = op.row /\ op.row # Draft
  BY <1>1, <1>3, GridAssumption DEF Row
<1>5. PICK rows : rows = [g.rows EXCEPT ![1] = top]
  OBVIOUS
<1>6. PICK originals : originals = [g.originals EXCEPT ![1] = op.got]
  OBVIOUS
<1>7. h = [g EXCEPT !.rows = rows, !.originals = originals, !.draft = FALSE]
  BY <1>1, <1>3, <1>5, <1>6 DEF Inserted, Shape
<1>8. /\ rows \in Seq(Row) /\ Len(rows) = Len(g.rows)
      /\ \A i \in 1..Len(g.rows) : rows[i] = IF i = 1 THEN top ELSE g.rows[i]
  BY <1>1, <1>2, <1>4, <1>5, ExceptSeq
<1>9. originals \in Seq(Cell) /\ Len(originals) = Len(g.originals)
  BY <1>1, <1>2, <1>6, ExceptSeq
<1>10. h = [has |-> g.has, editable |-> g.editable, draft |-> FALSE, rows |-> rows,
            originals |-> originals, sel |-> g.sel, scroll |-> g.scroll]
  BY <1>1, <1>7 DEF Shape
<1>11. h \in Shape /\ h.rows = rows /\ h.originals = originals /\ ~h.draft /\ h.has = g.has
  BY <1>1, <1>8, <1>9, <1>10 DEF Shape
<1>12. g.has
  BY <1>1 DEF Whole
<1>13. \A i \in 1..Len(g.rows) : rows[i].of = IF i = 1 THEN op.row ELSE g.rows[i].of
  BY <1>4, <1>8
<1>14. \A i \in 1..Len(g.rows) : rows[i].of # Draft
  BY <1>4, <1>13 DEF Whole
<1>15. \A i, j \in 1..Len(g.rows) : i # j => rows[i].of # rows[j].of
  BY <1>13 DEF Whole, NotShown
<1> QED BY <1>1, <1>8, <1>9, <1>11, <1>12, <1>14, <1>15 DEF Whole, ActiveDraft

\* What every completion leaves behind.
LEMMA CompletesKeeps ==
  ASSUME IInv, NEW kind, NEW g, Whole(g), Completes(kind, g),
         readFrom' \in [Rowid -> SUBSET Value],
         inserted = 0 \/ ~ActiveDraft(Told(g))
  PROVE  IInv'
<1>1. PICK h : h = Told(g)
  OBVIOUS
<1>2. Whole(h) /\ Shows(h) /\ (inserted = 0 \/ ~ActiveDraft(h))
  BY <1>1, ToldKeeps DEF Completes
<1>3. Whole(grid') /\ Framed(grid') /\ Same(grid', h)
  BY <1>2, FrameKeeps
<1>4. inserted = 0 \/ ~ActiveDraft(grid')
  BY <1>2, <1>3, SameShown
<1>5. op' = Idle /\ op' \in Edit /\ op'.kind = "none" /\ op'.reply = "pending"
  BY Nothing DEF Completes
<1>6. Rest'
  BY Taken DEF Completes, Rest, session, Cell, Edit
<1>7. inserted' = inserted /\ inserted \in {0, 1}
  BY Taken DEF Completes, Rest
<1>8. NewRow' /\ AnswerKnown' /\ DraftSentOnce'
  BY <1>4, <1>5, <1>7 DEF NewRow, AnswerKnown, DraftSentOnce, Running
<1> QED BY <1>3, <1>5, <1>6, <1>8, Regained

\* The callback of an update brings no draft back.
LEMMA UpdateCompletesKeeps == ASSUME IInv, UpdateCompletes PROVE IInv'
<1>1. /\ op \in Edit /\ Rest /\ AnswerKnown /\ DraftSentOnce /\ Whole(grid)
      /\ op.kind = "update-cell"
  BY Taken DEF UpdateCompletes, Completes
<1>2. inserted = 0 \/ ~ActiveDraft(grid)
  BY <1>1 DEF DraftSentOnce, Rest
<1>3. PICK t : t = Told(grid)
  OBVIOUS
<1>4. Whole(t) /\ (ActiveDraft(t) => ActiveDraft(grid))
  BY <1>1, <1>3, ToldKeeps
<1>5. PICK g : g = IF op.reply = "ok" THEN Updated(t) ELSE t
  OBVIOUS
<1>6. Whole(g) /\ (ActiveDraft(g) => ActiveDraft(grid))
  <2>1. CASE op.reply = "ok"
    <3>1. op.got \in Value
      BY <1>1, <2>1 DEF AnswerKnown
    <3>2. g = Updated(t)
      BY <1>5, <2>1
    <3>3. Whole(g) /\ (ActiveDraft(g) => ActiveDraft(t))
      BY <1>1, <1>4, <3>1, <3>2, UpdatedKeeps
    <3> QED BY <1>4, <3>3
  <2>2. CASE op.reply # "ok"
    BY <1>4, <1>5, <2>2
  <2> QED BY <2>1, <2>2
<1>7. Completes("update-cell", g)
  BY <1>3, <1>5 DEF UpdateCompletes
<1>8. ActiveDraft(Told(g)) => ActiveDraft(g)
  <2>1. PICK h : h = Told(g)
    OBVIOUS
  <2>2. ActiveDraft(h) => h = g
    BY <1>6, <2>1, ToldKeeps
  <2> QED BY <2>1, <2>2
<1>9. readFrom' \in [Rowid -> SUBSET Value]
  <2>1. CASE op.reply = "ok" /\ op.current
    <3>1. readFrom' = [readFrom EXCEPT ![op.of] = @ \cup {op.got}] /\ op.got \in Value
      BY <1>1, <2>1 DEF UpdateCompletes, AnswerKnown
    <3> QED BY <1>1, <3>1 DEF Rest
  <2>2. CASE ~(op.reply = "ok" /\ op.current)
    BY <1>1, <2>2 DEF UpdateCompletes, Rest
  <2> QED BY <2>1, <2>2
<1> QED BY <1>2, <1>6, <1>7, <1>8, <1>9, CompletesKeeps

\* The callback of an insert takes the draft over, or finds it gone, or detaches
\* the grid.
LEMMA InsertCompletesKeeps == ASSUME IInv, InsertCompletes PROVE IInv'
<1>1. /\ op \in Edit /\ Rest /\ AnswerKnown /\ DraftSentOnce /\ NewRow /\ Whole(grid)
      /\ op.kind = "insert-row" /\ op.reply # "pending"
  BY Taken DEF InsertCompletes, Completes
<1>2. PICK t : t = Told(grid)
  OBVIOUS
<1>3. /\ Whole(t) /\ (ActiveDraft(t) => t = grid /\ ~WasLost /\ ~Interrupted)
      /\ \A row : NotShown(grid, row) => NotShown(t, row)
  BY <1>1, <1>2, ToldKeeps
<1>4. CASE op.reply = "ok" /\ op.current /\ ActiveDraft(t)
  <2>1. PICK g : g = Inserted(t)
    OBVIOUS
  <2>2. Completes("insert-row", g) /\ readFrom' = [readFrom EXCEPT ![op.row] = {op.got}]
    BY <1>2, <1>4, <2>1 DEF InsertCompletes
  <2>3. op.row \in Rowid /\ op.got \in Value /\ NotShown(t, op.row)
    BY <1>1, <1>3, <1>4 DEF AnswerKnown, NewRow
  <2>4. Whole(g) /\ ~ActiveDraft(g)
    BY <1>3, <1>4, <2>1, <2>3, InsertedKeeps
  <2>5. ~ActiveDraft(Told(g))
    <3>1. PICK h : h = Told(g)
      OBVIOUS
    <3>2. ActiveDraft(h) => h = g
      BY <2>4, <3>1, ToldKeeps
    <3> QED BY <2>4, <3>1, <3>2
  <2>6. readFrom' \in [Rowid -> SUBSET Value]
    BY <1>1, <2>2, <2>3 DEF Rest
  <2> QED BY <2>2, <2>4, <2>5, <2>6, CompletesKeeps
<1>5. CASE ~(op.reply = "ok" /\ op.current /\ ActiveDraft(t))
  <2>1. inserted = 0 \/ ~ActiveDraft(t)
    <3> SUFFICES ASSUME ActiveDraft(t), inserted # 0 PROVE FALSE
      OBVIOUS
    <3>1. ActiveDraft(grid) /\ ~WasLost /\ ~Interrupted /\ inserted > 0
      BY <1>1, <1>3 DEF Rest
    <3>2. op.reply = "ok" /\ op.current
      BY <1>1, <3>1 DEF DraftSentOnce
    <3> QED BY <1>5, <3>2
  <2>2. PICK g : g = IF op.reply = "ok" THEN t ELSE [t EXCEPT !.sel = 1]
    OBVIOUS
  <2>3. Completes("insert-row", g) /\ readFrom' = readFrom
    BY <1>2, <1>5, <2>2 DEF InsertCompletes
  <2>4. Whole(g) /\ (ActiveDraft(g) <=> ActiveDraft(t))
    <3>1. CASE op.reply = "ok"
      BY <1>3, <2>2, <3>1
    <3>2. CASE op.reply # "ok"
      <4>1. t \in Shape
        BY <1>3 DEF Whole
      <4>2. g = [has |-> t.has, editable |-> t.editable, draft |-> t.draft, rows |-> t.rows,
                 originals |-> t.originals, sel |-> 1, scroll |-> t.scroll]
        BY <2>2, <3>2, <4>1 DEF Shape
      <4>3. g \in Shape /\ Same(g, t)
        BY <4>1, <4>2 DEF Shape, Same
      <4> QED BY <1>3, <4>3 DEF Whole, Same, ActiveDraft
    <3> QED BY <3>1, <3>2
  <2>5. inserted = 0 \/ ~ActiveDraft(Told(g))
    <3>1. PICK h : h = Told(g)
      OBVIOUS
    <3>2. ActiveDraft(h) => h = g
      BY <2>4, <3>1, ToldKeeps
    <3> QED BY <2>1, <2>4, <3>1, <3>2
  <2>6. readFrom' \in [Rowid -> SUBSET Value]
    BY <1>1, <2>3 DEF Rest
  <2> QED BY <2>3, <2>4, <2>5, <2>6, CompletesKeeps
<1> QED BY <1>4, <1>5

-----------------------------------------------------------------------------
(* Theorems.                                                               *)

\* Nothing happens.
LEMMA StutterKeeps == ASSUME IInv, UNCHANGED vars PROVE IInv'
<1>1. Rest' /\ op' = op /\ inserted' = inserted /\ grid' = grid
  BY Taken DEF vars, Rest, Cell
<1> QED BY <1>1, Taken, SameEdit

\* Every step keeps the invariant.
LEMMA NextKeeps == ASSUME IInv, Next PROVE IInv'
<1>1. CASE Keys
  <2>1. CASE Query \/ Reconnect \/ Help \/ StartDraft \/ CancelDraft \/ CommitDraft
             \/ EditCell \/ Interrupt
    BY <2>1, QueryKeeps, ReconnectKeeps, HelpKeeps, StartDraftKeeps, CancelDraftKeeps,
       CommitDraftKeeps, EditCellKeeps, InterruptIsKept
  <2>2. CASE \E delta \in Steps : MoveSelection(delta) \/ ScrollWindow(delta)
    BY <2>2, MoveSelectionKeeps, ScrollWindowKeeps
  <2>3. CASE \E v \in Value : EditDraft(v)
    BY <2>3, EditDraftKeeps
  <2> QED BY <1>1, <2>1, <2>2, <2>3 DEF Keys
<1>2. CASE UpdateRuns \/ InsertRuns \/ UpdateCompletes \/ InsertCompletes
           \/ TableChanges \/ SessionDies
  BY <1>2, UpdateRunsKeeps, InsertRunsKeeps, UpdateCompletesKeeps, InsertCompletesKeeps,
     SessionKeeps
<1> QED BY <1>1, <1>2 DEF Next

\* The invariant is kept by every key, every answer and every change of the
\* table behind the grid.
THEOREM InvariantHolds == Spec => [](TypeOK /\ GridInvariant)
<1>1. Init => IInv
  BY InitIInv
<1>2. IInv /\ [Next]_vars => IInv'
  BY NextKeeps, StutterKeeps
<1>3. IInv => TypeOK /\ GridInvariant
  BY DEF IInv
<1> QED BY <1>1, <1>2, <1>3, PTL DEF Spec

\* Grid, edit and table keep their types, the selection is a row of the grid,
\* and the grid has no more rows than the table has places, and the draft.
THEOREM TypeCorrect == Spec => []TypeOK
BY InvariantHolds, PTL

\* A row of the grid without a row in the database is the draft, on top and
\* tracked (remove_insert_draft, _discard_insert_draft,
\* _detach_live_result_state).
THEOREM NoPhantomRowHolds == Spec => []NoPhantomRow
<1>1. TypeOK /\ GridInvariant => NoPhantomRow
  BY DEF GridInvariant
<1> QED BY <1>1, InvariantHolds, PTL

\* One draft never becomes two rows, whichever answer is lost
\* (commit_insert_draft_if_active, poll).
THEOREM InsertedOnceHolds == Spec => []InsertedOnce
<1>1. TypeOK /\ GridInvariant => InsertedOnce
  BY DEF GridInvariant
<1> QED BY <1>1, InvariantHolds, PTL
=============================================================================
