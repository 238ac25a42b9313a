---------------------------- MODULE EditorBuffer ----------------------------
(***************************************************************************)
(* The text of one editor tab, its cursor, selection and undo history:     *)
(* ui/buffer.py and the search of ui/completion.py.  The lines are one     *)
(* text with newlines; a place is a pair of a line (from 1) and a column   *)
(* (from 0).  Left out: the tab's path, title and dirty flag (Documents).  *)
(***************************************************************************)
EXTENDS SqlText

CONSTANT UndoHistoryLimit    \* constants.py: 200
ASSUME HistoryAssumption == UndoHistoryLimit \in Nat \ {0}

NoPlace == <<0, 0>>
Within(x, low, high) == Max({low, Min({x, high})})

LineCount(t) == Line(t, Len(t) + 1)
StartOf(t, line) == LET ends == {i \in 1..Len(t) : t[i] = NL}
                    IN  IF line = 1 THEN 1
                        ELSE 1 + CHOOSE i \in ends : Cardinality({j \in ends : j < i}) = line - 2
Width(t, line) == LineEnd(t, StartOf(t, line)) - StartOf(t, line)

ClampPosition(t, p) == LET line == Within(p[1], 1, LineCount(t))
                       IN  <<line, Within(p[2], 0, Width(t, line))>>
PositionToTextIndex(t, p) == LET c == ClampPosition(t, p) IN StartOf(t, c[1]) + c[2]
TextIndexToPosition(t, i) == <<Line(t, i), Col(t, i)>>

\* What is known of a place wherever it comes from: it lies in the text.
InText(t, p) == p[1] \in 1..LineCount(t) /\ p[2] \in 0..Width(t, p[1])

Loaded(t) == [text |-> t, at |-> <<1, 0>>, anchor |-> NoPlace, undo |-> <<>>, redo |-> <<>>]
Cursor(b) == PositionToTextIndex(b.text, b.at)

-----------------------------------------------------------------------------
(* History.                                                                *)

Snapshot(b) == [text |-> b.text, at |-> b.at, anchor |-> b.anchor]

\* _append_undo_snapshot: the oldest entry goes.
AppendUndoSnapshot(undo, s) ==
  LET all == Append(undo, s)
  IN  SubSeq(all, Max({1, Len(all) - UndoHistoryLimit + 1}), Len(all))

\* Mutation: an edit keeps what was undone.
RecordUndoOnly(b) == [b EXCEPT !.undo = AppendUndoSnapshot(@, Snapshot(b))]

RecordUndo(b) ==
  [b EXCEPT !.undo = IF @ # <<>> /\ Last(@) = Snapshot(b) THEN @ ELSE AppendUndoSnapshot(@, Snapshot(b)),
            !.redo = <<>>]

RestoreSnapshot(b, s) == [b EXCEPT !.text = s.text, !.at = ClampPosition(s.text, s.at), !.anchor = s.anchor]

Undo(b) ==
  IF b.undo = <<>> THEN b
  ELSE RestoreSnapshot([b EXCEPT !.undo = Front(@), !.redo = Append(@, Snapshot(b))], Last(b.undo))

Redo(b) ==
  IF b.redo = <<>> THEN b
  ELSE RestoreSnapshot([b EXCEPT !.undo = AppendUndoSnapshot(@, Snapshot(b)), !.redo = Front(@)], Last(b.redo))

-----------------------------------------------------------------------------
(* Selection.                                                              *)

ClearSelection(b) == [b EXCEPT !.anchor = NoPlace]
StartSelection(b) == IF b.anchor = NoPlace THEN [b EXCEPT !.anchor = b.at] ELSE b
Extended(b, extend) == IF extend THEN StartSelection(b) ELSE ClearSelection(b)

\* selection_range, as the half-open range of positions, empty if there is none.
SelectionRange(b) ==
  LET ends == {Cursor(b)} \cup IF b.anchor = NoPlace THEN {} ELSE {PositionToTextIndex(b.text, b.anchor)}
  IN  <<Min(ends), Max(ends)>>
HasSelection(b) == SelectionRange(b)[1] < SelectionRange(b)[2]
SelectedText(b) == SubSeq(b.text, SelectionRange(b)[1], SelectionRange(b)[2] - 1)

-----------------------------------------------------------------------------
(* Edits.                                                                  *)

\* The characters from..to - 1 replaced, the cursor behind what replaces them.
Spliced(b, from, to, new) ==
  LET t == SubSeq(b.text, 1, from - 1) \o new \o SubSeq(b.text, to, Len(b.text))
  IN  [b EXCEPT !.text = t, !.at = TextIndexToPosition(t, from + Len(new)), !.anchor = NoPlace]

DeleteSelection(b) == Spliced(b, SelectionRange(b)[1], SelectionRange(b)[2], <<>>)

\* insert_text, insert_char, newline
InsertText(b, new) ==
  IF new = <<>> THEN b
  ELSE LET d == DeleteSelection(RecordUndo(b)) IN Spliced(d, Cursor(d), Cursor(d), new)

\* What backspace, delete and the deletion of words do with the range they find.
Deleted(b, from, to) ==
  IF HasSelection(b) THEN DeleteSelection(RecordUndo(b))
  ELSE IF from = to THEN ClearSelection(b)
  ELSE Spliced(RecordUndo(ClearSelection(b)), from, to, <<>>)

Backspace(b) == Deleted(b, Max({1, Cursor(b) - 1}), Cursor(b))
Delete(b)    == Deleted(b, Cursor(b), Min({Len(b.text) + 1, Cursor(b) + 1}))

TokenKind(c) == IF c \in Blank THEN "space" ELSE IF IsWord(c) THEN "word" ELSE "punct"

\* The first position from i on, up to the end, where the kind is another one.
EndOfKind(t, i, kind) ==
  LET other == {j \in i..Len(t) : TokenKind(t[j]) # kind} IN IF other = {} THEN Len(t) + 1 ELSE Min(other)

NextTokenPosition(t, i) ==
  IF i > Len(t) THEN i ELSE EndOfKind(t, EndOfKind(t, i, TokenKind(t[i])), "space")

PreviousTokenPosition(t, i) ==
  LET last  == LastIn(t, 1, i - 1)
      other == {j \in 1..last : TokenKind(t[j]) # TokenKind(t[last])}
  IN  IF last = 0 THEN 1 ELSE IF other = {} THEN 1 ELSE Max(other) + 1

DeleteWordLeft(b)  == Deleted(b, PreviousTokenPosition(b.text, Cursor(b)), Cursor(b))
DeleteWordRight(b) == Deleted(b, Cursor(b), NextTokenPosition(b.text, Cursor(b)))

-----------------------------------------------------------------------------
(* Comments and case.                                                      *)

\* comment_target_rows: a selection that ends before a line leaves it alone.
CommentTargetRows(b) ==
  LET rows(t, range) ==
        Line(t, range[1])..IF Line(t, range[2]) > Line(t, range[1]) /\ Col(t, range[2]) = 0
                           THEN Line(t, range[2]) - 1 ELSE Line(t, range[2])
  IN  IF HasSelection(b) THEN rows(b.text, SelectionRange(b)) ELSE {b.at[1]}

\* The code of a line without its indent; the indent.
Code(line)   == SubSeq(line, MinOr({i \in DOMAIN line : line[i] \notin Blank}, Len(line) + 1), Len(line))
Indent(line) == SubSeq(line, 1, Len(line) - Len(Code(line)))

LineIsSqlCommented(line) == At(Code(line), 1, <<"-", "-">>)
CommentSqlLine(line)     == Indent(line) \o <<"-", "-", " ">> \o Code(line)
UncommentSqlLine(line)   ==
  LET bare(code) == SubSeq(code, CASE At(code, 1, <<"-", "-", " ">>) -> 4
                                   [] At(code, 1, <<"-", "-">>) /\ ~At(code, 1, <<"-", "-", " ">>) -> 3
                                   [] OTHER -> 1, Len(code))
  IN  Indent(line) \o bare(Code(line))

ToggleComment(b) ==
  LET comment(lines, rows) == \E r \in rows : ~LineIsSqlCommented(lines[r])
      toggled(line, on) == IF on THEN CommentSqlLine(line) ELSE UncommentSqlLine(line)
      joined(lines) == FlattenSeq([r \in DOMAIN lines |-> (IF r = 1 THEN <<>> ELSE <<NL>>) \o lines[r]])
      text(lines, rows, on) ==
        joined([r \in DOMAIN lines |-> IF r \in rows THEN toggled(lines[r], on) ELSE lines[r]])
      with(t) == [ClearSelection(RecordUndo(b)) EXCEPT !.text = t, !.at = ClampPosition(t, b.at)]
      on(lines, rows) == IF rows = {} THEN ClearSelection(b) ELSE with(text(lines, rows, comment(lines, rows)))
      in(lines) == on(lines, {r \in CommentTargetRows(b) : Strip(lines[r]) # <<>>})
  IN  in(Lines(b.text))

Upper(c) == IF c = "w" THEN "W" ELSE c

\* transform_sql_code_in_selection: only what the highlighter takes for code.
UpperCode(t, from, to, modes) ==
  LET code(i) == modes[Line(t, i)][Col(t, i) + 1] \notin {"line", "block", "q", "single", "double"}
      upper(i) == IF t[i] # NL /\ code(i) THEN Upper(t[i]) ELSE t[i]
  IN  [n \in 1..to - from |-> upper(from + n - 1)]
TransformSqlCode(b) ==
  UpperCode(b.text, SelectionRange(b)[1], SelectionRange(b)[2], TokenizeSqlLines(Lines(b.text)))

\* transform_selection: the selection stays on what replaces it.
Transformed(b, range, new) ==
  [Spliced(RecordUndo(b), range[1], range[2], new) EXCEPT !.anchor = TextIndexToPosition(b.text, range[1])]
TransformSelection(b) ==
  LET to(new) == IF ~HasSelection(b) \/ new = SelectedText(b) THEN b ELSE Transformed(b, SelectionRange(b), new)
  IN  to(TransformSqlCode(b))

-----------------------------------------------------------------------------
(* Movement.                                                               *)

MoveTo(b, p, extend) == [Extended(b, extend) EXCEPT !.at = ClampPosition(b.text, p)]

MoveLineStart(b, extend) == MoveTo(b, <<b.at[1], 0>>, extend)
MoveLineEnd(b, extend)   == MoveTo(b, <<b.at[1], Width(b.text, b.at[1])>>, extend)
MoveFileStart(b, extend) == MoveTo(b, <<1, 0>>, extend)
MoveFileEnd(b, extend)   == MoveTo(b, TextIndexToPosition(b.text, Len(b.text) + 1), extend)

MoveWordLeft(b, extend) ==
  [Extended(b, extend) EXCEPT !.at = TextIndexToPosition(b.text, PreviousTokenPosition(b.text, Cursor(b)))]
MoveWordRight(b, extend) ==
  [Extended(b, extend) EXCEPT !.at = TextIndexToPosition(b.text, NextTokenPosition(b.text, Cursor(b)))]

\* page, and the keys up and down of move_editor_cursor.
MoveRows(b, rows, extend) == [Extended(b, extend) EXCEPT !.at = ClampPosition(b.text, <<@[1] + rows, @[2]>>)]

\* The keys left and right of move_editor_cursor.
MoveLeft(b, extend) ==
  [Extended(b, extend) EXCEPT !.at = TextIndexToPosition(b.text, Max({1, Cursor(b) - 1}))]
MoveRight(b, extend) ==
  [Extended(b, extend) EXCEPT !.at = TextIndexToPosition(b.text, Min({Len(b.text) + 1, Cursor(b) + 1}))]

-----------------------------------------------------------------------------
(* Search.                                                                 *)

\* find_search_matches: in either case, from left to right, without overlaps.
FindSearchMatches(t, query) ==
  LET folded(s) == [i \in DOMAIN s |-> Upper(s[i])]
      from[i \in 1..Len(t) + 2] ==
        LET found == Find(folded(t), folded(query), i)
        IN  IF found = {} THEN <<>> ELSE <<Min(found)>> \o from[Min(found) + Len(query)]
  IN  from[1]

\* search_navigation_offset and search_match_index, with the wrap around.
NextMatch(matches, i)     == MinOr({m \in ToSet(matches) : m >= i}, Head(matches))
PreviousMatch(matches, i) == MaxOr({m \in ToSet(matches) : m < i}, Last(matches))
SearchMatch(b, matches, forward) ==
  IF forward THEN NextMatch(matches, Cursor(b)) ELSE PreviousMatch(matches, SelectionRange(b)[1])

\* move_to_search_match and select_search_match
MoveToSearchMatch(b, query, forward) ==
  LET at(m) == [b EXCEPT !.at = TextIndexToPosition(b.text, m + Len(query)),
                         !.anchor = TextIndexToPosition(b.text, m)]
      to(matches) == IF matches = <<>> THEN ClearSelection(b) ELSE at(SearchMatch(b, matches, forward))
  IN  to(FindSearchMatches(b.text, query))
=============================================================================
