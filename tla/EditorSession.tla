--------------------------- MODULE EditorSession ---------------------------
(***************************************************************************)
(* The editor at work: keys that edit, commands that send what is in the   *)
(* editor to Oracle, completion, and what comes back while the user goes   *)
(* on typing, moving, undoing and switching tabs (editor_controller.py,    *)
(* query_controller.py, catalog.py, the error part of result_presenter.py).*)
(*                                                                         *)
(* A command runs in the background; its answer is applied in one step,    *)
(* with the tab it came from made the active one meanwhile.  A dialog      *)
(* waits for its keys alone and is part of the step that opens it.  How    *)
(* commands are queued, interrupted and lost is in DatabaseOperations, the *)
(* rows are in ResultCursors.                                              *)
(*                                                                         *)
(* A word is one character: what completion finds before the cursor is one *)
(* word, typed short.  Quoted names and names with a schema are left out.  *)
(***************************************************************************)
EXTENDS EditorBuffer, EditableSelect

CONSTANTS
  Tab,
  Plans,      \* what is in the tabs at first, what may be typed, the commands there
              \* are and how many of them
  Queries,    \* what may be searched for
  Keywords,   \* SQL_KEYWORDS
  Schema,     \* the tables there are, each with the sequence of its columns
  ResultNames,  \* what the columns of a result may be called, as sequences
  Begins      \* pairs of a short word and a word that begins with it

\* The characters that the program itself writes.
Written == {NL, " ", "-", "W", "select", "from", "insert", "into", "values", "update", "set", "where",
            ";", ":", "(", ")"}

\* Texts are sequences of strings, and so are a table's columns; for the provers,
\* a literal is no string until that is said.
ASSUME EditorAssumption ==
  /\ \A p \in Plans : /\ p.script \in [Tab -> Seq(STRING)] /\ p.active \in Tab
                      /\ p.fragments \subseteq Seq(STRING)
  /\ Queries \subseteq Seq(STRING) \ {<<>>}
  /\ Keywords \subseteq STRING
  /\ \A table \in DOMAIN Schema : table \in STRING /\ Schema[table] \in Seq(STRING)
  /\ Written \cup {NoClose, "]"} \subseteq STRING

VARIABLES
  plan,
  buffers,       \* FileTab.buffer
  active,        \* UIState.active_tab
  focus,
  diagnostics,   \* FileTab.execution_diagnostics, _index and _source
  operation,     \* UIState.db_operation, with what its task and callbacks hold
  objectsLoaded, \* BrowserState.browser_loaded
  columns,       \* the keys of BrowserState.schema_columns
  clipboard,     \* UIState.internal_clipboard
  edits          \* steps of the user so far

vars == <<plan, buffers, active, focus, diagnostics, operation, objectsLoaded, columns, clipboard, edits>>
background == <<operation, objectsLoaded, columns>>

NoOperation == [kind |-> "none"]
NoDiagnostics == [places |-> <<>>, index |-> -1, source |-> <<>>, faults |-> <<>>]

Init ==
  /\ plan \in Plans
  /\ buffers = [t \in Tab |-> Loaded(plan.script[t])]
  /\ active = plan.active
  /\ focus = "editor"
  /\ diagnostics = [t \in Tab |-> NoDiagnostics]
  /\ operation = NoOperation /\ objectsLoaded = FALSE /\ columns = {}
  /\ clipboard = <<>> /\ edits = 0

Buffer == buffers[active]

\* A command of the user, and the bound on their number.
Command(name) == name \in plan.commands /\ edits < plan.edits /\ edits' = edits + 1 /\ UNCHANGED plan

\* A key of the editor: what it makes of the active tab.
Key(b) == /\ focus = "editor"
          /\ buffers' = [buffers EXCEPT ![active] = b]
          /\ UNCHANGED <<active, focus, diagnostics, background>>

-----------------------------------------------------------------------------
(* EditorController.                                                       *)

\* edit_key with a character and with return.
Type == /\ Command("type")
        /\ \E f \in plan.fragments : Key(InsertText(Buffer, f))
        /\ UNCHANGED clipboard

EditKey ==
  /\ Command("edit")
  /\ \E b \in {Backspace(Buffer), Delete(Buffer), DeleteWordLeft(Buffer), DeleteWordRight(Buffer)} : Key(b)
  /\ UNCHANGED clipboard

\* edit_key with the keys that move the cursor, with shift and without.
MoveKey ==
  /\ Command("move")
  /\ \E extend \in BOOLEAN : \E b \in
       {MoveLeft(Buffer, extend), MoveRight(Buffer, extend), MoveRows(Buffer, -1, extend),
        MoveRows(Buffer, 1, extend), MoveRows(Buffer, -10, extend), MoveRows(Buffer, 10, extend),
        MoveLineStart(Buffer, extend), MoveLineEnd(Buffer, extend), MoveFileStart(Buffer, extend),
        MoveFileEnd(Buffer, extend), MoveWordLeft(Buffer, extend), MoveWordRight(Buffer, extend)} : Key(b)
  /\ UNCHANGED clipboard

UndoBuffer == Command("undo") /\ Key(Undo(Buffer)) /\ UNCHANGED clipboard
RedoBuffer == Command("undo") /\ Key(Redo(Buffer)) /\ UNCHANGED clipboard

ToggleCurrentLineComment == Command("edit") /\ Key(ToggleComment(Buffer)) /\ UNCHANGED clipboard
UppercaseSelection       == Command("edit") /\ Key(TransformSelection(Buffer)) /\ UNCHANGED clipboard

CopySelection == Command("clipboard") /\ HasSelection(Buffer) /\ Key(Buffer) /\ clipboard' = SelectedText(Buffer)
CutSelection ==
  /\ Command("clipboard") /\ HasSelection(Buffer)
  /\ Key(DeleteSelection(RecordUndo(Buffer)))
  /\ clipboard' = SelectedText(Buffer)
PasteClipboard == Command("clipboard") /\ Key(InsertText(Buffer, clipboard)) /\ UNCHANGED clipboard

RepeatSearch ==
  /\ Command("search")
  /\ \E query \in Queries, forward \in BOOLEAN : Key(MoveToSearchMatch(Buffer, query, forward))
  /\ UNCHANGED clipboard

\* prompt_go_to_line: the focus may be anywhere.
GoToLine ==
  /\ Command("search")
  /\ \E line \in 1..LineCount(Buffer.text) :
       buffers' = [buffers EXCEPT ![active] = MoveTo(@, <<line, 0>>, FALSE)]
  /\ focus' = "editor"
  /\ UNCHANGED <<active, diagnostics, background, clipboard>>

SwitchToTab == \E t \in Tab \ {active} :
  Command("switch") /\ active' = t /\ UNCHANGED <<buffers, focus, diagnostics, background, clipboard>>

\* toggle_browser, once the objects are there.
SwitchFocus ==
  /\ Command("switch") /\ objectsLoaded
  /\ focus' = IF focus = "browser" THEN "editor" ELSE "browser"
  /\ UNCHANGED <<buffers, active, diagnostics, background, clipboard>>

-----------------------------------------------------------------------------
(* Running and explaining: what is sent, and where it came from.           *)

\* Mutation: the column of the selection is forgotten.
DocumentLine(p, place) == <<p[1] + place[1] - 1, place[2]>>

\* document_statement_lines and document_statement_start_col: where a statement of
\* a selection that starts at place p stands in the text.
DocumentPlace(p, place) == <<p[1] + place[1] - 1, place[2] + IF place[1] = 1 THEN p[2] ELSE 0>>

PlacedIn(script, p, s) == [text |-> s.text, place |-> DocumentPlace(p, TextIndexToPosition(script, s.from))]
Sent(script, p) ==
  LET placed(statements) == [n \in DOMAIN statements |-> PlacedIn(script, p, statements[n])]
  IN  placed(SplitScript(script))

\* move_buffer_to_error
MoveBufferToError(b, p) == [ClearSelection(b) EXCEPT !.at = ClampPosition(b.text, p)]

InOrder(places) ==
  [n \in 1..Cardinality(places) |-> CHOOSE i \in places : Cardinality({j \in places : j < i}) = n - 1]

\* reject_script_preflight: the issues become the tab's diagnostics.
RejectScriptPreflight(script, p, issues) ==
  LET at     == InOrder(issues)
      places == [n \in DOMAIN at |-> DocumentPlace(p, TextIndexToPosition(script, at[n]))]
  IN  /\ diagnostics' = [diagnostics EXCEPT ![active] =
                           [places |-> places, index |-> 0, source |-> Buffer.text,
                            faults |-> [n \in DOMAIN at |-> [text |-> script, at |-> at[n]]]]]
      /\ buffers' = [buffers EXCEPT ![active] = MoveBufferToError(@, places[1])]
      /\ focus' = "editor"
      /\ UNCHANGED operation

\* The prompts for binds may be cancelled; then nothing is started.  What holds
\* nothing but comments ends as an empty result.
Start(kind, statements) ==
  LET asked == UNION {FindSqlBinds(statements[n].text) : n \in DOMAIN statements} # {}
  IN  /\ IF statements = <<>> THEN operation' = operation
          ELSE operation' \in {[kind |-> kind, tab |-> active, source |-> Buffer.text, statements |-> statements]}
                                \cup IF asked THEN {operation} ELSE {}
      /\ diagnostics' = IF statements = <<>> THEN [diagnostics EXCEPT ![active] = NoDiagnostics] ELSE diagnostics
      /\ focus' = IF statements = <<>> THEN "editor" ELSE focus
      /\ UNCHANGED buffers

Checked(script, p, start) ==
  \E issues \in {PreflightScript(script)} :
    IF issues # {} THEN RejectScriptPreflight(script, p, issues) ELSE start

RunScriptText(script, p) == Checked(script, p, Start("execute", Sent(script, p)))

\* The statement under the cursor, with the preflight of its text alone.
RunPlaced(kind, text, place) == Checked(text, place, Start(kind, <<[text |-> text, place |-> place]>>))
RunStatementAtCursor(kind) ==
  \E statements \in {SplitScript(Buffer.text)} :
    /\ statements # <<>>
    /\ \E n \in {StatementAtCursor(Buffer.text, statements, Buffer.at[1], Buffer.at[2])} :
         RunPlaced(kind, statements[n].text, TextIndexToPosition(Buffer.text, statements[n].from))

Run == /\ Command("run") /\ operation = NoOperation
       /\ UNCHANGED <<active, objectsLoaded, columns, clipboard>>

\* run_current_statement and run_script with a selection: run_selected_script
RunSelection ==
  /\ Run /\ HasSelection(Buffer)
  /\ RunScriptText(SelectedText(Buffer), TextIndexToPosition(Buffer.text, SelectionRange(Buffer)[1]))
RunCurrentStatement     == Run /\ ~HasSelection(Buffer) /\ RunStatementAtCursor("execute")
ExplainCurrentStatement == Run /\ RunStatementAtCursor("explain")
RunScript               == Run /\ ~HasSelection(Buffer) /\ RunScriptText(Buffer.text, <<1, 0>>)

-----------------------------------------------------------------------------
(* The answer: DatabaseOperations.poll and the presenter.                  *)

\* Oracle counts the characters of the statement it was sent: the fault at
\* position k of statement n, mapped into the text by statement_offset_location and
\* _mapped_error_location.
ErrorPlace(statement, k) == DocumentPlace(statement.place, TextIndexToPosition(statement.text, k))

\* handle_execution_error and handle_explain_error; an error may come without a
\* place, as those of explain do.
StatementFails ==
  \E n \in DOMAIN operation.statements :
    \E k \in 0..IF operation.kind = "explain" THEN 0 ELSE Len(operation.statements[n].text) :
      LET t     == operation.tab
          s     == operation.statements[n]
          moved == k > 0 /\ buffers[t].text = operation.source
      IN  /\ diagnostics' = [diagnostics EXCEPT ![t] =
                               [places |-> IF k = 0 THEN <<>> ELSE <<ErrorPlace(s, k)>>,
                                index  |-> IF moved THEN 0 ELSE -1, source |-> operation.source,
                                faults |-> IF k = 0 THEN <<>> ELSE <<[text |-> s.text, at |-> k]>>]]
          /\ buffers' = IF moved THEN [buffers EXCEPT ![t] = MoveBufferToError(@, ErrorPlace(s, k))] ELSE buffers

\* finish_execution: a unit may be created with compilation errors, which
\* _record_success_diagnostics keeps; show_explain_result has none.
StatementsSucceed ==
  LET s(n)   == operation.statements[n]
      warned == {n \in DOMAIN operation.statements : operation.kind = "execute" /\ s(n).text[1] = "create"}
  IN  /\ \/ diagnostics' = [diagnostics EXCEPT ![operation.tab] = NoDiagnostics]
         \/ \E n \in warned : \E k \in DOMAIN s(n).text :
              diagnostics' = [diagnostics EXCEPT ![operation.tab] =
                [places |-> <<ErrorPlace(s(n), k)>>, index |-> -1, source |-> operation.source,
                 faults |-> <<[text |-> s(n).text, at |-> k]>>]]
      /\ UNCHANGED buffers

OperationEnds ==
  /\ operation.kind \in {"execute", "explain"}
  /\ StatementFails \/ StatementsSucceed
  /\ operation' = NoOperation
  /\ focus' = "editor"
  /\ UNCHANGED <<plan, active, objectsLoaded, columns, clipboard, edits>>

\* Mutation: the text may have changed.
NavigateStaleDiagnostic ==
  LET d == diagnostics[active]
  IN  /\ Command("diagnostic") /\ d.places # <<>>
      /\ \E index \in {(d.index + 1) % Len(d.places)} :
           /\ diagnostics' = [diagnostics EXCEPT ![active].index = index]
           /\ buffers' = [buffers EXCEPT ![active] = MoveBufferToError(@, d.places[index + 1])]
      /\ focus' = "editor"
      /\ UNCHANGED <<active, background, clipboard>>

\* navigate_execution_diagnostic: refused when the text is another one.
NavigateExecutionDiagnostic ==
  LET d == diagnostics[active]
  IN  /\ Command("diagnostic") /\ d.places # <<>> /\ Buffer.text = d.source
      /\ \E index \in {(d.index + 1) % Len(d.places),
                       IF d.index >= 0 THEN (d.index - 1) % Len(d.places) ELSE Len(d.places) - 1} :
           /\ diagnostics' = [diagnostics EXCEPT ![active].index = index]
           /\ buffers' = [buffers EXCEPT ![active] = MoveBufferToError(@, d.places[index + 1])]
      /\ focus' = "editor"
      /\ UNCHANGED <<active, background, clipboard>>


-----------------------------------------------------------------------------
(* Completion and generated SQL.                                           *)

TableReferenceKeywords == {"from", "join", "update", "into"}

\* statement_table_references: the tables of a statement and their aliases, as a
\* function from the names it uses to tables.
StatementTableReferences(t) ==
  LET word(k, i) == IF i \in DOMAIN k THEN k[i] ELSE " "
      alias(name, table) == IF IsWord(name) /\ name \notin Keywords THEN name :> table ELSE <<>>
      behind(k, i) == IF word(k, i + 1) = "as" THEN word(k, i + 2) ELSE word(k, i + 1)
      referred(k, refs, i) ==
        IF k[i - 1] \in TableReferenceKeywords /\ IsWord(k[i])
        THEN alias(behind(k, i), k[i]) @@ refs @@ (k[i] :> k[i]) ELSE refs
      in(k) == FoldLeft(LAMBDA refs, i : referred(k, refs, i), <<>>, [n \in 1..Len(k) - 1 |-> n + 1])
  IN  in(SelectSeq(SqlCodeMask(t, FALSE), LAMBDA c : c \notin Blank))

\* completion_context_for_buffer: the word before the cursor and what qualifies it.
WordBefore(t, line, dot) == IF dot # 0 /\ t[dot] = "." THEN LastIn(t, line, dot - 1) ELSE 0
WordAt(t, i) == IF i # 0 /\ IsWord(t[i]) THEN <<t[i]>> ELSE <<>>
ContextAt(t, statement, line, start, end) ==
  [start |-> start, end |-> end, statement |-> statement, prefix |-> SubSeq(t, start, end - 1),
   qualifier |-> WordAt(t, WordBefore(t, line, LastIn(t, line, start - 1)))]
CompletionContextForBuffer(b, statement) ==
  LET at(i, line) == ContextAt(b.text, statement, line, IF i > line /\ IsWord(b.text[i - 1]) THEN i - 1 ELSE i, i)
  IN  at(Cursor(b), LineStart(b.text, Cursor(b)))

StatementOf(b, statements) ==
  LET text(n) == IF n = 0 THEN b.text ELSE statements[n].text
  IN  text(StatementAtCursor(b.text, statements, b.at[1], b.at[2]))
Context(b) == CompletionContextForBuffer(b, StatementOf(b, SplitScript(b.text)))

Matching(prefix, words) == {w \in words : prefix = <<>> \/ prefix = <<w>> \/ <<Head(prefix), w>> \in Begins}

\* resolve_completion_qualifier: an alias, else the name itself.
ResolveCompletionQualifier(qualifier, references) ==
  IF qualifier \in DOMAIN references THEN references[qualifier] ELSE qualifier

\* The tables whose columns are of interest.
TableNames(context) ==
  LET of(references) == IF context.qualifier = <<>> THEN Range(references)
                        ELSE {ResolveCompletionQualifier(context.qualifier[1], references)}
  IN  of(StatementTableReferences(context.statement))

ColumnsOf(table) == IF table \in DOMAIN Schema THEN ToSet(Schema[table]) ELSE {}

\* completion_candidates, from what is cached.
CompletionCandidates(context, objects, known) ==
  LET cached == UNION {ColumnsOf(table) : table \in TableNames(context) \cap known}
      others == IF context.qualifier # <<>> THEN {} ELSE Keywords \cup IF objects THEN DOMAIN Schema ELSE {}
  IN  Matching(context.prefix, cached \cup others)

\* apply_completion: what stands already is left alone.
ApplyCompletion(b, context, candidate) ==
  LET new == Spliced(b, context.start, context.end, <<candidate>>)
  IN  IF new.text = b.text THEN b
      ELSE [new EXCEPT !.undo = RecordUndo(b).undo, !.redo = <<>>]

\* What completion makes of a buffer: a choice is only offered, and may be
\* cancelled, between two.
Offered(b, context, candidates) ==
  {ApplyCompletion(b, context, c) : c \in candidates} \cup IF Cardinality(candidates) = 1 THEN {} ELSE {b}
CompletedIn(b, context, objects, known) == Offered(b, context, CompletionCandidates(context, objects, known))
Completed(b, objects, known) == CompletedIn(b, Context(b), objects, known)

\* Does it complete a keyword, for which nothing has to be loaded?
OnlyKeyword(context) ==
  /\ context.qualifier = <<>> /\ StatementTableReferences(context.statement) = <<>>
  /\ Matching(context.prefix, Keywords) # {}

\* capture_editor_context
CaptureEditorContext ==
  [tab |-> active, text |-> Buffer.text, at |-> Buffer.at, anchor |-> Buffer.anchor, focus |-> focus]

\* Mutation: only the line of the cursor counts.
EditorLineIsCurrent(asked) ==
  /\ active = asked.tab
  /\ Buffer.text = asked.text /\ Buffer.at[1] = asked.at[1] /\ Buffer.anchor = asked.anchor
  /\ focus = asked.focus

\* editor_context_is_current: the tab is the active one for the callback in any
\* case; what counts is that it was before.
EditorContextIsCurrent(asked) ==
  /\ active = asked.tab
  /\ Buffer.text = asked.text /\ Buffer.at = asked.at /\ Buffer.anchor = asked.anchor
  /\ focus = asked.focus

\* catalog.load_completion_metadata and load_columns: nothing while another
\* operation runs.
Load(kind, objects, tables) ==
  /\ operation' = IF operation # NoOperation THEN operation
                  ELSE [kind |-> kind, objects |-> objects, tables |-> tables, asked |-> CaptureEditorContext]
  /\ UNCHANGED buffers

\* autocomplete_editor and load_completion_metadata_if_needed
AutocompleteEditor ==
  /\ Command("complete")
  /\ \E context \in {Context(Buffer)} : \E missing \in {TableNames(context) \ columns} :
       /\ context.prefix # <<>> \/ context.qualifier # <<>>
       /\ IF OnlyKeyword(context) \/ (objectsLoaded /\ missing = {})
          THEN /\ \E b \in Completed(Buffer, objectsLoaded, columns) : buffers' = [buffers EXCEPT ![active] = b]
               /\ UNCHANGED operation
          ELSE Load("metadata", ~objectsLoaded, missing)
  /\ UNCHANGED <<active, focus, diagnostics, objectsLoaded, columns, clipboard>>

\* generated_sql_for_choice: select, insert and update with columns.
GeneratedSql(table) ==
  LET all      == Schema[table]
      bound    == FlattenSeq([n \in DOMAIN all |-> <<":", all[n]>>])
      assigned == FlattenSeq([n \in DOMAIN all |-> <<all[n], ":", all[n]>>])
  IN  {<<"select">> \o all \o <<"from", table, ";", NL>>,
       <<"insert", "into", table, "(">> \o all \o <<")", "values", "(">> \o bound \o <<")", ";", NL>>,
       <<"update", table, "set">> \o assigned \o <<"where", ";", NL>>}

\* finish_generate_sql_with_columns: the choice may be cancelled, and there is none
\* without columns.
Generated(b, table) ==
  {b} \cup IF ColumnsOf(table) = {} THEN {} ELSE {InsertText(b, sql) : sql \in GeneratedSql(table)}

\* generate_sql_with_columns, for the table asked for in a prompt.
GenerateSqlWithColumns ==
  \E table \in DOMAIN Schema :
    /\ Command("generate")
    /\ IF table \notin columns THEN Load("columns", FALSE, {table}) /\ UNCHANGED focus
       ELSE /\ \E b \in Generated(Buffer, table) :
                 /\ buffers' = [buffers EXCEPT ![active] = b]
                 /\ focus' = IF b = Buffer THEN focus ELSE "editor"
            /\ UNCHANGED operation
    /\ UNCHANGED <<active, diagnostics, objectsLoaded, columns, clipboard>>

\* refresh_autocomplete_cache and refresh_browser
RefreshAutocompleteCache ==
  \E kind \in {"autocomplete-refresh", "schema-refresh"} :
    /\ Command("refresh") /\ operation = NoOperation
    /\ Load(kind, TRUE, {})
    /\ UNCHANGED <<active, focus, diagnostics, objectsLoaded, columns, clipboard>>

\* What is loaded is kept in any case; completion goes on where it was asked for.
MetadataLoaded ==
  LET asked == operation.asked
      table == CHOOSE table \in operation.tables : TRUE
      now   == EditorContextIsCurrent(asked)
  IN  /\ operation.kind \in {"metadata", "columns", "autocomplete-refresh", "schema-refresh"}
      /\ objectsLoaded' = (objectsLoaded \/ operation.objects)
      /\ columns' = IF operation.kind = "autocomplete-refresh" THEN {} ELSE columns \cup operation.tables
      /\ CASE operation.kind = "metadata" /\ now ->
                (\E b \in Completed(Buffer, objectsLoaded', columns') : buffers' = [buffers EXCEPT ![active] = b])
                  /\ UNCHANGED focus
           [] operation.kind = "columns" /\ now ->
                \E b \in Generated(Buffer, table) :
                  /\ buffers' = [buffers EXCEPT ![active] = b]
                  /\ focus' = IF b = Buffer THEN focus ELSE "editor"
           [] OTHER -> UNCHANGED <<buffers, focus>>
      /\ operation' = NoOperation
      /\ UNCHANGED <<plan, active, diagnostics, clipboard, edits>>

\* A failure is told, nothing else.
MetadataFailed ==
  /\ operation.kind \in {"metadata", "columns", "autocomplete-refresh", "schema-refresh"}
  /\ operation' = NoOperation
  /\ UNCHANGED <<plan, buffers, active, focus, diagnostics, objectsLoaded, columns, clipboard, edits>>

-----------------------------------------------------------------------------
User ==
  \/ Type \/ EditKey \/ MoveKey \/ UndoBuffer \/ RedoBuffer
  \/ ToggleCurrentLineComment \/ UppercaseSelection
  \/ CopySelection \/ CutSelection \/ PasteClipboard
  \/ RepeatSearch \/ GoToLine \/ SwitchToTab \/ SwitchFocus
  \/ RunSelection \/ RunCurrentStatement \/ ExplainCurrentStatement \/ RunScript
  \/ NavigateExecutionDiagnostic
  \/ AutocompleteEditor \/ GenerateSqlWithColumns \/ RefreshAutocompleteCache

Poll == OperationEnds \/ MetadataLoaded \/ MetadataFailed

Next == User \/ Poll
Spec == Init /\ [][Next]_vars

-----------------------------------------------------------------------------
(* Properties.                                                             *)

Texts(snapshots) == [n \in DOMAIN snapshots |-> snapshots[n].text]

\* Wherever the user has typed, every scanner of the program still agrees on what is
\* code (see SameCode).
EveryScanSeesTheSameCode ==
  [][\A t \in Tab : buffers'[t].text # buffers[t].text => SameCode(buffers'[t].text)]_vars

\* Whatever the user has made of a script, what is run is what is written (see
\* StatementsAreTheScript).
EveryRunIsTheScript ==
  [][\A t \in Tab : buffers'[t].text # buffers[t].text => StatementsAreTheScript(buffers'[t].text)]_vars

\* Whatever the user has made of a query, its result may be edited only where an edit
\* changes the cell it shows (see EditsLandOnTheirColumn).
EditsChangeWhatIsShown ==
  [][\A t \in Tab : buffers'[t].text # buffers[t].text =>
       EditsLandOnTheirColumn(buffers'[t].text, Schema, ResultNames)]_vars

\* The texts of a buffer from the oldest that can still be had to the newest.
Timeline(b) == Texts(b.undo) \o <<b.text>> \o Reverse(Texts(b.redo))

\* What a step may make of a buffer: it keeps the history, walks one text along the
\* timeline, or is an edit that one undo takes back.
OnTimeline(b, n) ==
  LET same   == n.text = b.text /\ n.undo = b.undo /\ n.redo = b.redo
      walked == Timeline(n) = Timeline(b) /\ Len(n.undo) \in {Len(b.undo) - 1, Len(b.undo) + 1}
      edited == /\ n.undo # <<>> /\ n.redo = <<>>
                /\ Undo(n).text = b.text /\ Undo(n).at = b.at
                /\ \/ n.undo = b.undo
                   \/ /\ Len(n.undo) = Min({Len(b.undo) + 1, UndoHistoryLimit})
                      /\ IsSuffix(Front(n.undo), b.undo)
  IN  same \/ walked \/ edited

\* Undo and redo walk to and fro on one line of texts and lose none of them; every
\* edit, whichever command makes it, is taken back as a whole and to its place by
\* one undo, leaves what came before it alone (but the oldest text at the limit of
\* the history) and ends what could be redone; nothing else touches the history.
UndoTimeline == [][\A t \in Tab : OnTimeline(buffers[t], buffers'[t])]_vars

\* What an answer may do to the texts.
WhereAsked ==
  (operation # NoOperation /\ operation' = NoOperation /\ Texts(buffers') # Texts(buffers)) =>
    LET asked == operation.asked
        b     == buffers[active]
        n     == buffers'[active]
    IN  /\ asked = CaptureEditorContext
        /\ \A t \in Tab \ {active} : buffers'[t] = buffers[t]
        /\ \E rest \in {Cursor(b), SelectionRange(b)[2]} :
             SubSeq(n.text, Cursor(n), Len(n.text)) = SubSeq(b.text, rest, Len(b.text))

\* What is completed or generated goes where it was asked for: an answer that comes
\* after the user has typed, moved the cursor, selected, switched the tab or the
\* focus changes no text, and one that comes in time changes the active tab around
\* its cursor only.
CompletionWhereAsked == [][WhereAsked]_vars

\* The cursor is put on an error only where the error is: whatever was run, from a
\* selection, from the middle of a line or as a script, the text around the cursor
\* is the text Oracle complained about, at the character it complained about,
\* however the editor has changed meanwhile.
ErrorsPointAtSource ==
  [][\A t \in Tab :
       LET d == diagnostics'[t]
           b == buffers'[t]
           fault == d.faults[d.index + 1]
       IN  (d # diagnostics[t] /\ d.index >= 0) => At(b.text, Cursor(b) - fault.at + 1, fault.text)]_vars

-----------------------------------------------------------------------------
(* What UndoTimeline, CompletionWhereAsked and ErrorsPointAtSource rest on.*)

Text  == Seq(STRING)
Place == Int \X Int
State == [text : Text, at : Place, anchor : Place]

\* A cursor is in its text, and the whole timeline within the limit.
BufferOK(b) ==
  /\ b \in [text : Text, at : Place, anchor : Place, undo : Seq(State), redo : Seq(State)]
  /\ InText(b.text, b.at)
  /\ Len(b.undo) + Len(b.redo) <= UndoHistoryLimit

\* A piece of SQL stands in the source at the place reported for it.
StandsAt(source, sql, place) ==
  \E q \in 1..Len(source) + 1 : At(source, q, sql) /\ place = TextIndexToPosition(source, q)

\* What runs is some of the source, as it was when it was sent.
OperationOK(o) ==
  \/ o = NoOperation
  \/ /\ o.kind \in {"execute", "explain"}
     /\ o.tab \in Tab /\ o.source \in Text /\ o.statements \in Seq([text : Text, place : Place])
     /\ \A n \in DOMAIN o.statements : StandsAt(o.source, o.statements[n].text, o.statements[n].place)
  \/ /\ o.kind \in {"metadata", "columns", "autocomplete-refresh", "schema-refresh"}
     /\ o.asked = [tab |-> o.asked.tab, text |-> o.asked.text, at |-> o.asked.at,
                   anchor |-> o.asked.anchor, focus |-> o.asked.focus]
     /\ o.kind = "columns" => \E table \in DOMAIN Schema : o.tables = {table}

\* A place of the source is where a character of what was sent stands.
PointsAt(source, fault, place) ==
  \E q \in 1..Len(source) : /\ At(source, q - fault.at + 1, fault.text)
                            /\ place = TextIndexToPosition(source, q)

\* Each diagnostic points at the character it is about.
DiagnosticsOK(d) ==
  /\ d \in [places : Seq(Place), index : Int, source : Text, faults : Seq([text : Text, at : Int])]
  /\ Len(d.faults) = Len(d.places) /\ d.index \in -1..Len(d.places) - 1
  /\ \A n \in DOMAIN d.places : PointsAt(d.source, d.faults[n], d.places[n])

EditorInvariant ==
  /\ plan \in Plans /\ active \in Tab /\ clipboard \in Text
  /\ DOMAIN buffers = Tab /\ DOMAIN diagnostics = Tab
  /\ \A t \in Tab : BufferOK(buffers[t]) /\ DiagnosticsOK(diagnostics[t])
  /\ OperationOK(operation)
=============================================================================
