------------------------------- MODULE Screen -------------------------------
(***************************************************************************)
(* What the user sees and what a key acts on: the editor tabs of Documents, *)
(* the result pane and the schema browser on one terminal                  *)
(* (ui/input_controller.py, ui/viewport.py, ui/renderer.py, ui/browser.py, *)
(* ui/catalog.py, the keys of ui/result_controller.py and what             *)
(* ui/result_presenter.py does to focus and selection).  The event loop    *)
(* polls the database operation, prepares and draws a frame, waits for a   *)
(* key and handles it; a completion moves the focus, replaces results,     *)
(* browser entries and tabs.                                               *)
(*                                                                         *)
(* Rows and entries are counted from 0, tabs from 1.  Values of cells and  *)
(* insert drafts are the subject of ResultGrid, texts of EditorSession.    *)
(***************************************************************************)
EXTENDS Documents

CONSTANTS
  Names,          \* the schema objects, by name
  Types,          \* SCHEMA_OBJECT_TYPES
  TypeOf,         \* the type of each object
  Narrowed,       \* the objects that the names typed into the filter can match
  MaxFilter,      \* bound on the letters in the filter
  Height,         \* heights of the terminal, less the lines that show no rows
  MaxRows,        \* bound on the rows of a result
  None

ASSUME ScreenAssumption == /\ Names \in Seq(Object) /\ IsInjective(Names) /\ Range(Names) = Object
                           /\ Types \in Seq(Range(Types))
                           /\ TypeOf \in [Object -> Range(Types)]
                           /\ Narrowed \subseteq SUBSET Object
                           /\ Height \subseteq Nat \ {0} /\ Height # {}
                           /\ MaxRows \in Nat /\ MaxFilter \in Nat /\ None \notin Object

VARIABLES
  view,           \* focus, result_ratio, fullscreen grid, browser shown, terminal height
  panes,          \* ResultsState of each tab
  browser,        \* BrowserState
  load,           \* the database operation that runs, and the tab it was started from
  frame,          \* what the screen shows: the last frame drawn
  turn,           \* the event loop: about to draw, or waiting for a key
  did             \* history: what the last key acted on

screenVars == <<view, panes, browser, load, frame, turn, did>>
allVars == <<vars, screenVars>>

\* ResultsState of a tab: has it a table, with how many rows, can more be
\* fetched; a plan; lines of text; DBMS_OUTPUT, and is that shown first; row
\* detail instead of the table; the selected row, the first row on the screen
\* and result_page_size.
NoResults == [grid |-> FALSE, rows |-> 0, more |-> FALSE, explain |-> FALSE, text |-> FALSE,
              output |-> FALSE, shown |-> FALSE, detail |-> FALSE, sel |-> 0, scroll |-> 0, page |-> 10]
Idling == [kind |-> "none", tab |-> 1, object |-> None, row |-> 0]
Nothing == [kind |-> "nothing", entry |-> None, row |-> -1]

ScreenInit ==
  /\ Init
  /\ view = [focus |-> "editor", ratio |-> "split", full |-> FALSE, browser |-> FALSE,
             height |-> CHOOSE h \in Height : \A k \in Height : h <= k]
  /\ panes = [i \in DOMAIN tabs |-> [NoResults EXCEPT !.text = i = active]]
  /\ browser = [objects |-> {}, loaded |-> FALSE, expanded |-> {}, filter |-> <<>>,
                row |-> 0, scroll |-> 0, page |-> 10]
  /\ load = Idling /\ turn = "draw" /\ did = Nothing
  /\ frame = [editor |-> FALSE, browser |-> FALSE, entry |-> None, grid |-> FALSE,
              behind |-> FALSE, row |-> -1]

Busy == load.kind # "none"
Mine == panes[active]

-----------------------------------------------------------------------------
(* Lists that are scrolled.                                                *)

\* clamp_browser_row, clamp_result_position
ClampedRow(i, total) == IF total = 0 \/ i < 0 THEN 0 ELSE IF i >= total THEN total - 1 ELSE i

\* clamp_cell_view_scroll
ClampedScroll(i, total, visible) ==
  IF visible <= 0 \/ total <= visible \/ i < 0 THEN 0
  ELSE IF i > total - visible THEN total - visible ELSE i

\* The least scrolling that shows a row: ensure_browser_selection_visible.
Following(scroll, row, visible) ==
  IF row < scroll THEN row ELSE IF row >= scroll + visible THEN row - visible + 1 ELSE scroll

\* The row next to the window: what scrolling a window does to a selection.
Inside(row, scroll, visible, total) ==
  IF row < scroll THEN scroll
  ELSE IF row >= scroll + visible THEN ClampedRow(scroll + visible - 1, total) ELSE row

Larger(a, b) == IF a > b THEN a ELSE b

\* Mutation: the frame is scrolled, but not to the selection.
ScrollKept(sel, scroll, visible, total) == ClampedScroll(scroll, total, Larger(1, visible))

\* reveal_selection
Reveal(sel, scroll, visible, total) ==
  Following(ClampedScroll(scroll, total, Larger(1, visible)), sel, Larger(1, visible))

-----------------------------------------------------------------------------
(* Layout: build_layout_snapshot.                                          *)

GridAlone(v, p)    == v.full /\ p.grid
EditorAlone(v, p)  == ~GridAlone(v, p) /\ v.ratio = "editor"
EditorDrawn(v, p)  == EditorAlone(v, p) \/ (~GridAlone(v, p) /\ v.ratio = "split")
BrowserDrawn(v, p) == v.browser /\ ~GridAlone(v, p) /\ ~EditorAlone(v, p)

\* Rows of a grid that fit: fewer below an editor than on the whole screen.
GridRows(v, p) == IF EditorAlone(v, p) THEN 0
                  ELSE IF v.ratio = "split" THEN v.height - 1 ELSE v.height
BrowserRows(v, p) == IF GridAlone(v, p) \/ EditorAlone(v, p) THEN 0 ELSE v.height

\* draw_results: DBMS_OUTPUT first, then a plan, then the table, unless the
\* table has the screen to itself.
OutputFirst(p) == p.shown /\ p.output
GridDrawn(v, p) ==
  \/ GridAlone(v, p)
  \/ p.grid /\ ~EditorAlone(v, p) /\ ~p.explain /\ ~p.detail /\ ~OutputFirst(p)

-----------------------------------------------------------------------------
(* The schema browser: flatten_browser_entries and what moves in them.     *)

Matched(b) == IF b.filter = <<>> THEN b.objects ELSE b.objects \cap Last(b.filter)
Heading(t) == [type |-> t, object |-> None]
ByName(own) == SelectSeq(Names, LAMBDA o : o \in own)
Listed(b, t, own) ==
  IF own = {} /\ b.filter # <<>> THEN <<>>
  ELSE <<Heading(t)>> \o
       IF b.filter # <<>> \/ t \in b.expanded
       THEN [k \in 1..Cardinality(own) |-> [type |-> t, object |-> ByName(own)[k]]]
       ELSE <<>>
Entries(b) ==
  FlattenSeq([k \in DOMAIN Types |->
                Listed(b, Types[k], {o \in Matched(b) : TypeOf[o] = Types[k]})])
Size(b) == Len(Entries(b))

\* The first object in the list, or its top.
FirstObject(b) ==
  LET places == {k \in DOMAIN Entries(b) : Entries(b)[k].object # None}
  IN  IF places = {} THEN 0 ELSE Min(places) - 1

\* set_browser_filter, refreshed
Topmost(b) == [b EXCEPT !.row = IF b.filter = <<>> THEN 0 ELSE FirstObject(b), !.scroll = 0]
Filtered(b, filter) == Topmost([b EXCEPT !.filter = filter])
Reloaded(b) ==
  IF b.filter # <<>> THEN Topmost(b)
  ELSE [b EXCEPT !.row = ClampedRow(@, Size(b)), !.scroll = IF Size(b) = 0 THEN 0 ELSE @]

\* refreshed, of refresh_autocomplete_cache
Recached(b) == [b EXCEPT !.row = ClampedRow(@, Size(b))]

\* ensure_browser_selection_visible
Seen(b) == [b EXCEPT !.scroll = Following(@, b.row, b.page)]
MovedTo(b, row) == Seen([b EXCEPT !.row = ClampedRow(row, Size(b))])

\* toggle_browser_group
Toggled(b, t) ==
  LET c == [b EXCEPT !.expanded = IF t \in @ THEN @ \ {t} ELSE @ \cup {t}]
  IN  [c EXCEPT !.row = ClampedRow(@, Size(c))]

\* _prepare_browser, with the rows the layout leaves it
PreparedBrowser(b, visible) ==
  [b EXCEPT !.row = ClampedRow(@, Size(b)),
            !.scroll = Reveal(ClampedRow(b.row, Size(b)), @, visible, Size(b)),
            !.page = Larger(1, visible)]

\* The entry a browser highlights on a number of rows.
Highlighted(b, visible) ==
  IF b.row < Size(b) /\ b.row >= b.scroll /\ b.row < b.scroll + visible
  THEN Entries(b)[b.row + 1] ELSE None

-----------------------------------------------------------------------------
(* Results of a tab.                                                       *)

\* _clear_table_result_state, which every caller follows with new lines: row
\* detail and the page size stay
Cleared(p) == [NoResults EXCEPT !.text = TRUE, !.detail = p.detail, !.page = p.page]

\* clamp_result_selection
Clamped(p) == IF p.grid THEN [p EXCEPT !.sel = ClampedRow(@, p.rows), !.scroll = ClampedRow(@, p.rows)]
              ELSE [p EXCEPT !.sel = 0, !.scroll = 0]
Selecting(p, row) == Clamped([p EXCEPT !.sel = row])

\* _prepare_results: DBMS_OUTPUT and a plan leave the selection as it is, and
\* row detail shows one row.
PreparedPane(p, visible) ==
  IF OutputFirst(p) \/ p.explain \/ ~p.grid THEN p
  ELSE IF p.detail THEN [Clamped(p) EXCEPT !.page = Larger(1, visible)]
  ELSE LET c == Clamped(p)
       IN  [c EXCEPT !.scroll = Reveal(c.sel, @, visible, c.rows), !.page = Larger(1, visible)]

\* The selected row, if it is one of the rows drawn.
RowShown(p, visible) ==
  IF p.sel < p.rows /\ p.sel >= p.scroll /\ p.sel < p.scroll + visible THEN p.sel ELSE -1

-----------------------------------------------------------------------------
(* Drawing: prepare_frame and Renderer.draw, after which a key is awaited.  *)

Drawn(v, p, b) ==
  [editor  |-> EditorDrawn(v, p),
   browser |-> BrowserDrawn(v, p),
   entry   |-> Highlighted(b, BrowserRows(v, p)),
   grid    |-> GridDrawn(v, p) /\ GridRows(v, p) > 0 /\ p.rows > 0,
   behind  |-> p.detail \/ OutputFirst(p),
   row     |-> RowShown(p, GridRows(v, p))]

Draw ==
  /\ turn = "draw" /\ Idle
  /\ browser' = PreparedBrowser(browser, BrowserRows(view, Mine))
  /\ panes' = [panes EXCEPT ![active] = PreparedPane(@, GridRows(view, @))]
  /\ frame' = Drawn(view, panes'[active], browser')
  /\ turn' = "key" /\ did' = Nothing
  /\ UNCHANGED <<vars, view, load>>

\* The terminal is given another size: at any time, and unseen until the
\* next frame.
Resize == /\ view' \in {[view EXCEPT !.height = h] : h \in Height \ {view.height}}
          /\ UNCHANGED <<vars, panes, browser, load, frame, turn, did>>

\* read_key gives up after 200 ms.
NoKey == turn = "key" /\ turn' = "draw" /\ UNCHANGED <<vars, view, panes, browser, load, frame, did>>

-----------------------------------------------------------------------------
(* Keys.  Each is handled to its end, and a frame is drawn before the next. *)

AtKey == turn = "key" /\ Idle
Acts(what) == did' = what /\ turn' = "draw" /\ UNCHANGED frame
Shows(v, p) == view' = v /\ panes' = [panes EXCEPT ![active] = p]
Focus(f) == [view EXCEPT !.focus = f]

\* A key that changes the view and the results of the tab, and nothing else.
Key(v, p) == AtKey /\ Shows(v, p) /\ Acts(Nothing) /\ UNCHANGED <<vars, browser, load>>

\* F7: toggle_result_pane_size
TogglePaneSize ==
  \/ view.full /\ Key([Focus("editor") EXCEPT !.full = FALSE, !.ratio = "editor"], Mine)
  \/ ~view.full /\ view.ratio = "editor"
     /\ Key([view EXCEPT !.ratio = "split"], [Mine EXCEPT !.detail = FALSE])
  \/ ~view.full /\ view.ratio # "editor" /\ Mine.grid
     /\ Key([Focus("results") EXCEPT !.full = TRUE, !.ratio = "full"],
            [Mine EXCEPT !.shown = FALSE, !.detail = FALSE])
  \/ ~view.full /\ view.ratio # "editor" /\ ~Mine.grid
     /\ Key([Focus("editor") EXCEPT !.ratio = "editor"], Mine)

\* F6: toggle_dbms_output_view
ToggleOutput ==
  /\ Mine.output
  /\ IF Mine.shown THEN Key(view, [IF Mine.grid THEN Clamped(Mine) ELSE Mine EXCEPT !.shown = FALSE])
     ELSE Key(Focus("editor"), [Mine EXCEPT !.shown = TRUE])

\* F8: toggle_result_mode
ToggleDetail == /\ Mine.grid
                /\ Key(view, [Clamped(Mine) EXCEPT !.shown = FALSE, !.detail = ~@])

\* go_to_line, next_execution_diagnostic, from the commands menu
GoToLine == Key(Focus("editor"), Mine)

\* An error takes the place of the results: a script with client commands
\* (query_controller), a file that cannot be opened (documents).
Refuse == Key(Focus("editor"), Cleared(Mine))

\* F1: show_help
Help == Key(Focus("results"), Cleared(Mine))

\* enter_results_focus
EnterResults ==
  IF Mine.grid \/ Mine.explain
  THEN Key(Focus("results"), IF Mine.explain THEN [Mine EXCEPT !.shown = FALSE]
                             ELSE [Clamped(Mine) EXCEPT !.shown = FALSE])
  ELSE (OutputFirst(Mine) \/ Mine.text) /\ Key(Focus("results"), Mine)

\* scroll_focused_window: Ctrl-Up, Ctrl-Down; with a page, scroll_results_page
Scrolled(p, delta) ==
  IF OutputFirst(p) \/ p.explain \/ ~p.grid \/ p.detail THEN p
  ELSE LET scroll == ClampedScroll(p.scroll + delta, p.rows, p.page)
       IN  [p EXCEPT !.scroll = scroll, !.sel = Inside(ClampedRow(@, p.rows), scroll, p.page, p.rows)]
ScrollBrowser(delta) ==
  LET scroll == ClampedScroll(browser.scroll + delta, Size(browser), browser.page)
  IN  /\ AtKey /\ view.focus = "browser"
      /\ browser' = [browser EXCEPT !.scroll = scroll,
                                    !.row = Inside(ClampedRow(@, Size(browser)), scroll,
                                                   browser.page, Size(browser))]
      /\ Acts(Nothing) /\ UNCHANGED <<vars, view, panes, load>>
ScrollWindow(delta) ==
  \/ ScrollBrowser(delta)
  \/ /\ view.focus # "browser" /\ (view.focus = "results" \/ OutputFirst(Mine))
     /\ Key(view, Scrolled(Mine, delta))
  \/ /\ view.focus = "editor" /\ ~OutputFirst(Mine) /\ ~EditorDrawn(view, Mine)
     /\ Key(Focus("results"), Mine)

\* Ctrl-PageUp, Ctrl-PageDown on results; elsewhere they change tabs.
Scrollable == view.focus = "results" /\ (OutputFirst(Mine) \/ Mine.explain \/ Mine.grid \/ Mine.text)
ScrollPage(way) == Scrollable /\ Key(view, Scrolled(Mine, way * Mine.page))

\* What a change of tabs does to the focus: switch_to_tab, close_active_tab.
FocusAt(p) == IF view.focus = "results" /\ ~p.grid /\ ~p.explain THEN Focus("editor") ELSE view

\* Ctrl-PageUp, Ctrl-PageDown, Alt-1 to Alt-9
ChangeTab(i) ==
  /\ AtKey /\ SwitchTo(i)
  /\ view' = FocusAt(panes[i])
  /\ Acts(Nothing) /\ UNCHANGED <<panes, browser, load>>

\* Ctrl-T, F4, Ctrl-O: a new tab, or the one that already shows the source
OpenTab ==
  /\ AtKey /\ \/ NewTab
              \/ \E t \in Template : NewTemplate(t)
              \/ \E p \in Path : OpenFile(p)
  /\ view' = Focus("editor")
  /\ panes' = IF Len(tabs') > Len(tabs) THEN Append(panes, NoResults) ELSE panes
  /\ Acts(Nothing) /\ UNCHANGED <<browser, load>>

\* close_active_tab
Gone == /\ panes' = IF Len(tabs) = 1 THEN <<NoResults>> ELSE RemoveAt(panes, active)
        /\ view' = IF Len(tabs) = 1 THEN Focus("editor") ELSE FocusAt(panes'[active'])

\* Ctrl-W, Ctrl-S, Alt-R, Ctrl-Q: done at once, or a flow of questions is under
\* way until it ends.
Ends == IF flow'.at = "idle" THEN Acts(Nothing) ELSE UNCHANGED <<frame, turn, did>>
\* "Save changes?" shows the tab it asks about: switch_to_tab in confirm_dirty_tab.
Asked == IF flow'.at = "dirty" THEN FocusAt(panes[active']) ELSE view
CloseShown ==
  /\ AtKey /\ ~Busy /\ CloseTab
  /\ IF flow'.at = "idle" THEN Gone ELSE view' = Asked /\ UNCHANGED panes
  /\ Ends /\ UNCHANGED <<browser, load>>
SaveOrQuit ==
  /\ AtKey /\ (Save \/ Rename \/ (~Busy /\ RequestQuit))
  /\ view' = Asked
  /\ Ends /\ UNCHANGED <<panes, browser, load>>
Answer ==
  /\ \/ /\ SaveFails
        /\ view' = Focus("editor") /\ panes' = [panes EXCEPT ![active] = Cleared(@)]
     \/ /\ \/ Agree \/ SaveAsInstead \/ Cancel \/ Write \/ Replace \/ AnswerYes \/ AnswerNo
           \/ \E p \in Path : AnswerName(p)
        /\ IF flow.next = "close" /\ flow'.at = "idle" /\ tabs' # tabs THEN Gone
           ELSE view' = Asked /\ UNCHANGED panes
  /\ Ends /\ UNCHANGED <<browser, load>>

-----------------------------------------------------------------------------
(* Database operations: one at a time (reject_if_active).                  *)

Starts(kind, o) == load' = [Idling EXCEPT !.kind = kind, !.tab = active, !.object = o]

\* Run, explain, rollback, refresh_browser and refresh_autocomplete_cache: keys
\* of one pane, and the commands menu anywhere.
Start(kind) ==
  /\ AtKey /\ ~Busy /\ Starts(kind, None)
  /\ Acts(Nothing) /\ UNCHANGED <<vars, view, panes, browser>>

\* invalidate_results_after_rollback, in every tab; tab i is active.
Invalidated(i) ==
  /\ panes' = [k \in DOMAIN panes |->
                 [panes[k] EXCEPT !.grid = FALSE, !.rows = 0, !.more = FALSE, !.sel = 0, !.scroll = 0]]
  /\ view' = IF view.focus = "results" /\ ~panes[i].explain THEN Focus("editor") ELSE view

\* _start_connect: the results of the old session are dropped at once.
Reconnect ==
  /\ AtKey /\ ~Busy /\ Starts("connect", None)
  /\ Invalidated(active)
  /\ Acts(Nothing) /\ UNCHANGED <<vars, browser>>

\* F9: toggle_browser, which loads the objects the first time
ToggleBrowser ==
  /\ AtKey
  /\ view' = IF ~view.browser THEN [Focus("browser") EXCEPT !.browser = TRUE]
             ELSE IF view.focus = "browser" THEN [Focus("editor") EXCEPT !.browser = FALSE]
             ELSE Focus("browser")
  /\ IF view.browser \/ browser.loaded \/ Busy THEN UNCHANGED load ELSE Starts("objects", None)
  /\ Acts(Nothing) /\ UNCHANGED <<vars, panes, browser>>

-----------------------------------------------------------------------------
(* Keys that go to the pane with the focus.                                *)

\* Mutation: the editor gets its keys when it is not on the screen.
Unredirected == view.focus

\* handle_key after _redirect_fullscreen_editor_focus
Target == IF view.ratio = "full" /\ view.focus = "editor" THEN "results" ELSE view.focus

\* handle_browser_key
BrowserKey(b) == /\ AtKey /\ Target = "browser"
                 /\ browser' = b
                 /\ Acts(Nothing) /\ UNCHANGED <<vars, view, panes, load>>
LeaveBrowser == /\ Target = "browser" /\ browser.filter = <<>>
                /\ Key(Focus("editor"), Mine)
TypeFilter(found) ==
  /\ Len(browser.filter) < MaxFilter
  /\ found \subseteq IF browser.filter = <<>> THEN Object ELSE Last(browser.filter)
  /\ BrowserKey(Filtered(browser, Append(browser.filter, found)))
ShortenFilter == \* Backspace, or Esc for the whole filter
  /\ browser.filter # <<>>
  /\ \E rest \in {<<>>, Front(browser.filter)} : BrowserKey(Filtered(browser, rest))
MoveInBrowser(delta) == BrowserKey(MovedTo(browser, browser.row + delta))

Chosen == Entries(browser)[ClampedRow(browser.row, Size(browser)) + 1]

\* Space, or Enter on a heading
ToggleGroup ==
  /\ browser.filter = <<>> /\ Chosen.object = None
  /\ BrowserKey(Seen(Toggled(browser, Chosen.type)))

\* load_object_definition
LoadDefinition(o) == ~Busy /\ Starts("definition", o) /\ UNCHANGED <<vars, view>>

\* Mutation: an object is loaded although a tab shows it.
OpenAnyway(o) == LoadDefinition(o)

\* load_schema_object
Open(o) ==
  IF Keys({o}) # {}
  THEN /\ active' = Min(Keys({o})) /\ view' = Focus("editor")
       /\ UNCHANGED <<load, disk, tabs, flow, running, writes, lost>>
  ELSE LoadDefinition(o)

\* Enter on an object
OpenObject ==
  /\ AtKey /\ Target = "browser" /\ Size(browser) > 0
  /\ Chosen.object \in Object
  /\ Open(Chosen.object)
  /\ browser' = Seen([browser EXCEPT !.row = ClampedRow(@, Size(browser))])
  /\ Acts([Nothing EXCEPT !.kind = "opened", !.entry = Chosen])
  /\ UNCHANGED panes

\* handle_results_key
ResultsKey(f, p) == Target = "results" /\ Key(Focus(f), p)
LeaveResults == ResultsKey("editor", Mine)   \* Tab, Esc; any key where there is no table
MoveInResults(delta) ==
  /\ Mine.grid /\ ~Mine.explain
  /\ ResultsKey("results", Selecting(Mine, Mine.sel + delta))

\* handle_explain_results_key: scrolls the plan
MoveInPlan == Mine.explain /\ ResultsKey("results", Mine)

\* fetch_next_result_page_if_needed
FetchMore ==
  /\ Target = "results" /\ Mine.grid /\ ~Mine.explain /\ ~Mine.detail /\ Mine.more
  /\ Mine.sel + Mine.page >= Mine.rows
  /\ AtKey /\ ~Busy
  /\ load' = [Idling EXCEPT !.kind = "fetch", !.tab = active, !.row = Mine.sel + Mine.page]
  /\ view' = Focus("results")
  /\ Acts(Nothing) /\ UNCHANGED <<vars, panes, browser>>

\* Enter: edit_selected_result_cell
EditCell ==
  /\ AtKey /\ Target = "results" /\ ~Busy
  /\ Mine.grid /\ ~Mine.explain /\ Mine.rows > 0
  /\ view' = Focus("results")
  /\ Acts([Nothing EXCEPT !.kind = "cell", !.row = Mine.sel])
  /\ UNCHANGED <<vars, panes, browser, load>>

\* edit_key: text, Ctrl-Z, Ctrl-Y
TypeText ==
  /\ AtKey /\ Target = "editor"
  /\ \/ \E text \in Text : Edit(text)
     \/ Undo \/ Redo
  /\ Acts([Nothing EXCEPT !.kind = "typed"])
  /\ UNCHANGED <<view, panes, browser, load>>

\* The commands menu reaches the editor whatever is on the screen.
MenuEdit == /\ AtKey /\ (Undo \/ Redo)
            /\ Acts(Nothing) /\ UNCHANGED <<view, panes, browser, load>>

-----------------------------------------------------------------------------
(* Completions: poll and the handlers it calls, with the operation's tab    *)
(* active.                                                                 *)

Completes(kind) == /\ turn = "draw" /\ Idle /\ load.kind = kind
                   /\ load' = Idling
                   /\ UNCHANGED <<turn, frame, did>>
Its == panes[load.tab]
Puts(f, p) == /\ view' = Focus(f)
              /\ panes' = [panes EXCEPT ![load.tab] = p]
              /\ UNCHANGED <<vars, browser>>

\* render_results, handle_execution_error: results, or partial ones with the
\* error below them, or the error, which clears the table unless it was broken
\* off or its session is gone.
Rendered(p, grid, rows, output) ==
  [Cleared(p) EXCEPT !.grid = grid, !.rows = IF grid THEN rows ELSE 0, !.output = output]
RunCompletes ==
  /\ Completes("run")
  /\ \/ \E grid, output \in BOOLEAN, rows \in 0..MaxRows :
          \E p \in {Rendered(Its, grid, rows, output)} :
            \/ \E more \in {FALSE, grid} : Puts("editor", [p EXCEPT !.more = more, !.shown = output /\ ~grid])
            \/ Puts("editor", p)
     \/ Puts("editor", Cleared(Its))
     \/ \E output \in {Its.output, TRUE} :
          Its.grid /\ Puts("editor", [Its EXCEPT !.output = output, !.shown = FALSE])

\* show_explain_result, handle_explain_error
ExplainCompletes ==
  /\ Completes("explain")
  /\ \/ Puts("editor", [Its EXCEPT !.explain = TRUE, !.grid = FALSE, !.rows = 0, !.more = FALSE,
                                   !.output = FALSE, !.shown = FALSE, !.text = TRUE])
     \/ Puts("editor", Cleared(Its))
     \/ Its.grid /\ Puts("editor", Its)

\* apply_fetch_more_result, handle_fetch_more_error: the row asked for when the
\* fetch was started is selected, wherever the selection has gone meanwhile; a
\* table that help has dropped takes no rows.
FetchCompletes ==
  /\ Completes("fetch")
  /\ \E output \in {Its.output, TRUE} :
       \/ /\ Its.grid
          /\ \E rows \in Its.rows..MaxRows, more \in BOOLEAN :
               LET p == [Its EXCEPT !.rows = rows, !.more = more, !.output = output, !.shown = FALSE]
               IN  Puts("results", IF rows = 0 THEN p ELSE Selecting(p, load.row))
       \/ Its.grid /\ Puts("results", [Its EXCEPT !.more = FALSE, !.output = output])
       \/ ~Its.grid /\ Puts(view.focus, [Its EXCEPT !.output = output, !.text = @ \/ output])

\* rolled_back, connected, connect_failed; rollback_failed, which quit has keep
\* the table
RollbackCompletes ==
  /\ Completes("rollback")
  /\ \/ Invalidated(load.tab) /\ UNCHANGED <<vars, browser>>
     \/ Puts("editor", Cleared(Its))
     \/ Puts(view.focus, [Its EXCEPT !.text = TRUE])
ConnectCompletes ==
  /\ Completes("connect")
  /\ UNCHANGED <<vars, view, panes, browser>> \/ Puts("editor", Cleared(Its))

\* replace_schema_objects, and what refresh_browser or refresh_autocomplete_cache
\* makes of the list; or the error takes the place of the results.
ObjectsLoaded(kind) ==
  /\ Completes(kind)
  /\ \/ /\ \E found \in SUBSET Object :
             LET b == [browser EXCEPT !.objects = found, !.loaded = TRUE]
             IN  browser' = IF kind = "objects" THEN Reloaded(b)
                            ELSE Recached(b)
        /\ UNCHANGED <<vars, view, panes>>
     \/ Puts("editor", Cleared(Its))

\* loaded, load_failed of load_schema_object: the operation's tab stays active
DefinitionLoaded ==
  /\ Completes("definition")
  /\ \/ /\ \E text \in Text : Add(Sourced(load.object, text))
        /\ view' = Focus("editor")
        /\ panes' = Append(panes, NoResults)
        /\ UNCHANGED <<disk, flow, running, writes, lost, browser>>
     \/ /\ active' = load.tab
        /\ view' = Focus("editor")
        /\ panes' = [panes EXCEPT ![load.tab] = Cleared(@)]
        /\ UNCHANGED <<disk, tabs, flow, running, writes, lost, browser>>

-----------------------------------------------------------------------------
Moves(n) == {-n, n}

LayoutKey == \/ TogglePaneSize \/ ToggleBrowser
             \/ \E delta \in Moves(1) : ScrollWindow(delta)
DocumentKey == \/ OpenTab \/ CloseShown \/ SaveOrQuit \/ Answer
               \/ \E i \in 1..MaxTabs : ChangeTab(i)
TextKey == TypeText \/ MenuEdit
BrowserKeys ==
  \/ \E found \in Narrowed : TypeFilter(found)
  \/ ShortenFilter \/ LeaveBrowser \/ ToggleGroup \/ OpenObject
  \/ \E delta \in Moves(1) \cup Moves(browser.page) : MoveInBrowser(delta)
  \/ \E kind \in {"objects", "cache"} : Start(kind)
ResultKeys ==
  \/ ToggleOutput \/ ToggleDetail \/ Help \/ GoToLine \/ Refuse \/ Reconnect \/ EnterResults
  \/ LeaveResults \/ MoveInPlan \/ FetchMore \/ EditCell
  \/ \E delta \in Moves(1) \cup Moves(Mine.page) \cup Moves(MaxRows) : MoveInResults(delta)
  \/ \E way \in Moves(1) : ScrollPage(way)
  \/ \E kind \in {"run", "explain", "rollback"} : Start(kind)
SchemaCompletion == DefinitionLoaded \/ \E kind \in {"objects", "cache"} : ObjectsLoaded(kind)
QueryCompletion ==
  RunCompletes \/ ExplainCompletes \/ FetchCompletes \/ RollbackCompletes \/ ConnectCompletes
Others == /\ \E p \in Path, v \in Foreign \cup {Absent} : Elsewhere(p, v)
          /\ UNCHANGED screenVars

ScreenNext ==
  \/ Draw \/ Resize \/ NoKey \/ LayoutKey \/ DocumentKey \/ TextKey \/ BrowserKeys \/ ResultKeys
  \/ SchemaCompletion \/ QueryCompletion \/ Others
ScreenSpec == ScreenInit /\ [][ScreenNext]_allVars

-----------------------------------------------------------------------------
(* Properties.                                                             *)

\* "fullscreen results do not scroll or edit hidden editor"
\* (tests/test_ui_keys.py): whatever completions, layout keys and tab changes
\* did to the focus, a key typed into the text finds the editor on the screen;
\* Enter in a browser that is on the screen opens the entry it highlights; and
\* Enter in a table that is on the screen edits a row that can be seen there,
\* unless DBMS_OUTPUT or row detail is selected behind a table that has the
\* screen to itself, which then no longer follows its selection.
KeysActOnWhatIsShown ==
  /\ did.kind = "typed" => frame.editor
  /\ did.kind = "opened" /\ frame.browser => did.entry = frame.entry
  /\ did.kind = "cell" /\ frame.grid /\ ~frame.behind => did.row = frame.row

-----------------------------------------------------------------------------
(* What the documents rely on while the screen shows them, beside           *)
(* DocumentsInvariant: an operation keeps the tab it was started from, as   *)
(* no flow that closes a tab overlaps with one, and nobody else opens the   *)
(* source of an object while its definition is being loaded.               *)

LoadInvariant ==
  /\ Busy => load.tab \in DOMAIN tabs /\ (flow.at # "idle" => flow.next # "close")
  /\ load.kind = "definition" => load.object \in Object /\ Keys({load.object}) = {}
-----------------------------------------------------------------------------
(* The inductive invariant behind KeysActOnWhatIsShown.  result_ratio is    *)
(* "full" exactly while the table is to have the screen to itself; a tab    *)
(* has a table or a plan, not both; and whatever a key can act on, while    *)
(* one is awaited and no flow is under way, the last frame shows it.        *)

View == {v \in [focus : {"editor", "results", "browser"}, ratio : {"split", "editor", "full"},
                full : BOOLEAN, browser : BOOLEAN, height : Height] : v.full = (v.ratio = "full")}
Pane == {p \in [grid : BOOLEAN, rows : Nat, more : BOOLEAN, explain : BOOLEAN, text : BOOLEAN,
                output : BOOLEAN, shown : BOOLEAN, detail : BOOLEAN,
                sel : Int, scroll : Int, page : Int] : ~(p.grid /\ p.explain)}
BrowserFields == {"objects", "loaded", "expanded", "filter", "row", "scroll", "page"}
IsBrowser(b) == /\ DOMAIN b = BrowserFields /\ b.objects \subseteq Object
                /\ b.row \in Int /\ b.scroll \in Int /\ b.page \in Int

FrameKept ==
  AtKey => /\ frame.editor = EditorDrawn(view, Mine)
           /\ frame.browser /\ Size(browser) > 0 => frame.entry = Chosen
           /\ frame.grid /\ ~frame.behind => frame.row = Mine.sel

ScreenInvariant == /\ view \in View /\ panes \in Seq(Pane) /\ Len(panes) = Len(tabs)
                   /\ IsBrowser(browser) /\ load.row \in Int
                   /\ FrameKept /\ KeysActOnWhatIsShown
=============================================================================
