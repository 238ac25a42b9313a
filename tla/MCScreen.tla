------------------------------ MODULE MCScreen ------------------------------
(* A small instance of Screen, used in four ways: the files and tabs alone,   *)
(* which nothing on the screen changes; the schema browser beside the editor; *)
(* results of a tab; tabs opened, saved and closed while results are shown.   *)
EXTENDS Screen

CONSTANTS t1,                        \* a text that is not empty
          add, emp, tables, code, template

VARIABLE plan

ForeignVersions == {[text |-> t1, form |-> "other"]}
Interchangeable == Permutations(Path)
MCNames == <<add, emp>>
MCTypes == <<tables, code>>
MCTypeOf == (add :> code) @@ (emp :> tables)
MCNarrowed == {{add, emp}, {add}}

\* Other programs, and files of an earlier session, are met in the first plan.
MCInit ==
  /\ ScreenInit
  /\ plan \in {"documents", "browser", "results", "tabs"}
  /\ plan # "documents" => /\ \A p \in Path : disk[p] = Absent
                           /\ Len(tabs) = 1

Loop == Draw \/ NoKey

\* Definitions are not empty, and load from the first tab if they fail.
Browsing == /\ Loop \/ Resize \/ LayoutKey \/ BrowserKeys \/ SchemaCompletion
            /\ \A i \in DOMAIN tabs' : tabs'[i].key \in Object => tabs'[i].text = t1
            /\ \A i \in DOMAIN panes' : panes'[i].text = (i = 1)

Querying == Loop \/ Resize \/ LayoutKey \/ ResultKeys \/ QueryCompletion

\* Two tabs, one file, one tab with a source, one edited tab, one table of one row.
Few(holds(_), most) == Cardinality({i \in DOMAIN tabs' : holds(i)}) <= most
Managing ==
  /\ \/ Loop \/ TogglePaneSize \/ EnterResults \/ DocumentKey \/ TextKey
     \/ Start("run") \/ RunCompletes
  /\ Len(tabs') <= 2
  /\ Cardinality({p \in Path : disk'[p] # Absent}) <= 1
  /\ Few(LAMBDA i : tabs'[i].key # NoPath, 1)
  /\ Few(LAMBDA i : tabs'[i].undo \o tabs'[i].redo # <<>>, 1)
  /\ Few(LAMBDA i : tabs'[i].redo # <<>>, 2 - Len(tabs'))
  /\ Few(LAMBDA i : panes'[i].grid, 1)
  /\ \A i \in DOMAIN panes' : LET p == panes'[i] IN p.grid = (p.rows = 1) /\ ~p.output /\ ~p.more

\* Two tabs; nothing is shown, and templates are opened in the last plan only.
Filing == /\ Next /\ panes' = <<>>
          /\ UNCHANGED <<view, browser, load, frame, turn, did>>
          /\ \A i \in DOMAIN tabs' : tabs'[i].key \notin Template
          /\ Len(tabs') <= 2

MCNext ==
  /\ UNCHANGED plan
  /\ \/ plan = "documents" /\ Filing
     \/ plan = "browser" /\ Browsing
     \/ plan = "results" /\ Querying
     \/ plan = "tabs" /\ Managing

MCSpec == MCInit /\ [][MCNext]_<<allVars, plan>>
=============================================================================
