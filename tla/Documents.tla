----------------------------- MODULE Documents -----------------------------
(***************************************************************************)
(* The tabs of the editor and the files they are saved to                  *)
(* (ui/documents.py, the file side of ui/buffer.py, and the atomic write   *)
(* of exporting.py).  Other programs write and delete the same files: while *)
(* a prompt waits for its answer, and between the last look at a target    *)
(* and its replacement.  A key is handled to its end, prompts included,    *)
(* before the next one, so there is at most one flow at a time.            *)
(***************************************************************************)
EXTENDS Integers, SequencesExt, Functions

CONSTANTS Path,            \* files (a path stands for the file it resolves to)
          Template,        \* templates; a tab made from one is found by its name
          Object,          \* schema objects; so is the tab of an object's source
          Text,            \* contents of a buffer
          Blank,           \* the empty text
          Foreign,         \* versions that other programs write
          MaxTabs,         \* bound on the open tabs
          UndoLimit,       \* UNDO_HISTORY_LIMIT
          MaxWrites        \* bound on what other programs do to the files

VARIABLES
  disk,      \* the files
  tabs,      \* state.tabs
  active,    \* state.active_tab_idx
  flow,      \* the save, close or quit that a key has started
  running,   \* state.application.running
  writes,    \* what other programs have done so far
  lost       \* history: a file was replaced that nobody agreed to replace

vars == <<disk, tabs, active, flow, running, writes, lost>>

\* A file holds a text in the form save writes (one line feed after each line)
\* or in another form that is read as the same lines.
Version == [text : Text, form : {"ours", "other"}]
Absent  == [text |-> Blank, form |-> "absent"]
NoPath  == "none"
Saved(text) == [text |-> text, form |-> "ours"]

SourceKey == Path \cup Template \cup Object \cup {NoPath}   \* source_key of a tab

ASSUME DocumentsAssumption == /\ Blank \in Text /\ NoPath \notin Path \cup Template \cup Object
                              /\ Path \cap (Template \cup Object) = {}
                              /\ Template \cap Object = {}
                              /\ Foreign \subseteq Version
                              /\ MaxTabs \in Nat \ {0} /\ UndoLimit \in Nat \ {0}
                              /\ MaxWrites \in Nat

\* The fields of a tab and its Buffer.  tracked is the version of the file
\* that was last loaded or saved; clean the text and path of that moment.
Snapshot == [text : Text, path : Path \cup {NoPath}]
Tab == [text : Text, path : Path \cup {NoPath}, key : SourceKey,
        clean : Snapshot, tracked : [path : Path \cup {NoPath}, version : Version \cup {Absent}],
        dirty : BOOLEAN, undo : Seq(Snapshot), redo : Seq(Snapshot)]
Untitled(text) ==
  [text |-> text, path |-> NoPath, key |-> NoPath, clean |-> [text |-> text, path |-> NoPath],
   tracked |-> [path |-> NoPath, version |-> Absent], dirty |-> FALSE, undo |-> <<>>, redo |-> <<>>]
Loaded(p) ==
  [text |-> disk[p].text, path |-> p, key |-> p, clean |-> [text |-> disk[p].text, path |-> p],
   tracked |-> [path |-> p, version |-> disk[p]], dirty |-> FALSE, undo |-> <<>>, redo |-> <<>>]

\* A flow: the prompt it waits at or the step of the save it has reached, the
\* target and the version of it last looked at, what it does when the save has
\* succeeded, the versions the user agreed to replace, the tabs the user gave
\* up, whether another program came in between look and replacement.
NoFlow == [at |-> "idle", rename |-> FALSE, target |-> NoPath, version |-> Absent, next |-> "stay",
           agreed |-> {}, givenUp |-> {}, back |-> 1, raced |-> FALSE]
FlowPoint == {"idle", "name", "overwrite", "changed", "write", "replace", "conflict", "dirty"}
Flow == [at : FlowPoint, rename : BOOLEAN, target : Path \cup {NoPath},
         version : Version \cup {Absent}, next : {"stay", "close", "quit"},
         agreed : SUBSET (Path \X (Version \cup {Absent})), givenUp : SUBSET (1..MaxTabs),
         back : 1..MaxTabs, raced : BOOLEAN]

\* The program has started: with the empty tab, or with the files of the last
\* session that can still be opened.
Init == /\ disk \in [Path -> Foreign \cup {Absent}]
        /\ \E n \in 0..MaxTabs :
             IF n = 0 THEN tabs = <<Untitled(Blank)>>
             ELSE \E paths \in {f \in [1..n -> Path] : IsInjective(f)} :
                    /\ \A i \in 1..n : disk[paths[i]] # Absent
                    /\ tabs = [i \in 1..n |-> Loaded(paths[i])]
        /\ active \in DOMAIN tabs
        /\ flow = NoFlow /\ running = TRUE
        /\ writes = 0 /\ lost = FALSE

-----------------------------------------------------------------------------
(* Helpers.                                                                *)

Current == tabs[active]
Keys(ks) == {i \in DOMAIN tabs : tabs[i].key \in ks}

\* Mutation: the marker is left as it was.
DirtyKept(tab) == tab

\* _refresh_dirty
Refreshed(tab) == [tab EXCEPT !.dirty = [text |-> tab.text, path |-> tab.path] # tab.clean]

Here(tab) == [text |-> tab.text, path |-> tab.path]

\* Mutation: the history is cut one record too late.
CappedLate(s) == IF Len(s) > UndoLimit + 1 THEN Tail(s) ELSE s

Capped(s) == IF Len(s) > UndoLimit THEN Tail(s) ELSE s

\* Mutation: the redo history keeps the identity it was recorded with.
RenamedUndoOnly(tab, p) ==
  [tab EXCEPT !.undo = [k \in DOMAIN tab.undo |-> [tab.undo[k] EXCEPT !.path = p]]]

\* _apply_saved_identity_to_history
HistoryRenamed(tab, p) ==
  [tab EXCEPT !.undo = [k \in DOMAIN tab.undo |-> [tab.undo[k] EXCEPT !.path = p]],
              !.redo = [k \in DOMAIN tab.redo |-> [tab.redo[k] EXCEPT !.path = p]]]

\* The end of Buffer.save and the new key of the tab.
SavedAs(tab, p) ==
  [HistoryRenamed(tab, p) EXCEPT !.path = p, !.key = p, !.dirty = FALSE,
                                 !.clean = [text |-> tab.text, path |-> p],
                                 !.tracked = [path |-> p, version |-> Saved(tab.text)]]

Idle == running /\ flow.at = "idle"

-----------------------------------------------------------------------------
(* Opening and editing.                                                    *)

Add(tab) == /\ Len(tabs) < MaxTabs
            /\ tabs' = Append(tabs, tab)
            /\ active' = Len(tabs) + 1

NewTab == /\ Idle
          /\ Add(Untitled(Blank))
          /\ UNCHANGED <<disk, flow, running, writes, lost>>

Sourced(key, text) == [Untitled(text) EXCEPT !.key = key]

\* A template is shown in a tab that still has it unchanged, or in a new one.
NewTemplate(t) ==
  /\ Idle
  /\ LET clean == {i \in Keys({t}) : ~tabs[i].dirty}
     IN  IF clean # {}
         THEN active' = Min(clean) /\ UNCHANGED tabs
         ELSE \E text \in Text : Add(Sourced(t, text))
  /\ UNCHANGED <<disk, flow, running, writes, lost>>

\* A file that is already open is shown, not loaded a second time.
OpenFile(p) ==
  /\ Idle
  /\ IF Keys({p}) # {}
     THEN active' \in Keys({p}) /\ UNCHANGED tabs
     ELSE disk[p] # Absent /\ Add(Loaded(p))
  /\ UNCHANGED <<disk, flow, running, writes, lost>>

SwitchTo(i) ==
  /\ Idle /\ i \in DOMAIN tabs \ {active}
  /\ active' = i
  /\ UNCHANGED <<disk, tabs, flow, running, writes, lost>>

Changed(tab) ==
  /\ Idle
  /\ tabs' = [tabs EXCEPT ![active] = tab]
  /\ UNCHANGED <<disk, active, flow, running, writes, lost>>

\* An edit is recorded for undo unless the last record is the same (cursor
\* and selection, left out here, may tell them apart).
Edit(text) ==
  /\ text # Current.text
  /\ \E undo \in {Capped(Append(Current.undo, Here(Current)))} \cup
                 {u \in {Current.undo} : u # <<>> /\ Last(u) = Here(Current)} :
       Changed(Refreshed([Current EXCEPT !.text = text, !.undo = undo, !.redo = <<>>]))

Restored(tab, s) == Refreshed([tab EXCEPT !.text = s.text, !.path = s.path])

Undo ==
  /\ Current.undo # <<>>
  /\ Changed(Restored([Current EXCEPT !.undo = Front(@), !.redo = Append(@, Here(Current))],
                      Last(Current.undo)))

Redo ==
  /\ Current.redo # <<>>
  /\ Changed(Restored([Current EXCEPT !.redo = Front(@), !.undo = Capped(Append(@, Here(Current)))],
                      Last(Current.redo)))

-----------------------------------------------------------------------------
(* How a flow ends: the save has succeeded, or failed or been cancelled.    *)

Stay == flow' = NoFlow /\ UNCHANGED <<tabs, active, running>>

\* The next tab that confirm_quit has to ask about, from tab i on.
AskFrom(i, ts) ==
  LET rest == {k \in DOMAIN ts : k >= i /\ ts[k].dirty}
  IN  IF rest = {} THEN 0 ELSE CHOOSE k \in rest : \A l \in rest : k <= l

\* All tabs are settled.  The question about pending work (not of this module)
\* may still stop the quit.
Quit(f) == active' = f.back /\ flow' = NoFlow /\ running' \in BOOLEAN

\* Mutation: quitting asks about the active tab only.
ContinueUnasked(ts, f) == tabs' = ts /\ Quit(f)

\* What follows a tab that was saved or given up, in close_active_tab and in
\* the loop of confirm_quit.
ContinueQuit(ts, f) ==
  /\ tabs' = ts
  /\ LET k == AskFrom(active + 1, ts)
     IN  IF k = 0 THEN Quit(f)
         ELSE /\ active' = k
              /\ flow' = [NoFlow EXCEPT !.at = "dirty", !.next = "quit", !.givenUp = f.givenUp,
                                        !.back = f.back]
              /\ UNCHANGED running

CloseActive(ts) ==
  LET left == RemoveAt(ts, active)
  IN  /\ tabs' = IF left = <<>> THEN <<Untitled(Blank)>> ELSE left
      /\ active' = IF left = <<>> THEN 1 ELSE IF active < Len(left) THEN active ELSE Len(left)
      /\ flow' = NoFlow
      /\ UNCHANGED running

Settled(ts, f) ==
  CASE f.next = "stay"  -> tabs' = ts /\ flow' = NoFlow /\ UNCHANGED <<active, running>>
    [] f.next = "close" -> CloseActive(ts)
    [] f.next = "quit"  -> ContinueQuit(ts, f)

\* Cancelled or failed: nothing is closed, and quit shows the first tab again.
Abandon ==
  /\ flow' = NoFlow
  /\ active' = IF flow.next = "quit" THEN flow.back ELSE active
  /\ UNCHANGED <<disk, tabs, running, writes, lost>>

-----------------------------------------------------------------------------
(* Saving.  A flow goes on at one of these points.                         *)

GoOn(f) == flow' = f /\ UNCHANGED <<disk, tabs, active, running, writes, lost>>

\* external_file_change
ExternallyChanged(tab) ==
  tab.path # NoPath /\ tab.tracked.path = tab.path /\ disk[tab.path] # tab.tracked.version

\* Save the active buffer: ask for a name, or look at its file first.
StartSave(f) ==
  LET p == Current.path
  IN  IF p = NoPath THEN [f EXCEPT !.at = "name"]
      ELSE [f EXCEPT !.target = p, !.version = disk[p],
                     !.at = IF ExternallyChanged(Current) THEN "changed" ELSE "write"]

Save == Idle /\ GoOn(StartSave(NoFlow))
Rename == Idle /\ GoOn([NoFlow EXCEPT !.at = "name", !.rename = TRUE])

\* The answer to "Save as" or "Rename as": not a file of another tab, and not
\* an existing file without a question.  Renaming to the same file saves it.
AnswerName(p) ==
  /\ flow.at = "name"
  /\ Keys({p}) \subseteq {active}
  /\ IF flow.rename /\ p = Current.path
     THEN GoOn([StartSave(flow) EXCEPT !.rename = FALSE])
     ELSE GoOn([flow EXCEPT !.rename = FALSE, !.target = p, !.version = disk[p],
                            !.at = IF disk[p] = Absent THEN "write" ELSE "overwrite"])

\* "Overwrite existing file?", "File changed on disk", "File changed before
\* save": the version agreed to is the one looked at before the question.
Agree == /\ flow.at \in {"overwrite", "changed", "conflict"}
         /\ GoOn([flow EXCEPT !.at = "write", !.agreed = @ \cup {<<flow.target, flow.version>>}])

SaveAsInstead == /\ flow.at \in {"changed", "conflict"}
                 /\ GoOn([flow EXCEPT !.at = "name", !.rename = FALSE])

\* No name, no agreement, a name that is open in another tab; an answer
\* nobody understands counts as no.
Cancel == flow.at \in {"name", "overwrite", "changed", "conflict", "dirty"} /\ Abandon

\* Mutation: the target is replaced without a last look.
WriteUnchecked == /\ flow.at = "write"
                  /\ GoOn([flow EXCEPT !.at = "replace", !.raced = FALSE])

\* The temporary file is written and the target looked at once more.
Write ==
  /\ flow.at = "write"
  /\ IF disk[flow.target] = flow.version
     THEN GoOn([flow EXCEPT !.at = "replace", !.raced = FALSE])
     ELSE GoOn([flow EXCEPT !.at = "conflict", !.version = disk[flow.target]])

\* os.replace, and what save_buffer does after it.
Replace ==
  LET p == flow.target
      ours == IF Current.tracked.path = p THEN {Current.tracked.version} ELSE {}
  IN  /\ flow.at = "replace"
      /\ disk' = [disk EXCEPT ![p] = Saved(Current.text)]
      /\ lost' = (lost \/ /\ disk[p] \notin {Absent} \cup ours
                          /\ <<p, disk[p]>> \notin flow.agreed
                          /\ ~flow.raced)
      /\ Settled([tabs EXCEPT ![active] = SavedAs(Current, p)], flow)
      /\ UNCHANGED writes

\* The temporary file cannot be written, or not be installed.
SaveFails == flow.at \in {"write", "replace"} /\ Abandon

-----------------------------------------------------------------------------
(* Closing and quitting.                                                   *)

CloseTab ==
  /\ Idle
  /\ IF Current.dirty
     THEN GoOn([NoFlow EXCEPT !.at = "dirty", !.next = "close"])
     ELSE CloseActive(tabs) /\ UNCHANGED <<disk, writes, lost>>

RequestQuit ==
  /\ Idle
  /\ LET k == AskFrom(1, tabs)
         f == [NoFlow EXCEPT !.next = "quit", !.back = active]
     IN  IF k = 0 THEN tabs' = tabs /\ Quit(f)
         ELSE /\ active' = k
              /\ flow' = [f EXCEPT !.at = "dirty"]
              /\ UNCHANGED <<tabs, running>>
  /\ UNCHANGED <<disk, writes, lost>>

\* "Save changes?": yes, or no.
AnswerYes == flow.at = "dirty" /\ GoOn(StartSave(flow))
AnswerNo  == /\ flow.at = "dirty"
             /\ Settled(tabs, [flow EXCEPT !.givenUp = @ \cup {active}])
             /\ UNCHANGED <<disk, writes, lost>>

\* Another program writes or deletes a file.
Elsewhere(p, v) ==
  /\ writes < MaxWrites
  /\ writes' = writes + 1
  /\ v # disk[p]
  /\ disk' = [disk EXCEPT ![p] = v]
  /\ flow' = IF flow.at = "replace" /\ flow.target = p THEN [flow EXCEPT !.raced = TRUE] ELSE flow
  /\ UNCHANGED <<tabs, active, running, lost>>

Next ==
  \/ NewTab \/ Undo \/ Redo
  \/ \E t \in Template : NewTemplate(t)
  \/ \E p \in Path : OpenFile(p) \/ AnswerName(p)
  \/ \E i \in 1..MaxTabs : SwitchTo(i)
  \/ \E text \in Text : Edit(text)
  \/ Save \/ Rename \/ Agree \/ SaveAsInstead \/ Cancel \/ Write \/ Replace \/ SaveFails
  \/ CloseTab \/ RequestQuit \/ AnswerYes \/ AnswerNo
  \/ \E p \in Path, v \in Foreign \cup {Absent} : Elsewhere(p, v)

Spec == Init /\ [][Next]_vars

-----------------------------------------------------------------------------
(* Properties.                                                             *)

TypeOK ==
  /\ disk \in [Path -> Version \cup {Absent}]
  /\ tabs \in Seq(Tab) /\ Len(tabs) \in 1..MaxTabs /\ active \in DOMAIN tabs
  /\ \A i \in DOMAIN tabs : Len(tabs[i].undo) <= UndoLimit /\ Len(tabs[i].redo) <= UndoLimit
  /\ flow \in Flow /\ running \in BOOLEAN /\ writes \in 0..MaxWrites /\ lost \in BOOLEAN

\* "detects when its file was changed or deleted outside plsqlwks and asks":
\* whatever another program does while prompts wait, save replaces only the
\* version the buffer was loaded from or saved as, or one that the user has
\* agreed to replace, unless it was written after the last look.
NothingOverwrittenUnseen == ~lost

\* "comparing the current content with the last successful save": a tab with a
\* file that is not marked as changed shows the text of the version it tracks,
\* through edits, undo, redo, renames and saves that fail.
CleanMeansSaved ==
  \A i \in DOMAIN tabs :
    LET tab == tabs[i]
    IN  tab.path # NoPath /\ ~tab.dirty =>
          tab.tracked.path = tab.path /\ tab.tracked.version.text = tab.text

\* A file, and the source of a schema object, is open in one tab only, the one
\* whose key names it: undo and redo across a save under another name do not
\* bring the old name back, and a definition that is still being loaded when
\* its object is asked for again is not opened twice.
OneTabPerFile ==
  \A i \in DOMAIN tabs :
    /\ \/ tabs[i].key = tabs[i].path
       \/ tabs[i].path = NoPath /\ tabs[i].key \in Template \cup Object
    /\ \A j \in DOMAIN tabs :
         i # j /\ tabs[i].key \in Path \cup Object => tabs[i].key # tabs[j].key

\* The program is not left with a changed tab that the user was not asked
\* about, although the answers to the other tabs save, rename and fail.
QuitAsksForEveryTab ==
  [][running /\ ~running' =>
       \A i \in DOMAIN tabs' : tabs'[i].dirty => i \in flow.givenUp \cup {active}]_vars

-----------------------------------------------------------------------------
(* The inductive invariant: what makes the properties above hold.          *)

\* What a tab remembers agrees with itself: every record of its history has
\* its file, the marker compares with the last load or save, the version it
\* tracks is the one of that moment, and its key is its file or its source.
Kept(tab) ==
  /\ Len(tab.undo) + Len(tab.redo) <= UndoLimit
  /\ \A k \in DOMAIN tab.undo : tab.undo[k].path = tab.path
  /\ \A k \in DOMAIN tab.redo : tab.redo[k].path = tab.path
  /\ tab.dirty = (Here(tab) # tab.clean)
  /\ tab.clean.path = tab.path
  /\ tab.path # NoPath => /\ tab.tracked.path = tab.path
                          /\ tab.tracked.version.text = tab.clean.text
  /\ \/ tab.key = tab.path
     \/ tab.path = NoPath /\ tab.key \in Template \cup Object

\* A file and an object's source have one tab.
Apart(ts) == \A i, j \in DOMAIN ts : i # j /\ ts[i].key \in Path \cup Object => ts[i].key # ts[j].key

TabsKept(ts) == /\ ts \in Seq(Tab) /\ Len(ts) \in 1..MaxTabs
                /\ \A i \in DOMAIN ts : Kept(ts[i])
                /\ Apart(ts)

\* Where a save has a target no other tab has it; what is about to be written
\* over is absent, agreed to or the version tracked, and still there unless
\* another program came in between; a quit has settled the tabs before the
\* active one.
Sound(f) ==
  /\ f.back \in DOMAIN tabs
  /\ f.at \in {"overwrite", "changed", "write", "replace", "conflict"} =>
       f.target \in Path /\ Keys({f.target}) \subseteq {active}
  /\ f.at \in {"write", "replace"} =>
       \/ f.version = Absent
       \/ <<f.target, f.version>> \in f.agreed
       \/ Current.tracked.path = f.target /\ Current.tracked.version = f.version
  /\ f.at = "replace" /\ ~f.raced => disk[f.target] = f.version
  /\ f.at # "idle" /\ f.next = "quit" =>
       \A i \in DOMAIN tabs : i < active /\ tabs[i].dirty => i \in f.givenUp

DocumentsInvariant == TabsKept(tabs) /\ Sound(flow) /\ ~lost
=============================================================================
