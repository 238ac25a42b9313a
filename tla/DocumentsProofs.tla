--------------------------- MODULE DocumentsProofs ---------------------------
(***************************************************************************)
(* Proofs about the tabs and the files they are saved to.  Each theorem is  *)
(* proved twice: of the documents alone, and of the whole screen, where     *)
(* definitions that have been loaded open tabs of their own.                *)
(***************************************************************************)
EXTENDS Screen, SequenceLemmas, FiniteSetTheorems, TLAPS

-----------------------------------------------------------------------------
(* Numbers, and sequences without one element.                             *)

\* A set of numbers has a least element: Min, and the CHOOSE of AskFrom, name one.
LEMMA Least ==
  ASSUME NEW T \in SUBSET Nat, T # {}
  PROVE  \E m \in T : \A k \in T : m <= k
<1> DEFINE Below == {1..k : k \in T}
<1>1. Below \subseteq FiniteSubsetsOf(Nat)
  <2>1. ASSUME NEW k \in T PROVE 1..k \in FiniteSubsetsOf(Nat)
    <3>1. k \in Nat /\ 1..k \subseteq Nat
      OBVIOUS
    <3>2. IsFiniteSet(1..k)
      BY <3>1, FS_Interval
    <3> QED BY <3>1, <3>2 DEF FiniteSubsetsOf
  <2> QED BY <2>1
<1>2. Below # {}
  OBVIOUS
<1>3. PICK least \in Below : \A b \in Below : <<b, least>> \notin StrictSubsetOrdering(Nat)
  <2> HIDE DEF Below
  <2> QED BY <1>1, <1>2, WFMin, FS_StrictSubsetOrderingWellFounded, Zenon
<1>4. PICK m \in T : least = 1..m
  OBVIOUS
<1>5. ASSUME NEW k \in T PROVE m <= k
  <2>1. SUFFICES ASSUME k < m PROVE FALSE
    OBVIOUS
  <2>2. 1..k \subseteq 1..m /\ m \in 1..m /\ m \notin 1..k
    BY <2>1
  <2>3. <<1..k, 1..m>> \in StrictSubsetOrdering(Nat)
    BY <2>2 DEF StrictSubsetOrdering
  <2> QED BY <1>3, <1>4, <2>3
<1> QED BY <1>5

\* Min returns an element of a set of numbers.
LEMMA MinIn ==
  ASSUME NEW T \in SUBSET Nat, T # {}
  PROVE  Min(T) \in T
BY Least DEF Min

\* RemoveAt closes the gap.
LEMMA RemoveAtProperties ==
  ASSUME NEW S, NEW s \in Seq(S), NEW i \in DOMAIN s
  PROVE  /\ RemoveAt(s, i) \in Seq(S)
         /\ Len(RemoveAt(s, i)) = Len(s) - 1
         /\ \A k \in 1..(Len(s) - 1) : RemoveAt(s, i)[k] = IF k < i THEN s[k] ELSE s[k + 1]
<1> DEFINE before == SubSeq(s, 1, i - 1)
           after  == SubSeq(s, i + 1, Len(s))
<1>1. Len(s) \in Nat /\ i \in 1..Len(s) /\ \A k \in 1..Len(s) : s[k] \in S
  BY LenProperties, ElementOfSeq
<1>2. /\ before \in Seq(S) /\ Len(before) = i - 1
      /\ \A k \in 1..(i - 1) : before[k] = s[k]
  <2>1. 1 \in Int /\ i - 1 \in Int /\ \A k \in 1..(i - 1) : s[k] \in S
    BY <1>1
  <2>2. /\ before \in Seq(S)
        /\ Len(before) = IF 1 <= i - 1 THEN i - 1 - 1 + 1 ELSE 0
        /\ \A k \in 1..(i - 1 - 1 + 1) : before[k] = s[1 + k - 1]
    BY <2>1, SubSeqProperties
  <2> QED BY <1>1, <2>2
<1>3. /\ after \in Seq(S) /\ Len(after) = Len(s) - i
      /\ \A k \in 1..(Len(s) - i) : after[k] = s[i + k]
  <2>1. i + 1 \in Int /\ Len(s) \in Int /\ \A k \in (i + 1)..Len(s) : s[k] \in S
    BY <1>1
  <2>2. /\ after \in Seq(S)
        /\ Len(after) = IF i + 1 <= Len(s) THEN Len(s) - (i + 1) + 1 ELSE 0
        /\ \A k \in 1..(Len(s) - (i + 1) + 1) : after[k] = s[i + 1 + k - 1]
    BY <2>1, SubSeqProperties
  <2> QED BY <1>1, <2>2
<1>4. RemoveAt(s, i) = before \o after
  BY DEF RemoveAt
<1>5. /\ before \o after \in Seq(S)
      /\ Len(before \o after) = Len(before) + Len(after)
      /\ \A k \in 1..(Len(before) + Len(after)) :
           (before \o after)[k] = IF k <= Len(before) THEN before[k] ELSE after[k - Len(before)]
  <2>1. before \in Seq(S) /\ after \in Seq(S)
    BY <1>2, <1>3
  <2> HIDE DEF before, after
  <2> QED BY <2>1, ConcatProperties
<1> HIDE DEF before, after
<1>6. ASSUME NEW k \in 1..(Len(s) - 1)
      PROVE  (before \o after)[k] = IF k < i THEN s[k] ELSE s[k + 1]
  <2>1. CASE k < i
    <3>1. k \in 1..(Len(before) + Len(after)) /\ k <= Len(before) /\ k \in 1..(i - 1)
      BY <1>1, <1>2, <1>3, <2>1
    <3> QED BY <1>2, <1>5, <2>1, <3>1
  <2>2. CASE ~(k < i)
    <3>1. /\ k \in 1..(Len(before) + Len(after)) /\ ~(k <= Len(before))
          /\ k - Len(before) = k - (i - 1) /\ k - (i - 1) \in 1..(Len(s) - i)
      BY <1>1, <1>2, <1>3, <2>2
    <3>2. (before \o after)[k] = after[k - (i - 1)]
      BY <1>5, <3>1
    <3>3. after[k - (i - 1)] = s[i + (k - (i - 1))]
      BY <1>3, <3>1
    <3>4. i + (k - (i - 1)) = k + 1
      BY <1>1
    <3> QED BY <2>2, <3>2, <3>3, <3>4
  <2> QED BY <2>1, <2>2
<1>7. PICK r : r = before \o after
  OBVIOUS
<1>8. Len(r) = Len(s) - 1
  BY <1>1, <1>2, <1>3, <1>5, <1>7
<1>9. RemoveAt(s, i) = r /\ r \in Seq(S)
  BY <1>4, <1>5, <1>7
<1>10. \A k \in 1..(Len(s) - 1) : r[k] = IF k < i THEN s[k] ELSE s[k + 1]
  BY <1>6, <1>7
<1> QED BY <1>8, <1>9, <1>10

\* Front and Last take a sequence apart.
LEMMA FrontLastProperties ==
  ASSUME NEW S, NEW s \in Seq(S), s # <<>>
  PROVE  /\ Front(s) \in Seq(S) /\ Len(Front(s)) = Len(s) - 1
         /\ \A k \in 1..(Len(s) - 1) : Front(s)[k] = s[k]
         /\ Len(s) \in DOMAIN s /\ Last(s) = s[Len(s)] /\ Last(s) \in S
<1>1. Len(s) \in Nat \ {0} /\ DOMAIN s = 1..Len(s) /\ \A k \in 1..Len(s) : s[k] \in S
  BY EmptySeq, LenProperties, ElementOfSeq
<1>2. 1 \in Int /\ Len(s) - 1 \in Int /\ \A k \in 1..(Len(s) - 1) : s[k] \in S
  BY <1>1
<1>3. /\ SubSeq(s, 1, Len(s) - 1) \in Seq(S)
      /\ Len(SubSeq(s, 1, Len(s) - 1)) = IF 1 <= Len(s) - 1 THEN Len(s) - 1 - 1 + 1 ELSE 0
      /\ \A k \in 1..(Len(s) - 1 - 1 + 1) : SubSeq(s, 1, Len(s) - 1)[k] = s[1 + k - 1]
  BY <1>2, SubSeqProperties
<1> QED BY <1>1, <1>3 DEF Front, Last

-----------------------------------------------------------------------------
(* Sequences of tabs.                                                      *)

\* A new tab is added: its key is not that of another.
LEMMA AppendKept ==
  ASSUME NEW ts, TabsKept(ts), Len(ts) < MaxTabs, NEW tab \in Tab, Kept(tab),
         tab.key \in Path \cup Object => \A i \in DOMAIN ts : ts[i].key # tab.key
  PROVE  /\ TabsKept(Append(ts, tab))
         /\ Len(Append(ts, tab)) = Len(ts) + 1
         /\ DOMAIN Append(ts, tab) = 1..(Len(ts) + 1)
<1>1. ts \in Seq(Tab) /\ Len(ts) \in Nat /\ DOMAIN ts = 1..Len(ts)
  BY LenProperties DEF TabsKept
<1>2. /\ Append(ts, tab) \in Seq(Tab)
      /\ Len(Append(ts, tab)) = Len(ts) + 1
      /\ \A i \in 1..Len(ts) : Append(ts, tab)[i] = ts[i]
      /\ Append(ts, tab)[Len(ts) + 1] = tab
  BY <1>1, AppendProperties
<1>3. DOMAIN Append(ts, tab) = 1..(Len(ts) + 1)
  BY <1>2, LenProperties
<1>4. \A i \in DOMAIN Append(ts, tab) : i \in DOMAIN ts \/ i = Len(ts) + 1
  BY <1>1, <1>3
<1>5. \A i \in DOMAIN Append(ts, tab) : Kept(Append(ts, tab)[i])
  BY <1>1, <1>2, <1>4 DEF TabsKept
<1>6. Apart(Append(ts, tab))
  BY <1>1, <1>2, <1>4 DEF TabsKept, Apart
<1> QED BY <1>1, <1>2, <1>3, <1>5, <1>6, DocumentsAssumption DEF TabsKept

\* A tab is changed: it keeps its key or takes one that no other tab has.
LEMMA ExceptKept ==
  ASSUME NEW ts, TabsKept(ts), NEW i \in DOMAIN ts, NEW tab \in Tab, Kept(tab),
         tab.key = ts[i].key \/ \A j \in DOMAIN ts \ {i} : ts[j].key # tab.key
  PROVE  /\ TabsKept([ts EXCEPT ![i] = tab])
         /\ Len([ts EXCEPT ![i] = tab]) = Len(ts)
         /\ DOMAIN [ts EXCEPT ![i] = tab] = DOMAIN ts
<1>1. ts \in Seq(Tab) /\ Len(ts) \in Nat /\ DOMAIN ts = 1..Len(ts)
  BY LenProperties DEF TabsKept
<1>2. [ts EXCEPT ![i] = tab] \in Seq(Tab) /\ Len([ts EXCEPT ![i] = tab]) = Len(ts)
  BY <1>1, ExceptSeq
<1>3. \A j \in DOMAIN ts : [ts EXCEPT ![i] = tab][j] = IF j = i THEN tab ELSE ts[j]
  OBVIOUS
<1>4. \A j \in DOMAIN ts : Kept([ts EXCEPT ![i] = tab][j])
  BY <1>3 DEF TabsKept
<1>5. Apart([ts EXCEPT ![i] = tab])
  BY <1>3 DEF TabsKept, Apart
<1> QED BY <1>1, <1>2, <1>4, <1>5 DEF TabsKept

\* A tab is closed: the others stay as they were.
LEMMA RemoveKept ==
  ASSUME NEW ts, TabsKept(ts), NEW i \in DOMAIN ts, RemoveAt(ts, i) # <<>>
  PROVE  /\ TabsKept(RemoveAt(ts, i)) /\ Len(RemoveAt(ts, i)) = Len(ts) - 1
         /\ \A k \in DOMAIN RemoveAt(ts, i) : \E j \in DOMAIN ts : RemoveAt(ts, i)[k] = ts[j]
<1> DEFINE left == RemoveAt(ts, i)
<1>1. ts \in Seq(Tab) /\ Len(ts) \in 1..MaxTabs /\ DOMAIN ts = 1..Len(ts)
  BY LenProperties DEF TabsKept
<1>2. /\ left \in Seq(Tab) /\ Len(left) = Len(ts) - 1
      /\ \A k \in 1..(Len(ts) - 1) : left[k] = IF k < i THEN ts[k] ELSE ts[k + 1]
  BY <1>1, RemoveAtProperties
<1> HIDE DEF left
<1>3. DOMAIN left = 1..(Len(ts) - 1) /\ Len(left) # 0
  <2>1. left # <<>>
    BY DEF left
  <2> QED BY <1>2, <2>1, LenProperties, EmptySeq
<1> DEFINE from(k) == IF k < i THEN k ELSE k + 1
<1>4. \A k \in DOMAIN left : from(k) \in DOMAIN ts /\ left[k] = ts[from(k)]
  BY <1>1, <1>2, <1>3
<1>5. \A k, l \in DOMAIN left : k # l => from(k) # from(l)
  BY <1>1, <1>3
<1> HIDE DEF from
<1>6. \A k \in DOMAIN left : Kept(left[k])
  BY <1>4 DEF TabsKept
<1>7. Apart(left)
  BY <1>4, <1>5 DEF TabsKept, Apart
<1>8. Len(left) \in 1..MaxTabs
  BY <1>1, <1>2, <1>3, DocumentsAssumption
<1>9. /\ TabsKept(left) /\ Len(left) = Len(ts) - 1
      /\ \A k \in DOMAIN left : \E j \in DOMAIN ts : left[k] = ts[j]
  BY <1>2, <1>4, <1>6, <1>7, <1>8 DEF TabsKept
<1> QED BY <1>9 DEF left

-----------------------------------------------------------------------------
(* Tabs: what each operation of the editor makes of one.                   *)

USE DocumentsAssumption

\* An untitled tab, and one with a source, remembers what it shows.
LEMMA UntitledKept ==
  ASSUME NEW text \in Text
  PROVE  /\ Untitled(text) \in Tab /\ Kept(Untitled(text))
         /\ Untitled(text).key = NoPath /\ ~Untitled(text).dirty
<1>1. <<>> \in Seq(Snapshot) /\ Len(<<>>) = 0 /\ DOMAIN <<>> = {}
  BY EmptySeq
<1>2. [text |-> text, path |-> NoPath] \in Snapshot
  BY DEF Snapshot
<1>3. Untitled(text) \in Tab
  BY <1>1, <1>2 DEF Untitled, Tab, SourceKey
<1>4. Kept(Untitled(text))
  <2> DEFINE tab == Untitled(text)
  <2>1. /\ tab.undo = <<>> /\ tab.redo = <<>> /\ tab.path = NoPath /\ tab.key = NoPath
        /\ tab.dirty = FALSE /\ tab.clean.path = NoPath /\ Here(tab) = tab.clean
    BY DEF Untitled, Here
  <2> HIDE DEF tab
  <2>2. Len(tab.undo) + Len(tab.redo) <= UndoLimit
    BY <1>1, <2>1
  <2>3. tab.dirty = (Here(tab) # tab.clean)
    BY <2>1, Zenon
  <2>4. DOMAIN tab.undo = {} /\ DOMAIN tab.redo = {}
    BY <1>1, <2>1
  <2>5. Kept(tab)
    BY <2>1, <2>2, <2>3, <2>4 DEF Kept
  <2> QED BY <2>5 DEF tab
<1> QED BY <1>3, <1>4 DEF Untitled

\* So does the tab of a template or of an object.
LEMMA SourcedKept ==
  ASSUME NEW text \in Text, NEW key \in Template \cup Object
  PROVE  Sourced(key, text) \in Tab /\ Kept(Sourced(key, text)) /\ Sourced(key, text).key = key
<1>1. /\ Untitled(text) \in Tab /\ Kept(Untitled(text))
      /\ Untitled(text).path = NoPath
  BY UntitledKept DEF Untitled
<1>2. Sourced(key, text) \in Tab /\ Sourced(key, text).key = key
  BY <1>1 DEF Sourced, Tab, SourceKey
<1> QED BY <1>1, <1>2 DEF Sourced, Kept, Here, Tab

\* A tab that was loaded tracks what it was loaded from.
LEMMA LoadedKept ==
  ASSUME disk \in [Path -> Version \cup {Absent}], NEW p \in Path
  PROVE  Loaded(p) \in Tab /\ Kept(Loaded(p)) /\ Loaded(p).key = p
<1>1. <<>> \in Seq(Snapshot) /\ Len(<<>>) = 0 /\ DOMAIN <<>> = {}
  BY EmptySeq
<1>2. disk[p] \in Version \cup {Absent} /\ disk[p].text \in Text
  BY DEF Version, Absent
<1>3. [text |-> disk[p].text, path |-> p] \in Snapshot
  BY <1>2 DEF Snapshot
<1>4. [path |-> p, version |-> disk[p]]
        \in [path : Path \cup {NoPath}, version : Version \cup {Absent}]
  BY <1>2
<1>5. Loaded(p) \in Tab
  BY <1>1, <1>2, <1>3, <1>4 DEF Loaded, Tab, SourceKey
<1>6. Kept(Loaded(p))
  <2> DEFINE tab == Loaded(p)
  <2>1. /\ tab.undo = <<>> /\ tab.redo = <<>> /\ tab.path = p /\ tab.key = p
        /\ tab.dirty = FALSE /\ tab.clean.path = p /\ Here(tab) = tab.clean
        /\ tab.tracked.path = p /\ tab.tracked.version.text = tab.clean.text
    BY DEF Loaded, Here
  <2> HIDE DEF tab
  <2>2. Len(tab.undo) + Len(tab.redo) <= UndoLimit
    BY <1>1, <2>1
  <2>3. tab.dirty = (Here(tab) # tab.clean)
    BY <2>1, Zenon
  <2>4. DOMAIN tab.undo = {} /\ DOMAIN tab.redo = {}
    BY <1>1, <2>1
  <2>5. Kept(tab)
    BY <2>1, <2>2, <2>3, <2>4 DEF Kept
  <2> QED BY <2>5 DEF tab
<1> QED BY <1>5, <1>6 DEF Loaded

\* The records of a history, with the path of a file.
Of(s, p) == s \in Seq(Snapshot) /\ \A k \in DOMAIN s : s[k].path = p

\* A history that takes another file's name keeps its length.
LEMMA HistoryTakesName ==
  ASSUME NEW s \in Seq(Snapshot), NEW p \in Path
  PROVE  LET renamed == [k \in DOMAIN s |-> [s[k] EXCEPT !.path = p]]
         IN  Of(renamed, p) /\ Len(renamed) = Len(s)
<1> DEFINE renamed == [k \in DOMAIN s |-> [s[k] EXCEPT !.path = p]]
<1>1. Len(s) \in Nat /\ DOMAIN s = 1..Len(s) /\ \A k \in 1..Len(s) : s[k] \in Snapshot
  BY LenProperties, ElementOfSeq
<1>2. \A k \in 1..Len(s) : [s[k] EXCEPT !.path = p] \in Snapshot
  BY <1>1 DEF Snapshot
<1>3. renamed \in [1..Len(s) -> Snapshot]
  BY <1>1, <1>2
<1>4. renamed \in Seq(Snapshot)
  BY <1>1, <1>3, SeqDef
<1>5. Len(renamed) = Len(s)
  <2>1. Len(renamed) \in Nat /\ DOMAIN renamed = 1..Len(renamed)
    BY <1>4, LenProperties
  <2>2. DOMAIN renamed = 1..Len(s)
    BY <1>1
  <2> QED BY <1>1, <2>1, <2>2
<1>6. \A k \in DOMAIN renamed : renamed[k].path = p
  BY <1>1 DEF Snapshot
<1> QED BY <1>4, <1>5, <1>6 DEF Of

\* One more record, and the cut at the limit.
LEMMA HistoryGrows ==
  ASSUME NEW p, NEW s, Of(s, p), NEW record \in Snapshot, record.path = p
  PROVE  /\ Of(Append(s, record), p) /\ Len(Append(s, record)) = Len(s) + 1
         /\ Of(Capped(Append(s, record)), p)
         /\ Len(Capped(Append(s, record))) <= Len(s) + 1
         /\ Len(s) <= UndoLimit => Len(Capped(Append(s, record))) <= UndoLimit
<1> DEFINE longer == Append(s, record)
<1>1. Len(s) \in Nat /\ DOMAIN s = 1..Len(s)
  BY LenProperties DEF Of
<1>2. /\ longer \in Seq(Snapshot) /\ Len(longer) = Len(s) + 1
      /\ \A k \in 1..Len(s) : longer[k] = s[k]
      /\ longer[Len(s) + 1] = record /\ longer # <<>>
  BY AppendProperties DEF Of
<1>3. DOMAIN longer = 1..(Len(s) + 1)
  BY <1>2, LenProperties
<1>4. Of(longer, p)
  BY <1>1, <1>2, <1>3 DEF Of
<1> HIDE DEF longer
<1>5. /\ Of(Tail(longer), p) /\ Len(Tail(longer)) = Len(s)
  <2>1. /\ Tail(longer) \in Seq(Snapshot) /\ Len(Tail(longer)) = Len(longer) - 1
        /\ \A k \in 1..Len(Tail(longer)) : Tail(longer)[k] = longer[k + 1]
    BY <1>2, HeadTailProperties
  <2>2. DOMAIN Tail(longer) = 1..Len(s)
    BY <1>1, <1>2, <2>1, LenProperties
  <2> QED BY <1>1, <1>2, <1>3, <1>4, <2>1, <2>2 DEF Of
<1>6. Of(Capped(longer), p) /\ Len(Capped(longer)) <= Len(s) + 1
  BY <1>1, <1>2, <1>4, <1>5 DEF Capped
<1>7. Len(s) <= UndoLimit => Len(Capped(longer)) <= UndoLimit
  BY <1>1, <1>2, <1>5 DEF Capped
<1> QED BY <1>2, <1>4, <1>6, <1>7 DEF longer

\* One record less.
LEMMA HistoryShrinks ==
  ASSUME NEW p, NEW s, Of(s, p), s # <<>>
  PROVE  /\ Of(Front(s), p) /\ Len(Front(s)) = Len(s) - 1
         /\ Last(s) \in Snapshot /\ Last(s).path = p
<1>1. /\ Front(s) \in Seq(Snapshot) /\ Len(Front(s)) = Len(s) - 1
      /\ \A k \in 1..(Len(s) - 1) : Front(s)[k] = s[k]
      /\ Len(s) \in DOMAIN s /\ Last(s) = s[Len(s)] /\ Last(s) \in Snapshot
  BY FrontLastProperties DEF Of
<1>2. DOMAIN Front(s) = 1..(Len(s) - 1) /\ DOMAIN s = 1..Len(s) /\ Len(s) \in Nat
  BY <1>1, LenProperties DEF Of
<1> QED BY <1>1, <1>2 DEF Of

\* An edit, undo or redo leaves the identity of a tab alone.
LEMMA EditKept ==
  ASSUME NEW tab \in Tab, Kept(tab), NEW edited \in Tab,
         edited.path = tab.path, edited.key = tab.key, edited.clean = tab.clean,
         edited.tracked = tab.tracked,
         Of(edited.undo, tab.path), Of(edited.redo, tab.path),
         Len(edited.undo) + Len(edited.redo) <= UndoLimit,
         edited.dirty = ([text |-> edited.text, path |-> edited.path] # edited.clean)
  PROVE  Kept(edited)
BY DEF Kept, Here, Of

\* The histories of a tab.
LEMMA Histories ==
  ASSUME NEW tab \in Tab, Kept(tab)
  PROVE  /\ Of(tab.undo, tab.path) /\ Of(tab.redo, tab.path)
         /\ Len(tab.undo) \in Nat /\ Len(tab.redo) \in Nat
         /\ Len(tab.undo) + Len(tab.redo) <= UndoLimit
         /\ Here(tab) \in Snapshot /\ Here(tab).path = tab.path
<1>1. /\ tab.undo \in Seq(Snapshot) /\ tab.redo \in Seq(Snapshot)
      /\ tab.text \in Text /\ tab.path \in Path \cup {NoPath}
  BY DEF Tab
<1>2. Len(tab.undo) \in Nat /\ Len(tab.redo) \in Nat
  BY <1>1, LenProperties
<1>3. Here(tab) \in Snapshot /\ Here(tab).path = tab.path
  BY <1>1 DEF Here, Snapshot
<1> QED BY <1>1, <1>2, <1>3 DEF Kept, Of

\* A tab that was saved is clean, tracks what was written and has the key of
\* its file.
LEMMA SavedKept ==
  ASSUME NEW tab \in Tab, Kept(tab), NEW p \in Path
  PROVE  /\ SavedAs(tab, p) \in Tab /\ Kept(SavedAs(tab, p))
         /\ SavedAs(tab, p).key = p /\ ~SavedAs(tab, p).dirty
<1> DEFINE named(s) == [k \in DOMAIN s |-> [s[k] EXCEPT !.path = p]]
           saved == SavedAs(tab, p)
<1>1. /\ Of(tab.undo, tab.path) /\ Of(tab.redo, tab.path)
      /\ Len(tab.undo) + Len(tab.redo) <= UndoLimit
  BY Histories
<1>2. /\ Of(named(tab.undo), p) /\ Len(named(tab.undo)) = Len(tab.undo)
      /\ Of(named(tab.redo), p) /\ Len(named(tab.redo)) = Len(tab.redo)
  BY <1>1, HistoryTakesName DEF Of
<1>3. saved = [tab EXCEPT !.undo = named(tab.undo), !.redo = named(tab.redo),
                          !.path = p, !.key = p, !.dirty = FALSE,
                          !.clean = [text |-> tab.text, path |-> p],
                          !.tracked = [path |-> p, version |-> Saved(tab.text)]]
  BY DEF SavedAs, HistoryRenamed, Tab
<1> HIDE DEF named, saved
<1>4. tab.text \in Text /\ Saved(tab.text) \in Version /\ [text |-> tab.text, path |-> p] \in Snapshot
  BY DEF Tab, Saved, Version, Snapshot
<1>5. /\ saved.text = tab.text /\ saved.path = p /\ saved.key = p /\ saved.dirty = FALSE
      /\ saved.clean = [text |-> tab.text, path |-> p]
      /\ saved.tracked = [path |-> p, version |-> Saved(tab.text)]
      /\ saved.undo = named(tab.undo) /\ saved.redo = named(tab.redo)
  BY <1>3 DEF Tab
<1>6. saved \in Tab
  BY <1>2, <1>3, <1>4 DEF Tab, SourceKey, Of
<1>7. Kept(saved)
  <2>1. Len(saved.undo) + Len(saved.redo) <= UndoLimit
    BY <1>1, <1>2, <1>5
  <2>2. /\ \A k \in DOMAIN saved.undo : saved.undo[k].path = saved.path
        /\ \A k \in DOMAIN saved.redo : saved.redo[k].path = saved.path
    BY <1>2, <1>5 DEF Of
  <2>3. Here(saved) = saved.clean /\ saved.clean.path = saved.path
    BY <1>5 DEF Here
  <2>4. saved.dirty = (Here(saved) # saved.clean)
    BY <1>5, <2>3, Zenon
  <2>5. saved.tracked.path = saved.path /\ saved.tracked.version.text = saved.clean.text
    BY <1>5 DEF Saved
  <2> QED BY <1>5, <2>1, <2>2, <2>3, <2>4, <2>5 DEF Kept
<1> QED BY <1>5, <1>6, <1>7 DEF saved

-----------------------------------------------------------------------------
(* Flows: how they go on, and how they end.                                *)

Good == TypeOK /\ DocumentsInvariant

\* What a state with good tabs and no question open has to show.
LEMMA AtRest ==
  ASSUME TabsKept(tabs'), active' \in DOMAIN tabs', ~lost', lost' \in BOOLEAN,
         disk' \in [Path -> Version \cup {Absent}], running' \in BOOLEAN, writes' \in 0..MaxWrites,
         flow' \in Flow, Sound(flow)'
  PROVE  Good'
<1>1. \A i \in DOMAIN tabs' : Len(tabs'[i].undo) <= UndoLimit /\ Len(tabs'[i].redo) <= UndoLimit
  <2>1. TAKE i \in DOMAIN tabs'
  <2>2. tabs'[i] \in Tab /\ Kept(tabs'[i])
    BY LenProperties, ElementOfSeq DEF TabsKept
  <2>3. /\ Len(tabs'[i].undo) \in Nat /\ Len(tabs'[i].redo) \in Nat
        /\ Len(tabs'[i].undo) + Len(tabs'[i].redo) <= UndoLimit
    BY <2>2, Histories
  <2>4. \A a, b \in Nat : a + b <= UndoLimit => a <= UndoLimit /\ b <= UndoLimit
    OBVIOUS
  <2> QED BY <2>3, <2>4
<1>2. TypeOK'
  BY <1>1 DEF TypeOK, TabsKept
<1>3. DocumentsInvariant'
  BY DEF DocumentsInvariant
<1> QED BY <1>2, <1>3 DEF Good

\* NoFlow is a flow that asks nothing.
LEMMA NoFlowSound ==
  /\ NoFlow \in Flow /\ NoFlow.at = "idle" /\ NoFlow.next = "stay" /\ NoFlow.back = 1
  /\ 1 \in DOMAIN tabs => Sound(NoFlow)
BY DEF NoFlow, Flow, FlowPoint, Sound

\* The tabs and the active one, in a good state.
LEMMA TheTabs ==
  ASSUME Good
  PROVE  /\ tabs \in Seq(Tab) /\ Len(tabs) \in 1..MaxTabs /\ DOMAIN tabs = 1..Len(tabs)
         /\ active \in DOMAIN tabs /\ 1 \in DOMAIN tabs
         /\ \A i \in DOMAIN tabs : tabs[i] \in Tab /\ Kept(tabs[i])
         /\ Current \in Tab /\ Kept(Current) /\ TabsKept(tabs) /\ Sound(flow)
<1>1. tabs \in Seq(Tab) /\ Len(tabs) \in 1..MaxTabs /\ active \in DOMAIN tabs
  BY DEF Good, TypeOK
<1>2. DOMAIN tabs = 1..Len(tabs) /\ \A i \in 1..Len(tabs) : tabs[i] \in Tab
  BY <1>1, LenProperties, ElementOfSeq
<1>3. TabsKept(tabs) /\ Sound(flow)
  BY DEF Good, DocumentsInvariant
<1> QED BY <1>1, <1>2, <1>3 DEF TabsKept, Current

\* A flow goes on to a sound point.
LEMMA GoOnKeeps ==
  ASSUME Good, NEW f \in Flow, Sound(f), GoOn(f)
  PROVE  Good'
BY DEF Good, GoOn, TypeOK, DocumentsInvariant, TabsKept, Sound, Keys, Current

\* A save starts: with a name to be asked for, or with the file of the tab,
\* which no other tab has, in the version the tab tracks or with a question.
LEMMA StartSaveSound ==
  ASSUME Good, NEW f \in Flow, f.back \in DOMAIN tabs,
         f.next = "quit" => \A i \in DOMAIN tabs : i < active /\ tabs[i].dirty => i \in f.givenUp
  PROVE  StartSave(f) \in Flow /\ Sound(StartSave(f)) /\ StartSave(f).next = f.next
<1>1. Current \in Tab /\ Kept(Current) /\ active \in DOMAIN tabs /\ TabsKept(tabs)
  BY TheTabs
<1>2. CASE Current.path = NoPath
  <2>1. StartSave(f) = [f EXCEPT !.at = "name"]
    BY <1>2 DEF StartSave
  <2> QED BY <2>1 DEF Flow, FlowPoint, Sound
<1>3. CASE Current.path # NoPath
  <2> DEFINE p == Current.path
             at == IF ExternallyChanged(Current) THEN "changed" ELSE "write"
             g == [f EXCEPT !.target = p, !.version = disk[p], !.at = at]
  <2>1. StartSave(f) = g
    BY <1>3 DEF StartSave
  <2>2. p \in Path /\ disk[p] \in Version \cup {Absent}
    BY <1>1, <1>3 DEF Tab, Good, TypeOK
  <2>3. at \in {"changed", "write"} /\ at \in FlowPoint
    BY DEF FlowPoint
  <2>4. at = "write" => Current.tracked.path = p /\ Current.tracked.version = disk[p]
    BY <1>1, <1>3 DEF ExternallyChanged, Kept
  <2>5. Keys({p}) \subseteq {active}
    <3>1. Current.key = p
      BY <1>1, <1>3 DEF Kept
    <3> QED BY <1>1, <2>2, <3>1 DEF Keys, TabsKept, Apart, Current
  <2> HIDE DEF at, p
  <2>6. /\ g \in Flow /\ g.target = p /\ g.version = disk[p] /\ g.at = at /\ g.back = f.back
        /\ g.next = f.next /\ g.givenUp = f.givenUp
    BY <2>2, <2>3 DEF Flow
  <2> HIDE DEF g
  <2>7. Sound(g)
    BY <2>2, <2>3, <2>4, <2>5, <2>6 DEF Sound
  <2> QED BY <2>1, <2>6, <2>7
<1> QED BY <1>2, <1>3

\* AskFrom finds the first changed tab.
LEMMA AskFromFirst ==
  ASSUME NEW ts \in Seq(Tab), NEW i \in Nat
  PROVE  /\ AskFrom(i, ts) = 0 => \A l \in DOMAIN ts : l >= i => ~ts[l].dirty
         /\ AskFrom(i, ts) # 0 =>
              /\ AskFrom(i, ts) \in DOMAIN ts
              /\ \A l \in DOMAIN ts : l >= i /\ l < AskFrom(i, ts) => ~ts[l].dirty
<1> DEFINE rest == {k \in DOMAIN ts : k >= i /\ ts[k].dirty}
<1>1. DOMAIN ts = 1..Len(ts) /\ Len(ts) \in Nat
  BY LenProperties
<1>2. rest \in SUBSET Nat /\ rest \subseteq 1..Len(ts)
  BY <1>1
<1>3. AskFrom(i, ts) = IF rest = {} THEN 0 ELSE CHOOSE k \in rest : \A l \in rest : k <= l
  BY DEF AskFrom
<1>4. CASE rest = {}
  BY <1>3, <1>4
<1>5. CASE rest # {}
  <2>1. \E k \in rest : \A l \in rest : k <= l
    <3> HIDE DEF rest
    <3> QED BY <1>2, <1>5, Least
  <2>2. AskFrom(i, ts) \in rest /\ \A l \in rest : AskFrom(i, ts) <= l
    <3> HIDE DEF rest
    <3> QED BY <1>3, <1>5, <2>1
  <2>3. AskFrom(i, ts) \in 1..Len(ts)
    BY <1>2, <2>2
  <2>4. ASSUME NEW l \in DOMAIN ts, l >= i, l < AskFrom(i, ts) PROVE ~ts[l].dirty
    <3>1. l \notin rest
      BY <1>1, <2>2, <2>3, <2>4
    <3> QED BY <2>4, <3>1
  <2> QED BY <1>1, <2>3, <2>4
<1> QED BY <1>4, <1>5

\* The tabs show the source of no object that the tabs of ts did not show.
NoNewSource(ts) ==
  \A i \in DOMAIN tabs' : tabs'[i].key \in Object => \E j \in DOMAIN ts : ts[j].key = tabs'[i].key

\* The tab is closed: another one is active, and there is always one.
LEMMA CloseKeeps ==
  ASSUME NEW ts, TabsKept(ts), active \in DOMAIN ts, CloseActive(ts)
  PROVE  /\ TabsKept(tabs') /\ active' \in DOMAIN tabs' /\ flow' = NoFlow /\ running' = running
         /\ NoNewSource(ts)
<1> DEFINE left == RemoveAt(ts, active)
<1>1. ts \in Seq(Tab) /\ Len(ts) \in 1..MaxTabs /\ DOMAIN ts = 1..Len(ts)
  BY LenProperties DEF TabsKept
<1>2. /\ tabs' = IF left = <<>> THEN <<Untitled(Blank)>> ELSE left
      /\ active' = IF left = <<>> THEN 1 ELSE IF active < Len(left) THEN active ELSE Len(left)
      /\ flow' = NoFlow /\ running' = running
  BY DEF CloseActive
<1>3. CASE left = <<>>
  <2> DEFINE only == <<Untitled(Blank)>>
  <2>1. Untitled(Blank) \in Tab /\ Kept(Untitled(Blank)) /\ Untitled(Blank).key \notin Object
    BY UntitledKept
  <2>2. only \in Seq(Tab) /\ Len(only) = 1 /\ DOMAIN only = {1} /\ only[1] = Untitled(Blank)
    BY <2>1
  <2> HIDE DEF only
  <2>3. TabsKept(only)
    BY <2>1, <2>2 DEF TabsKept, Apart
  <2>4. \A i \in DOMAIN only : only[i].key \notin Object
    BY <2>1, <2>2
  <2> QED BY <1>2, <1>3, <2>2, <2>3, <2>4 DEF only, NoNewSource
<1>4. CASE left # <<>>
  <2>1. TabsKept(left) /\ \A k \in DOMAIN left : \E j \in DOMAIN ts : left[k] = ts[j]
    BY <1>4, RemoveKept
  <2>2. left \in Seq(Tab) /\ Len(left) \in 1..MaxTabs
    BY <2>1 DEF TabsKept
  <2>3. DOMAIN left = 1..Len(left)
    BY <2>2, LenProperties
  <2> HIDE DEF left
  <2>4. active' \in DOMAIN left
    BY <1>1, <1>2, <1>4, <2>2, <2>3
  <2> QED BY <1>2, <1>4, <2>1, <2>4 DEF NoNewSource
<1> QED BY <1>3, <1>4

\* A flow has settled its tab: nothing more, the tab is closed, or the quit
\* goes on to the next changed tab and ends when there is none.
LEMMA SettledKeeps ==
  ASSUME Good, NEW ts, TabsKept(ts), Len(ts) = Len(tabs), NEW f \in Flow, f.back \in DOMAIN tabs,
         f.next = "quit" => \A i \in DOMAIN ts : i <= active /\ ts[i].dirty => i \in f.givenUp,
         Settled(ts, f)
  PROVE  /\ TabsKept(tabs') /\ active' \in DOMAIN tabs'
         /\ flow' \in Flow /\ Sound(flow)' /\ running' \in BOOLEAN
         /\ running /\ ~running' => \A i \in DOMAIN tabs' : tabs'[i].dirty => i \in f.givenUp
         /\ NoNewSource(ts)
         /\ f.next # "close" => DOMAIN tabs' = DOMAIN tabs /\ flow'.next # "close"
<1>1. /\ ts \in Seq(Tab) /\ Len(ts) \in 1..MaxTabs /\ DOMAIN ts = 1..Len(ts)
      /\ DOMAIN ts = DOMAIN tabs /\ active \in 1..Len(ts) /\ 1 \in DOMAIN ts
  <2>1. ts \in Seq(Tab) /\ Len(ts) \in 1..MaxTabs
    BY DEF TabsKept
  <2> QED BY <2>1, TheTabs, LenProperties
<1>2. f.next \in {"stay", "close", "quit"} /\ running \in BOOLEAN
  BY DEF Flow, Good, TypeOK
<1>3. CASE f.next = "stay"
  <2>1. tabs' = ts /\ flow' = NoFlow /\ active' = active /\ running' = running
    BY <1>3 DEF Settled
  <2>2. flow' \in Flow /\ flow'.at = "idle" /\ flow'.back \in DOMAIN tabs'
    BY <1>1, <2>1, NoFlowSound
  <2>3. Sound(flow)'
    BY <2>2 DEF Sound
  <2> QED BY <1>1, <1>2, <2>1, <2>2, <2>3, NoFlowSound DEF NoNewSource
<1>4. CASE f.next = "close"
  <2>1. CloseActive(ts)
    BY <1>4 DEF Settled
  <2>2. /\ TabsKept(tabs') /\ active' \in DOMAIN tabs' /\ flow' = NoFlow /\ running' = running
        /\ NoNewSource(ts)
    BY <1>1, <2>1, CloseKeeps
  <2>3. 1 \in DOMAIN tabs'
    BY <2>2, LenProperties DEF TabsKept
  <2>4. flow' \in Flow /\ flow'.at = "idle" /\ flow'.back \in DOMAIN tabs'
    BY <2>2, <2>3, NoFlowSound
  <2>5. Sound(flow)'
    BY <2>4 DEF Sound
  <2> QED BY <1>2, <1>4, <2>2, <2>4, <2>5
<1>5. CASE f.next = "quit"
  <2> DEFINE k == AskFrom(active + 1, ts)
  <2>1. /\ tabs' = ts
        /\ IF k = 0 THEN Quit(f)
           ELSE /\ active' = k
                /\ flow' = [NoFlow EXCEPT !.at = "dirty", !.next = "quit", !.givenUp = f.givenUp,
                                          !.back = f.back]
                /\ UNCHANGED running
    BY <1>5 DEF Settled, ContinueQuit
  <2>2. /\ k = 0 => \A l \in DOMAIN ts : l >= active + 1 => ~ts[l].dirty
        /\ k # 0 => /\ k \in DOMAIN ts
                    /\ \A l \in DOMAIN ts : l >= active + 1 /\ l < k => ~ts[l].dirty
    <3>1. active + 1 \in Nat
      BY <1>1
    <3> QED BY <1>1, <3>1, AskFromFirst
  <2> HIDE DEF k
  <2>3. CASE k = 0
    <3>1. active' = f.back /\ flow' = NoFlow /\ running' \in BOOLEAN
      BY <2>1, <2>3 DEF Quit
    <3>2. flow' \in Flow /\ flow'.at = "idle" /\ flow'.back \in DOMAIN tabs'
      BY <1>1, <2>1, <3>1, NoFlowSound
    <3>3. Sound(flow)'
      BY <3>2 DEF Sound
    <3>4. \A i \in DOMAIN ts : ts[i].dirty => i \in f.givenUp
      BY <1>1, <1>5, <2>2, <2>3
    <3> QED BY <1>1, <2>1, <3>1, <3>2, <3>3, <3>4, NoFlowSound DEF NoNewSource
  <2>4. CASE k # 0
    <3>1. /\ active' = k /\ running' = running
          /\ flow' = [NoFlow EXCEPT !.at = "dirty", !.next = "quit", !.givenUp = f.givenUp,
                                    !.back = f.back]
      BY <2>1, <2>4
    <3>2. /\ flow' \in Flow /\ flow'.at = "dirty" /\ flow'.next = "quit"
          /\ flow'.givenUp = f.givenUp /\ flow'.back = f.back
      BY <3>1 DEF NoFlow, Flow, FlowPoint
    <3>3. \A i \in DOMAIN ts : i < k /\ ts[i].dirty => i \in f.givenUp
      BY <1>1, <1>5, <2>2, <2>4
    <3>4. Sound(flow)'
      BY <1>1, <2>1, <3>1, <3>2, <3>3 DEF Sound
    <3> QED BY <1>1, <1>2, <2>1, <2>2, <2>4, <3>1, <3>2, <3>4 DEF NoNewSource
  <2> QED BY <2>3, <2>4
<1> QED BY <1>2, <1>3, <1>4, <1>5

-----------------------------------------------------------------------------
(* The actions.                                                            *)

\* The rest of a good state, by variable.
LEMMA TheRest ==
  ASSUME Good
  PROVE  /\ disk \in [Path -> Version \cup {Absent}] /\ flow \in Flow
         /\ running \in BOOLEAN /\ writes \in 0..MaxWrites /\ lost = FALSE
BY DEF Good, TypeOK, DocumentsInvariant

\* What the source of an object that is being loaded relies on: no other tab
\* shows it meanwhile, and no tab is closed but by a flow that closes one.
Orderly ==
  /\ NoNewSource(tabs)
  /\ (flow.at # "idle" => flow.next # "close") =>
       DOMAIN tabs \subseteq DOMAIN tabs' /\ (flow'.at # "idle" => flow'.next # "close")

\* While no flow is under way a tab whose file or source is not open is added.
LEMMA AddKeeps ==
  ASSUME Good, Idle, NEW tab \in Tab, Kept(tab), tab.key \in Path \cup Object => Keys({tab.key}) = {},
         Add(tab), UNCHANGED <<disk, flow, running, writes, lost>>
  PROVE  Good' /\ (tab.key \notin Object => Orderly)
<1>1. tabs' = Append(tabs, tab) /\ active' = Len(tabs) + 1 /\ Len(tabs) < MaxTabs
  BY DEF Add
<1>2. tab.key \in Path \cup Object => \A i \in DOMAIN tabs : tabs[i].key # tab.key
  BY DEF Keys
<1>3. TabsKept(tabs') /\ Len(tabs') = Len(tabs) + 1 /\ DOMAIN tabs' = 1..(Len(tabs) + 1)
  BY <1>1, <1>2, TheTabs, AppendKept
<1>4. active' \in DOMAIN tabs' /\ flow'.at = "idle" /\ flow'.back \in DOMAIN tabs'
  BY <1>1, <1>3, TheTabs DEF Idle, Sound
<1>5. Sound(flow)'
  BY <1>4 DEF Sound
<1>6. Good'
  BY <1>3, <1>4, <1>5, TheRest, AtRest
<1>7. ASSUME tab.key \notin Object PROVE Orderly
  <2>1. \A i \in DOMAIN tabs' : (i \in DOMAIN tabs /\ tabs'[i] = tabs[i]) \/ tabs'[i] = tab
    BY <1>1, <1>3, TheTabs, AppendProperties
  <2>2. DOMAIN tabs \subseteq DOMAIN tabs'
    BY <1>3, TheTabs
  <2> QED BY <1>4, <1>7, <2>1, <2>2 DEF Orderly, NoNewSource
<1> QED BY <1>6, <1>7

\* While no flow is under way another tab is shown.
LEMMA ShowKeeps ==
  ASSUME Good, Idle, active' \in DOMAIN tabs, UNCHANGED <<disk, tabs, flow, running, writes, lost>>
  PROVE  Good' /\ Orderly
<1>1. TabsKept(tabs') /\ active' \in DOMAIN tabs' /\ flow'.at = "idle" /\ flow'.back \in DOMAIN tabs'
  BY TheTabs DEF Idle, Sound
<1>2. Sound(flow)'
  BY <1>1 DEF Sound
<1>3. Good'
  BY <1>1, <1>2, TheRest, AtRest
<1> QED BY <1>3 DEF Orderly, NoNewSource

\* The active tab is edited.
LEMMA ChangedKeeps ==
  ASSUME Good, NEW tab \in Tab, Kept(tab), tab.key = Current.key, Changed(tab)
  PROVE  Good' /\ Orderly
<1>1. /\ tabs' = [tabs EXCEPT ![active] = tab] /\ Idle
      /\ UNCHANGED <<disk, active, flow, running, writes, lost>>
  BY DEF Changed
<1>2. TabsKept(tabs') /\ DOMAIN tabs' = DOMAIN tabs
  BY <1>1, TheTabs, ExceptKept DEF Current
<1>3. active' \in DOMAIN tabs' /\ flow'.at = "idle" /\ flow'.back \in DOMAIN tabs'
  BY <1>1, <1>2, TheTabs DEF Idle, Sound
<1>4. Sound(flow)'
  BY <1>3 DEF Sound
<1>5. Good'
  BY <1>1, <1>2, <1>3, <1>4, TheRest, AtRest
<1>6. \A i \in DOMAIN tabs' : tabs'[i].key = tabs[i].key
  BY <1>1, <1>2, TheTabs DEF Current
<1> QED BY <1>1, <1>2, <1>5, <1>6 DEF Orderly, NoNewSource

\* New tabs, templates, files and other tabs to show.
LEMMA OpeningKeeps ==
  ASSUME Good,
         \/ NewTab
         \/ \E t \in Template : NewTemplate(t)
         \/ \E p \in Path : OpenFile(p)
         \/ \E i \in 1..MaxTabs : SwitchTo(i)
  PROVE  Good' /\ running' = running /\ Orderly
<1>1. CASE NewTab
  <2>1. Untitled(Blank) \in Tab /\ Kept(Untitled(Blank)) /\ Untitled(Blank).key \notin Path \cup Object
    BY UntitledKept
  <2> QED BY <1>1, <2>1, AddKeeps DEF NewTab
<1>2. ASSUME NEW t \in Template, NewTemplate(t) PROVE Good' /\ running' = running /\ Orderly
  <2> DEFINE clean == {i \in Keys({t}) : ~tabs[i].dirty}
  <2>1. Idle /\ UNCHANGED <<disk, flow, running, writes, lost>>
    BY <1>2 DEF NewTemplate
  <2>2. CASE clean # {}
    <3>1. active' = Min(clean) /\ UNCHANGED tabs
      BY <1>2, <2>2 DEF NewTemplate
    <3>2. clean \in SUBSET Nat /\ clean \subseteq DOMAIN tabs
      BY TheTabs DEF Keys
    <3>3. Min(clean) \in clean
      <4> HIDE DEF clean
      <4> QED BY <2>2, <3>2, MinIn
    <3> QED BY <2>1, <3>1, <3>2, <3>3, ShowKeeps
  <2>3. CASE clean = {}
    <3>1. PICK text \in Text : Add(Sourced(t, text))
      BY <1>2, <2>3 DEF NewTemplate
    <3>2. /\ Sourced(t, text) \in Tab /\ Kept(Sourced(t, text))
          /\ Sourced(t, text).key \notin Path \cup Object
      BY SourcedKept
    <3> QED BY <2>1, <3>1, <3>2, AddKeeps
  <2> QED BY <2>2, <2>3
<1>3. ASSUME NEW p \in Path, OpenFile(p) PROVE Good' /\ running' = running /\ Orderly
  <2>1. Idle /\ UNCHANGED <<disk, flow, running, writes, lost>>
    BY <1>3 DEF OpenFile
  <2>2. CASE Keys({p}) # {}
    <3>1. active' \in DOMAIN tabs /\ UNCHANGED tabs
      BY <1>3, <2>2 DEF OpenFile, Keys
    <3> QED BY <2>1, <3>1, ShowKeeps
  <2>3. CASE Keys({p}) = {}
    <3>1. Add(Loaded(p))
      BY <1>3, <2>3 DEF OpenFile
    <3>2. Loaded(p) \in Tab /\ Kept(Loaded(p)) /\ Loaded(p).key = p
      BY TheRest, LoadedKept
    <3> QED BY <2>1, <2>3, <3>1, <3>2, AddKeeps
  <2> QED BY <2>2, <2>3
<1>4. ASSUME NEW i \in 1..MaxTabs, SwitchTo(i) PROVE Good' /\ running' = running /\ Orderly
  BY <1>4, ShowKeeps DEF SwitchTo
<1> QED BY <1>1, <1>2, <1>3, <1>4

\* Edit, undo and redo.
LEMMA EditingKeeps ==
  ASSUME Good, Undo \/ Redo \/ \E text \in Text : Edit(text)
  PROVE  Good' /\ running' = running /\ Orderly
<1> DEFINE tab == Current
           p == tab.path
<1>1. /\ tab \in Tab /\ Kept(tab) /\ Of(tab.undo, p) /\ Of(tab.redo, p)
      /\ Len(tab.undo) \in Nat /\ Len(tab.redo) \in Nat
      /\ Len(tab.undo) + Len(tab.redo) <= UndoLimit
      /\ Here(tab) \in Snapshot /\ Here(tab).path = p
  BY TheTabs, Histories
<1>2. Of(<<>>, p) /\ Len(<<>>) = 0
  BY EmptySeq DEF Of
<1>n. /\ \A a, b \in Nat : a + b <= UndoLimit => a <= UndoLimit
      /\ \A a, b, c, d \in Nat : a + b <= UndoLimit /\ c + d <= a + b => c + d <= UndoLimit
      /\ \A a, b, c, d \in Nat : a <= b + 1 /\ c = d - 1 => a + c <= b + d
  OBVIOUS
<1>3. ASSUME NEW text \in Text, Edit(text) PROVE Good' /\ running' = running /\ Orderly
  <2>1. PICK undo \in {Capped(Append(tab.undo, Here(tab)))} \cup
                      {u \in {tab.undo} : u # <<>> /\ Last(u) = Here(tab)} :
          Changed(Refreshed([tab EXCEPT !.text = text, !.undo = undo, !.redo = <<>>]))
    BY <1>3 DEF Edit
  <2>2. Of(undo, p) /\ Len(undo) <= UndoLimit
    <3>1. CASE undo = tab.undo
      <4> HIDE DEF p, tab
      <4> QED BY <1>1, <1>n, <3>1
    <3>2. CASE undo = Capped(Append(tab.undo, Here(tab)))
      <4>1. Len(tab.undo) <= UndoLimit
        BY <1>1, <1>n
      <4> HIDE DEF p, tab
      <4> QED BY <1>1, <3>2, <4>1, HistoryGrows
    <3> QED BY <2>1, <3>1, <3>2
  <2>3. Len(undo) + Len(<<>>) <= UndoLimit
    <3>1. Len(undo) \in Nat
      BY <2>2, LenProperties DEF Of
    <3>2. \A n \in Nat : n <= UndoLimit => n + 0 <= UndoLimit
      OBVIOUS
    <3> QED BY <1>2, <2>2, <3>1, <3>2
  <2> DEFINE edited == Refreshed([tab EXCEPT !.text = text, !.undo = undo, !.redo = <<>>])
  <2>4. edited \in Tab /\ Kept(edited) /\ edited.key = tab.key
    <3>1. edited = [tab EXCEPT !.text = text, !.undo = undo, !.redo = <<>>,
                               !.dirty = [text |-> text, path |-> tab.path] # tab.clean]
      <4> HIDE DEF tab
      <4> QED BY <1>1 DEF Refreshed, Tab
    <3> HIDE DEF tab, edited
    <3>2. /\ edited.text = text /\ edited.path = tab.path /\ edited.key = tab.key
          /\ edited.clean = tab.clean /\ edited.tracked = tab.tracked
          /\ edited.undo = undo /\ edited.redo = <<>>
          /\ edited.dirty = ([text |-> edited.text, path |-> edited.path] # edited.clean)
      BY <1>1, <3>1 DEF Tab
    <3>3. edited \in Tab
      BY <1>1, <1>2, <2>2, <2>3, <3>1 DEF Tab, Of
    <3> QED BY <1>1, <1>2, <2>2, <2>3, <3>2, <3>3, EditKept
  <2> HIDE DEF edited
  <2>5. Changed(edited)
    BY <2>1 DEF edited
  <2> QED BY <2>4, <2>5, ChangedKeeps DEF Changed
<1>4. ASSUME NEW from, NEW to, NEW s \in Snapshot, s.path = p,
             Of(from, p), Of(to, p), Len(from) + Len(to) <= UndoLimit,
             \/ Changed(Restored([tab EXCEPT !.undo = from, !.redo = to], s))
             \/ Changed(Restored([tab EXCEPT !.redo = to, !.undo = from], s))
      PROVE  Good' /\ running' = running /\ Orderly
  <2> DEFINE edited == Refreshed([tab EXCEPT !.text = s.text, !.undo = from, !.redo = to])
  <2>1. s.text \in Text
    BY DEF Snapshot
  <2>2. edited \in Tab /\ Kept(edited) /\ edited.key = tab.key
    <3>1. edited = [tab EXCEPT !.text = s.text, !.undo = from, !.redo = to,
                               !.dirty = [text |-> s.text, path |-> tab.path] # tab.clean]
      <4> HIDE DEF tab
      <4> QED BY <1>1 DEF Refreshed, Tab
    <3> HIDE DEF tab, edited
    <3>2. /\ edited.text = s.text /\ edited.path = tab.path /\ edited.key = tab.key
          /\ edited.clean = tab.clean /\ edited.tracked = tab.tracked
          /\ edited.undo = from /\ edited.redo = to
          /\ edited.dirty = ([text |-> edited.text, path |-> edited.path] # edited.clean)
      BY <1>1, <3>1 DEF Tab
    <3>3. edited \in Tab
      BY <1>1, <1>4, <2>1, <3>1 DEF Tab, Of
    <3> QED BY <1>1, <1>4, <2>1, <3>2, <3>3, EditKept
  <2>3. /\ [[tab EXCEPT !.undo = from, !.redo = to] EXCEPT !.text = s.text, !.path = s.path]
             = [tab EXCEPT !.text = s.text, !.undo = from, !.redo = to]
        /\ [[tab EXCEPT !.redo = to, !.undo = from] EXCEPT !.text = s.text, !.path = s.path]
             = [tab EXCEPT !.text = s.text, !.undo = from, !.redo = to]
    <3> HIDE DEF tab
    <3> QED BY <1>1, <1>4 DEF Tab
  <2>4. Changed(edited)
    BY <1>4, <2>3 DEF Restored
  <2> HIDE DEF edited
  <2> QED BY <2>2, <2>4, ChangedKeeps DEF Changed
<1>5. CASE Undo
  <2>1. tab.undo # <<>>
    BY <1>5 DEF Undo
  <2> DEFINE from == Front(tab.undo)
             to == Append(tab.redo, Here(tab))
             s == Last(tab.undo)
  <2>2. /\ Of(from, p) /\ Len(from) = Len(tab.undo) - 1 /\ s \in Snapshot /\ s.path = p
        /\ Of(to, p) /\ Len(to) = Len(tab.redo) + 1
    <3> HIDE DEF tab, p
    <3> QED BY <1>1, <2>1, HistoryShrinks, HistoryGrows
  <2>3. Len(from) + Len(to) <= UndoLimit
    <3>1. Len(from) \in Nat /\ Len(to) \in Nat
      BY <2>2, LenProperties DEF Of
    <3> HIDE DEF from, to, tab
    <3>2. /\ Len(tab.undo) \in Nat /\ Len(tab.redo) \in Nat
          /\ Len(tab.undo) + Len(tab.redo) <= UndoLimit
      BY <1>1
    <3>3. Len(from) = Len(tab.undo) - 1 /\ Len(to) = Len(tab.redo) + 1
      BY <2>2
    <3>4. \A a, b, c, d \in Nat : a + b <= UndoLimit /\ c = a - 1 /\ d = b + 1 => c + d <= UndoLimit
      OBVIOUS
    <3> QED BY <3>1, <3>2, <3>3, <3>4
  <2>4. Changed(Restored([tab EXCEPT !.undo = from, !.redo = to], s))
    <3>1. [tab EXCEPT !.undo = from, !.redo = to] = [tab EXCEPT !.undo = Front(@), !.redo = Append(@, Here(tab))]
      OBVIOUS
    <3> QED BY <1>5, <3>1 DEF Undo
  <2> HIDE DEF from, to, s, p, tab
  <2> QED BY <1>4, <2>2, <2>3, <2>4
<1>6. CASE Redo
  <2>1. tab.redo # <<>>
    BY <1>6 DEF Redo
  <2> DEFINE to == Front(tab.redo)
             from == Capped(Append(tab.undo, Here(tab)))
             s == Last(tab.redo)
  <2>2. /\ Of(to, p) /\ Len(to) = Len(tab.redo) - 1 /\ s \in Snapshot /\ s.path = p
        /\ Of(from, p) /\ Len(from) <= Len(tab.undo) + 1
    <3> HIDE DEF tab, p
    <3> QED BY <1>1, <2>1, HistoryShrinks, HistoryGrows
  <2>3. Len(from) + Len(to) <= UndoLimit
    <3>1. Len(from) \in Nat /\ Len(to) \in Nat
      BY <2>2, LenProperties DEF Of
    <3> HIDE DEF from, to, tab
    <3>2. Len(from) + Len(to) <= Len(tab.undo) + Len(tab.redo)
      BY <1>1, <1>n, <2>2, <3>1
    <3> QED BY <1>1, <1>n, <2>2, <3>1, <3>2
  <2>4. Changed(Restored([tab EXCEPT !.redo = to, !.undo = from], s))
    <3>1. [tab EXCEPT !.redo = to, !.undo = from] = [tab EXCEPT !.redo = Front(@), !.undo = Capped(Append(@, Here(tab)))]
      OBVIOUS
    <3> QED BY <1>6, <3>1 DEF Redo
  <2> HIDE DEF from, to, s, p, tab
  <2> QED BY <1>4, <2>2, <2>3, <2>4
<1> QED BY <1>3, <1>5, <1>6

\* A save is asked for, its questions answered, its target looked at once more.
LEMMA SavingKeeps ==
  ASSUME Good,
         \/ Save \/ Rename \/ Agree \/ SaveAsInstead \/ Write \/ AnswerYes
         \/ \E p \in Path : AnswerName(p)
  PROVE  Good' /\ running' = running /\ Orderly
<1>1. ASSUME NEW f \in Flow, Sound(f), GoOn(f), f.next # "close" \/ (f.next = flow.next /\ flow.at # "idle")
      PROVE  Good' /\ running' = running /\ Orderly
  BY <1>1, GoOnKeeps DEF GoOn, Orderly, NoNewSource
<1> USE TheTabs, TheRest
<1>2. CASE Save
  <2>1. NoFlow \in Flow /\ NoFlow.back \in DOMAIN tabs /\ NoFlow.next = "stay"
    BY NoFlowSound
  <2>2. /\ StartSave(NoFlow) \in Flow /\ Sound(StartSave(NoFlow)) /\ GoOn(StartSave(NoFlow))
        /\ StartSave(NoFlow).next = "stay"
    BY <1>2, <2>1, StartSaveSound DEF Save
  <2> QED BY <1>1, <2>2
<1>3. CASE Rename
  <2> DEFINE f == [NoFlow EXCEPT !.at = "name", !.rename = TRUE]
  <2>1. NoFlow \in Flow /\ NoFlow.back \in DOMAIN tabs /\ NoFlow.next = "stay"
    BY NoFlowSound
  <2>2. f \in Flow /\ f.at = "name" /\ f.back \in DOMAIN tabs /\ f.next = "stay" /\ GoOn(f)
    BY <1>3, <2>1 DEF Rename, Flow, FlowPoint
  <2> HIDE DEF f
  <2>3. Sound(f)
    BY <2>2 DEF Sound
  <2> QED BY <1>1, <2>2, <2>3
<1>4. CASE Agree
  <2> DEFINE f == [flow EXCEPT !.at = "write", !.agreed = @ \cup {<<flow.target, flow.version>>}]
  <2>1. flow.at \in {"overwrite", "changed", "conflict"} /\ GoOn(f)
    BY <1>4 DEF Agree
  <2>2. flow.target \in Path /\ Keys({flow.target}) \subseteq {active}
    BY <2>1 DEF Sound
  <2>3. /\ f \in Flow /\ f.at = "write" /\ f.target = flow.target /\ f.version = flow.version
        /\ f.agreed = flow.agreed \cup {<<flow.target, flow.version>>}
        /\ f.back = flow.back /\ f.next = flow.next /\ f.givenUp = flow.givenUp
    <3>1. "write" \in FlowPoint /\ flow.version \in Version \cup {Absent}
      BY DEF FlowPoint, Flow
    <3>2. flow.agreed \cup {<<flow.target, flow.version>>} \in SUBSET (Path \X (Version \cup {Absent}))
      BY <2>2, <3>1 DEF Flow
    <3> QED BY <3>1, <3>2 DEF Flow
  <2> HIDE DEF f
  <2>4. Sound(f)
    BY <2>1, <2>2, <2>3 DEF Sound
  <2> QED BY <1>1, <2>1, <2>3, <2>4
<1>5. CASE SaveAsInstead
  <2> DEFINE f == [flow EXCEPT !.at = "name", !.rename = FALSE]
  <2>1. flow.at \in {"changed", "conflict"} /\ GoOn(f)
    BY <1>5 DEF SaveAsInstead
  <2>2. /\ f \in Flow /\ f.at = "name" /\ f.back = flow.back /\ f.next = flow.next
        /\ f.givenUp = flow.givenUp
    BY DEF Flow, FlowPoint
  <2> HIDE DEF f
  <2>3. Sound(f)
    BY <2>1, <2>2 DEF Sound
  <2> QED BY <1>1, <2>1, <2>2, <2>3
<1>6. CASE Write
  <2>1. flow.at = "write" /\ flow.target \in Path /\ Keys({flow.target}) \subseteq {active}
    BY <1>6 DEF Write, Sound
  <2>2. CASE disk[flow.target] = flow.version
    <3> DEFINE f == [flow EXCEPT !.at = "replace", !.raced = FALSE]
    <3>1. GoOn(f)
      BY <1>6, <2>2 DEF Write
    <3>2. /\ f \in Flow /\ f.at = "replace" /\ f.target = flow.target /\ f.version = flow.version
          /\ f.agreed = flow.agreed /\ f.back = flow.back /\ f.next = flow.next
          /\ f.givenUp = flow.givenUp
      BY DEF Flow, FlowPoint
    <3> HIDE DEF f
    <3>3. Sound(f)
      BY <2>1, <2>2, <3>2 DEF Sound
    <3> QED BY <1>1, <2>1, <3>1, <3>2, <3>3
  <2>3. CASE disk[flow.target] # flow.version
    <3> DEFINE f == [flow EXCEPT !.at = "conflict", !.version = disk[flow.target]]
    <3>1. GoOn(f)
      BY <1>6, <2>3 DEF Write
    <3>2. /\ f \in Flow /\ f.at = "conflict" /\ f.target = flow.target
          /\ f.back = flow.back /\ f.next = flow.next /\ f.givenUp = flow.givenUp
      BY <2>1 DEF Flow, FlowPoint
    <3> HIDE DEF f
    <3>3. Sound(f)
      BY <2>1, <3>2 DEF Sound
    <3> QED BY <1>1, <2>1, <3>1, <3>2, <3>3
  <2> QED BY <2>2, <2>3
<1>7. CASE AnswerYes
  <2>1. flow.at = "dirty" /\ GoOn(StartSave(flow))
    BY <1>7 DEF AnswerYes
  <2>2. /\ flow.back \in DOMAIN tabs
        /\ flow.next = "quit" => \A i \in DOMAIN tabs : i < active /\ tabs[i].dirty => i \in flow.givenUp
    BY <2>1 DEF Sound
  <2>3. StartSave(flow) \in Flow /\ Sound(StartSave(flow)) /\ StartSave(flow).next = flow.next
    BY <2>2, StartSaveSound
  <2> QED BY <1>1, <2>1, <2>3
<1>8. ASSUME NEW p \in Path, AnswerName(p) PROVE Good' /\ running' = running /\ Orderly
  <2>1. flow.at = "name" /\ Keys({p}) \subseteq {active}
    BY <1>8 DEF AnswerName
  <2>2. /\ flow.back \in DOMAIN tabs
        /\ flow.next = "quit" => \A i \in DOMAIN tabs : i < active /\ tabs[i].dirty => i \in flow.givenUp
    BY <2>1 DEF Sound
  <2>3. CASE flow.rename /\ p = Current.path
    <3> DEFINE f == [flow EXCEPT !.rename = FALSE]
    <3>1. GoOn([StartSave(flow) EXCEPT !.rename = FALSE])
      BY <1>8, <2>3 DEF AnswerName
    <3>2. StartSave(flow) \in Flow /\ Sound(StartSave(flow)) /\ StartSave(flow).next = flow.next
      BY <2>2, StartSaveSound
    <3> DEFINE g == [StartSave(flow) EXCEPT !.rename = FALSE]
    <3>3. /\ g \in Flow /\ g.at = StartSave(flow).at /\ g.target = StartSave(flow).target
          /\ g.version = StartSave(flow).version /\ g.agreed = StartSave(flow).agreed
          /\ g.back = StartSave(flow).back /\ g.next = StartSave(flow).next
          /\ g.givenUp = StartSave(flow).givenUp /\ g.raced = StartSave(flow).raced
      BY <3>2 DEF Flow
    <3>4. GoOn(g)
      BY <3>1
    <3> HIDE DEF g
    <3>5. Sound(g)
      BY <3>2, <3>3 DEF Sound
    <3> QED BY <1>1, <2>1, <3>2, <3>3, <3>4, <3>5
  <2>4. CASE ~(flow.rename /\ p = Current.path)
    <3> DEFINE at == IF disk[p] = Absent THEN "write" ELSE "overwrite"
               f == [flow EXCEPT !.rename = FALSE, !.target = p, !.version = disk[p], !.at = at]
    <3>1. GoOn(f)
      BY <1>8, <2>4 DEF AnswerName
    <3>2. at \in {"write", "overwrite"} /\ at \in FlowPoint /\ (at = "write" => disk[p] = Absent)
      BY DEF FlowPoint
    <3> HIDE DEF at
    <3>3. /\ f \in Flow /\ f.at = at /\ f.target = p /\ f.version = disk[p]
          /\ f.back = flow.back /\ f.next = flow.next /\ f.givenUp = flow.givenUp
      BY <3>2 DEF Flow
    <3> HIDE DEF f
    <3>4. Sound(f)
      BY <2>1, <2>2, <3>2, <3>3 DEF Sound
    <3> QED BY <1>1, <2>1, <3>1, <3>3, <3>4
  <2> QED BY <2>3, <2>4
<1> QED BY <1>2, <1>3, <1>4, <1>5, <1>6, <1>7, <1>8

\* A flow is cancelled, or its save fails: nothing but the tab shown changes.
LEMMA AbandonKeeps ==
  ASSUME Good, Abandon
  PROVE  Good' /\ running' = running /\ Orderly
<1>1. /\ tabs' = tabs /\ flow' = NoFlow /\ active' \in DOMAIN tabs
      /\ UNCHANGED <<disk, running, writes, lost>>
  BY TheTabs DEF Abandon, Sound
<1>2. TabsKept(tabs') /\ flow' \in Flow /\ flow'.at = "idle" /\ flow'.back \in DOMAIN tabs'
  BY <1>1, TheTabs, NoFlowSound
<1>3. Sound(flow)'
  BY <1>2 DEF Sound
<1>4. Good'
  BY <1>1, <1>2, <1>3, TheRest, AtRest
<1> QED BY <1>1, <1>2, <1>4 DEF Orderly, NoNewSource

\* What a step that ends the program has to show.
QuitAsked == running /\ ~running' =>
           \A i \in DOMAIN tabs' : tabs'[i].dirty => i \in flow.givenUp \cup {active}

\* The target is replaced: what it held was seen, and the tab it is saved from
\* is the only one of its file.
LEMMA ReplaceKeeps ==
  ASSUME Good, Replace
  PROVE  Good' /\ QuitAsked /\ Orderly
<1> DEFINE p == flow.target
           saved == SavedAs(Current, p)
           ts == [tabs EXCEPT ![active] = saved]
           ours == IF Current.tracked.path = p THEN {Current.tracked.version} ELSE {}
<1>1. /\ flow.at = "replace" /\ writes' = writes
      /\ disk' = [disk EXCEPT ![p] = Saved(Current.text)]
      /\ lost' = (lost \/ /\ disk[p] \notin {Absent} \cup ours
                          /\ <<p, disk[p]>> \notin flow.agreed
                          /\ ~flow.raced)
      /\ Settled(ts, flow)
  BY DEF Replace
<1>2. /\ p \in Path /\ Keys({p}) \subseteq {active} /\ flow.back \in DOMAIN tabs
      /\ \/ flow.version = Absent
         \/ <<p, flow.version>> \in flow.agreed
         \/ Current.tracked.path = p /\ Current.tracked.version = flow.version
      /\ ~flow.raced => disk[p] = flow.version
      /\ flow.next = "quit" => \A i \in DOMAIN tabs : i < active /\ tabs[i].dirty => i \in flow.givenUp
  BY <1>1, TheTabs DEF Sound
<1>3. saved \in Tab /\ Kept(saved) /\ saved.key = p /\ ~saved.dirty
  <2> HIDE DEF p
  <2> QED BY <1>2, TheTabs, SavedKept
<1> HIDE DEF saved
<1>4. TabsKept(ts) /\ Len(ts) = Len(tabs) /\ DOMAIN ts = DOMAIN tabs
  <2>1. \A j \in DOMAIN tabs \ {active} : tabs[j].key # saved.key
    BY <1>2, <1>3 DEF Keys
  <2> QED BY <1>3, <2>1, TheTabs, ExceptKept
<1>5. flow.next = "quit" => \A i \in DOMAIN ts : i <= active /\ ts[i].dirty => i \in flow.givenUp
  BY <1>2, <1>3, <1>4, TheTabs
<1>6. lost' = FALSE
  BY <1>1, <1>2, TheRest
<1>7. disk' \in [Path -> Version \cup {Absent}]
  <2>1. Saved(Current.text) \in Version
    BY TheTabs DEF Saved, Version, Tab
  <2> HIDE DEF p
  <2> QED BY <1>1, <1>2, <2>1, TheRest
<1>t. \A i \in DOMAIN ts : ts[i].key \in Object => \E j \in DOMAIN tabs : tabs[j].key = ts[i].key
  BY <1>2, <1>3
<1> HIDE DEF ts
<1>8. /\ TabsKept(tabs') /\ active' \in DOMAIN tabs'
      /\ flow' \in Flow /\ Sound(flow)' /\ running' \in BOOLEAN
      /\ running /\ ~running' => \A i \in DOMAIN tabs' : tabs'[i].dirty => i \in flow.givenUp
      /\ NoNewSource(ts)
      /\ flow.next # "close" => DOMAIN tabs' = DOMAIN tabs /\ flow'.next # "close"
  BY <1>1, <1>2, <1>4, <1>5, SettledKeeps, TheRest
<1>9. Good'
  BY <1>1, <1>6, <1>7, <1>8, TheRest, AtRest
<1>10. Orderly
  BY <1>1, <1>8, <1>t DEF Orderly, NoNewSource
<1> QED BY <1>8, <1>9, <1>10 DEF QuitAsked

\* A changed tab is given up.
LEMMA AnswerNoKeeps ==
  ASSUME Good, AnswerNo
  PROVE  Good' /\ QuitAsked /\ Orderly
<1> DEFINE f == [flow EXCEPT !.givenUp = @ \cup {active}]
<1>1. flow.at = "dirty" /\ Settled(tabs, f) /\ UNCHANGED <<disk, writes, lost>>
  BY DEF AnswerNo
<1>2. /\ f \in Flow /\ f.givenUp = flow.givenUp \cup {active} /\ f.back = flow.back
      /\ f.next = flow.next
  <2>1. active \in 1..MaxTabs
    BY TheTabs
  <2> QED BY <2>1, TheRest DEF Flow
<1> HIDE DEF f
<1>3. f.next = "quit" => \A i \in DOMAIN tabs : i <= active /\ tabs[i].dirty => i \in f.givenUp
  BY <1>1, <1>2, TheTabs DEF Sound
<1>4. f.back \in DOMAIN tabs /\ TabsKept(tabs) /\ Len(tabs) = Len(tabs)
  BY <1>2, TheTabs DEF Sound
<1>5. /\ TabsKept(tabs') /\ active' \in DOMAIN tabs'
      /\ flow' \in Flow /\ Sound(flow)' /\ running' \in BOOLEAN
      /\ running /\ ~running' => \A i \in DOMAIN tabs' : tabs'[i].dirty => i \in f.givenUp
      /\ NoNewSource(tabs)
      /\ f.next # "close" => DOMAIN tabs' = DOMAIN tabs /\ flow'.next # "close"
  BY <1>1, <1>2, <1>3, <1>4, SettledKeeps
<1>6. Good'
  BY <1>1, <1>5, TheRest, AtRest
<1> QED BY <1>1, <1>2, <1>5, <1>6 DEF QuitAsked, Orderly

\* A tab is closed, or a question about it is put.
LEMMA CloseTabKeeps ==
  ASSUME Good, CloseTab
  PROVE  Good' /\ running' = running /\ NoNewSource(tabs)
<1>1. CASE Current.dirty
  <2> DEFINE f == [NoFlow EXCEPT !.at = "dirty", !.next = "close"]
  <2>1. NoFlow \in Flow /\ NoFlow.back \in DOMAIN tabs
    BY TheTabs, NoFlowSound
  <2>2. f \in Flow /\ f.at = "dirty" /\ f.next = "close" /\ f.back \in DOMAIN tabs
    BY <2>1 DEF Flow, FlowPoint
  <2>3. GoOn(f)
    BY <1>1 DEF CloseTab
  <2> HIDE DEF f
  <2>4. Sound(f)
    BY <2>2 DEF Sound
  <2> QED BY <2>2, <2>3, <2>4, GoOnKeeps DEF GoOn, NoNewSource
<1>2. CASE ~Current.dirty
  <2>1. CloseActive(tabs) /\ UNCHANGED <<disk, writes, lost>>
    BY <1>2 DEF CloseTab
  <2>2. /\ TabsKept(tabs') /\ active' \in DOMAIN tabs' /\ flow' = NoFlow /\ running' = running
        /\ NoNewSource(tabs)
    BY <2>1, TheTabs, CloseKeeps
  <2>3. 1 \in DOMAIN tabs'
    BY <2>2, LenProperties DEF TabsKept
  <2>4. flow' \in Flow /\ flow'.at = "idle" /\ flow'.back \in DOMAIN tabs'
    BY <2>2, <2>3, NoFlowSound
  <2>5. Sound(flow)'
    BY <2>4 DEF Sound
  <2> QED BY <2>1, <2>2, <2>4, <2>5, TheRest, AtRest
<1> QED BY <1>1, <1>2

\* The program is to be left: the first changed tab is asked about.
LEMMA RequestQuitKeeps ==
  ASSUME Good, RequestQuit
  PROVE  Good' /\ QuitAsked /\ Orderly
<1> DEFINE k == AskFrom(1, tabs)
           f == [NoFlow EXCEPT !.next = "quit", !.back = active]
           g == [f EXCEPT !.at = "dirty"]
<1>1. /\ Idle /\ UNCHANGED <<disk, writes, lost>>
      /\ IF k = 0 THEN tabs' = tabs /\ Quit(f)
         ELSE active' = k /\ flow' = g /\ UNCHANGED <<tabs, running>>
  BY DEF RequestQuit
<1>2. /\ k = 0 => \A l \in DOMAIN tabs : l >= 1 => ~tabs[l].dirty
      /\ k # 0 => /\ k \in DOMAIN tabs
                  /\ \A l \in DOMAIN tabs : l >= 1 /\ l < k => ~tabs[l].dirty
  BY TheTabs, AskFromFirst
<1> HIDE DEF k
<1>3. active \in 1..MaxTabs
  BY TheTabs
<1>4. f.back = active /\ g \in Flow /\ g.at = "dirty" /\ g.back = active /\ g.next = "quit"
  BY <1>3 DEF NoFlow, Flow, FlowPoint
<1> HIDE DEF f, g
<1>5. CASE k = 0
  <2>1. tabs' = tabs /\ active' = active /\ flow' = NoFlow /\ running' \in BOOLEAN
    BY <1>1, <1>4, <1>5 DEF Quit
  <2>2. flow' \in Flow /\ flow'.at = "idle" /\ flow'.back \in DOMAIN tabs'
    BY <2>1, NoFlowSound, TheTabs
  <2>3. Sound(flow)'
    BY <2>2 DEF Sound
  <2>4. \A i \in DOMAIN tabs' : ~tabs'[i].dirty
    BY <1>2, <1>5, <2>1, TheTabs
  <2>5. TabsKept(tabs') /\ active' \in DOMAIN tabs'
    BY <2>1, TheTabs
  <2>6. Good'
    BY <1>1, <2>1, <2>2, <2>3, <2>5, TheRest, AtRest
  <2> QED BY <2>1, <2>2, <2>4, <2>6 DEF QuitAsked, Orderly, NoNewSource
<1>6. CASE k # 0
  <2>1. tabs' = tabs /\ active' = k /\ flow' = g /\ running' = running
    BY <1>1, <1>6
  <2>2. \A i \in DOMAIN tabs' : i < active' => ~tabs'[i].dirty
    BY <1>2, <1>6, <2>1, TheTabs
  <2>3. TabsKept(tabs') /\ active' \in DOMAIN tabs' /\ flow'.back \in DOMAIN tabs'
    BY <1>2, <1>4, <1>6, <2>1, TheTabs
  <2>4. Sound(flow)'
    BY <1>4, <2>1, <2>2, <2>3 DEF Sound
  <2>5. Good'
    BY <1>1, <1>4, <2>1, <2>3, <2>4, TheRest, AtRest
  <2> QED BY <1>4, <2>1, <2>5 DEF QuitAsked, Orderly, NoNewSource
<1> QED BY <1>5, <1>6

\* Another program changes a file: a save that has had its last look knows.
LEMMA ElsewhereKeeps ==
  ASSUME Good, NEW p \in Path, NEW v \in Foreign \cup {Absent}, Elsewhere(p, v)
  PROVE  Good' /\ running' = running /\ Orderly
<1>1. /\ writes' = writes + 1 /\ writes < MaxWrites /\ disk' = [disk EXCEPT ![p] = v]
      /\ flow' = IF flow.at = "replace" /\ flow.target = p THEN [flow EXCEPT !.raced = TRUE] ELSE flow
      /\ tabs' = tabs /\ active' = active /\ running' = running /\ lost' = lost
  BY DEF Elsewhere
<1>2. v \in Version \cup {Absent} /\ disk' \in [Path -> Version \cup {Absent}]
  BY <1>1, TheRest
<1>3. /\ flow' \in Flow /\ flow'.at = flow.at /\ flow'.target = flow.target
      /\ flow'.version = flow.version /\ flow'.agreed = flow.agreed /\ flow'.back = flow.back
      /\ flow'.next = flow.next /\ flow'.givenUp = flow.givenUp
      /\ ~flow'.raced => ~flow.raced /\ (flow.at = "replace" => flow.target # p)
  BY <1>1, TheRest DEF Flow
<1>4. flow.at = "replace" /\ ~flow'.raced => disk'[flow.target] = disk[flow.target]
  BY <1>1, <1>3, TheRest
<1>5. Sound(flow)'
  BY <1>1, <1>3, <1>4, TheTabs DEF Sound, Keys, Current
<1>6. writes' \in 0..MaxWrites /\ TabsKept(tabs') /\ active' \in DOMAIN tabs'
  BY <1>1, TheRest, TheTabs
<1>7. Good'
  BY <1>1, <1>2, <1>3, <1>5, <1>6, TheRest, AtRest
<1> QED BY <1>1, <1>3, <1>7 DEF Orderly, NoNewSource

-----------------------------------------------------------------------------
(* The documents alone.                                                    *)

\* Every action but the one that closes a tab outside a flow.
StepButClose ==
  \/ NewTab \/ Undo \/ Redo
  \/ \E t \in Template : NewTemplate(t)
  \/ \E p \in Path : OpenFile(p) \/ AnswerName(p)
  \/ \E i \in 1..MaxTabs : SwitchTo(i)
  \/ \E text \in Text : Edit(text)
  \/ Save \/ Rename \/ Agree \/ SaveAsInstead \/ Cancel \/ Write \/ Replace \/ SaveFails
  \/ RequestQuit \/ AnswerYes \/ AnswerNo
  \/ \E p \in Path, v \in Foreign \cup {Absent} : Elsewhere(p, v)

\* Each of these actions keeps a good state.
LEMMA StepKeeps ==
  ASSUME Good, StepButClose
  PROVE  Good' /\ QuitAsked /\ Orderly
<1>1. CASE NewTab \/ (\E t \in Template : NewTemplate(t)) \/ (\E p \in Path : OpenFile(p))
           \/ (\E i \in 1..MaxTabs : SwitchTo(i))
  <2>1. Good' /\ running' = running /\ Orderly
    BY <1>1, OpeningKeeps
  <2> QED BY <2>1 DEF QuitAsked
<1>2. CASE Undo \/ Redo \/ \E text \in Text : Edit(text)
  <2>1. Good' /\ running' = running /\ Orderly
    BY <1>2, EditingKeeps
  <2> QED BY <2>1 DEF QuitAsked
<1>3. CASE Save \/ Rename \/ Agree \/ SaveAsInstead \/ Write \/ AnswerYes
           \/ \E p \in Path : AnswerName(p)
  <2>1. Good' /\ running' = running /\ Orderly
    BY <1>3, SavingKeeps
  <2> QED BY <2>1 DEF QuitAsked
<1>4. CASE Cancel \/ SaveFails
  <2>1. Abandon
    BY <1>4 DEF Cancel, SaveFails
  <2>2. Good' /\ running' = running /\ Orderly
    BY <2>1, AbandonKeeps
  <2> QED BY <2>2 DEF QuitAsked
<1>5. CASE Replace
  BY <1>5, ReplaceKeeps
<1>6. CASE RequestQuit
  BY <1>6, RequestQuitKeeps
<1>7. CASE AnswerNo
  BY <1>7, AnswerNoKeeps
<1>8. ASSUME NEW p \in Path, NEW v \in Foreign \cup {Absent}, Elsewhere(p, v)
      PROVE  Good' /\ QuitAsked /\ Orderly
  <2>1. Good' /\ running' = running /\ Orderly
    BY <1>8, ElsewhereKeeps
  <2> QED BY <2>1 DEF QuitAsked
<1> QED BY <1>1, <1>2, <1>3, <1>4, <1>5, <1>6, <1>7, <1>8 DEF StepButClose

\* So does a step that changes nothing.
LEMMA StutterKeeps ==
  ASSUME Good, UNCHANGED vars
  PROVE  Good' /\ QuitAsked
<1>1. /\ disk' = disk /\ tabs' = tabs /\ active' = active /\ flow' = flow /\ running' = running
      /\ writes' = writes /\ lost' = lost
  BY DEF vars
<1> QED BY <1>1 DEF Good, TypeOK, DocumentsInvariant, TabsKept, Sound, Keys, Current, QuitAsked

\* Every step of the documents keeps a good state, and asks before it ends.
LEMMA NextKeeps ==
  ASSUME Good, [Next]_vars
  PROVE  Good' /\ QuitAsked
<1>1. CASE StepButClose
  BY <1>1, StepKeeps
<1>2. CASE CloseTab
  BY <1>2, CloseTabKeeps DEF QuitAsked
<1>3. CASE UNCHANGED vars
  BY <1>3, StutterKeeps
<1> QED BY <1>1, <1>2, <1>3 DEF Next, StepButClose

\* The program starts in a good state, with an empty tab or with the files of
\* the last session.
LEMMA InitGood == Init => Good
<1> SUFFICES ASSUME Init PROVE Good
  OBVIOUS
<1>1. /\ disk \in [Path -> Version \cup {Absent}] /\ active \in DOMAIN tabs
      /\ flow = NoFlow /\ running = TRUE /\ writes = 0 /\ lost = FALSE
  BY DEF Init
<1>2. PICK n \in 0..MaxTabs :
        IF n = 0 THEN tabs = <<Untitled(Blank)>>
        ELSE \E paths \in {f \in [1..n -> Path] : IsInjective(f)} :
               /\ \A i \in 1..n : disk[paths[i]] # Absent
               /\ tabs = [i \in 1..n |-> Loaded(paths[i])]
  BY DEF Init
<1>3. TabsKept(tabs)
  <2>1. CASE n = 0
    <3> DEFINE only == <<Untitled(Blank)>>
    <3>1. Untitled(Blank) \in Tab /\ Kept(Untitled(Blank))
      BY UntitledKept
    <3>2. only \in Seq(Tab) /\ Len(only) = 1 /\ DOMAIN only = {1} /\ only[1] = Untitled(Blank)
      BY <3>1
    <3>3. tabs = only
      BY <1>2, <2>1
    <3> HIDE DEF only
    <3>4. TabsKept(only)
      BY <3>1, <3>2 DEF TabsKept, Apart
    <3> QED BY <3>3, <3>4
  <2>2. CASE n # 0
    <3>1. PICK paths \in {f \in [1..n -> Path] : IsInjective(f)} :
            tabs = [i \in 1..n |-> Loaded(paths[i])]
      BY <1>2, <2>2
    <3>2. \A i \in 1..n : tabs[i] \in Tab /\ Kept(tabs[i]) /\ tabs[i].key = paths[i]
      BY <1>1, <3>1, LoadedKept
    <3>3. tabs \in [1..n -> Tab] /\ n \in Nat
      BY <3>1, <3>2
    <3>4. tabs \in Seq(Tab)
      BY <3>3, SeqDef
    <3>5. DOMAIN tabs = 1..n /\ Len(tabs) = n
      BY <3>3, <3>4, LenProperties
    <3>6. Apart(tabs)
      BY <3>1, <3>2, <3>5 DEF Apart, IsInjective
    <3> QED BY <2>2, <3>2, <3>4, <3>5, <3>6 DEF TabsKept
  <2> QED BY <2>1, <2>2
<1>4. tabs \in Seq(Tab) /\ Len(tabs) \in 1..MaxTabs /\ DOMAIN tabs = 1..Len(tabs)
  BY <1>3, LenProperties DEF TabsKept
<1>5. Sound(flow) /\ flow \in Flow
  BY <1>1, <1>4, NoFlowSound
<1>6. \A i \in DOMAIN tabs : Len(tabs[i].undo) <= UndoLimit /\ Len(tabs[i].redo) <= UndoLimit
  <2>1. TAKE i \in DOMAIN tabs
  <2>2. tabs[i] \in Tab /\ Kept(tabs[i])
    BY <1>3, <1>4, ElementOfSeq DEF TabsKept
  <2>3. /\ Len(tabs[i].undo) \in Nat /\ Len(tabs[i].redo) \in Nat
        /\ Len(tabs[i].undo) + Len(tabs[i].redo) <= UndoLimit
    BY <2>2, Histories
  <2>4. \A a, b \in Nat : a + b <= UndoLimit => a <= UndoLimit /\ b <= UndoLimit
    OBVIOUS
  <2> QED BY <2>3, <2>4
<1>7. writes \in 0..MaxWrites
  BY <1>1
<1>8. TypeOK
  BY <1>1, <1>4, <1>5, <1>6, <1>7 DEF TypeOK
<1> QED BY <1>1, <1>3, <1>5, <1>8 DEF Good, DocumentsInvariant

\* What a good state says of the properties.
LEMMA GoodMeans ==
  ASSUME Good
  PROVE  NothingOverwrittenUnseen /\ CleanMeansSaved /\ OneTabPerFile
<1>1. NothingOverwrittenUnseen
  BY TheRest DEF NothingOverwrittenUnseen
<1>2. CleanMeansSaved
  <2> SUFFICES ASSUME NEW i \in DOMAIN tabs, tabs[i].path # NoPath, ~tabs[i].dirty
               PROVE  /\ tabs[i].tracked.path = tabs[i].path
                      /\ tabs[i].tracked.version.text = tabs[i].text
    BY DEF CleanMeansSaved
  <2>1. tabs[i] \in Tab /\ Kept(tabs[i])
    BY TheTabs
  <2>2. Here(tabs[i]) = tabs[i].clean
    BY <2>1 DEF Kept
  <2>3. tabs[i].clean.text = tabs[i].text
    BY <2>2 DEF Here
  <2> QED BY <2>1, <2>3 DEF Kept
<1>3. OneTabPerFile
  BY TheTabs DEF OneTabPerFile, TabsKept, Kept, Apart
<1> QED BY <1>1, <1>2, <1>3

-----------------------------------------------------------------------------
(* The documents on the screen: with the sources of schema objects, which  *)
(* are loaded in the background.                                           *)

\* The database operation goes on, ends, or starts from the active tab; a
\* definition is loaded only while no tab shows it.
LoadStep ==
  \/ load' = load
  \/ load'.kind = "none"
  \/ /\ Idle /\ load'.tab = active
     /\ load'.kind = "definition" => load'.object \in Object /\ Keys({load'.object}) = {}

\* A key that changes the view and the results of the tab leaves the rest.
LEMMA KeyLeaves ==
  ASSUME NEW v, NEW p, Key(v, p)
  PROVE  UNCHANGED vars /\ LoadStep
BY DEF Key, LoadStep

\* So does a key of the browser.
LEMMA BrowserKeyLeaves ==
  ASSUME NEW b, BrowserKey(b)
  PROVE  UNCHANGED vars /\ LoadStep
BY DEF BrowserKey, LoadStep

\* And the start of an operation that loads no definition.
LEMMA StartLeaves ==
  ASSUME NEW kind \in {"objects", "cache", "run", "explain", "rollback"}, Start(kind)
  PROVE  UNCHANGED vars /\ LoadStep
BY DEF Start, Starts, Idling, LoadStep, AtKey

\* Drawing, layout, results and most of the browser leave the documents alone.
LEMMA ScreenLeaves ==
  ASSUME \/ Draw \/ Resize \/ NoKey \/ LayoutKey \/ ResultKeys
         \/ \E found \in Narrowed : TypeFilter(found)
         \/ ShortenFilter \/ LeaveBrowser \/ ToggleGroup
         \/ \E delta \in Moves(1) \cup Moves(browser.page) : MoveInBrowser(delta)
         \/ \E kind \in {"objects", "cache"} : Start(kind)
  PROVE  UNCHANGED vars /\ LoadStep
<1>1. CASE Draw \/ Resize \/ NoKey
  BY <1>1 DEF Draw, Resize, NoKey, LoadStep
<1>2. CASE LayoutKey
  <2>1. CASE TogglePaneSize
    BY <2>1, KeyLeaves DEF TogglePaneSize
  <2>2. CASE ToggleBrowser
    BY <2>2 DEF ToggleBrowser, Starts, Idling, LoadStep, AtKey
  <2>3. ASSUME NEW delta \in Moves(1), ScrollWindow(delta) PROVE UNCHANGED vars /\ LoadStep
    <3>1. CASE ScrollBrowser(delta)
      BY <3>1 DEF ScrollBrowser, LoadStep
    <3>2. CASE ~ScrollBrowser(delta)
      BY <2>3, <3>2, KeyLeaves DEF ScrollWindow
    <3> QED BY <3>1, <3>2
  <2> QED BY <1>2, <2>1, <2>2, <2>3 DEF LayoutKey
<1>3. CASE ResultKeys
  <2>1. CASE ToggleOutput \/ ToggleDetail \/ Help \/ GoToLine \/ Refuse
    BY <2>1, KeyLeaves DEF ToggleOutput, ToggleDetail, Help, GoToLine, Refuse
  <2>2. CASE EnterResults \/ LeaveResults \/ MoveInPlan
    BY <2>2, KeyLeaves DEF EnterResults, LeaveResults, MoveInPlan, ResultsKey
  <2>3. CASE Reconnect
    BY <2>3 DEF Reconnect, Starts, Idling, LoadStep, AtKey
  <2>4. CASE FetchMore
    BY <2>4 DEF FetchMore, Idling, LoadStep, AtKey
  <2>5. CASE EditCell
    BY <2>5 DEF EditCell, LoadStep
  <2>6. ASSUME NEW delta, MoveInResults(delta) PROVE UNCHANGED vars /\ LoadStep
    BY <2>6, KeyLeaves DEF MoveInResults, ResultsKey
  <2>7. ASSUME NEW way, ScrollPage(way) PROVE UNCHANGED vars /\ LoadStep
    BY <2>7, KeyLeaves DEF ScrollPage
  <2> QED BY <1>3, <2>1, <2>2, <2>3, <2>4, <2>5, <2>6, <2>7, StartLeaves DEF ResultKeys
<1>4. ASSUME NEW found, TypeFilter(found) PROVE UNCHANGED vars /\ LoadStep
  BY <1>4, BrowserKeyLeaves DEF TypeFilter
<1>5. CASE ShortenFilter \/ ToggleGroup
  BY <1>5, BrowserKeyLeaves DEF ShortenFilter, ToggleGroup
<1>6. CASE LeaveBrowser
  BY <1>6, KeyLeaves DEF LeaveBrowser
<1>7. ASSUME NEW delta, MoveInBrowser(delta) PROVE UNCHANGED vars /\ LoadStep
  BY <1>7, BrowserKeyLeaves DEF MoveInBrowser
<1> QED BY <1>1, <1>2, <1>3, <1>4, <1>5, <1>6, <1>7, StartLeaves

\* So do the completions, but for the one that brings a definition.
LEMMA CompletionLeaves ==
  ASSUME QueryCompletion \/ \E kind \in {"objects", "cache"} : ObjectsLoaded(kind)
  PROVE  UNCHANGED vars /\ LoadStep
<1>1. ASSUME NEW kind, Completes(kind) PROVE LoadStep
  BY <1>1 DEF Completes, Idling, LoadStep
<1>2. ASSUME NEW f, NEW p, Puts(f, p) PROVE UNCHANGED vars
  BY <1>2 DEF Puts
<1>3. CASE RunCompletes
  BY <1>1, <1>2, <1>3 DEF RunCompletes
<1>4. CASE ExplainCompletes
  BY <1>1, <1>2, <1>4 DEF ExplainCompletes
<1>5. CASE FetchCompletes
  BY <1>1, <1>2, <1>5 DEF FetchCompletes
<1>6. CASE RollbackCompletes
  BY <1>1, <1>2, <1>6 DEF RollbackCompletes
<1>7. CASE ConnectCompletes
  BY <1>1, <1>2, <1>7 DEF ConnectCompletes
<1>8. ASSUME NEW kind, ObjectsLoaded(kind) PROVE UNCHANGED vars /\ LoadStep
  BY <1>1, <1>2, <1>8 DEF ObjectsLoaded
<1> QED BY <1>3, <1>4, <1>5, <1>6, <1>7, <1>8 DEF QueryCompletion

\* The keys of the documents, and other programs, are steps of the documents
\* that leave the operation alone; a tab is closed while none runs.
LEMMA DocumentKeySteps ==
  ASSUME DocumentKey \/ TextKey \/ Others
  PROVE  (StepButClose \/ (CloseTab /\ ~Busy)) /\ load' = load
<1>1. CASE OpenTab
  BY <1>1 DEF OpenTab, StepButClose
<1>2. CASE CloseShown
  BY <1>2 DEF CloseShown
<1>3. CASE SaveOrQuit
  BY <1>3 DEF SaveOrQuit, StepButClose
<1>4. CASE Answer
  BY <1>4 DEF Answer, StepButClose
<1>5. ASSUME NEW i \in 1..MaxTabs, ChangeTab(i)
      PROVE  StepButClose /\ load' = load
  BY <1>5 DEF ChangeTab, StepButClose
<1>6. CASE TextKey
  BY <1>6 DEF TextKey, TypeText, MenuEdit, StepButClose
<1>7. CASE Others
  BY <1>7 DEF Others, StepButClose, screenVars
<1> QED BY <1>1, <1>2, <1>3, <1>4, <1>5, <1>6, <1>7 DEF DocumentKey

\* What an operation relies on is kept by every step.
LEMMA LoadInvariantKept ==
  ASSUME Good, LoadInvariant,
         \/ UNCHANGED vars /\ LoadStep
         \/ (StepButClose \/ (CloseTab /\ ~Busy)) /\ load' = load
  PROVE  LoadInvariant'
<1>1. CASE UNCHANGED vars /\ LoadStep
  <2>1. tabs' = tabs /\ flow' = flow
    BY <1>1 DEF vars
  <2>2. CASE load' = load
    BY <2>1, <2>2 DEF LoadInvariant, Busy, Keys
  <2>3. CASE load'.kind = "none"
    BY <2>3 DEF LoadInvariant, Busy
  <2>4. CASE /\ Idle /\ load'.tab = active
             /\ load'.kind = "definition" => load'.object \in Object /\ Keys({load'.object}) = {}
    <3>1. load'.kind = "definition" => load'.object \in Object /\ Keys({load.object})' = {}
      BY <2>1, <2>4 DEF Keys
    <3> QED BY <2>1, <2>4, <3>1, TheTabs DEF LoadInvariant, Busy, Idle
  <2> QED BY <1>1, <2>2, <2>3, <2>4 DEF LoadStep
<1>2. CASE StepButClose /\ load' = load
  <2>1. Orderly
    BY <1>2, StepKeeps
  <2>2. load'.kind = "definition" => load'.object \in Object /\ Keys({load.object})' = {}
    BY <1>2, <2>1 DEF Orderly, NoNewSource, LoadInvariant, Keys
  <2>3. Busy' => load'.tab \in DOMAIN tabs' /\ (flow'.at # "idle" => flow'.next # "close")
    BY <1>2, <2>1 DEF Orderly, LoadInvariant, Busy
  <2> QED BY <2>2, <2>3 DEF LoadInvariant
<1>3. CASE CloseTab /\ ~Busy /\ load' = load
  BY <1>3 DEF LoadInvariant, Busy
<1> QED BY <1>1, <1>2, <1>3

\* An object is chosen in the browser: its tab is shown, or its definition
\* is loaded because no tab shows it.
LEMMA OpenObjectKeeps ==
  ASSUME Good, LoadInvariant, OpenObject
  PROVE  Good' /\ QuitAsked /\ LoadInvariant'
<1> DEFINE o == Chosen.object
<1>1. Idle /\ o \in Object /\ Open(o)
  BY DEF OpenObject, AtKey
<1> HIDE DEF o
<1>2. CASE Keys({o}) # {}
  <2>1. /\ active' = Min(Keys({o}))
        /\ UNCHANGED <<load, disk, tabs, flow, running, writes, lost>>
    BY <1>1, <1>2 DEF Open
  <2>2. Keys({o}) \in SUBSET Nat /\ Keys({o}) \subseteq DOMAIN tabs
    BY TheTabs DEF Keys
  <2>3. active' \in DOMAIN tabs
    BY <1>2, <2>1, <2>2, MinIn
  <2>4. Good'
    BY <1>1, <2>1, <2>3, ShowKeeps
  <2> QED BY <2>1, <2>4 DEF QuitAsked, LoadInvariant, Busy, Keys
<1>3. CASE Keys({o}) = {}
  <2>1. /\ load' = [Idling EXCEPT !.kind = "definition", !.tab = active, !.object = o]
        /\ UNCHANGED vars
    BY <1>1, <1>3 DEF Open, LoadDefinition, Starts
  <2>2. load'.tab = active /\ load'.object = o
    BY <2>1 DEF Idling
  <2>3. LoadStep
    BY <1>1, <1>3, <2>2 DEF LoadStep
  <2> QED BY <2>1, <2>3, StutterKeeps, LoadInvariantKept
<1> QED BY <1>2, <1>3

\* A definition has been loaded, or could not be: it opens a tab that no other
\* shows, or the tab it was started from is shown.
LEMMA DefinitionLoadedKeeps ==
  ASSUME Good, LoadInvariant, DefinitionLoaded
  PROVE  Good' /\ QuitAsked /\ LoadInvariant'
<1>1. Idle /\ load.kind = "definition" /\ load'.kind = "none"
  BY DEF DefinitionLoaded, Completes, Idling
<1>2. LoadInvariant'
  BY <1>1 DEF LoadInvariant, Busy
<1>3. /\ load.object \in Object /\ Keys({load.object}) = {} /\ load.tab \in DOMAIN tabs
  BY <1>1 DEF LoadInvariant, Busy
<1>4. ASSUME NEW text \in Text, Add(Sourced(load.object, text)),
             UNCHANGED <<disk, flow, running, writes, lost>>
      PROVE  Good' /\ QuitAsked
  <2>1. /\ Sourced(load.object, text) \in Tab /\ Kept(Sourced(load.object, text))
        /\ Sourced(load.object, text).key = load.object
    BY <1>3, SourcedKept
  <2>2. Good'
    BY <1>1, <1>3, <1>4, <2>1, AddKeeps
  <2> QED BY <1>4, <2>2 DEF QuitAsked
<1>5. ASSUME active' = load.tab, UNCHANGED <<disk, tabs, flow, running, writes, lost>>
      PROVE  Good' /\ QuitAsked
  BY <1>1, <1>3, <1>5, ShowKeeps DEF QuitAsked
<1> QED BY <1>2, <1>4, <1>5 DEF DefinitionLoaded

\* Every step of the screen keeps a good state, and asks before it ends.
LEMMA ScreenKeeps ==
  ASSUME Good, LoadInvariant, [ScreenNext]_allVars
  PROVE  Good' /\ QuitAsked /\ LoadInvariant'
<1>1. ASSUME UNCHANGED vars, LoadStep PROVE Good' /\ QuitAsked /\ LoadInvariant'
  BY <1>1, StutterKeeps, LoadInvariantKept
<1>2. CASE DocumentKey \/ TextKey \/ Others
  <2>1. (StepButClose \/ (CloseTab /\ ~Busy)) /\ load' = load
    BY <1>2, DocumentKeySteps
  <2>2. Good' /\ QuitAsked
    <3>1. CASE StepButClose
      BY <3>1, StepKeeps
    <3>2. CASE CloseTab
      BY <3>2, CloseTabKeeps DEF QuitAsked
    <3> QED BY <2>1, <3>1, <3>2
  <2> QED BY <2>1, <2>2, LoadInvariantKept
<1>3. CASE OpenObject
  BY <1>3, OpenObjectKeeps
<1>4. CASE BrowserKeys /\ ~OpenObject
  <2>1. UNCHANGED vars /\ LoadStep
    BY <1>4, ScreenLeaves DEF BrowserKeys
  <2> QED BY <1>1, <2>1
<1>5. CASE Draw \/ Resize \/ NoKey \/ LayoutKey \/ ResultKeys
  <2>1. UNCHANGED vars /\ LoadStep
    BY <1>5, ScreenLeaves
  <2> QED BY <1>1, <2>1
<1>6. CASE DefinitionLoaded
  BY <1>6, DefinitionLoadedKeeps
<1>7. CASE QueryCompletion \/ \E kind \in {"objects", "cache"} : ObjectsLoaded(kind)
  <2>1. UNCHANGED vars /\ LoadStep
    BY <1>7, CompletionLeaves
  <2> QED BY <1>1, <2>1
<1>8. CASE UNCHANGED allVars
  <2>1. UNCHANGED vars /\ LoadStep
    BY <1>8 DEF allVars, screenVars, LoadStep
  <2> QED BY <1>1, <2>1
<1> QED BY <1>2, <1>3, <1>4, <1>5, <1>6, <1>7, <1>8 DEF ScreenNext, SchemaCompletion

-----------------------------------------------------------------------------
(* The screen: lists that are scrolled.                                    *)

\* A selection that is revealed is in the window.
LEMMA RevealShows ==
  ASSUME NEW sel \in Int, NEW scroll \in Int, NEW visible \in Int, NEW total \in Int
  PROVE  LET s == Reveal(sel, scroll, visible, total)
         IN  s \in Int /\ (visible >= 1 => s <= sel /\ sel < s + visible)
<1>1. PICK v \in Int : v = Larger(1, visible) /\ v >= 1 /\ (visible >= 1 => v = visible)
  BY DEF Larger
<1>2. PICK c \in Int : c = ClampedScroll(scroll, total, v)
  <2>1. ClampedScroll(scroll, total, v) \in Int
    BY DEF ClampedScroll
  <2> QED BY <2>1
<1>3. Reveal(sel, scroll, visible, total) = Following(c, sel, v)
  BY <1>1, <1>2 DEF Reveal
<1> QED BY <1>1, <1>2, <1>3 DEF Following

\* A row that is clamped is a row, and stays when it is clamped again.
LEMMA ClampedIs ==
  ASSUME NEW row \in Int, NEW total \in Nat
  PROVE  LET r == ClampedRow(row, total)
         IN  /\ r \in Nat /\ ClampedRow(r, total) = r
             /\ total > 0 => r < total
BY DEF ClampedRow

\* The names listed below a heading, and the whole list, are sequences.
LEMMA EntriesTyped ==
  ASSUME NEW b, b.objects \subseteq Object
  PROVE  \E S : Entries(b) \in Seq(S)
<1>1. IsFiniteSet(Object)
  <2>1. Names \in Seq(Object) /\ \A o \in Object : \E k \in 1..Len(Names) : Names[k] = o
    BY ScreenAssumption DEF Range
  <2> QED BY <2>1 DEF IsFiniteSet
<1>2. PICK own : own = [k \in DOMAIN Types |-> {o \in Matched(b) : TypeOf[o] = Types[k]}]
  OBVIOUS
<1>3. ASSUME NEW k \in DOMAIN Types PROVE Cardinality(own[k]) \in Nat
  <2>1. own[k] \subseteq Object
    BY <1>2 DEF Matched
  <2> QED BY <1>1, <2>1, FS_Subset, FS_CardinalityType
<1>4. PICK rest : rest = [k \in DOMAIN Types |-> [j \in 1..Cardinality(own[k]) |->
                            [type |-> Types[k], object |-> ByName(own[k])[j]]]]
  OBVIOUS
<1>5. PICK list : list = [k \in DOMAIN Types |-> Listed(b, Types[k], own[k])]
  OBVIOUS
<1> DEFINE S == {Heading(Types[k]) : k \in DOMAIN Types}
                  \cup {[type |-> Types[k], object |-> ByName(own[k])[j]] : k \in DOMAIN Types, j \in Nat}
<1>6. \A k \in DOMAIN Types : /\ Heading(Types[k]) \in S
                             /\ \A j \in Nat : [type |-> Types[k], object |-> ByName(own[k])[j]] \in S
  OBVIOUS
<1> HIDE DEF S
<1>7. ASSUME NEW k \in DOMAIN Types PROVE list[k] \in Seq(S)
  <2>1. PICK n \in Nat : n = Cardinality(own[k])
    BY <1>3
  <2>2. PICK more : more = rest[k]
    OBVIOUS
  <2>3. more = [j \in 1..n |-> [type |-> Types[k], object |-> ByName(own[k])[j]]]
    BY <1>4, <2>1, <2>2
  <2>4. ASSUME NEW j \in 1..n PROVE more[j] \in S
    <3>1. j \in Nat /\ more[j] = [type |-> Types[k], object |-> ByName(own[k])[j]]
      BY <2>3
    <3> QED BY <1>6, <3>1
  <2>5. more \in Seq(S)
    <3>1. more = [j \in 1..n |-> more[j]]
      BY <2>3
    <3> QED BY <2>4, <3>1
  <2>6. PICK head : head = <<Heading(Types[k])>>
    OBVIOUS
  <2>7. head \in Seq(S) /\ <<>> \in Seq(S)
    BY <1>6, <2>6
  <2>8. head \o more \in Seq(S) /\ head \o <<>> \in Seq(S)
    BY <2>5, <2>7
  <2>9. list[k] = <<>> \/ list[k] = head \o more \/ list[k] = head \o <<>>
    BY <1>4, <1>5, <2>2, <2>6 DEF Listed
  <2> QED BY <2>7, <2>8, <2>9
<1>8. list \in Seq(Seq(S))
  <2>1. PICK m \in Nat : DOMAIN Types = 1..m
    <3>1. Types \in Seq(Range(Types))
      BY ScreenAssumption
    <3> QED BY <3>1, LenProperties
  <2>2. list = [k \in 1..m |-> list[k]]
    BY <1>5, <2>1
  <2>3. \A k \in 1..m : list[k] \in Seq(S)
    BY <1>7, <2>1
  <2> QED BY <2>2, <2>3
<1>9. Entries(b) = FlattenSeq(list)
  BY <1>2, <1>5 DEF Entries
<1> QED BY <1>8, <1>9, FlattenTyped

LEMMA SizeTyped ==
  ASSUME NEW b, b.objects \subseteq Object
  PROVE  Size(b) \in Nat /\ DOMAIN Entries(b) = 1..Size(b)
BY EntriesTyped DEF Size

-----------------------------------------------------------------------------
(* What keys and completions make of results and browser.                   *)

\* Results keep their type, and a table or a plan, not both.
LEMMA ClearedIs == ASSUME NEW p \in Pane PROVE Cleared(p) \in Pane
<1>1. NoResults \in Pane
  BY DEF Pane, NoResults
<1>2. \A q \in Pane : [q EXCEPT !.text = TRUE, !.detail = p.detail, !.page = p.page] \in Pane
  BY DEF Pane
<1> QED BY <1>1, <1>2 DEF Cleared

LEMMA ClampedPane ==
  ASSUME NEW p \in Pane
  PROVE  /\ Clamped(p) \in Pane
         /\ Clamped(p).grid = p.grid /\ Clamped(p).explain = p.explain
         /\ Clamped(p).detail = p.detail /\ Clamped(p).output = p.output
         /\ Clamped(p).shown = p.shown /\ Clamped(p).rows = p.rows
         /\ p.grid => Clamped(p).sel = ClampedRow(p.sel, p.rows)
<1>1. PICK sel, scroll \in Int : sel = ClampedRow(p.sel, p.rows) /\ scroll = ClampedRow(p.scroll, p.rows)
  <2>1. ClampedRow(p.sel, p.rows) \in Int /\ ClampedRow(p.scroll, p.rows) \in Int
    BY ClampedIs DEF Pane
  <2> QED BY <2>1
<1>2. PICK z \in Int : z = 0
  OBVIOUS
<1>3. \/ p.grid /\ Clamped(p) = [p EXCEPT !.sel = sel, !.scroll = scroll]
      \/ ~p.grid /\ Clamped(p) = [p EXCEPT !.sel = z, !.scroll = z]
  BY <1>1, <1>2 DEF Clamped
<1> QED BY <1>1, <1>3 DEF Pane

LEMMA SelectingIs ==
  ASSUME NEW p \in Pane, NEW row \in Int
  PROVE  Selecting(p, row) \in Pane
<1>1. [p EXCEPT !.sel = row] \in Pane
  BY DEF Pane
<1> QED BY <1>1, ClampedPane DEF Selecting

LEMMA ScrolledIs ==
  ASSUME NEW p \in Pane, NEW delta \in Int
  PROVE  Scrolled(p, delta) \in Pane
<1>1. PICK s \in Int : s = ClampedScroll(p.scroll + delta, p.rows, p.page)
  <2>1. ClampedScroll(p.scroll + delta, p.rows, p.page) \in Int
    BY DEF ClampedScroll, Pane
  <2> QED BY <2>1
<1>2. PICK r \in Int : r = Inside(ClampedRow(p.sel, p.rows), s, p.page, p.rows)
  <2>1. ClampedRow(p.sel, p.rows) \in Int
    BY ClampedIs DEF Pane
  <2>2. s + p.page - 1 \in Int
    BY DEF Pane
  <2>3. ClampedRow(s + p.page - 1, p.rows) \in Int
    BY <2>2, ClampedIs DEF Pane
  <2> QED BY <2>1, <2>3 DEF Inside
<1>3. Scrolled(p, delta) = p \/ Scrolled(p, delta) = [p EXCEPT !.scroll = s, !.sel = r]
  BY <1>1, <1>2 DEF Scrolled
<1> QED BY <1>3 DEF Pane

\* Preparing a frame changes selection, window and page only, and a table that
\* is drawn has its selection in the window.
LEMMA PreparedIs ==
  ASSUME NEW p \in Pane, NEW visible \in Int
  PROVE  LET q == PreparedPane(p, visible)
         IN  /\ q \in Pane
             /\ q.grid = p.grid /\ q.explain = p.explain /\ q.detail = p.detail
             /\ q.output = p.output /\ q.shown = p.shown /\ q.rows = p.rows
             /\ p.grid /\ ~OutputFirst(p) /\ ~p.detail /\ visible > 0 /\ p.rows > 0
                  => RowShown(q, visible) = q.sel
<1>1. PICK c : c = Clamped(p)
  OBVIOUS
<1>2. /\ c \in Pane /\ c.grid = p.grid /\ c.explain = p.explain /\ c.detail = p.detail
      /\ c.output = p.output /\ c.shown = p.shown /\ c.rows = p.rows
      /\ p.grid => c.sel = ClampedRow(p.sel, p.rows)
  BY <1>1, ClampedPane
<1>3. PICK l \in Int : l = Larger(1, visible)
  BY DEF Larger
<1>4. PICK s \in Int : /\ s = Reveal(c.sel, c.scroll, visible, c.rows)
                       /\ visible >= 1 => s <= c.sel /\ c.sel < s + visible
  <2>1. c.sel \in Int /\ c.scroll \in Int /\ c.rows \in Int
    BY <1>2 DEF Pane
  <2> QED BY <2>1, RevealShows
<1>5. PICK q : q = PreparedPane(p, visible)
  OBVIOUS
<1>6. CASE OutputFirst(p) \/ p.explain \/ ~p.grid
  <2>1. q = p
    BY <1>5, <1>6 DEF PreparedPane
  <2> QED BY <1>5, <1>6, <2>1 DEF Pane
<1>7. CASE ~OutputFirst(p) /\ ~p.explain /\ p.grid /\ p.detail
  <2>1. q = [c EXCEPT !.page = l]
    BY <1>1, <1>3, <1>5, <1>7 DEF PreparedPane
  <2>2. /\ q \in Pane /\ q.grid = c.grid /\ q.explain = c.explain /\ q.detail = c.detail
        /\ q.output = c.output /\ q.shown = c.shown /\ q.rows = c.rows
    BY <1>2, <2>1 DEF Pane
  <2> QED BY <1>2, <1>5, <1>7, <2>2
<1>8. CASE ~OutputFirst(p) /\ ~p.explain /\ p.grid /\ ~p.detail
  <2>1. q = [c EXCEPT !.scroll = s, !.page = l]
    BY <1>1, <1>3, <1>4, <1>5, <1>8 DEF PreparedPane
  <2>2. q \in Pane /\ q.sel = c.sel /\ q.scroll = s /\ q.rows = c.rows
    BY <1>2, <2>1 DEF Pane
  <2>3. p.rows > 0 => c.sel < c.rows
    BY <1>2, <1>8, ClampedIs DEF Pane
  <2>4. visible > 0 /\ p.rows > 0 => RowShown(q, visible) = q.sel
    BY <1>2, <1>4, <2>2, <2>3 DEF RowShown, Pane
  <2> QED BY <1>2, <1>5, <2>1, <2>2, <2>4 DEF Pane
<1> QED BY <1>6, <1>7, <1>8

\* The list depends on the objects, the filter and the open groups.
LEMMA SameEntries ==
  ASSUME NEW a, NEW b, a.objects = b.objects, a.filter = b.filter, a.expanded = b.expanded
  PROVE  Entries(a) = Entries(b) /\ Size(a) = Size(b)
<1>1. Matched(a) = Matched(b)
  BY DEF Matched
<1>2. \A t, own : Listed(a, t, own) = Listed(b, t, own)
  BY DEF Listed
<1>3. [k \in DOMAIN Types |-> Listed(a, Types[k], {o \in Matched(a) : TypeOf[o] = Types[k]})]
      = [k \in DOMAIN Types |-> Listed(b, Types[k], {o \in Matched(b) : TypeOf[o] = Types[k]})]
  BY <1>1, <1>2
<1>4. Entries(a) = Entries(b)
  BY <1>3 DEF Entries
<1> QED BY <1>4 DEF Size

\* A frame leaves the list as it is and highlights the row Enter would open.
LEMMA PreparedBrowserIs ==
  ASSUME NEW b, IsBrowser(b), NEW visible \in Int
  PROVE  LET c == PreparedBrowser(b, visible)
         IN  /\ IsBrowser(c)
             /\ visible > 0 /\ Size(c) > 0
                  => Highlighted(c, visible) = Entries(c)[ClampedRow(c.row, Size(c)) + 1]
<1>1. PICK n \in Nat : n = Size(b)
  BY SizeTyped DEF IsBrowser
<1>2. PICK row \in Nat : /\ row = ClampedRow(b.row, n) /\ ClampedRow(row, n) = row
                         /\ n > 0 => row < n
  BY ClampedIs DEF IsBrowser
<1>3. PICK scroll \in Int : /\ scroll = Reveal(row, b.scroll, visible, n)
                            /\ visible >= 1 => scroll <= row /\ row < scroll + visible
  <2>1. row \in Int /\ b.scroll \in Int /\ n \in Int
    BY DEF IsBrowser
  <2> QED BY <2>1, RevealShows
<1>4. PICK page \in Int : page = Larger(1, visible)
  BY DEF Larger
<1>5. PICK c : c = PreparedBrowser(b, visible)
  OBVIOUS
<1>6. c = [b EXCEPT !.row = row, !.scroll = scroll, !.page = page]
  <2>1. /\ ClampedRow(b.row, Size(b)) = row /\ Larger(1, visible) = page
        /\ Reveal(ClampedRow(b.row, Size(b)), b.scroll, visible, Size(b)) = scroll
    BY <1>1, <1>2, <1>3, <1>4
  <2> QED BY <1>5, <2>1, Zenon DEF PreparedBrowser
<1>7. /\ IsBrowser(c) /\ c.row = row /\ c.scroll = scroll
      /\ c.objects = b.objects /\ c.filter = b.filter /\ c.expanded = b.expanded
  BY <1>6 DEF IsBrowser, BrowserFields
<1>8. Size(c) = n
  BY <1>1, <1>7, SameEntries
<1>9. ASSUME visible > 0, n > 0 PROVE Highlighted(c, visible) = Entries(c)[row + 1]
  <2>1. c.row < Size(c) /\ c.row >= c.scroll /\ c.row < c.scroll + visible
    BY <1>2, <1>3, <1>7, <1>8, <1>9
  <2> QED BY <1>7, <2>1 DEF Highlighted
<1>10. visible > 0 /\ Size(c) > 0
         => Highlighted(c, visible) = Entries(c)[ClampedRow(c.row, Size(c)) + 1]
  BY <1>2, <1>7, <1>8, <1>9
<1> QED BY <1>5, <1>7, <1>10

-----------------------------------------------------------------------------
(* A frame is drawn.                                                       *)

\* What is on the screen, in a state of the invariant.
LEMMA TheScreen ==
  ASSUME Good, ScreenInvariant
  PROVE  /\ view \in View /\ view.height \in Nat /\ view.height >= 1
         /\ panes \in Seq(Pane) /\ Len(panes) = Len(tabs) /\ DOMAIN panes = DOMAIN tabs
         /\ active \in DOMAIN panes /\ Mine \in Pane
         /\ \A i \in DOMAIN panes : panes[i] \in Pane
         /\ IsBrowser(browser)
<1>1. view \in View /\ panes \in Seq(Pane) /\ Len(panes) = Len(tabs) /\ IsBrowser(browser)
  BY DEF ScreenInvariant
<1>2. view.height \in Nat /\ view.height >= 1
  <2>1. view.height \in Height
    BY <1>1 DEF View
  <2>2. Height \subseteq Nat \ {0}
    BY ScreenAssumption
  <2>3. PICK h \in Nat \ {0} : h = view.height
    BY <2>1, <2>2
  <2>4. h >= 1
    BY <2>3
  <2> QED BY <2>3, <2>4
<1>3. DOMAIN panes = DOMAIN tabs /\ active \in DOMAIN panes
  BY <1>1, TheTabs
<1>4. \A i \in DOMAIN panes : panes[i] \in Pane
  BY <1>1
<1> QED BY <1>1, <1>2, <1>3, <1>4 DEF Mine

\* The frame shows what the next key acts on.
LEMMA DrawKeeps ==
  ASSUME Good, ScreenInvariant, Draw
  PROVE  ScreenInvariant'
<1>1. PICK visible \in Int : visible = GridRows(view, Mine)
  <2>1. GridRows(view, Mine) \in Int
    BY TheScreen DEF GridRows
  <2> QED BY <2>1
<1>2. PICK height \in Int : height = BrowserRows(view, Mine)
  <2>1. BrowserRows(view, Mine) \in Int
    BY TheScreen DEF BrowserRows
  <2> QED BY <2>1
<1>3. PICK q : q = PreparedPane(Mine, visible)
  OBVIOUS
<1>4. /\ q \in Pane
      /\ q.grid = Mine.grid /\ q.explain = Mine.explain /\ q.detail = Mine.detail
      /\ q.output = Mine.output /\ q.shown = Mine.shown /\ q.rows = Mine.rows
      /\ Mine.grid /\ ~OutputFirst(Mine) /\ ~Mine.detail /\ visible > 0 /\ Mine.rows > 0
           => RowShown(q, visible) = q.sel
  BY <1>3, TheScreen, PreparedIs
<1>5. PICK b : b = PreparedBrowser(browser, height)
  OBVIOUS
<1>6. /\ IsBrowser(b)
      /\ height > 0 /\ Size(b) > 0 => Highlighted(b, height) = Entries(b)[ClampedRow(b.row, Size(b)) + 1]
  BY <1>5, TheScreen, PreparedBrowserIs
<1>7. panes' = [panes EXCEPT ![active] = q] /\ browser' = b
  BY <1>1, <1>2, <1>3, <1>5 DEF Draw, Mine
<1>8. /\ frame' = Drawn(view, panes'[active], b)
      /\ did' = Nothing /\ view' = view /\ load' = load /\ tabs' = tabs /\ active' = active
  BY <1>7 DEF Draw, vars
<1>9. panes' \in Seq(Pane) /\ Len(panes') = Len(tabs') /\ panes'[active] = q
  BY <1>4, <1>7, <1>8, TheScreen
<1>10. frame' = Drawn(view, q, b)
  BY <1>8, <1>9
<1>11. /\ GridRows(view, q) = visible /\ BrowserRows(view, q) = height
       /\ GridAlone(view, q) = GridAlone(view, Mine) /\ EditorAlone(view, q) = EditorAlone(view, Mine)
       /\ OutputFirst(q) = OutputFirst(Mine)
  BY <1>1, <1>2, <1>4 DEF GridRows, BrowserRows, GridAlone, EditorAlone, OutputFirst
<1>12. frame'.editor = EditorDrawn(view, q)
  BY <1>10 DEF Drawn
<1>13. ASSUME frame'.browser, Size(b) > 0
       PROVE  frame'.entry = Entries(b)[ClampedRow(b.row, Size(b)) + 1]
  <2>1. BrowserDrawn(view, q)
    BY <1>10, <1>13 DEF Drawn
  <2>2. height > 0
    BY <1>11, <2>1, TheScreen DEF BrowserDrawn, BrowserRows
  <2>3. frame'.entry = Highlighted(b, height)
    BY <1>10, <1>11 DEF Drawn
  <2> QED BY <1>6, <1>13, <2>2, <2>3
<1>14. ASSUME frame'.grid, ~frame'.behind PROVE frame'.row = q.sel
  <2>1. /\ GridDrawn(view, q) /\ GridRows(view, q) > 0 /\ q.rows > 0 /\ ~q.detail /\ ~OutputFirst(q)
        /\ frame'.row = RowShown(q, GridRows(view, q))
    BY <1>10, <1>14 DEF Drawn
  <2>2. q.grid
    BY <2>1 DEF GridDrawn, GridAlone
  <2> QED BY <1>4, <1>11, <2>1, <2>2
<1>15. Mine' = q
  BY <1>8, <1>9 DEF Mine
<1>16. FrameKept'
  BY <1>7, <1>8, <1>12, <1>13, <1>14, <1>15 DEF FrameKept, Chosen
<1>17. KeysActOnWhatIsShown'
  BY <1>8 DEF KeysActOnWhatIsShown, Nothing
<1>18. view' \in View /\ load'.row \in Int /\ IsBrowser(browser)'
  BY <1>6, <1>7, <1>8 DEF ScreenInvariant, IsBrowser
<1> QED BY <1>9, <1>16, <1>17, <1>18 DEF ScreenInvariant

-----------------------------------------------------------------------------
(* The schema browser keeps its shape.                                      *)

\* The row of the first object is a number.
LEMMA FirstObjectIs ==
  ASSUME NEW b, b.objects \subseteq Object
  PROVE  FirstObject(b) \in Int
<1>1. PICK places : places = {k \in DOMAIN Entries(b) : Entries(b)[k].object # None}
  OBVIOUS
<1>2. places \in SUBSET Nat
  BY <1>1, SizeTyped
<1>3. CASE places = {}
  BY <1>1, <1>3 DEF FirstObject
<1>4. CASE places # {}
  <2>1. Min(places) \in Nat
    BY <1>2, <1>4, MinIn
  <2>2. FirstObject(b) = Min(places) - 1
    BY <1>1, <1>4 DEF FirstObject
  <2> QED BY <2>1, <2>2
<1> QED BY <1>3, <1>4

\* Moving, filtering and folding keep it.
LEMMA BrowserMoves ==
  ASSUME NEW b, IsBrowser(b)
  PROVE  /\ IsBrowser(Seen(b)) /\ IsBrowser(Topmost(b)) /\ IsBrowser(Reloaded(b)) /\ IsBrowser(Recached(b))
         /\ \A row \in Int : IsBrowser(MovedTo(b, row))
         /\ \A filter : IsBrowser(Filtered(b, filter))
         /\ \A t : IsBrowser(Toggled(b, t))
         /\ \A row, scroll \in Int : IsBrowser([b EXCEPT !.scroll = scroll, !.row = row])
         /\ IsBrowser([b EXCEPT !.row = ClampedRow(@, Size(b))])
<1>1. ASSUME NEW row \in Int, NEW scroll \in Int
      PROVE  IsBrowser([b EXCEPT !.scroll = scroll, !.row = row])
  BY DEF IsBrowser, BrowserFields
<1>2. ASSUME NEW c, IsBrowser(c) PROVE IsBrowser(Seen(c))
  <2>1. Following(c.scroll, c.row, c.page) \in Int
    BY <1>2 DEF IsBrowser, Following
  <2>2. PICK scroll \in Int : scroll = Following(c.scroll, c.row, c.page)
    BY <2>1
  <2>3. Seen(c) = [c EXCEPT !.scroll = scroll]
    BY <2>2 DEF Seen
  <2> QED BY <1>2, <2>3 DEF IsBrowser, BrowserFields
<1>3. ASSUME NEW c, IsBrowser(c) PROVE IsBrowser(Topmost(c))
  <2>1. PICK row \in Int : row = IF c.filter = <<>> THEN 0 ELSE FirstObject(c)
    BY <1>3, FirstObjectIs DEF IsBrowser
  <2>2. PICK z \in Int : z = 0
    OBVIOUS
  <2>3. Topmost(c) = [c EXCEPT !.row = row, !.scroll = z]
    BY <2>1, <2>2 DEF Topmost
  <2> QED BY <1>3, <2>3 DEF IsBrowser, BrowserFields
<1>4. ASSUME NEW c, IsBrowser(c), NEW row \in Int PROVE ClampedRow(row, Size(c)) \in Int
  <2>1. PICK n \in Nat : n = Size(c)
    BY <1>4, SizeTyped DEF IsBrowser
  <2>2. ClampedRow(row, n) \in Int
    BY <1>4 DEF ClampedRow
  <2> QED BY <2>1, <2>2
<1>5. ASSUME NEW c, IsBrowser(c) PROVE IsBrowser([c EXCEPT !.row = ClampedRow(@, Size(c))])
  <2>1. PICK row \in Int : row = ClampedRow(c.row, Size(c))
    BY <1>4, <1>5 DEF IsBrowser
  <2>2. [c EXCEPT !.row = ClampedRow(@, Size(c))] = [c EXCEPT !.row = row]
    BY <2>1
  <2> QED BY <1>5, <2>2 DEF IsBrowser, BrowserFields
<1>6. IsBrowser(Reloaded(b))
  <2>1. CASE b.filter # <<>>
    BY <1>3, <2>1 DEF Reloaded
  <2>2. CASE b.filter = <<>>
    <3>1. PICK row \in Int : row = ClampedRow(b.row, Size(b))
      BY <1>4 DEF IsBrowser
    <3>2. PICK scroll \in Int : scroll = IF Size(b) = 0 THEN 0 ELSE b.scroll
      BY DEF IsBrowser
    <3>3. Reloaded(b) = [b EXCEPT !.row = row, !.scroll = scroll]
      BY <2>2, <3>1, <3>2 DEF Reloaded
    <3> QED BY <3>3 DEF IsBrowser, BrowserFields
  <2> QED BY <2>1, <2>2
<1>7. IsBrowser(Recached(b))
  BY <1>5 DEF Recached
<1>8. ASSUME NEW row \in Int PROVE IsBrowser(MovedTo(b, row))
  <2>1. PICK r \in Int : r = ClampedRow(row, Size(b))
    BY <1>4
  <2>2. MovedTo(b, row) = Seen([b EXCEPT !.row = r])
    BY <2>1 DEF MovedTo
  <2>3. IsBrowser([b EXCEPT !.row = r])
    BY DEF IsBrowser, BrowserFields
  <2> QED BY <1>2, <2>2, <2>3
<1>9. ASSUME NEW filter PROVE IsBrowser(Filtered(b, filter))
  <2>1. PICK c : c = [b EXCEPT !.filter = filter]
    OBVIOUS
  <2>2. IsBrowser(c)
    BY <2>1 DEF IsBrowser, BrowserFields
  <2> QED BY <1>3, <2>1, <2>2 DEF Filtered
<1>10. ASSUME NEW t PROVE IsBrowser(Toggled(b, t))
  <2>1. PICK groups : groups = IF t \in b.expanded THEN b.expanded \ {t} ELSE b.expanded \cup {t}
    OBVIOUS
  <2>2. PICK c : c = [b EXCEPT !.expanded = groups]
    OBVIOUS
  <2>3. IsBrowser(c)
    BY <2>2 DEF IsBrowser, BrowserFields
  <2>4. Toggled(b, t) = [c EXCEPT !.row = ClampedRow(@, Size(c))]
    BY <2>1, <2>2 DEF Toggled
  <2> QED BY <1>5, <2>3, <2>4
<1> QED BY <1>1, <1>2, <1>3, <1>5, <1>6, <1>7, <1>8, <1>9, <1>10

-----------------------------------------------------------------------------
(* Keys.                                                                   *)

\* A step after which no key is awaited has only types and did to keep.
LEMMA ActsKeep ==
  ASSUME ~AtKey', view' \in View, panes' \in Seq(Pane), Len(panes') = Len(tabs'),
         IsBrowser(browser'), load'.row \in Int, KeysActOnWhatIsShown'
  PROVE  ScreenInvariant'
<1>1. IsBrowser(browser)'
  BY DEF IsBrowser
<1> QED BY <1>1 DEF ScreenInvariant, FrameKept

\* A key that acted on nothing is such a step.
LEMMA ActsOnNothing ==
  ASSUME Acts(Nothing)
  PROVE  ~AtKey' /\ KeysActOnWhatIsShown'
BY DEF Acts, AtKey, KeysActOnWhatIsShown, Nothing

\* Layouts a key can lead to.
LEMMA Views ==
  ASSUME NEW v \in View
  PROVE  /\ \A f \in {"editor", "results", "browser"} : [v EXCEPT !.focus = f] \in View
         /\ [[v EXCEPT !.focus = "editor"] EXCEPT !.full = FALSE, !.ratio = "editor"] \in View
         /\ [[v EXCEPT !.focus = "results"] EXCEPT !.full = TRUE, !.ratio = "full"] \in View
         /\ ~v.full => /\ [v EXCEPT !.ratio = "split"] \in View
                       /\ [[v EXCEPT !.focus = "editor"] EXCEPT !.ratio = "editor"] \in View
         /\ [[v EXCEPT !.focus = "browser"] EXCEPT !.browser = TRUE] \in View
         /\ [[v EXCEPT !.focus = "editor"] EXCEPT !.browser = FALSE] \in View
         /\ \A h \in Height : [v EXCEPT !.height = h] \in View
BY DEF View

\* A key of the layout or the results.
LEMMA KeyKeeps ==
  ASSUME Good, ScreenInvariant, NEW v \in View, NEW p \in Pane, Key(v, p)
  PROVE  ScreenInvariant'
<1>1. /\ view' = v /\ panes' = [panes EXCEPT ![active] = p] /\ Acts(Nothing)
      /\ tabs' = tabs /\ browser' = browser /\ load' = load
  BY DEF Key, Shows, vars
<1>2. panes' \in Seq(Pane) /\ Len(panes') = Len(tabs')
  BY <1>1, TheScreen
<1> QED BY <1>1, <1>2, TheScreen, ActsKeep, ActsOnNothing DEF ScreenInvariant

\* What the keys of layout and results make of the results of the tab.
LEMMA PaneKeys ==
  ASSUME NEW p \in Pane
  PROVE  /\ [p EXCEPT !.detail = FALSE] \in Pane /\ [p EXCEPT !.shown = FALSE] \in Pane
         /\ [p EXCEPT !.shown = TRUE] \in Pane
         /\ [p EXCEPT !.shown = FALSE, !.detail = FALSE] \in Pane
         /\ [p EXCEPT !.shown = FALSE, !.detail = ~@] \in Pane
BY DEF Pane

\* The keys that change layout, focus and results.
LEMMA LayoutKeeps ==
  ASSUME Good, ScreenInvariant,
         \/ TogglePaneSize \/ ToggleOutput \/ ToggleDetail \/ GoToLine \/ Refuse \/ Help
         \/ EnterResults \/ LeaveBrowser \/ LeaveResults \/ MoveInPlan
         \/ \E delta \in Int : MoveInResults(delta)
         \/ \E way \in Int : ScrollPage(way)
  PROVE  ScreenInvariant'
<1>1. PICK p \in Pane : p = Mine
  BY TheScreen
<1>2. PICK v \in View : v = view
  BY TheScreen
<1>3. /\ \A w \in View, q \in Pane : Key(w, q) => ScreenInvariant'
      /\ \A f \in {"editor", "results", "browser"} : Focus(f) = [v EXCEPT !.focus = f] /\ Focus(f) \in View
  BY <1>2, KeyKeeps, Views DEF Focus
<1>4. CASE TogglePaneSize
  <2>1. CASE view.full
    BY <1>1, <1>2, <1>3, <1>4, <2>1, Views DEF TogglePaneSize
  <2>2. CASE ~view.full /\ view.ratio = "editor"
    BY <1>1, <1>2, <1>3, <1>4, <2>2, Views, PaneKeys DEF TogglePaneSize
  <2>3. CASE ~view.full /\ view.ratio # "editor" /\ Mine.grid
    BY <1>1, <1>2, <1>3, <1>4, <2>3, Views, PaneKeys DEF TogglePaneSize
  <2>4. CASE ~view.full /\ view.ratio # "editor" /\ ~Mine.grid
    BY <1>1, <1>2, <1>3, <1>4, <2>4, Views DEF TogglePaneSize
  <2> QED BY <2>1, <2>2, <2>3, <2>4
<1>5. CASE ToggleOutput
  BY <1>1, <1>2, <1>3, <1>5, PaneKeys, ClampedPane DEF ToggleOutput
<1>6. CASE ToggleDetail
  BY <1>1, <1>2, <1>3, <1>6, PaneKeys, ClampedPane DEF ToggleDetail
<1>7. CASE GoToLine \/ Refuse \/ Help \/ LeaveBrowser \/ LeaveResults \/ MoveInPlan
  BY <1>1, <1>3, <1>7, ClearedIs
     DEF GoToLine, Refuse, Help, LeaveBrowser, LeaveResults, MoveInPlan, ResultsKey
<1>8. CASE EnterResults
  BY <1>1, <1>3, <1>8, PaneKeys, ClampedPane DEF EnterResults
<1>9. ASSUME NEW delta \in Int, MoveInResults(delta) PROVE ScreenInvariant'
  <2>1. Mine.sel + delta \in Int
    BY <1>1 DEF Pane
  <2>2. Selecting(p, Mine.sel + delta) \in Pane
    BY <2>1, SelectingIs
  <2> QED BY <1>1, <1>3, <1>9, <2>2 DEF MoveInResults, ResultsKey
<1>10. ASSUME NEW way \in Int, ScrollPage(way) PROVE ScreenInvariant'
  <2>1. way * Mine.page \in Int
    BY <1>1 DEF Pane
  <2>2. Scrolled(p, way * Mine.page) \in Pane
    BY <2>1, ScrolledIs
  <2> QED BY <1>1, <1>2, <1>3, <1>10, <2>2 DEF ScrollPage
<1> QED BY <1>4, <1>5, <1>6, <1>7, <1>8, <1>9, <1>10

\* An operation that starts asks for the first row, unless it fetches more.
LEMMA StartsIs ==
  ASSUME NEW kind, NEW o, Starts(kind, o)
  PROVE  load'.row \in Int
<1>1. load'.row = 0
  BY DEF Starts, Idling
<1> QED BY <1>1

\* F9 and the scrolling of the window that has the focus.
LEMMA WindowKeeps ==
  ASSUME Good, ScreenInvariant, ToggleBrowser \/ \E delta \in Int : ScrollWindow(delta)
  PROVE  ScreenInvariant'
<1>1. CASE ToggleBrowser
  <2>1. view' \in View
    BY <1>1, TheScreen, Views DEF ToggleBrowser, Focus
  <2>2. load'.row \in Int
    BY <1>1, StartsIs DEF ToggleBrowser, ScreenInvariant
  <2>3. /\ panes' = panes /\ tabs' = tabs /\ browser' = browser /\ Acts(Nothing)
    BY <1>1 DEF ToggleBrowser, vars
  <2> QED BY <2>1, <2>2, <2>3, TheScreen, ActsKeep, ActsOnNothing
<1>2. ASSUME NEW delta \in Int, ScrollWindow(delta) PROVE ScreenInvariant'
  <2>1. CASE ScrollBrowser(delta)
    <3>1. PICK b : b = browser
      OBVIOUS
    <3>2. IsBrowser(b) /\ Size(b) \in Nat /\ b.row \in Int /\ b.scroll \in Int /\ b.page \in Int
      BY <3>1, TheScreen, SizeTyped DEF IsBrowser
    <3>3. PICK scroll \in Int : scroll = ClampedScroll(b.scroll + delta, Size(b), b.page)
      <4>1. ClampedScroll(b.scroll + delta, Size(b), b.page) \in Int
        BY <3>2 DEF ClampedScroll
      <4> QED BY <4>1
    <3>4. PICK row \in Int : row = Inside(ClampedRow(b.row, Size(b)), scroll, b.page, Size(b))
      <4>1. PICK last \in Int : last = scroll + b.page - 1
        BY <3>2
      <4>2. PICK n \in Nat : n = Size(b)
        BY <3>2
      <4>3. ClampedRow(b.row, n) \in Int /\ ClampedRow(last, n) \in Int
        BY <3>2 DEF ClampedRow
      <4> QED BY <4>1, <4>2, <4>3 DEF Inside
    <3>5. browser' = [b EXCEPT !.scroll = scroll, !.row = row]
      BY <2>1, <3>1, <3>3, <3>4 DEF ScrollBrowser
    <3>6. IsBrowser(browser')
      BY <3>2, <3>5, BrowserMoves
    <3>7. view' = view /\ panes' = panes /\ tabs' = tabs /\ load' = load /\ Acts(Nothing)
      BY <2>1 DEF ScrollBrowser, vars
    <3> QED BY <3>6, <3>7, TheScreen, ActsKeep, ActsOnNothing DEF ScreenInvariant
  <2>2. CASE ~ScrollBrowser(delta)
    <3>1. PICK p \in Pane : p = Mine
      BY TheScreen
    <3>2. Scrolled(p, delta) \in Pane
      BY ScrolledIs
    <3> QED BY <1>2, <2>2, <3>1, <3>2, TheScreen, Views, KeyKeeps DEF ScrollWindow, Focus
  <2> QED BY <2>1, <2>2
<1> QED BY <1>1, <1>2

\* Keys of the browser.
LEMMA BrowserKeyKeeps ==
  ASSUME Good, ScreenInvariant, NEW b, IsBrowser(b), BrowserKey(b)
  PROVE  ScreenInvariant'
<1>1. /\ browser' = b /\ view' = view /\ panes' = panes /\ tabs' = tabs /\ load' = load
      /\ Acts(Nothing)
  BY DEF BrowserKey, vars
<1> QED BY <1>1, TheScreen, ActsKeep, ActsOnNothing DEF ScreenInvariant

LEMMA BrowsingKeeps ==
  ASSUME Good, ScreenInvariant,
         \/ \E found : TypeFilter(found)
         \/ ShortenFilter \/ ToggleGroup
         \/ \E delta \in Int : MoveInBrowser(delta)
  PROVE  ScreenInvariant'
<1>1. IsBrowser(browser)
  BY TheScreen
<1>2. ASSUME NEW found, TypeFilter(found) PROVE ScreenInvariant'
  <2>1. IsBrowser(Filtered(browser, Append(browser.filter, found)))
    BY <1>1, BrowserMoves
  <2> QED BY <1>2, <2>1, BrowserKeyKeeps DEF TypeFilter
<1>3. CASE ShortenFilter
  <2>1. PICK rest : BrowserKey(Filtered(browser, rest))
    BY <1>3 DEF ShortenFilter
  <2>2. IsBrowser(Filtered(browser, rest))
    BY <1>1, BrowserMoves
  <2> QED BY <2>1, <2>2, BrowserKeyKeeps
<1>4. CASE ToggleGroup
  <2>1. PICK b : b = Toggled(browser, Chosen.type)
    OBVIOUS
  <2>2. IsBrowser(b)
    BY <1>1, <2>1, BrowserMoves
  <2>3. IsBrowser(Seen(b))
    BY <2>2, BrowserMoves
  <2> QED BY <1>4, <2>1, <2>3, BrowserKeyKeeps DEF ToggleGroup
<1>5. ASSUME NEW delta \in Int, MoveInBrowser(delta) PROVE ScreenInvariant'
  <2>1. browser.row + delta \in Int
    BY <1>1 DEF IsBrowser
  <2>2. IsBrowser(MovedTo(browser, browser.row + delta))
    BY <1>1, <2>1, BrowserMoves
  <2> QED BY <1>5, <2>2, BrowserKeyKeeps DEF MoveInBrowser
<1> QED BY <1>2, <1>3, <1>4, <1>5

\* Results that are not the session's any more are dropped in every tab.
LEMMA InvalidatedKeeps ==
  ASSUME Good, ScreenInvariant, NEW i, Invalidated(i), tabs' = tabs
  PROVE  view' \in View /\ panes' \in Seq(Pane) /\ Len(panes') = Len(tabs')
<1>1. PICK z \in Int : z = 0
  OBVIOUS
<1>2. PICK r \in Nat : r = 0
  OBVIOUS
<1>3. panes' = [k \in DOMAIN panes |-> [panes[k] EXCEPT !.grid = FALSE, !.rows = r, !.more = FALSE,
                                                        !.sel = z, !.scroll = z]]
  BY <1>1, <1>2 DEF Invalidated
<1>4. \A p \in Pane :
        [p EXCEPT !.grid = FALSE, !.rows = r, !.more = FALSE, !.sel = z, !.scroll = z] \in Pane
  BY DEF Pane
<1>5. \A k \in DOMAIN panes : panes'[k] \in Pane
  BY <1>3, <1>4, TheScreen
<1>6. PICK n \in Nat : n = Len(panes) /\ DOMAIN panes = 1..n
  <2>1. Len(panes) \in Nat /\ DOMAIN panes = 1..Len(panes)
    BY TheScreen, LenProperties
  <2> QED BY <2>1
<1>7. panes' \in Seq(Pane) /\ Len(panes') = Len(panes)
  <2>1. panes' = [k \in 1..n |-> panes'[k]]
    BY <1>3, <1>6
  <2>2. \A k \in 1..n : panes'[k] \in Pane
    BY <1>5, <1>6
  <2>3. [k \in 1..n |-> panes'[k]] \in Seq(Pane) /\ Len([k \in 1..n |-> panes'[k]]) = n
    BY <2>2
  <2> QED BY <1>6, <2>1, <2>3
<1>8. view' \in View
  BY TheScreen, Views DEF Invalidated, Focus
<1> QED BY <1>7, <1>8, TheScreen

\* The keys that start an operation.
LEMMA StartKeeps ==
  ASSUME Good, ScreenInvariant, \/ \E kind : Start(kind)
                               \/ Reconnect \/ FetchMore
  PROVE  ScreenInvariant'
<1>1. ASSUME NEW kind, Start(kind) PROVE ScreenInvariant'
  <2>1. load'.row \in Int
    BY <1>1, StartsIs DEF Start
  <2>2. view' = view /\ panes' = panes /\ tabs' = tabs /\ browser' = browser /\ Acts(Nothing)
    BY <1>1 DEF Start, vars
  <2> QED BY <2>1, <2>2, TheScreen, ActsKeep, ActsOnNothing
<1>2. CASE Reconnect
  <2>1. load'.row \in Int
    BY <1>2, StartsIs DEF Reconnect
  <2>2. Invalidated(active) /\ tabs' = tabs /\ browser' = browser /\ Acts(Nothing)
    BY <1>2 DEF Reconnect, vars
  <2>3. view' \in View /\ panes' \in Seq(Pane) /\ Len(panes') = Len(tabs')
    BY <2>2, InvalidatedKeeps
  <2> QED BY <2>1, <2>2, <2>3, TheScreen, ActsKeep, ActsOnNothing
<1>3. CASE FetchMore
  <2>1. PICK row \in Int : row = Mine.sel + Mine.page
    BY TheScreen DEF Pane
  <2>2. load'.row = row
    BY <1>3, <2>1 DEF FetchMore, Idling
  <2>3. view' = Focus("results") /\ panes' = panes /\ tabs' = tabs /\ browser' = browser /\ Acts(Nothing)
    BY <1>3 DEF FetchMore, vars
  <2>4. view' \in View
    BY <2>3, TheScreen, Views DEF Focus
  <2> QED BY <2>2, <2>3, <2>4, TheScreen, ActsKeep, ActsOnNothing
<1> QED BY <1>1, <1>2, <1>3

\* The three keys that act on something: it is what the last frame shows.
LEMMA ActingKeeps ==
  ASSUME Good, ScreenInvariant, OpenObject \/ EditCell \/ TypeText
  PROVE  ScreenInvariant'
<1>1. FrameKept /\ AtKey
  BY DEF ScreenInvariant, OpenObject, EditCell, TypeText
<1>2. /\ frame.editor = EditorDrawn(view, Mine)
      /\ frame.browser /\ Size(browser) > 0 => frame.entry = Chosen
      /\ frame.grid /\ ~frame.behind => frame.row = Mine.sel
  BY <1>1 DEF FrameKept
<1>3. CASE OpenObject
  <2>1. Acts([Nothing EXCEPT !.kind = "opened", !.entry = Chosen]) /\ Size(browser) > 0
    BY <1>3 DEF OpenObject
  <2>2. did'.kind = "opened" /\ did'.entry = Chosen /\ frame' = frame /\ ~AtKey'
    BY <2>1 DEF Acts, Nothing, AtKey
  <2>3. KeysActOnWhatIsShown'
    BY <1>2, <2>1, <2>2 DEF KeysActOnWhatIsShown
  <2>4. tabs' = tabs /\ (view' = Focus("editor") \/ view' = view)
        /\ (load' = load \/ Starts("definition", Chosen.object))
    BY <1>3 DEF OpenObject, Open, LoadDefinition, vars
  <2>5. view' \in View /\ load'.row \in Int
    BY <2>4, TheScreen, Views, StartsIs DEF Focus, ScreenInvariant
  <2>6. PICK b : b = [browser EXCEPT !.row = ClampedRow(@, Size(browser))]
    OBVIOUS
  <2>7. IsBrowser(b)
    BY <2>6, TheScreen, BrowserMoves
  <2>8. browser' = Seen(b) /\ panes' = panes
    BY <1>3, <2>6 DEF OpenObject
  <2>9. IsBrowser(browser')
    BY <2>7, <2>8, BrowserMoves
  <2> QED BY <2>2, <2>3, <2>4, <2>5, <2>8, <2>9, TheScreen, ActsKeep
<1>4. CASE EditCell
  <2>1. Acts([Nothing EXCEPT !.kind = "cell", !.row = Mine.sel])
    BY <1>4 DEF EditCell
  <2>2. did'.kind = "cell" /\ did'.row = Mine.sel /\ frame' = frame /\ ~AtKey'
    BY <2>1 DEF Acts, Nothing, AtKey
  <2>3. KeysActOnWhatIsShown'
    BY <1>2, <2>2 DEF KeysActOnWhatIsShown
  <2>4. /\ view' = Focus("results") /\ tabs' = tabs /\ panes' = panes /\ browser' = browser
        /\ load' = load
    BY <1>4 DEF EditCell, vars
  <2>5. view' \in View
    BY <2>4, TheScreen, Views DEF Focus
  <2> QED BY <2>2, <2>3, <2>4, <2>5, TheScreen, ActsKeep DEF ScreenInvariant
<1>5. CASE TypeText
  <2>1. Acts([Nothing EXCEPT !.kind = "typed"]) /\ Target = "editor"
    BY <1>5 DEF TypeText
  <2>2. did'.kind = "typed" /\ frame' = frame /\ ~AtKey'
    BY <2>1 DEF Acts, Nothing, AtKey
  <2>3. view.ratio # "full" /\ ~view.full /\ view.ratio \in {"split", "editor"}
    BY <2>1, TheScreen DEF Target, View
  <2>4. EditorDrawn(view, Mine)
    BY <2>3 DEF EditorDrawn, EditorAlone, GridAlone
  <2>5. KeysActOnWhatIsShown'
    BY <1>2, <2>2, <2>4 DEF KeysActOnWhatIsShown
  <2>6. \E tab : Changed(tab)
    BY <1>5 DEF TypeText, Edit, Undo, Redo
  <2>7. Len(tabs') = Len(tabs)
    BY <2>6, TheTabs DEF Changed
  <2>8. view' = view /\ panes' = panes /\ browser' = browser /\ load' = load
    BY <1>5 DEF TypeText
  <2> QED BY <2>2, <2>5, <2>7, <2>8, TheScreen, ActsKeep DEF ScreenInvariant
<1> QED BY <1>3, <1>4, <1>5

-----------------------------------------------------------------------------
(* Tabs are opened, saved and closed.                                      *)

\* A key of the documents is awaited again only after a frame; while a flow
\* is under way what was acted on stays.
LEMMA EndsKeep ==
  ASSUME ScreenInvariant, Ends
  PROVE  ~AtKey' /\ KeysActOnWhatIsShown'
<1>1. CASE flow'.at = "idle"
  BY <1>1, ActsOnNothing DEF Ends
<1>2. CASE flow'.at # "idle"
  BY <1>2 DEF Ends, AtKey, Idle, ScreenInvariant, KeysActOnWhatIsShown
<1> QED BY <1>1, <1>2

\* The focus after a change of tabs.
LEMMA FocusAtIs ==
  ASSUME Good, ScreenInvariant, NEW p
  PROVE  FocusAt(p) \in View /\ Focus("editor") \in View
BY TheScreen, Views DEF FocusAt, Focus

\* A tab takes its results with it.
LEMMA GoneKeeps ==
  ASSUME Good, ScreenInvariant, Gone,
         NEW S, NEW ts \in Seq(S), Len(ts) = Len(tabs), CloseActive(ts)
  PROVE  view' \in View /\ panes' \in Seq(Pane) /\ Len(panes') = Len(tabs')
<1>1. PICK n \in Nat : n = Len(ts) /\ DOMAIN ts = 1..n /\ n >= 1 /\ n = Len(tabs) /\ n = Len(panes)
  BY TheTabs, TheScreen, LenProperties
<1>2. active \in DOMAIN ts /\ active \in DOMAIN panes
  BY <1>1, TheTabs, TheScreen
<1>3. RemoveAt(ts, active) \in Seq(S) /\ Len(RemoveAt(ts, active)) = n - 1
  BY <1>1, <1>2, RemoveAtProperties
<1>4. RemoveAt(panes, active) \in Seq(Pane) /\ Len(RemoveAt(panes, active)) = n - 1
  BY <1>1, <1>2, TheScreen, RemoveAtProperties
<1>5. view' \in View
  BY FocusAtIs DEF Gone
<1>6. CASE n = 1
  <2>1. RemoveAt(ts, active) = <<>>
    BY <1>3, <1>6, EmptySeq
  <2>2. tabs' = <<Untitled(Blank)>> /\ panes' = <<NoResults>>
    BY <1>1, <1>6, <2>1 DEF CloseActive, Gone
  <2>3. NoResults \in Pane
    BY DEF Pane, NoResults
  <2> QED BY <1>5, <2>2, <2>3
<1>7. CASE n # 1
  <2>1. RemoveAt(ts, active) # <<>>
    BY <1>1, <1>3, <1>7
  <2>2. tabs' = RemoveAt(ts, active) /\ panes' = RemoveAt(panes, active)
    BY <1>1, <1>7, <2>1 DEF CloseActive, Gone
  <2> QED BY <1>3, <1>4, <1>5, <2>2
<1> QED BY <1>6, <1>7

\* An answer closes the tab in the end, or leaves as many tabs as there were.
LEMMA AnswerTabs ==
  ASSUME Good, \/ Agree \/ SaveAsInstead \/ Cancel \/ Write \/ Replace \/ AnswerYes \/ AnswerNo
               \/ \E p \in Path : AnswerName(p)
  PROVE  \/ /\ flow.next = "close" /\ flow'.at = "idle" /\ tabs' # tabs
            /\ \E S : \E ts \in Seq(S) : Len(ts) = Len(tabs) /\ CloseActive(ts)
         \/ /\ ~(flow.next = "close" /\ flow'.at = "idle" /\ tabs' # tabs)
            /\ Len(tabs') = Len(tabs)
<1>1. ASSUME NEW f, GoOn(f) PROVE tabs' = tabs
  BY <1>1 DEF GoOn
<1>2. CASE Agree \/ SaveAsInstead \/ Write \/ AnswerYes \/ \E p \in Path : AnswerName(p)
  <2>1. \E f : GoOn(f)
    BY <1>2 DEF Agree, SaveAsInstead, Write, AnswerYes, AnswerName
  <2> QED BY <1>1, <2>1
<1>3. CASE Cancel
  BY <1>3 DEF Cancel, Abandon
<1>4. ASSUME NEW S, NEW ts \in Seq(S), Len(ts) = Len(tabs), NEW f, f.next = flow.next, Settled(ts, f)
      PROVE  \/ /\ flow.next = "close" /\ flow'.at = "idle" /\ tabs' # tabs
                /\ CloseActive(ts)
             \/ /\ ~(flow.next = "close" /\ flow'.at = "idle" /\ tabs' # tabs)
                /\ Len(tabs') = Len(tabs)
  <2>1. flow.next \in {"stay", "close", "quit"}
    BY TheRest DEF Flow
  <2>2. CASE flow.next = "close"
    <3>1. CloseActive(ts)
      BY <1>4, <2>2 DEF Settled
    <3>2. flow'.at = "idle"
      BY <3>1 DEF CloseActive, NoFlow
    <3> QED BY <2>2, <3>1, <3>2
  <2>3. CASE flow.next \in {"stay", "quit"}
    <3>1. tabs' = ts
      BY <1>4, <2>3 DEF Settled, ContinueQuit
    <3> QED BY <1>4, <2>3, <3>1
  <2> QED BY <2>1, <2>2, <2>3
<1>5. CASE Replace
  <2>1. PICK saved : saved = SavedAs(Current, flow.target)
    OBVIOUS
  <2>2. PICK ts : ts = [tabs EXCEPT ![active] = saved]
    OBVIOUS
  <2>3. ts \in Seq(Tab \cup {saved}) /\ Len(ts) = Len(tabs)
    <3>1. tabs \in Seq(Tab \cup {saved})
      BY TheTabs
    <3> QED BY <2>2, <3>1, TheTabs
  <2>4. Settled(ts, flow)
    BY <1>5, <2>1, <2>2 DEF Replace
  <2> QED BY <1>4, <2>3, <2>4
<1>6. CASE AnswerNo
  <2>1. Settled(tabs, [flow EXCEPT !.givenUp = @ \cup {active}])
    BY <1>6 DEF AnswerNo
  <2>2. [flow EXCEPT !.givenUp = @ \cup {active}].next = flow.next
    BY TheRest DEF Flow
  <2> QED BY <1>4, <2>1, <2>2, TheTabs
<1> QED BY <1>2, <1>3, <1>5, <1>6

\* The keys of the documents keep results and tabs together.
LEMMA DocumentKeysKeep ==
  ASSUME Good, ScreenInvariant, DocumentKey
  PROVE  ScreenInvariant'
<1>1. ASSUME NEW i, ChangeTab(i) PROVE ScreenInvariant'
  <2>1. /\ view' = FocusAt(panes[i]) /\ panes' = panes /\ tabs' = tabs /\ browser' = browser
        /\ load' = load /\ Acts(Nothing)
    BY <1>1 DEF ChangeTab, SwitchTo
  <2> QED BY <2>1, TheScreen, FocusAtIs, ActsKeep, ActsOnNothing DEF ScreenInvariant
<1>2. CASE OpenTab
  <2>1. tabs' = tabs \/ \E tab : tabs' = Append(tabs, tab)
    BY <1>2 DEF OpenTab, NewTab, NewTemplate, OpenFile, Add
  <2>2. /\ view' = Focus("editor") /\ browser' = browser /\ load' = load /\ Acts(Nothing)
        /\ panes' = IF Len(tabs') > Len(tabs) THEN Append(panes, NoResults) ELSE panes
    BY <1>2 DEF OpenTab
  <2>3. NoResults \in Pane
    BY DEF Pane, NoResults
  <2>4. PICK n \in Nat : n = Len(tabs) /\ n = Len(panes)
    <3>1. Len(tabs) \in Nat /\ Len(panes) = Len(tabs)
      BY TheTabs, TheScreen
    <3> QED BY <3>1
  <2>5. panes' \in Seq(Pane) /\ Len(panes') = Len(tabs')
    <3>1. CASE tabs' = tabs
      BY <2>2, <2>4, <3>1, TheScreen
    <3>2. ASSUME NEW tab, tabs' = Append(tabs, tab) PROVE panes' \in Seq(Pane) /\ Len(panes') = Len(tabs')
      <4>1. Len(tabs') = n + 1
        BY <2>4, <3>2, TheTabs
      <4>2. panes' = Append(panes, NoResults)
        BY <2>2, <2>4, <4>1
      <4> QED BY <2>3, <2>4, <4>1, <4>2, TheScreen
    <3> QED BY <2>1, <3>1, <3>2
  <2> QED BY <2>2, <2>5, TheScreen, FocusAtIs, ActsKeep, ActsOnNothing DEF ScreenInvariant
<1>3. CASE CloseShown
  <2>1. Ends /\ browser' = browser /\ load' = load /\ CloseTab
    BY <1>3 DEF CloseShown
  <2>2. CASE Current.dirty
    <3>1. tabs' = tabs /\ flow'.at = "dirty"
      BY <2>1, <2>2 DEF CloseTab, GoOn, NoFlow
    <3>2. view' = Asked /\ panes' = panes
      BY <1>3, <3>1 DEF CloseShown
    <3> QED BY <2>1, <3>1, <3>2, TheScreen, FocusAtIs, EndsKeep, ActsKeep DEF Asked, ScreenInvariant
  <2>3. CASE ~Current.dirty
    <3>1. CloseActive(tabs)
      BY <2>1, <2>3 DEF CloseTab
    <3>2. flow'.at = "idle"
      BY <3>1 DEF CloseActive, NoFlow
    <3>3. Gone
      BY <1>3, <3>2 DEF CloseShown
    <3>4. view' \in View /\ panes' \in Seq(Pane) /\ Len(panes') = Len(tabs')
      BY <3>1, <3>3, TheTabs, GoneKeeps
    <3> QED BY <2>1, <3>4, TheScreen, EndsKeep, ActsKeep DEF ScreenInvariant
  <2> QED BY <2>2, <2>3
<1>4. CASE SaveOrQuit
  <2>1. Ends /\ browser' = browser /\ load' = load /\ view' = Asked /\ panes' = panes
    BY <1>4 DEF SaveOrQuit
  <2>2. tabs' = tabs
    BY <1>4 DEF SaveOrQuit, Save, Rename, RequestQuit, GoOn
  <2> QED BY <2>1, <2>2, TheScreen, FocusAtIs, EndsKeep, ActsKeep DEF Asked, ScreenInvariant
<1>5. CASE Answer
  <2>1. Ends /\ browser' = browser /\ load' = load
    BY <1>5 DEF Answer
  <2>2. CASE /\ SaveFails
             /\ view' = Focus("editor") /\ panes' = [panes EXCEPT ![active] = Cleared(@)]
    <3>1. tabs' = tabs
      BY <2>2 DEF SaveFails, Abandon
    <3>2. Cleared(panes[active]) \in Pane
      BY TheScreen, ClearedIs
    <3>3. panes' \in Seq(Pane) /\ Len(panes') = Len(tabs')
      BY <2>2, <3>1, <3>2, TheScreen
    <3> QED BY <2>1, <2>2, <3>3, TheScreen, FocusAtIs, EndsKeep, ActsKeep DEF ScreenInvariant
  <2>3. CASE /\ \/ Agree \/ SaveAsInstead \/ Cancel \/ Write \/ Replace \/ AnswerYes \/ AnswerNo
                \/ \E p \in Path : AnswerName(p)
             /\ IF flow.next = "close" /\ flow'.at = "idle" /\ tabs' # tabs THEN Gone
                ELSE view' = Asked /\ UNCHANGED panes
    <3>1. view' \in View /\ panes' \in Seq(Pane) /\ Len(panes') = Len(tabs')
      <4>1. CASE flow.next = "close" /\ flow'.at = "idle" /\ tabs' # tabs
        <5>1. Gone /\ \E S : \E ts \in Seq(S) : Len(ts) = Len(tabs) /\ CloseActive(ts)
          BY <2>3, <4>1, AnswerTabs
        <5> QED BY <5>1, GoneKeeps
      <4>2. CASE ~(flow.next = "close" /\ flow'.at = "idle" /\ tabs' # tabs)
        <5>1. Len(tabs') = Len(tabs) /\ view' = Asked /\ panes' = panes
          BY <2>3, <4>2, AnswerTabs
        <5> QED BY <5>1, TheScreen, FocusAtIs DEF Asked
      <4> QED BY <4>1, <4>2
    <3> QED BY <2>1, <3>1, TheScreen, EndsKeep, ActsKeep DEF ScreenInvariant
  <2> QED BY <1>5, <2>2, <2>3 DEF Answer
<1> QED BY <1>1, <1>2, <1>3, <1>4, <1>5 DEF DocumentKey

-----------------------------------------------------------------------------
(* Completions.                                                            *)

\* A completion comes before a frame is drawn, and leaves the history alone.
LEMMA CompletesKeep ==
  ASSUME ScreenInvariant, NEW kind, Completes(kind)
  PROVE  ~AtKey' /\ KeysActOnWhatIsShown' /\ load'.row \in Int
<1>1. load'.row = 0
  BY DEF Completes, Idling
<1> QED BY <1>1 DEF Completes, AtKey, ScreenInvariant, KeysActOnWhatIsShown

\* The results of one tab are replaced.
LEMMA PaneReplaced ==
  ASSUME Good, ScreenInvariant, NEW i, NEW p \in Pane
  PROVE  [panes EXCEPT ![i] = p] \in Seq(Pane) /\ Len([panes EXCEPT ![i] = p]) = Len(tabs)
<1>1. PICK n \in Nat : n = Len(panes) /\ DOMAIN panes = 1..n /\ n = Len(tabs)
  <2>1. Len(panes) \in Nat /\ DOMAIN panes = 1..Len(panes) /\ Len(panes) = Len(tabs)
    BY TheScreen, LenProperties
  <2> QED BY <2>1
<1>2. PICK q : q = [j \in 1..n |-> IF j = i THEN p ELSE panes[j]]
  OBVIOUS
<1>3. [panes EXCEPT ![i] = p] = q
  BY <1>1, <1>2, TheScreen
<1>4. \A j \in 1..n : panes[j] \in Pane
  BY <1>1, TheScreen
<1>5. q \in Seq(Pane) /\ Len(q) = n
  BY <1>2, <1>4
<1> QED BY <1>1, <1>3, <1>5

\* Results are put into the tab the operation was started from.
LEMMA PutsKeep ==
  ASSUME Good, ScreenInvariant, NEW kind, Completes(kind), NEW p \in Pane,
         NEW f, f \in {"editor", "results"} \/ f = view.focus, Puts(f, p)
  PROVE  ScreenInvariant'
<1>1. /\ view' = Focus(f) /\ panes' = [panes EXCEPT ![load.tab] = p]
      /\ tabs' = tabs /\ browser' = browser
  BY DEF Puts, vars
<1>2. panes' \in Seq(Pane) /\ Len(panes') = Len(tabs')
  BY <1>1, PaneReplaced
<1>3. view.focus \in {"editor", "results", "browser"}
  BY TheScreen DEF View
<1>4. view' \in View
  BY <1>1, <1>3, TheScreen, Views DEF Focus
<1> QED BY <1>1, <1>2, <1>4, TheScreen, CompletesKeep, ActsKeep

\* Every completion keeps the invariant.
LEMMA CompletionsKeep ==
  ASSUME Good, LoadInvariant, ScreenInvariant,
         QueryCompletion \/ DefinitionLoaded \/ \E kind \in {"objects", "cache"} : ObjectsLoaded(kind)
  PROVE  ScreenInvariant'
<1>1. load.tab \in DOMAIN tabs
  <2>1. Busy
    BY DEF QueryCompletion, RunCompletes, ExplainCompletes, FetchCompletes, RollbackCompletes,
           ConnectCompletes, DefinitionLoaded, ObjectsLoaded, Completes, Busy
  <2> QED BY <2>1 DEF LoadInvariant
<1>2. PICK p \in Pane : p = Its
  BY <1>1, TheScreen DEF Its
<1>3. Cleared(p) \in Pane
  BY ClearedIs
<1>4. CASE RunCompletes
  <2>1. Completes("run")
    BY <1>4 DEF RunCompletes
  <2>2. ASSUME NEW grid \in BOOLEAN, NEW output \in BOOLEAN, NEW rows \in 0..MaxRows
        PROVE  /\ Rendered(p, grid, rows, output) \in Pane
               /\ \A more \in BOOLEAN :
                    [Rendered(p, grid, rows, output) EXCEPT !.more = more, !.shown = output /\ ~grid] \in Pane
    <3>1. PICK r \in Nat : r = IF grid THEN rows ELSE 0
      BY <2>2, ScreenAssumption
    <3>2. Rendered(p, grid, rows, output) = [Cleared(p) EXCEPT !.grid = grid, !.rows = r, !.output = output]
      BY <3>1 DEF Rendered
    <3>3. Cleared(p).explain = FALSE
      BY DEF Cleared, NoResults
    <3>4. PICK q : q = Rendered(p, grid, rows, output)
      OBVIOUS
    <3>5. q \in Pane
      BY <1>3, <3>2, <3>3, <3>4 DEF Pane
    <3>6. PICK shown \in BOOLEAN : shown = (output /\ ~grid)
      OBVIOUS
    <3>7. \A more \in BOOLEAN : [q EXCEPT !.more = more, !.shown = shown] \in Pane
      BY <3>5 DEF Pane
    <3> QED BY <3>4, <3>5, <3>6, <3>7
  <2>3. ASSUME NEW grid \in BOOLEAN, NEW output \in BOOLEAN, NEW rows \in 0..MaxRows,
               NEW q \in {Rendered(Its, grid, rows, output)},
               \/ \E more \in {FALSE, grid} :
                    Puts("editor", [q EXCEPT !.more = more, !.shown = output /\ ~grid])
               \/ Puts("editor", q)
        PROVE  ScreenInvariant'
    <3>1. q = Rendered(p, grid, rows, output)
      BY <1>2
    <3>2. q \in Pane /\ \A more \in BOOLEAN : [q EXCEPT !.more = more, !.shown = output /\ ~grid] \in Pane
      BY <2>2, <3>1
    <3> QED BY <2>1, <2>3, <3>2, PutsKeep
  <2>4. ASSUME NEW output \in {Its.output, TRUE}, Puts("editor", [Its EXCEPT !.output = output, !.shown = FALSE])
        PROVE  ScreenInvariant'
    <3>1. [p EXCEPT !.output = output, !.shown = FALSE] \in Pane
      BY <1>2, <2>4 DEF Pane
    <3> QED BY <1>2, <2>1, <2>4, <3>1, PutsKeep
  <2>5. CASE Puts("editor", Cleared(Its))
    BY <1>2, <1>3, <2>1, <2>5, PutsKeep
  <2> QED BY <1>4, <2>3, <2>4, <2>5 DEF RunCompletes
<1>5. CASE ExplainCompletes
  <2>1. Completes("explain")
    BY <1>5 DEF ExplainCompletes
  <2>2. [p EXCEPT !.explain = TRUE, !.grid = FALSE, !.rows = 0, !.more = FALSE,
                  !.output = FALSE, !.shown = FALSE, !.text = TRUE] \in Pane
    BY DEF Pane
  <2> QED BY <1>2, <1>3, <1>5, <2>1, <2>2, PutsKeep DEF ExplainCompletes
<1>6. CASE FetchCompletes
  <2>1. Completes("fetch")
    BY <1>6 DEF FetchCompletes
  <2>2. ASSUME NEW output \in {Its.output, TRUE}, NEW rows \in Its.rows..MaxRows, NEW more \in BOOLEAN
        PROVE  LET q == [Its EXCEPT !.rows = rows, !.more = more, !.output = output, !.shown = FALSE]
               IN  q \in Pane /\ Selecting(q, load.row) \in Pane
    <3>1. rows \in Nat /\ output \in BOOLEAN
      <4>1. PICK least, most \in Nat : least = Its.rows /\ most = MaxRows
        BY <1>2, ScreenAssumption DEF Pane
      <4>2. rows \in least..most
        BY <2>2, <4>1
      <4>3. rows \in Nat
        BY <4>2
      <4>4. output \in BOOLEAN
        BY <1>2, <2>2 DEF Pane
      <4> QED BY <4>3, <4>4
    <3>2. PICK q : q = [p EXCEPT !.rows = rows, !.more = more, !.output = output, !.shown = FALSE]
      OBVIOUS
    <3>3. q \in Pane
      BY <3>1, <3>2 DEF Pane
    <3>4. Selecting(q, load.row) \in Pane
      BY <3>3, SelectingIs DEF ScreenInvariant
    <3> QED BY <1>2, <3>2, <3>3, <3>4
  <2>3. ASSUME NEW output \in {Its.output, TRUE}, NEW rows \in Its.rows..MaxRows, NEW more \in BOOLEAN,
               LET q == [Its EXCEPT !.rows = rows, !.more = more, !.output = output, !.shown = FALSE]
               IN  Puts("results", IF rows = 0 THEN q ELSE Selecting(q, load.row))
        PROVE  ScreenInvariant'
    BY <2>1, <2>2, <2>3, PutsKeep
  <2>4. ASSUME NEW output \in {Its.output, TRUE}, Puts("results", [Its EXCEPT !.more = FALSE, !.output = output])
        PROVE  ScreenInvariant'
    <3>1. [p EXCEPT !.more = FALSE, !.output = output] \in Pane
      BY <1>2, <2>4 DEF Pane
    <3> QED BY <1>2, <2>1, <2>4, <3>1, PutsKeep
  <2>5. ASSUME NEW output \in {Its.output, TRUE},
               Puts(view.focus, [Its EXCEPT !.output = output, !.text = @ \/ output])
        PROVE  ScreenInvariant'
    <3>1. [p EXCEPT !.output = output, !.text = @ \/ output] \in Pane
      BY <1>2, <2>5 DEF Pane
    <3> QED BY <1>2, <2>1, <2>5, <3>1, PutsKeep
  <2> QED BY <1>6, <2>3, <2>4, <2>5 DEF FetchCompletes
<1>7. CASE RollbackCompletes
  <2>1. Completes("rollback")
    BY <1>7 DEF RollbackCompletes
  <2>2. CASE Invalidated(load.tab) /\ UNCHANGED <<vars, browser>>
    <3>1. tabs' = tabs /\ browser' = browser
      BY <2>2 DEF vars
    <3>2. view' \in View /\ panes' \in Seq(Pane) /\ Len(panes') = Len(tabs')
      BY <2>2, <3>1, InvalidatedKeeps
    <3> QED BY <2>1, <3>1, <3>2, TheScreen, CompletesKeep, ActsKeep
  <2>3. [p EXCEPT !.text = TRUE] \in Pane
    BY DEF Pane
  <2> QED BY <1>2, <1>3, <1>7, <2>1, <2>2, <2>3, PutsKeep DEF RollbackCompletes
<1>8. CASE ConnectCompletes
  <2>1. Completes("connect")
    BY <1>8 DEF ConnectCompletes
  <2>2. CASE UNCHANGED <<vars, view, panes, browser>>
    BY <2>1, <2>2, TheScreen, CompletesKeep, ActsKeep DEF vars
  <2> QED BY <1>2, <1>3, <1>8, <2>1, <2>2, PutsKeep DEF ConnectCompletes
<1>9. ASSUME NEW kind, ObjectsLoaded(kind) PROVE ScreenInvariant'
  <2>1. Completes(kind)
    BY <1>9 DEF ObjectsLoaded
  <2>2. ASSUME NEW found \in SUBSET Object,
               LET b == [browser EXCEPT !.objects = found, !.loaded = TRUE]
               IN  browser' = IF kind = "objects" THEN Reloaded(b) ELSE Recached(b),
               UNCHANGED <<vars, view, panes>>
        PROVE  ScreenInvariant'
    <3>1. PICK b : b = [browser EXCEPT !.objects = found, !.loaded = TRUE]
      OBVIOUS
    <3>2. IsBrowser(b)
      BY <3>1, TheScreen DEF IsBrowser, BrowserFields
    <3>3. browser' = Reloaded(b) \/ browser' = Recached(b)
      BY <2>2, <3>1
    <3>4. IsBrowser(browser')
      BY <3>2, <3>3, BrowserMoves
    <3>5. view' = view /\ panes' = panes /\ tabs' = tabs
      BY <2>2 DEF vars
    <3> QED BY <2>1, <3>4, <3>5, TheScreen, CompletesKeep, ActsKeep
  <2> QED BY <1>2, <1>3, <1>9, <2>1, <2>2, PutsKeep DEF ObjectsLoaded
<1>10. CASE DefinitionLoaded
  <2>1. Completes("definition") /\ browser' = browser /\ view' = Focus("editor")
    BY <1>10 DEF DefinitionLoaded
  <2>2. ASSUME NEW tab, Add(tab), panes' = Append(panes, NoResults) PROVE ScreenInvariant'
    <3>1. NoResults \in Pane
      BY DEF Pane, NoResults
    <3>2. panes' \in Seq(Pane) /\ Len(panes') = Len(panes) + 1
      BY <2>2, <3>1, TheScreen
    <3>3. Len(tabs') = Len(tabs) + 1
      BY <2>2, TheTabs DEF Add
    <3> QED BY <2>1, <3>2, <3>3, TheScreen, FocusAtIs, CompletesKeep, ActsKeep
  <2>3. CASE panes' = [panes EXCEPT ![load.tab] = Cleared(@)] /\ tabs' = tabs
    <3>1. panes' = [panes EXCEPT ![load.tab] = Cleared(p)]
      BY <1>2, <2>3 DEF Its
    <3>2. panes' \in Seq(Pane) /\ Len(panes') = Len(tabs')
      BY <1>3, <2>3, <3>1, PaneReplaced
    <3> QED BY <2>1, <3>2, TheScreen, FocusAtIs, CompletesKeep, ActsKeep
  <2> QED BY <1>10, <2>2, <2>3 DEF DefinitionLoaded
<1> QED BY <1>4, <1>5, <1>6, <1>7, <1>8, <1>9, <1>10 DEF QueryCompletion

-----------------------------------------------------------------------------
(* Every step.                                                             *)

\* The terminal is resized, or another program writes: a key still acts on
\* what the last frame shows.
LEMMA ElsewhereShows ==
  ASSUME Good, ScreenInvariant, Resize \/ Others \/ UNCHANGED allVars
  PROVE  ScreenInvariant'
<1>1. /\ tabs' = tabs /\ active' = active /\ panes' = panes /\ browser' = browser /\ load' = load
      /\ frame' = frame /\ did' = did /\ (AtKey' => AtKey)
      /\ view' = view \/ \E h \in Height : view' = [view EXCEPT !.height = h]
  <2>1. CASE Resize
    BY <2>1 DEF Resize, vars, AtKey, Idle
  <2>2. CASE Others
    <3>1. UNCHANGED screenVars /\ \E q, v : Elsewhere(q, v)
      BY <2>2 DEF Others
    <3>2. /\ tabs' = tabs /\ active' = active /\ running' = running
          /\ flow' = flow \/ (flow.at = "replace" /\ flow' = [flow EXCEPT !.raced = TRUE])
      BY <3>1 DEF Elsewhere
    <3>3. flow'.at = "idle" => flow.at = "idle"
      BY <3>2, TheRest DEF Flow
    <3> QED BY <3>1, <3>2, <3>3 DEF screenVars, AtKey, Idle
  <2>3. CASE UNCHANGED allVars
    BY <2>3 DEF allVars, vars, screenVars, AtKey, Idle
  <2> QED BY <2>1, <2>2, <2>3
<1>2. view' \in View
  <2>1. PICK v \in View : v = view
    BY TheScreen
  <2>2. \A h \in Height : [v EXCEPT !.height = h] \in View
    BY DEF View
  <2> QED BY <1>1, <2>1, <2>2
<1>3. EditorDrawn(view', Mine) = EditorDrawn(view, Mine)
  <2>1. view'.full = view.full /\ view'.ratio = view.ratio
    <3>1. PICK v \in View : v = view
      BY TheScreen
    <3>2. \A h : [v EXCEPT !.height = h].full = v.full /\ [v EXCEPT !.height = h].ratio = v.ratio
      BY DEF View
    <3> QED BY <1>1, <3>1, <3>2
  <2> QED BY <2>1 DEF EditorDrawn, EditorAlone, GridAlone
<1>4. FrameKept'
  BY <1>1, <1>3 DEF FrameKept, Mine, Chosen, ScreenInvariant
<1>5. IsBrowser(browser)' /\ KeysActOnWhatIsShown'
  BY <1>1 DEF IsBrowser, KeysActOnWhatIsShown, ScreenInvariant
<1> QED BY <1>1, <1>2, <1>4, <1>5 DEF ScreenInvariant

\* The first frame has not been drawn yet.
LEMMA ScreenInitGood ==
  ASSUME ScreenInit
  PROVE  ScreenInvariant
<1>1. Good
  BY InitGood DEF ScreenInit
<1>2. view \in View
  <2>1. \E l \in Height : \A k \in Height : l <= k
    BY Least, ScreenAssumption
  <2>2. PICK h : h = CHOOSE l \in Height : \A k \in Height : l <= k
    OBVIOUS
  <2>3. h \in Height
    BY <2>1, <2>2
  <2>4. view = [focus |-> "editor", ratio |-> "split", full |-> FALSE, browser |-> FALSE, height |-> h]
    BY <2>2 DEF ScreenInit
  <2> QED BY <2>3, <2>4 DEF View
<1>3. panes \in Seq(Pane) /\ Len(panes) = Len(tabs)
  <2>1. PICK n \in Nat : n = Len(tabs) /\ DOMAIN tabs = 1..n
    <3>1. Len(tabs) \in Nat /\ DOMAIN tabs = 1..Len(tabs)
      BY <1>1, TheTabs
    <3> QED BY <3>1
  <2>2. NoResults \in Pane
    BY DEF Pane, NoResults
  <2>3. \A b \in BOOLEAN : [NoResults EXCEPT !.text = b] \in Pane
    BY <2>2 DEF Pane
  <2>4. panes = [i \in 1..n |-> [NoResults EXCEPT !.text = i = active]]
    BY <2>1 DEF ScreenInit
  <2>5. \A i \in 1..n : [NoResults EXCEPT !.text = i = active] \in Pane
    BY <2>3
  <2> QED BY <2>1, <2>4, <2>5
<1>4. IsBrowser(browser)
  BY DEF ScreenInit, IsBrowser, BrowserFields
<1>5. load.row \in Int
  <2>1. load.row = 0
    BY DEF ScreenInit, Idling
  <2> QED BY <2>1
<1>6. FrameKept /\ KeysActOnWhatIsShown
  BY DEF ScreenInit, FrameKept, AtKey, KeysActOnWhatIsShown, Nothing
<1> QED BY <1>2, <1>3, <1>4, <1>5, <1>6 DEF ScreenInvariant

\* What the keys act on, by every step.
LEMMA ScreenInvariantKept ==
  ASSUME Good, LoadInvariant, ScreenInvariant, [ScreenNext]_allVars
  PROVE  ScreenInvariant'
<1>1. \A n \in Int : Moves(n) \subseteq Int
  BY DEF Moves
<1>2. browser.page \in Int /\ Mine.page \in Int /\ MaxRows \in Int /\ 1 \in Int
  BY TheScreen, ScreenAssumption DEF IsBrowser, Pane
<1>3. CASE Resize \/ Others \/ UNCHANGED allVars
  BY <1>3, ElsewhereShows
<1>4. CASE Draw
  BY <1>4, DrawKeeps
<1>5. CASE NoKey
  BY <1>5, TheScreen, ActsKeep DEF NoKey, AtKey, vars, KeysActOnWhatIsShown, ScreenInvariant
<1>6. CASE LayoutKey
  BY <1>1, <1>2, <1>6, LayoutKeeps, WindowKeeps DEF LayoutKey
<1>7. CASE DocumentKey
  BY <1>7, DocumentKeysKeep
<1>8. CASE TextKey
  <2>1. CASE TypeText
    BY <2>1, ActingKeeps
  <2>2. CASE MenuEdit
    <3>1. \E tab : Changed(tab)
      BY <2>2 DEF MenuEdit, Undo, Redo
    <3>2. Len(tabs') = Len(tabs)
      BY <3>1, TheTabs DEF Changed
    <3>3. view' = view /\ panes' = panes /\ browser' = browser /\ load' = load /\ Acts(Nothing)
      BY <2>2 DEF MenuEdit
    <3> QED BY <3>2, <3>3, TheScreen, ActsKeep, ActsOnNothing DEF ScreenInvariant
  <2> QED BY <1>8, <2>1, <2>2 DEF TextKey
<1>9. CASE BrowserKeys
  BY <1>1, <1>2, <1>9, BrowsingKeeps, LayoutKeeps, StartKeeps, ActingKeeps DEF BrowserKeys
<1>10. CASE ResultKeys
  <2>1. ASSUME NEW delta \in Moves(1) \cup Moves(Mine.page) \cup Moves(MaxRows), MoveInResults(delta)
        PROVE  ScreenInvariant'
    BY <1>1, <1>2, <2>1, LayoutKeeps
  <2>2. ASSUME NEW way \in Moves(1), ScrollPage(way) PROVE ScreenInvariant'
    BY <1>1, <1>2, <2>2, LayoutKeeps
  <2>3. CASE \/ ToggleOutput \/ ToggleDetail \/ Help \/ GoToLine \/ Refuse \/ EnterResults
             \/ LeaveResults \/ MoveInPlan
    BY <2>3, LayoutKeeps
  <2>4. CASE Reconnect \/ FetchMore \/ \E kind \in {"run", "explain", "rollback"} : Start(kind)
    BY <2>4, StartKeeps
  <2>5. CASE EditCell
    BY <2>5, ActingKeeps
  <2> QED BY <1>10, <2>1, <2>2, <2>3, <2>4, <2>5 DEF ResultKeys
<1>11. CASE SchemaCompletion \/ QueryCompletion
  BY <1>11, CompletionsKeep DEF SchemaCompletion
<1> QED BY <1>3, <1>4, <1>5, <1>6, <1>7, <1>8, <1>9, <1>10, <1>11 DEF ScreenNext

-----------------------------------------------------------------------------
(* The theorems.                                                           *)

\* What tabs remember, what flows have looked at and what an operation relies
\* on is kept by every step, of the documents and of the screen.
THEOREM InvariantHolds ==
  /\ Spec => [](TypeOK /\ DocumentsInvariant)
  /\ ScreenSpec => [](TypeOK /\ DocumentsInvariant /\ LoadInvariant)
<1>1. Good <=> TypeOK /\ DocumentsInvariant
  BY DEF Good
<1>2. Spec => []Good
  <2>1. Good /\ [Next]_vars => Good'
    BY NextKeeps
  <2> QED BY <2>1, InitGood, PTL DEF Spec
<1>3. ScreenSpec => [](Good /\ LoadInvariant)
  <2>1. ScreenInit => Good /\ LoadInvariant
    BY InitGood DEF ScreenInit, LoadInvariant, Busy, Idling
  <2>2. Good /\ LoadInvariant /\ [ScreenNext]_allVars => (Good /\ LoadInvariant)'
    BY ScreenKeeps
  <2> QED BY <2>1, <2>2, PTL DEF ScreenSpec
<1> QED BY <1>1, <1>2, <1>3, PTL

\* Every variable of the documents keeps its type: tabs, histories within the
\* undo limit, flows.
THEOREM TypeCorrect == (Spec => []TypeOK) /\ (ScreenSpec => []TypeOK)
BY InvariantHolds, PTL

\* Save replaces only a version that was seen, or agreed to (save_buffer,
\* atomic_write_text with its expected snapshot).
THEOREM NothingOverwrittenUnseenHolds ==
  (Spec => []NothingOverwrittenUnseen) /\ (ScreenSpec => []NothingOverwrittenUnseen)
<1>1. TypeOK /\ DocumentsInvariant => NothingOverwrittenUnseen
  BY GoodMeans DEF Good
<1> QED BY <1>1, InvariantHolds, PTL

\* A tab with a file that is not marked as changed shows the text of the
\* version it tracks (Buffer._refresh_dirty).
THEOREM CleanMeansSavedHolds == (Spec => []CleanMeansSaved) /\ (ScreenSpec => []CleanMeansSaved)
<1>1. TypeOK /\ DocumentsInvariant => CleanMeansSaved
  BY GoodMeans DEF Good
<1> QED BY <1>1, InvariantHolds, PTL

\* A file and the source of an object has one tab (find_tab_by_source_key),
\* although definitions are loaded in the background.
THEOREM OneTabPerFileHolds == (Spec => []OneTabPerFile) /\ (ScreenSpec => []OneTabPerFile)
<1>1. TypeOK /\ DocumentsInvariant => OneTabPerFile
  BY GoodMeans DEF Good
<1> QED BY <1>1, InvariantHolds, PTL

\* The program ends only when every changed tab has been asked about
\* (confirm_quit).
THEOREM QuitAsksForEveryTabHolds ==
  (Spec => QuitAsksForEveryTab) /\ (ScreenSpec => QuitAsksForEveryTab)
<1>1. Spec => QuitAsksForEveryTab
  <2>1. TypeOK /\ DocumentsInvariant /\ [Next]_vars
          => [running /\ ~running' =>
                \A i \in DOMAIN tabs' : tabs'[i].dirty => i \in flow.givenUp \cup {active}]_vars
    BY NextKeeps DEF Good, QuitAsked
  <2> QED BY <2>1, InvariantHolds, PTL DEF Spec, QuitAsksForEveryTab
<1>2. ScreenSpec => QuitAsksForEveryTab
  <2>1. TypeOK /\ DocumentsInvariant /\ LoadInvariant /\ [ScreenNext]_allVars
          => [running /\ ~running' =>
                \A i \in DOMAIN tabs' : tabs'[i].dirty => i \in flow.givenUp \cup {active}]_vars
    BY ScreenKeeps DEF Good, QuitAsked
  <2> QED BY <2>1, InvariantHolds, PTL DEF ScreenSpec, QuitAsksForEveryTab
<1> QED BY <1>1, <1>2

\* Whatever completions, layout keys and tab changes did since, a key acts on
\* what the last frame shows: text on an editor that is on the screen, Enter on
\* the entry that is highlighted, and on the row that is selected where it can
\* be seen (handle_key, _redirect_fullscreen_editor_focus, prepare_frame).
THEOREM KeysActOnWhatIsShownHolds ==
  ScreenSpec => []ScreenInvariant /\ []KeysActOnWhatIsShown
<1>1. ScreenInit => ScreenInvariant
  BY ScreenInitGood
<1>2. TypeOK /\ DocumentsInvariant /\ LoadInvariant /\ ScreenInvariant /\ [ScreenNext]_allVars
        => ScreenInvariant'
  BY ScreenInvariantKept DEF Good
<1>3. ScreenInvariant => KeysActOnWhatIsShown
  BY DEF ScreenInvariant
<1> QED BY <1>1, <1>2, <1>3, InvariantHolds, PTL DEF ScreenSpec
=============================================================================
