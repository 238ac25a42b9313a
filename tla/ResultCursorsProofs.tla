------------------------ MODULE ResultCursorsProofs ------------------------
(***************************************************************************)
(* Proofs about server cursors and the results that hold their tokens, for *)
(* any number of tabs, results and rows.                                   *)
(***************************************************************************)
EXTENDS ResultCursors, SequenceTheorems, FiniteSetTheorems, FunctionTheorems, TLAPS

-----------------------------------------------------------------------------
(* The UI's records and the queue.                                         *)

Cmd == {c \in [kind : {"task", "close", "closeAll"}, of : Result \cup {None}] :
          c.kind # "close" => c.of = None}
Read == [rows : Rows, more : BOOLEAN, cursor : BOOLEAN, edit : BOOLEAN,
         size : 0..MaxRows, current : BOOLEAN]
Operation == [kind : Kinds, tab : Tab \cup {None}, of : Result \cup {None}, full : BOOLEAN,
              rows : Rows, cursor : BOOLEAN, cancel : BOOLEAN,
              reply : {"pending", "ok"} \cup Failures, news : Seq(Result), up : BOOLEAN,
              page : [row : 0..MaxRows, more : BOOLEAN]]
UiRecord == [tabs : [Tab -> Shown], res : [Result -> Read], ui : BOOLEAN, queue : Seq(Cmd),
             op : Operation]

Session == /\ DOMAIN open \subseteq Result
           /\ \A r \in DOMAIN open : open[r] \in [at : 1..MaxRows, size : 1..MaxRows]
           /\ conn \in {"open", "dead", "none"} /\ worker \in {"serving", "gone"}

\* The fields of the fixed records.
LEMMA Values ==
  /\ Unread \in Read /\ Unread.rows = <<>> /\ Len(Unread.rows) = 0 /\ Unread.size = 0
  /\ ~Unread.more /\ ~Unread.cursor /\ ~Unread.edit
  /\ Idle \in Operation /\ Idle.kind = "none" /\ Idle.of = None /\ Idle.rows = <<>>
  /\ Idle.reply = "pending" /\ Idle.news = <<>> /\ ~Idle.cancel
  /\ Blank \in Shown /\ Blank.active = None /\ Blank.last = None
  /\ None \notin Result /\ None \notin Tab /\ MaxRows \in Nat \ {0}
<1>1. <<>> \in Rows /\ Len(<<>>) = 0
  <2>1. MaxRows \in Nat
    BY CursorsAssumption
  <2>2. 0 \in 0..MaxRows
    BY <2>1
  <2>3. <<>> \in [1..0 -> 1..MaxRows]
    OBVIOUS
  <2> QED BY <2>2, <2>3, EmptySeq DEF Rows, BoundedSeq, SeqOf
<1>2. PICK z : z = <<>>
  OBVIOUS
<1>3. 0 \in 0..MaxRows /\ None \notin Result /\ None \notin Tab /\ MaxRows \in Nat \ {0}
  BY CursorsAssumption
<1>4. Unread \in Read /\ Unread.rows = <<>> /\ Unread.size = 0
      /\ ~Unread.more /\ ~Unread.cursor /\ ~Unread.edit
  <2>1. Unread = [rows |-> z, more |-> FALSE, cursor |-> FALSE, edit |-> FALSE,
                  size |-> 0, current |-> FALSE]
    BY <1>2 DEF Unread
  <2> QED BY <1>1, <1>2, <1>3, <2>1 DEF Read
<1>5. /\ Idle \in Operation /\ Idle.kind = "none" /\ Idle.of = None /\ Idle.rows = <<>>
      /\ Idle.reply = "pending" /\ Idle.news = <<>> /\ ~Idle.cancel
  <2>1. Idle = [kind |-> "none", tab |-> None, of |-> None, full |-> FALSE, rows |-> z,
                cursor |-> FALSE, cancel |-> FALSE, reply |-> "pending", news |-> z,
                page |-> [row |-> 0, more |-> FALSE], up |-> FALSE]
    BY <1>2 DEF Idle
  <2>2. z \in Seq(Result) /\ z \in Rows
    BY <1>1, <1>2, EmptySeq
  <2>3. [row |-> 0, more |-> FALSE] \in [row : 0..MaxRows, more : BOOLEAN]
    BY <1>3
  <2> QED BY <1>2, <2>1, <2>2, <2>3 DEF Operation, Kinds
<1>6. Blank \in Shown /\ Blank.active = None /\ Blank.last = None
  BY DEF Blank, Shown
<1> QED BY <1>1, <1>3, <1>4, <1>5, <1>6

\* Rows are a sequence, and no more than a query has.
LEMMA RowsAreBounded ==
  ASSUME NEW rows \in Rows
  PROVE  rows \in Seq(1..MaxRows) /\ Len(rows) \in Nat /\ Len(rows) <= MaxRows
<1>1. PICK m \in 0..MaxRows : rows \in [1..m -> 1..MaxRows]
  BY DEF Rows, BoundedSeq, SeqOf
<1>2. m \in Nat /\ m <= MaxRows
  BY CursorsAssumption
<1>3. rows \in Seq(1..MaxRows)
  BY <1>1, <1>2, SeqDef
<1>4. Len(rows) = m
  BY <1>1, <1>2, <1>3, LenProperties
<1> QED BY <1>2, <1>3, <1>4

\* What is in a queue with one command more at its end.
LEMMA Appended ==
  ASSUME NEW q \in Seq(Cmd), NEW c \in Cmd
  PROVE  /\ Append(q, c) \in Seq(Cmd) /\ Len(Append(q, c)) = Len(q) + 1 /\ Len(q) \in Nat
         /\ \A i \in 1..Len(q) : Append(q, c)[i] = q[i]
         /\ Append(q, c)[Len(q) + 1] = c
BY AppendProperties, LenProperties

\* Every element of a finite set is in its sequence, and nothing else.
LEMMA Listed ==
  ASSUME NEW S, IsFiniteSet(S)
  PROVE  /\ SetToSeq(S) \in Seq(S)
         /\ \A x \in S : \E i \in 1..Len(SetToSeq(S)) : SetToSeq(S)[i] = x
<1>1. Cardinality(S) \in Nat /\ ExistsBijection(1..Cardinality(S), S)
  BY FS_CardinalityType
<1>2. PICK n \in Nat : n = Cardinality(S)
  BY <1>1
<1>3. PICK f : f \in Bijection(1..n, S)
  BY <1>1, <1>2 DEF ExistsBijection
<1>4. f \in [1..n -> S] /\ IsInjective(f)
  BY <1>3 DEF Bijection, Injection, IsInjective
<1>5. PICK q : q = SetToSeq(S)
  OBVIOUS
<1>6. q \in [1..n -> S] /\ IsInjective(q)
  BY <1>2, <1>4, <1>5 DEF SetToSeq
<1>7. q \in Seq(S) /\ Len(q) = n
  BY <1>6, SeqDef, LenProperties
<1>8. q \in Injection(1..n, S)
  BY <1>6 DEF Injection, IsInjective
<1>9. IsFiniteSet(1..n) /\ Cardinality(1..n) = Cardinality(S)
  BY <1>2, FS_Interval
<1>10. q \in Surjection(1..n, S)
  BY <1>8, <1>9, FS_Injection
<1>11. \A x \in S : \E i \in 1..n : q[i] = x
  BY <1>10 DEF Surjection
<1> QED BY <1>5, <1>7, <1>11

-----------------------------------------------------------------------------
(* What the UI's helpers do.                                               *)

\* Two results that differ in token and editing handle only.
SameRows(a, b) == /\ a.rows = b.rows /\ a.more = b.more /\ a.size = b.size
                  /\ a.current = b.current

\* What InTabs collects are results, those some tab shows or showed last.
LEMMA InTabsFacts ==
  ASSUME NEW ts \in [Tab -> Shown]
  PROVE  /\ InTabs(ts) \subseteq Result
         /\ \A r \in Result : r \in InTabs(ts) <=>
              \E t \in Tab : r = ts[t].active \/ r = ts[t].last
         /\ \A t \in Tab : ts[t].active \in Result \cup {None} /\ ts[t].last \in Result \cup {None}
BY DEF InTabs, Shown

\* Tokens and handles are taken from the results of rs.
LEMMA StrippedFields ==
  ASSUME NEW s \in UiRecord, NEW rs, NEW keep \in BOOLEAN, NEW h, h = Stripped(s, rs, keep)
  PROVE  /\ h \in UiRecord
         /\ h.tabs = s.tabs /\ h.ui = s.ui /\ h.queue = s.queue /\ h.op = s.op
         /\ \A r \in Result :
              /\ SameRows(h.res[r], s.res[r])
              /\ h.res[r].cursor = (s.res[r].cursor /\ r \notin rs)
              /\ h.res[r].edit = (s.res[r].edit /\ (r \in rs => keep))
<1>1. PICK f : f = [r \in Result |->
         IF r \in rs THEN [s.res[r] EXCEPT !.cursor = FALSE, !.edit = keep /\ @] ELSE s.res[r]]
  OBVIOUS
<1>2. h = [s EXCEPT !.res = f]
  BY <1>1 DEF Stripped
<1>3. ASSUME NEW r \in Result
      PROVE  /\ f[r] \in Read /\ SameRows(f[r], s.res[r])
             /\ f[r].cursor = (s.res[r].cursor /\ r \notin rs)
             /\ f[r].edit = (s.res[r].edit /\ (r \in rs => keep))
  <2>1. PICK a : a = s.res[r]
    OBVIOUS
  <2>2. a \in Read
    BY <2>1 DEF UiRecord
  <2>3. CASE r \in rs
    <3>1. f[r] = [a EXCEPT !.cursor = FALSE, !.edit = keep /\ @]
      BY <1>1, <2>1, <2>3
    <3> QED BY <2>1, <2>2, <2>3, <3>1 DEF Read, SameRows
  <2>4. CASE r \notin rs
    <3>1. f[r] = a
      BY <1>1, <2>1, <2>4
    <3> QED BY <2>1, <2>2, <2>4, <3>1 DEF Read, SameRows
  <2> QED BY <2>3, <2>4
<1>4. f \in [Result -> Read]
  BY <1>1, <1>3
<1>5. h.res = f /\ h.tabs = s.tabs /\ h.ui = s.ui /\ h.queue = s.queue /\ h.op = s.op
      /\ h \in UiRecord
  BY <1>2, <1>4 DEF UiRecord
<1> QED BY <1>3, <1>5

\* When the session is found lost, the results of all tabs lose token and handle,
\* and nothing else changes.
LEMMA DetachFields ==
  ASSUME NEW s \in UiRecord, NEW h, h = Detach(s)
  PROVE  /\ h \in UiRecord
         /\ h.tabs = s.tabs /\ h.ui = s.ui /\ h.queue = s.queue /\ h.op = s.op
         /\ \A r \in Result :
              /\ SameRows(h.res[r], s.res[r])
              /\ h.res[r].cursor = (s.res[r].cursor /\ r \notin InTabs(s.tabs))
              /\ h.res[r].edit = (s.res[r].edit /\ r \notin InTabs(s.tabs))
<1>1. PICK rs : rs = InTabs(s.tabs)
  OBVIOUS
<1>2. PICK k \in BOOLEAN : ~k /\ h = Stripped(s, rs, k)
  BY <1>1 DEF Detach
<1>3. /\ h \in UiRecord
      /\ h.tabs = s.tabs /\ h.ui = s.ui /\ h.queue = s.queue /\ h.op = s.op
      /\ \A r \in Result :
           /\ SameRows(h.res[r], s.res[r])
           /\ h.res[r].cursor = (s.res[r].cursor /\ r \notin rs)
           /\ h.res[r].edit = (s.res[r].edit /\ (r \in rs => k))
  BY <1>2, StrippedFields
<1>4. \A r \in Result : h.res[r].edit = (s.res[r].edit /\ r \notin rs)
  BY <1>2, <1>3
<1> QED BY <1>1, <1>3, <1>4

\* Some results let go of their tokens, and ask for their cursors to be closed.
LetsGo(h, s) ==
  /\ h \in UiRecord /\ h.tabs = s.tabs /\ h.op = s.op
  /\ \A r \in Result : /\ SameRows(h.res[r], s.res[r])
                       /\ h.res[r].cursor => s.res[r].cursor
                       /\ h.res[r].edit => s.res[r].edit
  /\ worker = "serving" =>
       /\ h.ui = s.ui
       /\ \A r \in Result : h.res[r].edit = s.res[r].edit
       /\ Len(s.queue) <= Len(h.queue)
       /\ \A i \in 1..Len(s.queue) : h.queue[i] = s.queue[i]
       /\ \A i \in 1..Len(h.queue) : i > Len(s.queue) =>
            \E r \in Result : /\ h.queue[i] = Command("close", r)
                              /\ s.res[r].cursor /\ ~h.res[r].cursor
       /\ \A r \in Result : s.res[r].cursor /\ ~h.res[r].cursor =>
            \E i \in 1..Len(h.queue) : h.queue[i] = Command("close", r)
  /\ worker # "serving" => h.queue = s.queue

\* A step that changes nothing lets go of nothing.
LEMMA LetsGoNothing ==
  ASSUME NEW s \in UiRecord
  PROVE  LetsGo(s, s)
<1>1. Len(s.queue) \in Nat
  BY LenProperties DEF UiRecord
<1> QED BY <1>1 DEF LetsGo, SameRows

\* Releasing results takes their tokens, and with a serving worker queues a command
\* to close each cursor.
LEMMA ReleaseAllFields ==
  ASSUME NEW s \in UiRecord, NEW rs, rs \subseteq Result \cup {None},
         NEW h, h = ReleaseAll(s, rs)
  PROVE  /\ LetsGo(h, s)
         /\ \A r \in rs \ {None} : ~h.res[r].cursor
         /\ worker = "serving" =>
              \A r \in Result : h.res[r].cursor = (s.res[r].cursor /\ r \notin rs)
<1>1. PICK held : held = {r \in rs \ {None} : s.res[r].cursor}
  OBVIOUS
<1>2. PICK f : f = [r \in Result |-> [s.res[r] EXCEPT !.cursor = @ /\ r \notin held]]
  OBVIOUS
<1>3. PICK free : free = [s EXCEPT !.res = f]
  OBVIOUS
<1>4. held \subseteq Result /\ IsFiniteSet(held)
  BY <1>1, FS_Subset, CursorsAssumption
<1>5. ASSUME NEW r \in Result
      PROVE  /\ f[r] \in Read /\ SameRows(f[r], s.res[r]) /\ f[r].edit = s.res[r].edit
             /\ f[r].cursor = (s.res[r].cursor /\ r \notin held)
             /\ f[r].cursor = (s.res[r].cursor /\ r \notin rs)
  <2>1. PICK a : a = s.res[r]
    OBVIOUS
  <2>2. a \in Read
    BY <2>1 DEF UiRecord
  <2>3. f[r] = [a EXCEPT !.cursor = @ /\ r \notin held]
    BY <1>2, <2>1
  <2>4. f[r].cursor = (a.cursor /\ r \notin held) /\ f[r].edit = a.edit /\ f[r] \in Read
        /\ SameRows(f[r], a)
    BY <2>2, <2>3 DEF Read, SameRows
  <2>5. a.cursor /\ r \notin held <=> a.cursor /\ r \notin rs
    BY <1>1, <2>1, Values
  <2> QED BY <2>1, <2>4, <2>5
<1>6. /\ free \in UiRecord /\ free.res = f /\ free.tabs = s.tabs /\ free.ui = s.ui
      /\ free.queue = s.queue /\ free.op = s.op
  <2>1. f \in [Result -> Read]
    BY <1>2, <1>5
  <2> QED BY <1>3, <2>1 DEF UiRecord
<1>7. CASE held = {}
  <2>1. h = s
    BY <1>1, <1>7 DEF ReleaseAll
  <2>2. \A r \in Result : r \in rs => ~s.res[r].cursor
    BY <1>1, <1>7, Values
  <2>3. \A r \in Result : s.res[r].cursor \in BOOLEAN
    BY DEF UiRecord, Read
  <2> QED BY <2>1, <2>2, <2>3, LetsGoNothing
<1>8. CASE held # {} /\ worker = "serving"
  <2>1. PICK C : C = {Command("close", r) : r \in held}
    OBVIOUS
  <2>2. PICK q : q = SetToSeq(C)
    OBVIOUS
  <2>3. h = [free EXCEPT !.queue = @ \o q]
    BY <1>1, <1>2, <1>3, <1>8, <2>1, <2>2 DEF ReleaseAll
  <2>4. IsFiniteSet(C)
    <3>1. PICK g : g = [r \in held |-> Command("close", r)]
      OBVIOUS
    <3>2. g \in Surjection(held, C)
      BY <2>1, <3>1 DEF Surjection
    <3> QED BY <1>4, <3>2, FS_Surjection
  <2>5. q \in Seq(C) /\ \A x \in C : \E i \in 1..Len(q) : q[i] = x
    BY <2>2, <2>4, Listed
  <2>6. C \subseteq Cmd
    BY <1>4, <2>1 DEF Command, Cmd
  <2>7. q \in Seq(Cmd) /\ s.queue \in Seq(Cmd)
    BY <2>5, <2>6, SeqMonotonic DEF UiRecord
  <2>8. PICK k : k = s.queue \o q
    OBVIOUS
  <2>9. /\ k \in Seq(Cmd) /\ Len(k) = Len(s.queue) + Len(q)
        /\ Len(s.queue) \in Nat /\ Len(q) \in Nat
        /\ \A i \in 1..Len(s.queue) + Len(q) :
             k[i] = IF i <= Len(s.queue) THEN s.queue[i] ELSE q[i - Len(s.queue)]
    BY <2>7, <2>8, ConcatProperties, LenProperties
  <2>10. /\ h \in UiRecord /\ h.res = f /\ h.tabs = s.tabs /\ h.ui = s.ui
         /\ h.queue = k /\ h.op = s.op
    BY <1>6, <2>3, <2>8, <2>9 DEF UiRecord
  <2>11. ASSUME NEW i \in 1..Len(k), i > Len(s.queue)
         PROVE  \E r \in held : k[i] = Command("close", r)
    <3>1. i - Len(s.queue) \in 1..Len(q) /\ k[i] = q[i - Len(s.queue)]
      BY <2>9, <2>11
    <3>2. q[i - Len(s.queue)] \in C
      BY <2>5, <3>1, ElementOfSeq
    <3> QED BY <2>1, <3>1, <3>2
  <2>12. ASSUME NEW r \in held
         PROVE  \E i \in 1..Len(k) : k[i] = Command("close", r)
    <3>1. PICK j \in 1..Len(q) : q[j] = Command("close", r)
      BY <2>1, <2>5
    <3>2. Len(s.queue) + j \in 1..Len(k) /\ k[Len(s.queue) + j] = q[j]
      BY <2>9
    <3> QED BY <3>1, <3>2
  <2>13. \A r \in held : s.res[r].cursor /\ ~h.res[r].cursor
    BY <1>1, <1>4, <1>5, <2>10
  <2>14. \A r \in Result : s.res[r].cursor /\ ~h.res[r].cursor => r \in held
    BY <1>5, <2>10
  <2>15. LetsGo(h, s)
    <3>1. \A r \in Result : /\ SameRows(h.res[r], s.res[r]) /\ h.res[r].edit = s.res[r].edit
                            /\ h.res[r].cursor => s.res[r].cursor
      BY <1>5, <2>10
    <3>2. /\ Len(s.queue) <= Len(h.queue)
          /\ \A i \in 1..Len(s.queue) : h.queue[i] = s.queue[i]
      BY <2>9, <2>10
    <3>3. \A i \in 1..Len(h.queue) : i > Len(s.queue) =>
             \E r \in Result : /\ h.queue[i] = Command("close", r)
                               /\ s.res[r].cursor /\ ~h.res[r].cursor
      BY <1>4, <2>10, <2>11, <2>13
    <3>4. \A r \in Result : s.res[r].cursor /\ ~h.res[r].cursor =>
             \E i \in 1..Len(h.queue) : h.queue[i] = Command("close", r)
      BY <2>10, <2>12, <2>14
    <3> QED BY <1>8, <2>10, <3>1, <3>2, <3>3, <3>4 DEF LetsGo
  <2> QED BY <1>5, <2>10, <2>15
<1>9. CASE held # {} /\ worker # "serving"
  <2>1. PICK g : g = [free EXCEPT !.ui = FALSE]
    OBVIOUS
  <2>2. h = Detach(g)
    BY <1>1, <1>2, <1>3, <1>9, <2>1 DEF ReleaseAll
  <2>3. /\ g \in UiRecord /\ g.res = f /\ g.tabs = s.tabs /\ g.queue = s.queue /\ g.op = s.op
    BY <1>6, <2>1 DEF UiRecord
  <2>4. /\ h \in UiRecord /\ h.tabs = g.tabs /\ h.queue = g.queue /\ h.op = g.op
        /\ \A r \in Result : /\ SameRows(h.res[r], g.res[r])
                             /\ h.res[r].cursor => g.res[r].cursor
                             /\ h.res[r].edit => g.res[r].edit
    BY <2>2, <2>3, DetachFields
  <2>5. LetsGo(h, s)
    <3>1. \A r \in Result : SameRows(h.res[r], g.res[r]) /\ SameRows(g.res[r], s.res[r])
      BY <1>5, <2>3, <2>4
    <3>2. \A r \in Result : SameRows(h.res[r], s.res[r])
      BY <3>1 DEF SameRows
    <3>3. \A r \in Result : /\ h.res[r].cursor => s.res[r].cursor
                            /\ h.res[r].edit => s.res[r].edit
      BY <1>5, <2>3, <2>4
    <3>4. h \in UiRecord /\ h.tabs = s.tabs /\ h.op = s.op /\ h.queue = s.queue
      BY <2>3, <2>4
    <3> QED BY <1>9, <3>2, <3>3, <3>4 DEF LetsGo
  <2>6. \A r \in rs \ {None} : ~h.res[r].cursor
    BY <1>5, <2>3, <2>4
  <2> QED BY <1>9, <2>5, <2>6
<1> QED BY <1>7, <1>8, <1>9

-----------------------------------------------------------------------------
(* The invariant while the UI handles a key or an answer: the results of X *)
(* may hold tokens that the session does not honour, those of Y may be     *)
(* behind their cursors, and cursors may leak that are about to be closed. *)

Settled(s) ==
  /\ TabsApart(s) /\ QueueInOrder(s) /\ ClosingLetGo(s) /\ NoSession(s) /\ Fresh(s)
  /\ OpenKnown(s) /\ RowsKnown(s) /\ NewsKnown(s) /\ SourceKnown(s) /\ ExportKnown(s)
  /\ PageKnown(s) /\ TaskKnown(s)
Good(s, X, Y, leak) ==
  Settled(s) /\ Honoured(s, X) /\ InStep(s, Y) /\ (leak \/ NoneLeaks(s))

IInv == Ui \in UiRecord /\ Session /\ UiInvariant(Ui)

\* The invariant is Good with its two exceptions, and a page held for its result.
LEMMA UiInvariantIsGood ==
  ASSUME NEW s
  PROVE  UiInvariant(s) <=> Good(s, Spent(s), Ahead(s), FALSE) /\ SourceHeld(s)
BY DEF UiInvariant, Good, Settled

\* Without a session nothing is open.
LEMMA GoneFacts ==
  ASSUME NEW s, NoSession(s), Session
  PROVE  /\ worker # "serving" => conn = "none" /\ DOMAIN open = {}
         /\ conn = "none" => DOMAIN open = {}
BY DEF NoSession, Session

\* The fields of a record of the UI.
LEMMA UiFields ==
  ASSUME NEW s \in UiRecord
  PROVE  /\ s.tabs \in [Tab -> Shown] /\ s.res \in [Result -> Read] /\ s.ui \in BOOLEAN
         /\ s.queue \in Seq(Cmd) /\ Len(s.queue) \in Nat /\ s.op \in Operation
         /\ \A i \in 1..Len(s.queue) : s.queue[i] \in Cmd
         /\ Range(s.op.news) \subseteq Result
         /\ s.op.of \in Result \cup {None} /\ s.op.tab \in Tab \cup {None}
<1>1. /\ s.tabs \in [Tab -> Shown] /\ s.res \in [Result -> Read] /\ s.ui \in BOOLEAN
      /\ s.queue \in Seq(Cmd) /\ s.op \in Operation
  BY DEF UiRecord
<1>2. Len(s.queue) \in Nat /\ \A i \in 1..Len(s.queue) : s.queue[i] \in Cmd
  BY <1>1, LenProperties, ElementOfSeq
<1>3. s.op.news \in Seq(Result) /\ s.op.of \in Result \cup {None} /\ s.op.tab \in Tab \cup {None}
  BY <1>1 DEF Operation
<1>4. Range(s.op.news) \subseteq Result
  BY <1>3, LenProperties, ElementOfSeq DEF Range
<1> QED BY <1>1, <1>2, <1>3, <1>4

\* Fewer tokens and handles on the same results; the queue is another matter.
Fewer(h, s) ==
  /\ h \in UiRecord /\ h.tabs = s.tabs /\ h.op = s.op
  /\ \A r \in Result : /\ SameRows(h.res[r], s.res[r])
                       /\ h.res[r].cursor => s.res[r].cursor
                       /\ h.res[r].edit => s.res[r].edit

\* They keep what does not speak of the queue.
LEMMA FewerKeeps ==
  ASSUME Session, NEW s \in UiRecord, NEW X, NEW Y, NEW leak \in BOOLEAN,
         Good(s, X, Y, leak), NEW h, Fewer(h, s)
  PROVE  /\ TabsApart(h) /\ NoSession(h) /\ Fresh(h) /\ OpenKnown(h) /\ RowsKnown(h)
         /\ NewsKnown(h) /\ SourceKnown(h) /\ ExportKnown(h) /\ PageKnown(h) /\ TaskKnown(h)
         /\ Honoured(h, X) /\ InStep(h, Y)
<1>1. /\ h \in UiRecord /\ h.tabs = s.tabs /\ h.op = s.op
      /\ \A r \in Result : /\ h.res[r].cursor => s.res[r].cursor
                           /\ h.res[r].edit => s.res[r].edit
  BY DEF Fewer
<1>2. InTabs(s.tabs) \subseteq Result /\ Range(s.op.news) \subseteq Result
  BY UiFields, InTabsFacts
<1>3. \A r \in Result : /\ h.res[r].rows = s.res[r].rows /\ h.res[r].more = s.res[r].more
                        /\ h.res[r].size = s.res[r].size /\ h.res[r].current = s.res[r].current
  BY DEF Fewer, SameRows
<1>4. TabsApart(h)
  BY <1>1, UiFields, InTabsFacts DEF Good, Settled, TabsApart
<1>5. /\ NoSession(s) /\ Fresh(s) /\ OpenKnown(s) /\ RowsKnown(s) /\ NewsKnown(s)
      /\ SourceKnown(s) /\ ExportKnown(s) /\ TaskKnown(s) /\ PageKnown(s)
  BY DEF Good, Settled
<1>6. s.op.of \in Result \cup {None} /\ \A i \in 1..Len(s.op.news) : s.op.news[i] \in Result
  <2>1. s.op \in Operation
    BY DEF UiRecord
  <2>2. s.op.news \in Seq(Result) /\ s.op.of \in Result \cup {None}
    BY <2>1 DEF Operation
  <2> QED BY <2>2, ElementOfSeq
<1>7. NoSession(h)
  BY <1>1, <1>5 DEF NoSession
<1>8. Fresh(h)
  BY <1>1, <1>2, <1>3, <1>5 DEF Fresh
<1>9. OpenKnown(h)
  BY <1>1, <1>3, <1>5 DEF Session, OpenKnown
<1>10. RowsKnown(h)
  BY <1>3, <1>5 DEF RowsKnown
<1>11. NewsKnown(h)
  BY <1>1, <1>5, <1>6 DEF NewsKnown
<1>12. SourceKnown(h) /\ TaskKnown(h)
  BY <1>1, <1>5 DEF SourceKnown, TaskKnown
<1>13. ExportKnown(h)
  BY <1>1, <1>3, <1>5, <1>6 DEF ExportKnown, SourceKnown
<1>14. PageKnown(h)
  <2> SUFFICES ASSUME Fetching(s.op) PROVE PageKnown(h)
    BY <1>1 DEF PageKnown
  <2>1. s.op.of \in Result
    BY <1>5, <1>6 DEF SourceKnown, Fetching
  <2>2. Fetched(h) = Fetched(s) /\ h.res[s.op.of].size = s.res[s.op.of].size
        /\ h.res[s.op.of].current = s.res[s.op.of].current
    BY <1>1, <1>3, <2>1 DEF Fetched
  <2> QED BY <1>1, <1>5, <2>2 DEF PageKnown
<1>15. Honoured(h, X) /\ InStep(h, Y)
  BY <1>1, <1>2, <1>3 DEF Good, Honoured, InStep
<1> QED BY <1>4, <1>7, <1>8, <1>9, <1>10, <1>11, <1>12, <1>13, <1>14, <1>15

\* Letting go of tokens keeps it.
LEMMA LetsGoKeeps ==
  ASSUME Session, NEW s \in UiRecord, NEW X, NEW Y, NEW leak \in BOOLEAN,
         Good(s, X, Y, leak), NEW h, LetsGo(h, s),
         worker = "serving" =>
           \A r \in Range(s.op.news) : h.res[r].cursor = s.res[r].cursor
  PROVE  h \in UiRecord /\ Good(h, X, Y, leak)
<1>1. /\ h \in UiRecord /\ h.tabs = s.tabs /\ h.op = s.op
      /\ \A r \in Result : /\ SameRows(h.res[r], s.res[r])
                           /\ h.res[r].cursor => s.res[r].cursor
                           /\ h.res[r].edit => s.res[r].edit
  BY DEF LetsGo
<1>2. /\ worker # "serving" => conn = "none" /\ DOMAIN open = {}
      /\ conn = "none" => DOMAIN open = {}
  BY GoneFacts DEF Good, Settled
<1>3. InTabs(s.tabs) \subseteq Result /\ Range(s.op.news) \subseteq Result
  BY UiFields, InTabsFacts
<1>4. Len(s.queue) \in Nat /\ Len(h.queue) \in Nat
  BY <1>1, UiFields
<1>5. worker = "serving" \/ worker = "gone"
  BY DEF Session
<1>6. /\ worker # "serving" => h.queue = s.queue
      /\ worker = "serving" =>
           /\ Len(s.queue) <= Len(h.queue)
           /\ \A i \in 1..Len(s.queue) : h.queue[i] = s.queue[i]
           /\ \A i \in 1..Len(h.queue) : i > Len(s.queue) =>
                \E r \in Result : /\ h.queue[i] = Command("close", r)
                                  /\ s.res[r].cursor /\ ~h.res[r].cursor
           /\ \A r \in Result : s.res[r].cursor /\ ~h.res[r].cursor =>
                \E i \in 1..Len(h.queue) : h.queue[i] = Command("close", r)
  BY DEF LetsGo
<1>7. QueueInOrder(h)
  <2>1. ASSUME NEW i \in 1..Len(h.queue)
        PROVE  \/ i \in 1..Len(s.queue) /\ h.queue[i] = s.queue[i]
               \/ i > Len(s.queue) /\ h.queue[i].kind = "close"
    <3>1. CASE worker = "gone"
      BY <1>6, <3>1
    <3>2. CASE worker = "serving" /\ i <= Len(s.queue)
      BY <1>4, <1>6, <3>2
    <3>3. CASE worker = "serving" /\ i > Len(s.queue)
      <4>1. PICK r \in Result : h.queue[i] = Command("close", r)
        BY <1>6, <3>3
      <4> QED BY <3>3, <4>1 DEF Command
    <3> QED BY <1>4, <1>5, <3>1, <3>2, <3>3
  <2>2. QueueInOrder(s)
    BY DEF Good, Settled
  <2>3. worker = "gone" => h.queue = <<>>
    BY <1>6, <2>2 DEF QueueInOrder
  <2>4. ASSUME NEW i \in 1..Len(h.queue), h.queue[i].kind = "task"
        PROVE  /\ h.op.kind # "none" /\ h.op.reply = "pending"
               /\ \A j \in 1..Len(h.queue) : i < j => h.queue[j].kind = "close"
    <3>1. i \in 1..Len(s.queue) /\ h.queue[i] = s.queue[i]
      BY <2>1, <2>4
    <3>2. /\ s.op.kind # "none" /\ s.op.reply = "pending"
          /\ \A j \in 1..Len(s.queue) : i < j => s.queue[j].kind = "close"
      BY <2>2, <2>4, <3>1 DEF QueueInOrder
    <3> QED BY <1>1, <2>1, <3>2
  <2> QED BY <2>3, <2>4 DEF QueueInOrder
<1>8. ClosingLetGo(h)
  <2>1. ClosingLetGo(s)
    BY DEF Good, Settled
  <2>2. ASSUME NEW c, Queued(h, c)
        PROVE  \/ Queued(s, c)
               \/ /\ worker = "serving"
                  /\ \E r \in Result :
                       c = Command("close", r) /\ s.res[r].cursor /\ ~h.res[r].cursor
    <3>1. PICK i \in 1..Len(h.queue) : h.queue[i] = c
      BY <2>2 DEF Queued
    <3>2. CASE worker = "gone"
      BY <1>6, <3>1, <3>2 DEF Queued
    <3>3. CASE worker = "serving" /\ i <= Len(s.queue)
      BY <1>4, <1>6, <3>1, <3>3 DEF Queued
    <3>4. CASE worker = "serving" /\ i > Len(s.queue)
      BY <1>6, <3>1, <3>4
    <3> QED BY <1>4, <1>5, <3>2, <3>3, <3>4
  <2>3. ASSUME NEW r \in Result, Queued(h, Command("close", r))
        PROVE  r \notin Range(h.op.news) /\ (r \in InTabs(h.tabs) => ~h.res[r].cursor)
    <3>1. CASE Queued(s, Command("close", r))
      BY <1>1, <2>1, <3>1 DEF ClosingLetGo
    <3>2. CASE worker = "serving" /\ s.res[r].cursor /\ ~h.res[r].cursor
      BY <1>1, <3>2
    <3>3. \A q \in Result : Command("close", r) = Command("close", q) => q = r
      BY DEF Command
    <3> QED BY <2>2, <2>3, <3>1, <3>2, <3>3
  <2>4. ASSUME Queued(h, Command("closeAll", None))
        PROVE  h.op.news = <<>> /\ \A r \in InTabs(h.tabs) : ~h.res[r].cursor
    <3>1. \A q \in Result : Command("closeAll", None) # Command("close", q)
      BY DEF Command
    <3>2. Queued(s, Command("closeAll", None))
      BY <2>2, <2>4, <3>1
    <3> QED BY <1>1, <1>3, <2>1, <3>2 DEF ClosingLetGo
  <2> QED BY <2>3, <2>4 DEF ClosingLetGo
<1>9. leak \/ NoneLeaks(h)
  <2> SUFFICES ASSUME NoneLeaks(s), NEW r \in DOMAIN open, conn = "open"
               PROVE  \/ r \in InTabs(h.tabs) \cup Range(h.op.news) /\ h.res[r].cursor
                      \/ Queued(h, Command("close", r)) \/ Queued(h, Command("closeAll", None))
    BY DEF Good, NoneLeaks
  <2>1. worker = "serving"
    BY <1>2
  <2>2. \A c : Queued(s, c) => Queued(h, c)
    BY <1>4, <1>6, <2>1 DEF Queued
  <2>3. s.res[r].cursor /\ ~h.res[r].cursor => Queued(h, Command("close", r))
    BY <1>6, <2>1 DEF Queued, Session
  <2> QED BY <1>1, <2>2, <2>3 DEF NoneLeaks
<1>10. /\ TabsApart(h) /\ NoSession(h) /\ Fresh(h) /\ OpenKnown(h) /\ RowsKnown(h)
       /\ NewsKnown(h) /\ SourceKnown(h) /\ ExportKnown(h) /\ PageKnown(h) /\ TaskKnown(h)
       /\ Honoured(h, X) /\ InStep(h, Y)
  <2>1. Fewer(h, s)
    BY DEF LetsGo, Fewer
  <2> QED BY <2>1, FewerKeeps
<1> QED BY <1>1, <1>7, <1>8, <1>9, <1>10 DEF Good, Settled

\* The results that tabs show lose their tokens, and perhaps their handles.
Strips(h, s) ==
  /\ h \in UiRecord /\ h.tabs = s.tabs /\ h.queue = s.queue /\ h.op = s.op
  /\ \A r \in Result : /\ SameRows(h.res[r], s.res[r])
                       /\ h.res[r].cursor = (s.res[r].cursor /\ r \notin InTabs(s.tabs))
                       /\ h.res[r].edit => s.res[r].edit

\* Their cursors are then for others to close.
LEMMA StripKeeps ==
  ASSUME Session, NEW s \in UiRecord, NEW X, NEW Y, Good(s, X, Y, TRUE), NEW h, Strips(h, s)
  PROVE  /\ Good(h, X, Y, TRUE) /\ Fewer(h, s)
         /\ \A r \in InTabs(h.tabs) : ~h.res[r].cursor
         /\ worker # "serving" => NoneLeaks(h)
         /\ NoneLeaks(s) /\ (\A r \in InTabs(s.tabs) : ~s.res[r].cursor) => NoneLeaks(h)
<1>1. /\ h \in UiRecord
      /\ h.tabs = s.tabs /\ h.queue = s.queue /\ h.op = s.op
      /\ \A r \in Result :
           /\ SameRows(h.res[r], s.res[r])
           /\ h.res[r].cursor = (s.res[r].cursor /\ r \notin InTabs(s.tabs))
           /\ h.res[r].edit => s.res[r].edit
  BY DEF Strips
<1>2. Fewer(h, s)
  BY <1>1 DEF Fewer
<1>3. InTabs(s.tabs) \subseteq Result
  BY UiFields, InTabsFacts
<1>4. \A r \in InTabs(h.tabs) : ~h.res[r].cursor
  BY <1>1, <1>3
<1>5. QueueInOrder(h)
  BY <1>1 DEF Good, Settled, QueueInOrder
<1>6. ClosingLetGo(h)
  BY <1>1, <1>3, <1>4 DEF Good, Settled, ClosingLetGo, Queued
<1>7. worker # "serving" => NoneLeaks(h)
  BY GoneFacts DEF Good, Settled, NoneLeaks
<1>8. NoneLeaks(s) /\ (\A r \in InTabs(s.tabs) : ~s.res[r].cursor) => NoneLeaks(h)
  BY <1>1 DEF NoneLeaks, Queued, Session
<1>9. /\ TabsApart(h) /\ NoSession(h) /\ Fresh(h) /\ OpenKnown(h) /\ RowsKnown(h)
      /\ NewsKnown(h) /\ SourceKnown(h) /\ ExportKnown(h) /\ PageKnown(h) /\ TaskKnown(h)
      /\ Honoured(h, X) /\ InStep(h, Y)
  BY <1>2, FewerKeeps
<1> QED BY <1>2, <1>4, <1>5, <1>6, <1>7, <1>8, <1>9 DEF Good, Settled

\* So it is when the connection is gone or an operation was interrupted.
LEMMA DetachKeeps ==
  ASSUME Session, NEW s \in UiRecord, NEW X, NEW Y, NEW leak \in BOOLEAN,
         Good(s, X, Y, leak), NEW h, h = Detach(s)
  PROVE  /\ h \in UiRecord /\ Good(h, X, Y, TRUE) /\ Fewer(h, s)
         /\ h.queue = s.queue /\ h.ui = s.ui
         /\ \A r \in InTabs(h.tabs) : ~h.res[r].cursor /\ ~h.res[r].edit
         /\ worker # "serving" => NoneLeaks(h)
<1>1. /\ h \in UiRecord
      /\ h.tabs = s.tabs /\ h.ui = s.ui /\ h.queue = s.queue /\ h.op = s.op
      /\ \A r \in Result :
           /\ SameRows(h.res[r], s.res[r])
           /\ h.res[r].cursor = (s.res[r].cursor /\ r \notin InTabs(s.tabs))
           /\ h.res[r].edit = (s.res[r].edit /\ r \notin InTabs(s.tabs))
  BY DetachFields
<1>2. Strips(h, s)
  BY <1>1 DEF Strips
<1>3. Good(h, X, Y, TRUE) /\ Fewer(h, s) /\ (worker # "serving" => NoneLeaks(h))
  BY <1>2, StripKeeps DEF Good
<1>4. \A r \in InTabs(h.tabs) : ~h.res[r].cursor /\ ~h.res[r].edit
  BY <1>1, UiFields, InTabsFacts
<1> QED BY <1>1, <1>3, <1>4

\* Results that are not new ones are released.
LEMMA ReleaseKeeps ==
  ASSUME Session, NEW s \in UiRecord, NEW X, NEW Y, NEW leak \in BOOLEAN,
         Good(s, X, Y, leak), NEW rs, rs \subseteq Result \cup {None},
         rs \cap Range(s.op.news) = {}, NEW h, h = ReleaseAll(s, rs)
  PROVE  /\ h \in UiRecord /\ Good(h, X, Y, leak) /\ LetsGo(h, s)
         /\ h.tabs = s.tabs /\ h.op = s.op
         /\ \A r \in rs \ {None} : ~h.res[r].cursor
         /\ worker = "serving" =>
              \A r \in Result : h.res[r].cursor = (s.res[r].cursor /\ r \notin rs)
<1>1. /\ LetsGo(h, s)
      /\ \A r \in rs \ {None} : ~h.res[r].cursor
      /\ worker = "serving" =>
           \A r \in Result : h.res[r].cursor = (s.res[r].cursor /\ r \notin rs)
  BY ReleaseAllFields
<1>2. worker = "serving" => \A r \in Range(s.op.news) : h.res[r].cursor = s.res[r].cursor
  <2>1. Range(s.op.news) \subseteq Result
    BY UiFields
  <2>2. \A r \in Result : s.res[r].cursor \in BOOLEAN
    BY UiFields DEF Read
  <2> QED BY <1>1, <2>1, <2>2
<1>3. h \in UiRecord /\ Good(h, X, Y, leak)
  BY <1>1, <1>2, LetsGoKeeps
<1> QED BY <1>1, <1>3 DEF LetsGo

\* Between operations nothing is under way.
LEMMA NothingUnderWay ==
  ASSUME NEW s \in UiRecord, s.op.kind = "none", SourceKnown(s), QueueInOrder(s)
  PROVE  /\ s.op = Idle /\ s.op.news = <<>> /\ Range(s.op.news) = {} /\ s.op.of = None
         /\ s.op.reply = "pending"
         /\ \A i \in 1..Len(s.queue) : s.queue[i].kind # "task"
<1>1. s.op = Idle
  BY DEF SourceKnown
<1>2. PICK n : n = s.op.news
  OBVIOUS
<1>3. n = <<>>
  BY <1>1, <1>2, Values
<1>4. Range(n) = {}
  BY <1>3 DEF Range
<1> QED BY <1>1, <1>2, <1>3, <1>4, Values DEF QueueInOrder

\* Between operations, without exceptions.
LEMMA ReleaseIdle ==
  ASSUME Session, NEW s \in UiRecord, Good(s, {}, {}, FALSE), s.op.kind = "none",
         NEW rs, rs \subseteq Result \cup {None}, NEW h, h = ReleaseAll(s, rs)
  PROVE  /\ h \in UiRecord /\ Good(h, {}, {}, FALSE)
         /\ h.tabs = s.tabs /\ h.op = s.op
         /\ \A r \in rs \ {None} : ~h.res[r].cursor
<1>1. PICK no \in BOOLEAN : no = FALSE
  OBVIOUS
<1>2. PICK X : X = {}
  OBVIOUS
<1>3. Good(s, X, X, no)
  BY <1>1, <1>2
<1>4. rs \cap Range(s.op.news) = {}
  BY NothingUnderWay DEF Good, Settled
<1>5. /\ h \in UiRecord /\ Good(h, X, X, no)
      /\ h.tabs = s.tabs /\ h.op = s.op
      /\ \A r \in rs \ {None} : ~h.res[r].cursor
  BY <1>3, <1>4, ReleaseKeeps
<1> QED BY <1>1, <1>2, <1>5

\* Tabs show less, and nothing with a token disappears.
LEMMA ShowingLessKeeps ==
  ASSUME Session, NEW g \in UiRecord, NEW X, NEW Y, NEW leak \in BOOLEAN,
         Good(g, X, Y, leak), NEW h \in UiRecord,
         h.res = g.res, h.queue = g.queue, h.op = g.op,
         \A t \in Tab : /\ h.tabs[t].last \in {None, g.tabs[t].last}
                       /\ h.tabs[t].active \in {None, h.tabs[t].last}
                       /\ LET r == h.tabs[t].last
                          IN  r # None /\ g.res[r].cursor => h.tabs[t].active = r,
         leak \/ \A r \in InTabs(g.tabs) : r \notin InTabs(h.tabs) => ~g.res[r].cursor,
         g.op.kind \in {"more", "export-fetch", "export-write"} =>
           h.tabs[g.op.tab].last = g.tabs[g.op.tab].last
  PROVE  Good(h, X, Y, leak)
<1>1. InTabs(h.tabs) \subseteq InTabs(g.tabs) /\ InTabs(g.tabs) \subseteq Result
  <2>1. h.tabs \in [Tab -> Shown] /\ g.tabs \in [Tab -> Shown]
    BY UiFields
  <2>2. \A r \in Result, t \in Tab :
          r = h.tabs[t].active \/ r = h.tabs[t].last => r = g.tabs[t].last
    BY Values
  <2> QED BY <2>1, <2>2, InTabsFacts
<1>2. TabsApart(h)
  BY DEF Good, Settled, TabsApart
<1>3. QueueInOrder(h) /\ RowsKnown(h) /\ ExportKnown(h) /\ PageKnown(h) /\ TaskKnown(h)
  BY DEF Good, Settled, QueueInOrder, RowsKnown, ExportKnown, PageKnown, TaskKnown, Fetched
<1>4. ClosingLetGo(h) /\ Fresh(h)
  BY <1>1 DEF Good, Settled, ClosingLetGo, Fresh, Queued
<1>5. NoSession(h)
  BY <1>1 DEF Good, Settled, NoSession
<1>6. OpenKnown(h) /\ NewsKnown(h)
  BY <1>1 DEF Good, Settled, OpenKnown, NewsKnown
<1>7. SourceKnown(h)
  BY DEF Good, Settled, SourceKnown
<1>8. Honoured(h, X) /\ InStep(h, Y)
  BY <1>1 DEF Good, Honoured, InStep
<1>9. leak \/ NoneLeaks(h)
  BY <1>1 DEF Good, NoneLeaks, Queued
<1> QED BY <1>2, <1>3, <1>4, <1>5, <1>6, <1>7, <1>8, <1>9 DEF Good, Settled

\* What nothing refers to is forgotten, which changes nothing.
LEMMA CollectedKeeps ==
  ASSUME Session, NEW s \in UiRecord, UiInvariant(s), NEW g, NEW f,
         f = [r \in Result |-> IF r \in InTabs(s.tabs) \cup {s.op.of} \cup Range(s.op.news)
                               THEN s.res[r] ELSE Unread],
         g = [tabs |-> s.tabs, res |-> f, ui |-> s.ui, queue |-> s.queue, op |-> s.op]
  PROVE  g \in UiRecord /\ UiInvariant(g)
<1>1. f \in [Result -> Read]
  BY UiFields, Values
<1>2. /\ g \in UiRecord /\ g.tabs = s.tabs /\ g.res = f /\ g.queue = s.queue /\ g.op = s.op
  BY <1>1, UiFields DEF UiRecord
<1>3. /\ \A r \in InTabs(s.tabs) : r \in Result /\ f[r] = s.res[r]
      /\ \A r \in Range(s.op.news) : r \in Result /\ f[r] = s.res[r]
      /\ s.op.of # None => s.op.of \in Result /\ f[s.op.of] = s.res[s.op.of]
      /\ \A r \in Result : f[r] = s.res[r] \/ f[r] = Unread
  BY UiFields, InTabsFacts
<1>4. \A i \in 1..Len(s.op.news) : s.op.news[i] \in Range(s.op.news)
  <2>1. s.op.news \in Seq(Result)
    BY UiFields DEF Operation
  <2> QED BY <2>1, LenProperties DEF Range
<1>5. TabsApart(g)
  <2>1. \A t \in Tab : s.tabs[t].last # None => s.tabs[t].last \in InTabs(s.tabs)
    BY UiFields, InTabsFacts
  <2> QED BY <1>2, <1>3, <2>1 DEF UiInvariant, TabsApart
<1>6. QueueInOrder(g) /\ NoSession(g) /\ TaskKnown(g) /\ SourceKnown(g)
  BY <1>2 DEF UiInvariant, QueueInOrder, NoSession, TaskKnown, SourceKnown
<1>7. ClosingLetGo(g)
  BY <1>2, <1>3 DEF UiInvariant, ClosingLetGo, Queued
<1>8. Fresh(g)
  BY <1>2, <1>3 DEF UiInvariant, Fresh
<1>9. OpenKnown(g)
  BY <1>2, <1>3, CursorsAssumption DEF UiInvariant, OpenKnown, Session
<1>10. RowsKnown(g)
  <2>1. ASSUME NEW r \in Result, f[r] = Unread
        PROVE  /\ f[r].rows = [i \in 1..Len(f[r].rows) |-> i]
               /\ Len(f[r].rows) <= f[r].size
               /\ ~f[r].more => Len(f[r].rows) = f[r].size
    <3>1. PICK z : z = f[r].rows
      OBVIOUS
    <3>2. z = <<>> /\ Len(z) = 0 /\ f[r].size = 0
      BY <2>1, <3>1, Values
    <3>3. z = [i \in 1..Len(z) |-> i]
      BY <3>2
    <3> QED BY <3>1, <3>2, <3>3
  <2> QED BY <1>2, <1>3, <2>1 DEF UiInvariant, RowsKnown
<1>11. NewsKnown(g)
  BY <1>2, <1>3, <1>4 DEF UiInvariant, NewsKnown
<1>12. SourceHeld(g) /\ ExportKnown(g)
  BY <1>2, <1>3 DEF UiInvariant, SourceKnown, SourceHeld, ExportKnown, Fetching
<1>13. PageKnown(g)
  <2> SUFFICES ASSUME Fetching(s.op) PROVE PageKnown(g)
    BY <1>2 DEF PageKnown
  <2>1. s.op.of # None
    BY DEF UiInvariant, SourceKnown, Fetching
  <2>2. Fetched(g) = Fetched(s) /\ g.res[s.op.of] = s.res[s.op.of]
    BY <1>2, <1>3, <2>1 DEF Fetched
  <2> QED BY <1>2, <2>2 DEF UiInvariant, PageKnown
<1>14. NoneLeaks(g)
  BY <1>2, <1>3 DEF UiInvariant, NoneLeaks, Queued
<1>15. Honoured(g, Spent(g)) /\ InStep(g, Ahead(g))
  <2>1. Spent(g) = Spent(s) /\ Ahead(g) = Ahead(s)
    BY <1>2 DEF Spent, Ahead
  <2> QED BY <1>2, <1>3, <2>1 DEF UiInvariant, Honoured, InStep
<1> QED BY <1>2, <1>5, <1>6, <1>7, <1>8, <1>9, <1>10, <1>11, <1>12, <1>13, <1>14, <1>15
        DEF UiInvariant

\* The invariant after a step, in terms of the record of the UI it leads to.
LEMMA NextInvariant ==
  ASSUME NEW g, Ui' = g, g \in UiRecord, Session', UiInvariant(g)'
  PROVE  IInv'
<1>1. TabsApart(Ui)' /\ QueueInOrder(Ui)' /\ ClosingLetGo(Ui)' /\ NoSession(Ui)'
  BY DEF UiInvariant, TabsApart, QueueInOrder, ClosingLetGo, NoSession, Queued
<1>2. Fresh(Ui)' /\ OpenKnown(Ui)' /\ RowsKnown(Ui)' /\ NoneLeaks(Ui)'
  BY DEF UiInvariant, Fresh, OpenKnown, RowsKnown, NoneLeaks, Queued
<1>3. NewsKnown(Ui)' /\ SourceKnown(Ui)' /\ SourceHeld(Ui)' /\ ExportKnown(Ui)'
  BY DEF UiInvariant, NewsKnown, SourceKnown, SourceHeld, ExportKnown, Fetching
<1>4. PageKnown(Ui)' /\ TaskKnown(Ui)'
  BY DEF UiInvariant, PageKnown, TaskKnown, Fetching, Fetched, Done
<1>5. Honoured(Ui, Spent(Ui))' /\ InStep(Ui, Ahead(Ui))'
  BY DEF UiInvariant, Honoured, InStep, Spent, Ahead, Fetching
<1> QED BY <1>1, <1>2, <1>3, <1>4, <1>5 DEF IInv, UiInvariant

\* A step of the UI keeps the invariant, if what it makes of the UI's record has it.
LEMMA UiStepKeeps ==
  ASSUME Session, NEW s \in UiRecord, UiInvariant(s), Becomes(s),
         UNCHANGED <<open, conn, worker>>
  PROVE  IInv'
<1>1. PICK f : f = [r \in Result |-> IF r \in InTabs(s.tabs) \cup {s.op.of} \cup Range(s.op.news)
                                     THEN s.res[r] ELSE Unread]
  OBVIOUS
<1>2. PICK g : g = [tabs |-> s.tabs, res |-> f, ui |-> s.ui, queue |-> s.queue, op |-> s.op]
  OBVIOUS
<1>3. g \in UiRecord /\ UiInvariant(g)
  BY <1>1, <1>2, CollectedKeeps
<1>4. Ui' = g
  BY <1>1, <1>2 DEF Becomes, Ui
<1>5. Session'
  BY DEF Session
<1>6. UiInvariant(g)'
  BY <1>3 DEF UiInvariant, TabsApart, QueueInOrder, ClosingLetGo, NoSession, Fresh, OpenKnown,
              RowsKnown, NoneLeaks, NewsKnown, SourceKnown, SourceHeld, ExportKnown, PageKnown,
              TaskKnown, Honoured, InStep
<1> QED BY <1>3, <1>4, <1>5, <1>6, NextInvariant

\* A tab's table goes, with its cursor.
LEMMA ClearKeeps ==
  ASSUME Session, NEW s \in UiRecord, NEW X, NEW Y, NEW leak \in BOOLEAN,
         Good(s, X, Y, leak), NEW t \in Tab, NEW h, h = ClearTable(s, t)
  PROVE  /\ h \in UiRecord /\ Good(h, X, Y, leak) /\ h.op = s.op
         /\ SourceHeld(s) => SourceHeld(h)
<1>1. PICK a : a = s.tabs[t].active
  OBVIOUS
<1>2. PICK g : g = ReleaseAll(s, {a})
  OBVIOUS
<1>3. h = [g EXCEPT !.tabs[t].active = None]
  BY <1>1, <1>2 DEF ClearTable, Release
<1>4. TabsApart(s) /\ NewsKnown(s) /\ SourceKnown(s)
  BY DEF Good, Settled
<1>5. /\ s.tabs \in [Tab -> Shown] /\ a \in Result \cup {None}
      /\ \A u \in Tab : /\ s.tabs[u].active \in {None, s.tabs[u].last}
                        /\ s.tabs[u].last \in Result \cup {None}
  BY <1>1, <1>4, UiFields, InTabsFacts DEF TabsApart
<1>6. {a} \cap Range(s.op.news) = {}
  <2>1. a # None => a \in InTabs(s.tabs)
    BY <1>1, <1>5, InTabsFacts
  <2>2. \A r \in Range(s.op.news) : r \in Result /\ r \notin InTabs(s.tabs)
    BY <1>4, UiFields DEF NewsKnown
  <2> QED BY <2>1, <2>2, Values
<1>7. /\ g \in UiRecord /\ Good(g, X, Y, leak) /\ g.tabs = s.tabs /\ g.op = s.op
      /\ a # None => ~g.res[a].cursor
      /\ worker = "serving" =>
           \A r \in Result : g.res[r].cursor = (s.res[r].cursor /\ r # a)
  BY <1>2, <1>5, <1>6, ReleaseKeeps
<1>8. PICK f : f = [s.tabs EXCEPT ![t].active = None]
  OBVIOUS
<1>9. f \in [Tab -> Shown] /\ \A u \in Tab :
        /\ f[u].last = s.tabs[u].last
        /\ f[u].active = IF u = t THEN None ELSE s.tabs[u].active
  <2>1. PICK b : b = s.tabs[t]
    OBVIOUS
  <2>2. b \in Shown
    BY <1>5, <2>1
  <2>3. PICK c : c = [b EXCEPT !.active = None]
    OBVIOUS
  <2>4. c \in Shown /\ c.active = None /\ c.last = b.last
    BY <2>2, <2>3 DEF Shown
  <2>5. f = [s.tabs EXCEPT ![t] = c]
    BY <1>8, <2>1, <2>3
  <2> QED BY <1>5, <2>1, <2>4, <2>5
<1>10. /\ h \in UiRecord /\ h.tabs = f /\ h.res = g.res /\ h.queue = g.queue /\ h.op = g.op
  BY <1>3, <1>7, <1>8, <1>9 DEF UiRecord
<1>11. InTabs(f) = InTabs(s.tabs)
  <2>1. \A r \in Result, u \in Tab : (r = f[u].active \/ r = f[u].last) <=> r = s.tabs[u].last
    BY <1>5, <1>9, Values
  <2>2. \A r \in Result, u \in Tab :
          (r = s.tabs[u].active \/ r = s.tabs[u].last) <=> r = s.tabs[u].last
    BY <1>5, Values
  <2>3. \A r \in Result : r \in InTabs(f) <=> r \in InTabs(s.tabs)
    BY <1>5, <1>9, <2>1, <2>2, InTabsFacts
  <2>4. InTabs(f) \subseteq Result /\ InTabs(s.tabs) \subseteq Result
    BY <1>5, <1>9, InTabsFacts
  <2> QED BY <2>3, <2>4
<1>12. ASSUME NEW u \in Tab
       PROVE  /\ f[u].active \in {None, f[u].last}
              /\ f[u].last # None /\ g.res[f[u].last].cursor => f[u].active = f[u].last
  <2>1. g.tabs[u].last # None /\ g.res[g.tabs[u].last].cursor => g.tabs[u].active = g.tabs[u].last
    BY <1>7 DEF Good, Settled, TabsApart
  <2> QED BY <1>1, <1>5, <1>7, <1>9, <2>1
<1>13. g.op.kind \in {"more", "export-fetch", "export-write"} => g.op.tab \in Tab
  BY <1>4, <1>7 DEF SourceKnown
<1>14. Good(h, X, Y, leak)
  BY <1>7, <1>9, <1>10, <1>11, <1>12, <1>13, ShowingLessKeeps
<1>15. ASSUME SourceHeld(s) PROVE SourceHeld(h)
  <2> SUFFICES ASSUME Fetching(s.op), worker = "serving", f[s.op.tab].active = s.op.of
               PROVE  g.res[s.op.of].cursor
    BY <1>7, <1>10 DEF SourceHeld
  <2>1. s.op.tab \in Tab /\ s.op.of \in Result /\ s.tabs[s.op.tab].last = s.op.of
    BY <1>4, UiFields DEF SourceKnown, Fetching
  <2>2. s.op.tab # t /\ s.tabs[s.op.tab].active = s.op.of
    BY <1>9, <2>1, Values
  <2>3. s.res[s.op.of].cursor
    BY <1>15, <2>2 DEF SourceHeld
  <2>4. a # s.op.of
    BY <1>1, <1>4, <1>5, <2>1, <2>2, Values DEF TabsApart
  <2> QED BY <1>7, <2>1, <2>3, <2>4
<1> QED BY <1>7, <1>10, <1>14, <1>15

\* With no table in any tab.
LEMMA BlankTabs ==
  ASSUME NEW ts, ts = [t \in Tab |-> Blank]
  PROVE  /\ ts \in [Tab -> Shown] /\ InTabs(ts) = {}
         /\ \A t \in Tab : ts[t].active = None /\ ts[t].last = None
<1>1. ts \in [Tab -> Shown] /\ \A t \in Tab : ts[t].active = None /\ ts[t].last = None
  BY Values
<1> QED BY <1>1, InTabsFacts, Values

\* After a rollback, or for a new session, no tab shows anything.
LEMMA InvalidateKeeps ==
  ASSUME Session, NEW s \in UiRecord, NEW X, NEW Y, NEW leak \in BOOLEAN,
         Good(s, X, Y, leak), leak \/ \A r \in InTabs(s.tabs) : ~s.res[r].cursor,
         s.op.kind = "none", NEW h, h = Invalidate(s)
  PROVE  /\ h \in UiRecord /\ Good(h, X, Y, leak) /\ h.op = s.op /\ h.queue = s.queue
         /\ InTabs(h.tabs) = {}
<1>1. PICK rs : rs = InTabs(s.tabs)
  OBVIOUS
<1>2. PICK k \in BOOLEAN : k
  OBVIOUS
<1>3. PICK g : g = Stripped(s, rs, k)
  OBVIOUS
<1>4. PICK ts : ts = [t \in Tab |-> Blank]
  OBVIOUS
<1>5. h = [g EXCEPT !.tabs = ts]
  BY <1>1, <1>2, <1>3, <1>4 DEF Invalidate
<1>6. /\ g \in UiRecord /\ Good(g, X, Y, TRUE) /\ Fewer(g, s) /\ g.queue = s.queue
      /\ \A r \in InTabs(g.tabs) : ~g.res[r].cursor
      /\ NoneLeaks(s) /\ (\A r \in InTabs(s.tabs) : ~s.res[r].cursor) => NoneLeaks(g)
  <2>1. /\ g \in UiRecord
        /\ g.tabs = s.tabs /\ g.queue = s.queue /\ g.op = s.op
        /\ \A r \in Result :
             /\ SameRows(g.res[r], s.res[r])
             /\ g.res[r].cursor = (s.res[r].cursor /\ r \notin rs)
             /\ g.res[r].edit = (s.res[r].edit /\ (r \in rs => k))
    BY <1>3, StrippedFields
  <2>2. Strips(g, s)
    BY <1>1, <2>1 DEF Strips
  <2>3. Good(s, X, Y, TRUE)
    BY DEF Good
  <2> QED BY <2>1, <2>2, <2>3, StripKeeps
<1>7. Good(g, X, Y, leak)
  BY <1>6 DEF Good
<1>8. /\ ts \in [Tab -> Shown] /\ InTabs(ts) = {}
      /\ \A t \in Tab : ts[t].active = None /\ ts[t].last = None
  BY <1>4, BlankTabs
<1>9. /\ h \in UiRecord /\ h.tabs = ts /\ h.res = g.res /\ h.queue = g.queue /\ h.op = g.op
  BY <1>5, <1>6, <1>8 DEF UiRecord
<1>10. g.op = s.op
  BY <1>6 DEF Fewer
<1>11. Good(h, X, Y, leak)
  BY <1>6, <1>7, <1>8, <1>9, <1>10, ShowingLessKeeps
<1> QED BY <1>6, <1>8, <1>9, <1>10, <1>11

-----------------------------------------------------------------------------
(* Commands for the worker.                                                *)

\* A command is added to the queue.
LEMMA QueuedAfter ==
  ASSUME NEW s \in UiRecord, NEW c \in Cmd, NEW h, h = [s EXCEPT !.queue = Append(@, c)]
  PROVE  /\ h \in UiRecord /\ h.tabs = s.tabs /\ h.res = s.res /\ h.op = s.op /\ h.ui = s.ui
         /\ Queued(h, c) /\ \A d : Queued(h, d) <=> Queued(s, d) \/ d = c
         /\ Len(h.queue) = Len(s.queue) + 1 /\ Len(s.queue) \in Nat
         /\ \A i \in 1..Len(s.queue) : h.queue[i] = s.queue[i]
         /\ h.queue[Len(s.queue) + 1] = c
<1>1. PICK q : q = Append(s.queue, c)
  OBVIOUS
<1>2. /\ q \in Seq(Cmd) /\ Len(q) = Len(s.queue) + 1 /\ Len(s.queue) \in Nat
      /\ \A i \in 1..Len(s.queue) : q[i] = s.queue[i]
      /\ q[Len(s.queue) + 1] = c
  BY <1>1, UiFields, Appended
<1>3. /\ h \in UiRecord /\ h.tabs = s.tabs /\ h.res = s.res /\ h.op = s.op
      /\ h.ui = s.ui /\ h.queue = q
  BY <1>1, <1>2 DEF UiRecord
<1>4. \A i \in 1..Len(q) : i \in 1..Len(s.queue) \/ i = Len(s.queue) + 1
  BY <1>2
<1>5. Len(s.queue) + 1 \in 1..Len(q) /\ \A i \in 1..Len(s.queue) : i \in 1..Len(q)
  BY <1>2
<1> QED BY <1>2, <1>3, <1>4, <1>5 DEF Queued

\* A cursor that no tab holds is to be closed.
LEMMA CloseKeeps ==
  ASSUME Session, NEW s \in UiRecord, NEW X, NEW Y, Good(s, X, Y, TRUE), s.op.kind = "none",
         worker = "serving", NEW r \in Result, r \in InTabs(s.tabs) => ~s.res[r].cursor,
         NEW h, h = [s EXCEPT !.queue = Append(@, Command("close", r))]
  PROVE  /\ h \in UiRecord /\ Good(h, X, Y, TRUE) /\ h.op = s.op
         /\ NoneLeaks(s) => NoneLeaks(h)
<1>1. Command("close", r) \in Cmd /\ \A q : Command("close", q) = Command("close", r) => q = r
  BY DEF Command, Cmd
<1>2. /\ h \in UiRecord /\ h.tabs = s.tabs /\ h.res = s.res /\ h.op = s.op /\ h.ui = s.ui
      /\ \A d : Queued(h, d) <=> Queued(s, d) \/ d = Command("close", r)
      /\ Len(h.queue) = Len(s.queue) + 1 /\ Len(s.queue) \in Nat
      /\ \A i \in 1..Len(s.queue) : h.queue[i] = s.queue[i]
      /\ h.queue[Len(s.queue) + 1] = Command("close", r)
  BY <1>1, QueuedAfter
<1>3. /\ s.op = Idle /\ s.op.news = <<>> /\ Range(s.op.news) = {}
      /\ \A i \in 1..Len(s.queue) : s.queue[i].kind # "task"
  BY NothingUnderWay DEF Good, Settled
<1>4. QueueInOrder(h)
  <2>1. \A i \in 1..Len(h.queue) : h.queue[i].kind # "task"
    <3>1. Command("close", r).kind = "close"
      BY DEF Command
    <3>2. \A i \in 1..Len(h.queue) : i \in 1..Len(s.queue) \/ i = Len(s.queue) + 1
      BY <1>2
    <3> QED BY <1>2, <1>3, <3>1, <3>2
  <2> QED BY <2>1 DEF QueueInOrder
<1>5. ClosingLetGo(h)
  <2>1. Command("closeAll", None) # Command("close", r)
    BY DEF Command
  <2> QED BY <1>1, <1>2, <1>3, <2>1 DEF Good, Settled, ClosingLetGo
<1>6. NoneLeaks(s) => NoneLeaks(h)
  BY <1>2 DEF NoneLeaks
<1>7. TabsApart(h) /\ NoSession(h) /\ Fresh(h) /\ OpenKnown(h) /\ RowsKnown(h)
  BY <1>2 DEF Good, Settled, TabsApart, NoSession, Fresh, OpenKnown, RowsKnown
<1>8. NewsKnown(h) /\ SourceKnown(h) /\ ExportKnown(h)
  BY <1>2 DEF Good, Settled, NewsKnown, SourceKnown, ExportKnown
<1>9. PageKnown(h) /\ TaskKnown(h)
  BY <1>2 DEF Good, Settled, PageKnown, TaskKnown, Fetched
<1>10. Honoured(h, X) /\ InStep(h, Y)
  BY <1>2 DEF Good, Honoured, InStep
<1> QED BY <1>2, <1>4, <1>5, <1>6, <1>7, <1>8, <1>9, <1>10 DEF Good, Settled

\* All cursors are to be closed, once the tabs have let go of them.
LEMMA CloseAllKeeps ==
  ASSUME Session, NEW s \in UiRecord, NEW X, NEW Y, Good(s, X, Y, TRUE), s.op.kind = "none",
         \A r \in InTabs(s.tabs) : ~s.res[r].cursor, worker = "serving",
         NEW h, h = [s EXCEPT !.queue = Append(@, Command("closeAll", None))]
  PROVE  h \in UiRecord /\ UiInvariant(h)
<1>1. Command("closeAll", None) \in Cmd
      /\ \A q : Command("close", q) # Command("closeAll", None)
  BY DEF Command, Cmd
<1>2. /\ h \in UiRecord /\ h.tabs = s.tabs /\ h.res = s.res /\ h.op = s.op /\ h.ui = s.ui
      /\ Queued(h, Command("closeAll", None))
      /\ \A d : Queued(h, d) <=> Queued(s, d) \/ d = Command("closeAll", None)
      /\ Len(h.queue) = Len(s.queue) + 1 /\ Len(s.queue) \in Nat
      /\ \A i \in 1..Len(s.queue) : h.queue[i] = s.queue[i]
      /\ h.queue[Len(s.queue) + 1] = Command("closeAll", None)
  BY <1>1, QueuedAfter
<1>3. /\ s.op = Idle /\ s.op.news = <<>> /\ Range(s.op.news) = {}
      /\ \A i \in 1..Len(s.queue) : s.queue[i].kind # "task"
  BY NothingUnderWay DEF Good, Settled
<1>4. QueueInOrder(h)
  <2>1. \A i \in 1..Len(h.queue) : h.queue[i].kind # "task"
    <3>1. Command("closeAll", None).kind = "closeAll"
      BY DEF Command
    <3>2. \A i \in 1..Len(h.queue) : i \in 1..Len(s.queue) \/ i = Len(s.queue) + 1
      BY <1>2
    <3> QED BY <1>2, <1>3, <3>1, <3>2
  <2> QED BY <2>1 DEF QueueInOrder
<1>5. ClosingLetGo(h)
  BY <1>1, <1>2, <1>3 DEF Good, Settled, ClosingLetGo
<1>6. NoneLeaks(h)
  BY <1>2 DEF NoneLeaks
<1>7. TabsApart(h) /\ NoSession(h) /\ Fresh(h) /\ OpenKnown(h) /\ RowsKnown(h)
  BY <1>2 DEF Good, Settled, TabsApart, NoSession, Fresh, OpenKnown, RowsKnown
<1>8. NewsKnown(h) /\ SourceKnown(h) /\ SourceHeld(h) /\ ExportKnown(h)
  BY <1>2 DEF Good, Settled, NewsKnown, SourceKnown, SourceHeld, ExportKnown, Fetching
<1>9. PageKnown(h) /\ TaskKnown(h)
  BY <1>2 DEF Good, Settled, PageKnown, TaskKnown, Fetching
<1>10. Honoured(h, Spent(h)) /\ InStep(h, Ahead(h))
  BY <1>2, <1>3 DEF Honoured, InStep
<1> QED BY <1>2, <1>4, <1>5, <1>6, <1>7, <1>8, <1>9, <1>10 DEF UiInvariant

\* What an operation is to be when it is started on a record of the UI.
StartsWell(s, o) ==
  /\ o \in Operation /\ o.kind # "none" /\ o.tab \in Tab /\ o.reply = "pending" /\ o.news = <<>>
  /\ o.kind \in {"more", "export-fetch", "export-write"} =>
       o.of # None /\ s.tabs[o.tab].last = o.of
  /\ o.kind \notin {"more", "export-fetch", "export-write"} => o.of = None
  /\ o.kind = "connect" => InTabs(s.tabs) = {}
  /\ o.rows = [i \in 1..Len(o.rows) |-> i] /\ Len(o.rows) <= MaxRows
  /\ o.kind = "export-fetch" => o.full /\ o.cursor /\ Len(o.rows) <= s.res[o.of].size
  /\ o.kind = "export-write" /\ o.full => Len(o.rows) = s.res[o.of].size
  /\ Fetching(o) => /\ s.tabs[o.tab].active = o.of => s.res[o.of].cursor
                    /\ conn = "open" /\ o.of \in DOMAIN open =>
                         open[o.of].at = IF o.kind = "more" THEN Len(s.res[o.of].rows)
                                                            ELSE Len(o.rows)

\* Without a worker the operation is not started, and the tabs are detached.
LEMMA NotStarted ==
  ASSUME Session, NEW s \in UiRecord, NEW X, NEW Y, Good(s, X, Y, TRUE), s.op.kind = "none",
         worker # "serving", NEW h, h = Detach(s)
  PROVE  h \in UiRecord /\ UiInvariant(h)
<1>1. /\ h \in UiRecord /\ Good(h, X, Y, TRUE) /\ Fewer(h, s) /\ NoneLeaks(h)
  BY DetachKeeps
<1>2. h.op.kind = "none"
  BY <1>1 DEF Fewer
<1>3. conn # "open"
  BY GoneFacts DEF Good, Settled
<1> QED BY <1>1, <1>2, <1>3 DEF Good, Settled, UiInvariant, Honoured, InStep, SourceHeld, Fetching

\* With one, its command is queued.
LEMMA Started ==
  ASSUME Session, NEW s \in UiRecord, NEW o, StartsWell(s, o),
         Good(s, {}, {r \in Result : r = o.of /\ Fetching(o)}, FALSE), s.op.kind = "none",
         worker = "serving",
         NEW h, h = [s EXCEPT !.op = o, !.queue = Append(@, Command("task", None))]
  PROVE  h \in UiRecord /\ UiInvariant(h)
<1>1. Command("task", None) \in Cmd /\ Command("task", None).kind = "task"
      /\ (\A q : Command("close", q) # Command("task", None))
      /\ Command("closeAll", None) # Command("task", None)
  BY DEF Command, Cmd
<1>2. PICK g : g = [s EXCEPT !.queue = Append(@, Command("task", None))]
  OBVIOUS
<1>3. /\ g \in UiRecord /\ g.tabs = s.tabs /\ g.res = s.res /\ g.ui = s.ui
      /\ \A d : Queued(g, d) <=> Queued(s, d) \/ d = Command("task", None)
      /\ Len(g.queue) = Len(s.queue) + 1 /\ Len(s.queue) \in Nat
      /\ \A i \in 1..Len(s.queue) : g.queue[i] = s.queue[i]
  BY <1>1, <1>2, QueuedAfter
<1>4. /\ h \in UiRecord /\ h.tabs = s.tabs /\ h.res = s.res /\ h.queue = g.queue /\ h.op = o
  <2>1. o \in Operation
    BY DEF StartsWell
  <2> QED BY <1>2, <1>3, <2>1 DEF UiRecord
<1>5. \A d : Queued(h, d) <=> Queued(s, d) \/ d = Command("task", None)
  BY <1>3, <1>4 DEF Queued
<1>6. /\ s.op = Idle /\ s.op.news = <<>> /\ Range(s.op.news) = {}
      /\ \A i \in 1..Len(s.queue) : s.queue[i].kind # "task"
  BY NothingUnderWay DEF Good, Settled
<1>7. o.news = <<>> /\ Range(o.news) = {} /\ h.op.news = <<>> /\ o.reply = "pending"
  BY <1>4, <1>6 DEF StartsWell
<1>8. QueueInOrder(h)
  <2>1. \A i \in 1..Len(h.queue) : h.queue[i].kind = "task" => i = Len(h.queue)
    BY <1>3, <1>4, <1>6
  <2>2. \A i \in 1..Len(h.queue) : h.queue[i].kind = "task" =>
          \A j \in 1..Len(h.queue) : ~(i < j)
    BY <1>3, <1>4, <2>1
  <2> QED BY <1>4, <2>2 DEF QueueInOrder, StartsWell
<1>9. ClosingLetGo(h)
  BY <1>1, <1>4, <1>5, <1>7 DEF Good, Settled, ClosingLetGo
<1>10. NoneLeaks(h)
  BY <1>4, <1>5, <1>6 DEF Good, NoneLeaks
<1>11. TabsApart(h) /\ RowsKnown(h)
  BY <1>4 DEF Good, Settled, TabsApart, RowsKnown
<1>12. NoSession(h)
  BY <1>4, <1>7 DEF Good, Settled, NoSession, StartsWell
<1>13. Fresh(h)
  BY <1>4, <1>6, <1>7 DEF Good, Settled, Fresh
<1>14. o.of # None => o.of \in InTabs(s.tabs)
  BY UiFields, InTabsFacts DEF StartsWell, Operation
<1>15. OpenKnown(h)
  BY <1>4, <1>7, <1>14, CursorsAssumption DEF Good, Settled, OpenKnown, Session
<1>16. NewsKnown(h)
  <2>1. \A z : z = <<>> => IsInjective(z) /\ Len(z) = 0
    BY DEF IsInjective
  <2> QED BY <1>4, <1>7, <2>1 DEF NewsKnown, StartsWell
<1>17. SourceKnown(h) /\ ExportKnown(h) /\ TaskKnown(h)
  BY <1>4, <1>7 DEF SourceKnown, ExportKnown, TaskKnown, StartsWell, Done
<1>18. SourceHeld(h)
  BY <1>4 DEF SourceHeld, StartsWell
<1>19. PageKnown(h)
  BY <1>4, <1>7 DEF PageKnown, StartsWell, Fetching, Fetched, Failures
<1>20. Honoured(h, Spent(h)) /\ InStep(h, Ahead(h))
  BY <1>4, <1>6, <1>7 DEF Good, Honoured, InStep, Spent, Ahead
<1> QED BY <1>4, <1>8, <1>9, <1>10, <1>11, <1>12, <1>13, <1>15, <1>16, <1>17, <1>18, <1>19, <1>20
        DEF UiInvariant

\* Both together.
LEMMA StartKeeps ==
  ASSUME Session, NEW s \in UiRecord, NEW o, StartsWell(s, o),
         Good(s, {}, {r \in Result : r = o.of /\ Fetching(o)}, FALSE), s.op.kind = "none",
         NEW h, h = StartOn(s, o)
  PROVE  h \in UiRecord /\ UiInvariant(h)
<1>1. CASE worker = "serving"
  <2>1. h = [s EXCEPT !.op = o, !.queue = Append(@, Command("task", None))]
    BY <1>1 DEF StartOn
  <2> QED BY <1>1, <2>1, Started
<1>2. CASE worker # "serving"
  <2>1. PICK g : g = [s EXCEPT !.ui = FALSE, !.op = Idle]
    OBVIOUS
  <2>2. h = Detach(g)
    BY <1>2, <2>1 DEF StartOn
  <2>3. s.op = Idle
    BY DEF Good, Settled, SourceKnown
  <2>4. /\ g \in UiRecord /\ g.tabs = s.tabs /\ g.res = s.res /\ g.queue = s.queue
        /\ g.op = s.op
    BY <2>1, <2>3 DEF UiRecord
  <2>5. Good(g, {}, {r \in Result : r = o.of /\ Fetching(o)}, TRUE)
    <3>1. Fewer(g, s)
      <4>1. \A r \in Result : SameRows(s.res[r], s.res[r])
        BY DEF SameRows
      <4> QED BY <2>4, <4>1 DEF Fewer
    <3>2. QueueInOrder(g) /\ ClosingLetGo(g)
      BY <2>4 DEF Good, Settled, QueueInOrder, ClosingLetGo, Queued
    <3>3. /\ TabsApart(g) /\ NoSession(g) /\ Fresh(g) /\ OpenKnown(g) /\ RowsKnown(g)
          /\ NewsKnown(g) /\ SourceKnown(g) /\ ExportKnown(g) /\ PageKnown(g) /\ TaskKnown(g)
          /\ Honoured(g, {}) /\ InStep(g, {r \in Result : r = o.of /\ Fetching(o)})
      BY <3>1, FewerKeeps
    <3> QED BY <3>2, <3>3 DEF Good, Settled
  <2> QED BY <1>2, <2>2, <2>4, <2>5, NotStarted
<1> QED BY <1>1, <1>2

-----------------------------------------------------------------------------
(* Operations the user starts.                                             *)

\* The fields of the record the UI works on.
LEMMA UiIs ==
  /\ Ui.tabs = tabs /\ Ui.res = res /\ Ui.ui = ui /\ Ui.queue = queue /\ Ui.op = op
BY DEF Ui

\* Between operations the invariant has no exceptions.
LEMMA IdleUi ==
  ASSUME IInv, ~Busy
  PROVE  /\ Session /\ Ui \in UiRecord /\ Ui.op = op /\ op = Idle /\ op.kind = "none"
         /\ Good(Ui, {}, {}, FALSE)
<1>1. op.kind = "none" /\ op = Idle
  BY UiIs DEF Busy, IInv, UiInvariant, SourceKnown
<1>2. Good(Ui, Spent(Ui), Ahead(Ui), FALSE)
  BY UiInvariantIsGood DEF IInv
<1>3. Spent(Ui) = {} /\ Ahead(Ui) = {}
  BY <1>1, UiIs DEF Spent, Ahead, Fetching
<1> QED BY <1>1, <1>2, <1>3, UiIs DEF IInv

\* A record between operations needs no exceptions.
LEMMA IdleInvariant ==
  ASSUME NEW s, Good(s, {}, {}, FALSE), s.op.kind = "none"
  PROVE  UiInvariant(s)
<1>1. Spent(s) = {} /\ Ahead(s) = {} /\ SourceHeld(s)
  BY DEF Spent, Ahead, SourceHeld, Fetching
<1> QED BY <1>1, UiInvariantIsGood

\* A new operation is of its kind, tab and result, and has no answer yet.
LEMMA StartFields ==
  ASSUME NEW kind \in Kinds, NEW t \in Tab, NEW r \in Result \cup {None}, NEW o,
         o = Start(kind, t, r)
  PROVE  /\ o \in Operation /\ o.kind = kind /\ o.tab = t /\ o.of = r /\ o.rows = <<>>
         /\ o.reply = "pending" /\ o.news = <<>> /\ ~o.cancel /\ ~o.full
<1>1. PICK z : z = <<>>
  OBVIOUS
<1>2. o = [kind |-> kind, tab |-> t, of |-> r, full |-> FALSE, rows |-> z,
           cursor |-> FALSE, cancel |-> FALSE, reply |-> "pending", news |-> z,
           page |-> [row |-> 0, more |-> FALSE], up |-> FALSE]
  BY <1>1 DEF Start, Idle
<1>3. z \in Rows /\ z \in Seq(Result)
  BY <1>1, Values, EmptySeq DEF Operation
<1>4. [row |-> 0, more |-> FALSE] \in [row : 0..MaxRows, more : BOOLEAN]
  BY CursorsAssumption
<1> QED BY <1>1, <1>2, <1>3, <1>4 DEF Operation

\* An operation without a result of its own.
LEMMA PlainStartsWell ==
  ASSUME NEW s, NEW kind \in {"execute", "explain", "rollback", "other", "connect"},
         NEW t \in Tab, NEW o, o = Start(kind, t, None),
         kind = "connect" => InTabs(s.tabs) = {}
  PROVE  StartsWell(s, o) /\ {r \in Result : r = o.of /\ Fetching(o)} = {}
<1>1. /\ o \in Operation /\ o.kind = kind /\ o.tab = t /\ o.of = None /\ o.rows = <<>>
      /\ o.reply = "pending" /\ o.news = <<>>
  BY StartFields DEF Kinds
<1>2. o.rows = [i \in 1..Len(o.rows) |-> i] /\ Len(o.rows) <= MaxRows
  <2>1. PICK z : z = o.rows
    OBVIOUS
  <2>2. z = <<>> /\ Len(z) = 0 /\ z = [i \in 1..Len(z) |-> i]
    BY <1>1, <2>1
  <2> QED BY <2>1, <2>2, CursorsAssumption
<1> QED BY <1>1, <1>2 DEF StartsWell, Fetching

\* Starting statements, an explain, a rollback or a commit keeps the invariant.
LEMMA PlainStart ==
  ASSUME IInv, NEW t \in Tab, RunStatements(t) \/ Explain(t) \/ Rollback(t) \/ StartOther(t)
  PROVE  IInv'
<1>1. PICK kind \in {"execute", "explain", "rollback", "other"} : StartPlain(kind, t)
  BY DEF RunStatements, Explain, Rollback, StartOther
<1>2. ~Busy /\ UNCHANGED <<open, conn, worker>>
  BY <1>1 DEF StartPlain, sessionVars
<1>3. Session /\ Ui \in UiRecord /\ Ui.op = op /\ op.kind = "none" /\ Good(Ui, {}, {}, FALSE)
  BY <1>2, IdleUi
<1>4. PICK o : o = Start(kind, t, None)
  OBVIOUS
<1>5. PICK s : s = Ui
  OBVIOUS
<1>6. PICK h : h = StartOn(s, o) /\ Becomes(h)
  BY <1>1, <1>4, <1>5 DEF StartPlain
<1>7. StartsWell(s, o) /\ {r \in Result : r = o.of /\ Fetching(o)} = {}
  BY <1>4, PlainStartsWell
<1>8. h \in UiRecord /\ UiInvariant(h)
  BY <1>3, <1>5, <1>6, <1>7, StartKeeps
<1> QED BY <1>2, <1>3, <1>6, <1>8, UiStepKeeps

\* A page is asked for while the result is shown and holds its token.
LEMMA MoreStart ==
  ASSUME IInv, NEW t \in Tab, FetchMore(t)
  PROVE  IInv'
<1>1. PICK r : r = tabs[t].active
  OBVIOUS
<1>2. /\ ~Busy /\ r # None /\ res[r].cursor /\ Becomes(StartOn(Ui, Start("more", t, r)))
      /\ UNCHANGED <<open, conn, worker>>
  BY <1>1 DEF FetchMore, sessionVars
<1>3. Session /\ Ui \in UiRecord /\ Ui.op = op /\ op.kind = "none" /\ Good(Ui, {}, {}, FALSE)
  BY <1>2, IdleUi
<1>4. PICK s : s = Ui
  OBVIOUS
<1>5. PICK o : o = Start("more", t, r)
  OBVIOUS
<1>6. s.tabs[t].active = r /\ r \in Result /\ s.tabs[t].last = r /\ r \in InTabs(s.tabs)
      /\ s.res[r].cursor
  <2>1. s.tabs[t].active = r /\ s.res = res
    BY <1>1, <1>4, UiIs
  <2>2. s.tabs \in [Tab -> Shown]
    BY <1>3, <1>4, UiFields
  <2>3. s.tabs[t].active \in {None, s.tabs[t].last}
    BY <1>3, <1>4 DEF Good, Settled, TabsApart
  <2> QED BY <1>2, <2>1, <2>2, <2>3, InTabsFacts
<1>7. /\ o \in Operation /\ o.kind = "more" /\ o.tab = t /\ o.of = r /\ o.rows = <<>>
      /\ o.reply = "pending" /\ o.news = <<>>
  BY <1>5, <1>6, StartFields DEF Kinds
<1>8. o.rows = [i \in 1..Len(o.rows) |-> i] /\ Len(o.rows) <= MaxRows
  <2>1. PICK z : z = o.rows
    OBVIOUS
  <2>2. z = <<>> /\ Len(z) = 0 /\ z = [i \in 1..Len(z) |-> i]
    BY <1>7, <2>1
  <2> QED BY <2>1, <2>2, CursorsAssumption
<1>9. conn = "open" /\ r \in DOMAIN open => open[r].at = Len(s.res[r].rows)
  BY <1>3, <1>4, <1>6 DEF Good, InStep
<1>10. StartsWell(s, o)
  <2>1. /\ s.tabs[o.tab].active = o.of => s.res[o.of].cursor
        /\ conn = "open" /\ o.of \in DOMAIN open =>
             open[o.of].at = IF o.kind = "more" THEN Len(s.res[o.of].rows) ELSE Len(o.rows)
    BY <1>6, <1>7, <1>9
  <2>2. /\ o.kind # "connect" /\ o.kind # "export-fetch" /\ o.kind # "export-write"
        /\ o.kind # "none" /\ o.of # None /\ s.tabs[o.tab].last = o.of
    BY <1>2, <1>6, <1>7
  <2> QED BY <1>7, <1>8, <2>1, <2>2 DEF StartsWell
<1>11. Good(s, {}, {q \in Result : q = o.of /\ Fetching(o)}, FALSE)
  BY <1>3, <1>4 DEF Good, InStep
<1>12. PICK h : h = StartOn(s, o) /\ Becomes(h)
  BY <1>2, <1>4, <1>5
<1>13. h \in UiRecord /\ UiInvariant(h)
  BY <1>3, <1>4, <1>10, <1>11, <1>12, StartKeeps
<1> QED BY <1>2, <1>3, <1>12, <1>13, UiStepKeeps

\* With the session and the worker as they are, the invariant is that of the record.
LEMMA SameSession ==
  ASSUME Session, NEW g \in UiRecord, UiInvariant(g), Ui' = g, UNCHANGED <<open, conn, worker>>
  PROVE  IInv'
<1>1. Session'
  BY DEF Session
<1>2. UiInvariant(g)'
  BY DEF UiInvariant, TabsApart, QueueInOrder, ClosingLetGo, NoSession, Fresh, OpenKnown,
         RowsKnown, NoneLeaks, NewsKnown, SourceKnown, SourceHeld, ExportKnown, PageKnown,
         TaskKnown, Honoured, InStep
<1> QED BY <1>1, <1>2, NextInvariant

\* The help text takes the place of a table, even of one with an operation under way.
LEMMA HelpKeeps ==
  ASSUME IInv, NEW t \in Tab, Help(t)
  PROVE  IInv'
<1>1. PICK s : s = Ui
  OBVIOUS
<1>2. PICK h : h = ClearTable(s, t) /\ Becomes(h)
  BY <1>1 DEF Help
<1>3. Session /\ s \in UiRecord /\ Good(s, Spent(s), Ahead(s), FALSE) /\ SourceHeld(s)
  BY <1>1, UiInvariantIsGood DEF IInv
<1>4. PICK X, Y : X = Spent(s) /\ Y = Ahead(s)
  OBVIOUS
<1>5. h \in UiRecord /\ Good(h, X, Y, FALSE) /\ h.op = s.op /\ SourceHeld(h)
  BY <1>2, <1>3, <1>4, ClearKeeps
<1>6. Spent(h) = X /\ Ahead(h) = Y
  BY <1>4, <1>5 DEF Spent, Ahead
<1>7. UiInvariant(h)
  BY <1>5, <1>6, UiInvariantIsGood
<1> QED BY <1>2, <1>3, <1>5, <1>7, UiStepKeeps DEF Help, sessionVars

\* A tab is closed between operations.
LEMMA CloseTabKeeps ==
  ASSUME IInv, NEW t \in Tab, CloseTab(t)
  PROVE  IInv'
<1>1. PICK s : s = Ui
  OBVIOUS
<1>2. ~Busy /\ UNCHANGED <<open, conn, worker>>
  BY DEF CloseTab, sessionVars
<1>3. Session /\ s \in UiRecord /\ s.op.kind = "none" /\ Good(s, {}, {}, FALSE)
  BY <1>1, <1>2, IdleUi
<1>4. PICK rs : rs = {tabs[t].active, tabs[t].last}
  OBVIOUS
<1>5. PICK g : g = ReleaseAll(s, rs)
  OBVIOUS
<1>6. PICK h : h = [g EXCEPT !.tabs[t] = Blank] /\ Becomes(h)
  BY <1>1, <1>4, <1>5 DEF CloseTab
<1>7. /\ s.tabs \in [Tab -> Shown] /\ rs = {s.tabs[t].active, s.tabs[t].last}
      /\ rs \subseteq Result \cup {None}
  <2>1. s.tabs = tabs /\ s.tabs \in [Tab -> Shown]
    BY <1>1, <1>3, UiIs, UiFields
  <2>2. s.tabs[t].active \in Result \cup {None} /\ s.tabs[t].last \in Result \cup {None}
    BY <2>1, InTabsFacts
  <2> QED BY <1>4, <2>1, <2>2
<1>8. /\ g \in UiRecord /\ Good(g, {}, {}, FALSE) /\ g.tabs = s.tabs /\ g.op = s.op
      /\ \A r \in rs \ {None} : ~g.res[r].cursor
  <2>1. rs \subseteq Result \cup {None}
    BY <1>7
  <2> QED BY <1>3, <1>5, <2>1, ReleaseIdle
<1>9. PICK f : f = [s.tabs EXCEPT ![t] = Blank]
  OBVIOUS
<1>10. /\ f \in [Tab -> Shown] /\ f[t].active = None /\ f[t].last = None
       /\ \A u \in Tab : u # t => f[u] = s.tabs[u]
  BY <1>7, <1>9, Values
<1>11. /\ h \in UiRecord /\ h.tabs = f /\ h.res = g.res /\ h.queue = g.queue /\ h.op = g.op
  BY <1>6, <1>8, <1>9, <1>10 DEF UiRecord
<1>12. ASSUME NEW u \in Tab
       PROVE  /\ f[u].last \in {None, g.tabs[u].last}
              /\ f[u].active \in {None, f[u].last}
              /\ f[u].last # None /\ g.res[f[u].last].cursor => f[u].active = f[u].last
  <2>1. CASE u = t
    BY <1>10, <2>1
  <2>2. CASE u # t
    BY <1>8, <1>10, <2>2 DEF Good, Settled, TabsApart
  <2> QED BY <2>1, <2>2
<1>13. ASSUME NEW r \in InTabs(g.tabs), r \notin InTabs(f) PROVE ~g.res[r].cursor
  <2>1. PICK u \in Tab : r \in Result /\ (r = s.tabs[u].active \/ r = s.tabs[u].last)
    BY <1>7, <1>8, <1>13, InTabsFacts
  <2>2. u = t
    BY <1>10, <1>13, <2>1, InTabsFacts
  <2> QED BY <1>7, <1>8, <2>1, <2>2, Values
<1>14. Good(h, {}, {}, FALSE)
  BY <1>3, <1>8, <1>11, <1>12, <1>13, ShowingLessKeeps
<1>15. UiInvariant(h)
  BY <1>3, <1>8, <1>11, <1>14, IdleInvariant
<1> QED BY <1>2, <1>3, <1>6, <1>11, <1>15, UiStepKeeps

\* What a reconnect does before it starts.
LEMMA LetGoKeeps ==
  ASSUME IInv, ~Busy, NEW s, s = Ui, NEW h, h = LetGo(s)
  PROVE  /\ h \in UiRecord /\ Good(h, {}, {}, FALSE) /\ h.op = s.op /\ InTabs(h.tabs) = {}
<1>1. Session /\ s \in UiRecord /\ s.op.kind = "none" /\ Good(s, {}, {}, FALSE)
  BY IdleUi
<1>2. PICK rs : rs = InTabs(s.tabs)
  OBVIOUS
<1>3. PICK g : g = ReleaseAll(s, rs)
  OBVIOUS
<1>4. rs \subseteq Result /\ rs \subseteq Result \cup {None}
  BY <1>1, <1>2, UiFields, InTabsFacts
<1>5. /\ g \in UiRecord /\ Good(g, {}, {}, FALSE) /\ g.tabs = s.tabs /\ g.op = s.op
      /\ \A r \in rs \ {None} : ~g.res[r].cursor
  BY <1>1, <1>3, <1>4, ReleaseIdle
<1>6. \A r \in InTabs(g.tabs) : ~g.res[r].cursor
  BY <1>2, <1>4, <1>5, Values
<1>7. h = Invalidate(g)
  BY <1>2, <1>3 DEF LetGo
<1>8. PICK no \in BOOLEAN : no = FALSE
  OBVIOUS
<1>9. Good(g, {}, {}, no) /\ (no \/ \A r \in InTabs(g.tabs) : ~g.res[r].cursor)
  BY <1>5, <1>6, <1>8
<1>10. h \in UiRecord /\ Good(h, {}, {}, no) /\ h.op = g.op /\ InTabs(h.tabs) = {}
  BY <1>1, <1>5, <1>7, <1>9, InvalidateKeeps
<1> QED BY <1>5, <1>8, <1>10

\* A terminal worker is replaced.
LEMMA Replaced ==
  ASSUME IInv, ~Busy, worker = "gone", worker' = "serving", UNCHANGED <<open, conn>>,
         NEW t \in Tab, NEW o, o = Start("connect", t, None), NEW s, s = LetGo(Ui),
         Becomes([s EXCEPT !.op = o, !.queue = <<Command("task", None)>>])
  PROVE  IInv'
<1>1. Session /\ s \in UiRecord /\ Good(s, {}, {}, FALSE) /\ InTabs(s.tabs) = {}
  BY LetGoKeeps DEF IInv
<1>2. PICK q : q = <<Command("task", None)>>
  OBVIOUS
<1>3. Command("task", None) \in Cmd /\ Command("task", None).kind = "task"
      /\ (\A c : Command("close", c) # Command("task", None))
      /\ Command("closeAll", None) # Command("task", None)
  BY DEF Command, Cmd
<1>4. q \in Seq(Cmd) /\ Len(q) = 1 /\ \A i \in 1..Len(q) : q[i] = Command("task", None)
  BY <1>2, <1>3
<1>5. StartsWell(s, o) /\ o.kind = "connect"
  BY <1>1, PlainStartsWell, StartFields DEF Kinds
<1>6. PICK h : h = [s EXCEPT !.op = o, !.queue = q] /\ Becomes(h)
  BY <1>2
<1>7. h \in UiRecord /\ h.tabs = s.tabs /\ h.op = o /\ h.queue = q /\ h.res = s.res /\ h.ui = s.ui
  BY <1>1, <1>4, <1>5, <1>6 DEF StartsWell, UiRecord
<1>8. PICK f : f = [r \in Result |-> IF r \in InTabs(h.tabs) \cup {h.op.of} \cup Range(h.op.news)
                                     THEN h.res[r] ELSE Unread]
  OBVIOUS
<1>9. PICK g : g = [tabs |-> h.tabs, res |-> f, ui |-> h.ui, queue |-> h.queue, op |-> h.op]
  OBVIOUS
<1>10. Ui' = g
  BY <1>6, <1>8, <1>9 DEF Becomes, Ui
<1>11. f \in [Result -> Read]
  BY <1>7, <1>8, UiFields, Values
<1>12. /\ g \in UiRecord /\ g.tabs = s.tabs /\ g.res = f /\ g.queue = q /\ g.op = o
  BY <1>7, <1>9, <1>11, UiFields DEF UiRecord
<1>13. o.of = None /\ o.news = <<>> /\ Range(o.news) = {} /\ o.reply = "pending"
  <2>1. \A z : z = <<>> => Range(z) = {}
    BY DEF Range
  <2> QED BY <1>5, <2>1 DEF StartsWell
<1>14. \A r \in Result : f[r] = Unread
  BY <1>1, <1>7, <1>8, <1>13, Values
<1>15. DOMAIN open = {} /\ conn = "none"
  BY <1>1, GoneFacts DEF Good, Settled
<1>16. TabsApart(g)' /\ NoSession(g)'
  <2>1. \A u \in Tab : s.tabs[u].last = None
    BY <1>1, UiFields, InTabsFacts
  <2> QED BY <1>1, <1>5, <1>12, <1>13, <1>15, <2>1 DEF Good, Settled, TabsApart, NoSession
<1>17. QueueInOrder(g)'
  <2>1. \A i, j \in 1..Len(q) : ~(i < j)
    BY <1>4
  <2> QED BY <1>5, <1>12, <1>13, <2>1 DEF QueueInOrder
<1>18. ClosingLetGo(g)'
  BY <1>1, <1>3, <1>4, <1>12, <1>13 DEF ClosingLetGo, Queued
<1>19. Fresh(g)' /\ NoneLeaks(g)' /\ Honoured(g, Spent(g))' /\ InStep(g, Ahead(g))'
  BY <1>15 DEF Fresh, NoneLeaks, Honoured, InStep
<1>20. OpenKnown(g)'
  BY <1>15 DEF OpenKnown
<1>21. RowsKnown(g)'
  <2>1. PICK z : z = Unread.rows
    OBVIOUS
  <2>2. z = <<>> /\ Len(z) = 0 /\ z = [i \in 1..Len(z) |-> i] /\ Unread.size = 0
    BY <2>1, Values
  <2>3. \A r \in Result : g.res[r] = Unread
    BY <1>12, <1>14
  <2>4. /\ Unread.rows = [i \in 1..Len(Unread.rows) |-> i]
        /\ Len(Unread.rows) = 0 /\ Unread.size = 0
    BY <2>1, <2>2
  <2> QED BY <2>3, <2>4 DEF RowsKnown
<1>22. NewsKnown(g)'
  <2>1. \A z : z = <<>> => IsInjective(z) /\ Len(z) = 0
    BY DEF IsInjective
  <2> QED BY <1>5, <1>12, <1>13, <2>1 DEF NewsKnown
<1>23. SourceKnown(g)' /\ SourceHeld(g)' /\ ExportKnown(g)' /\ PageKnown(g)' /\ TaskKnown(g)'
  BY <1>5, <1>12, <1>13 DEF SourceKnown, SourceHeld, ExportKnown, PageKnown, TaskKnown, Fetching,
                            StartsWell, Done
<1>24. Session'
  BY <1>1 DEF Session
<1> QED BY <1>10, <1>12, <1>16, <1>17, <1>18, <1>19, <1>20, <1>21, <1>22, <1>23, <1>24,
           NextInvariant DEF UiInvariant

\* Connecting again keeps it: every result is let go of first.
LEMMA ReconnectKeeps ==
  ASSUME IInv, NEW t \in Tab, Reconnect(t)
  PROVE  IInv'
<1>1. PICK o : o = Start("connect", t, None)
  OBVIOUS
<1>2. PICK s : s = LetGo(Ui)
  OBVIOUS
<1>3. ~Busy /\ worker' = "serving" /\ UNCHANGED <<open, conn>>
  BY DEF Reconnect, sessionVars
<1>4. CASE worker = "serving"
  <2>1. PICK h : h = StartOn(s, o) /\ Becomes(h)
    BY <1>1, <1>2, <1>4 DEF Reconnect
  <2>2. /\ Session /\ s \in UiRecord /\ Good(s, {}, {}, FALSE) /\ s.op.kind = "none"
        /\ InTabs(s.tabs) = {}
    BY <1>2, <1>3, LetGoKeeps, IdleUi
  <2>3. StartsWell(s, o) /\ {r \in Result : r = o.of /\ Fetching(o)} = {}
    BY <1>1, <2>2, PlainStartsWell
  <2>4. h \in UiRecord /\ UiInvariant(h)
    BY <2>1, <2>2, <2>3, StartKeeps
  <2> QED BY <1>3, <1>4, <2>1, <2>2, <2>4, UiStepKeeps
<1>5. CASE worker = "gone"
  <2>1. Becomes([s EXCEPT !.op = o, !.queue = <<Command("task", None)>>])
    BY <1>1, <1>2, <1>5 DEF Reconnect
  <2> QED BY <1>1, <1>2, <1>3, <1>5, <2>1, Replaced
<1>6. worker = "serving" \/ worker = "gone"
  BY DEF IInv, Session
<1> QED BY <1>4, <1>5, <1>6

\* An interrupt is noted in the operation.
LEMMA InterruptKeeps ==
  ASSUME IInv, Interrupt
  PROVE  IInv'
<1>1. PICK s : s = Ui
  OBVIOUS
<1>2. PICK o : o = [op EXCEPT !.cancel = TRUE]
  OBVIOUS
<1>3. PICK g : g = [s EXCEPT !.op = o]
  OBVIOUS
<1>4. /\ Session /\ s \in UiRecord /\ UiInvariant(s) /\ s.op = op /\ op.kind # "none"
      /\ op' = o /\ UNCHANGED <<tabs, res, ui, queue, open, conn, worker>>
  BY <1>1, <1>2, UiIs DEF IInv, Interrupt, Busy, uiVars, sessionVars
<1>5. op \in Operation
  BY <1>4, UiFields
<1>6. /\ o \in Operation /\ o.kind = op.kind /\ o.tab = op.tab /\ o.of = op.of /\ o.full = op.full
      /\ o.rows = op.rows /\ o.cursor = op.cursor /\ o.reply = op.reply /\ o.news = op.news
      /\ o.page = op.page /\ o.up = op.up /\ o.cancel
  BY <1>2, <1>5 DEF Operation
<1>7. /\ g \in UiRecord /\ g.tabs = s.tabs /\ g.res = s.res /\ g.queue = s.queue /\ g.op = o
  BY <1>3, <1>4, <1>6 DEF UiRecord
<1>8. Ui' = g
  BY <1>1, <1>3, <1>4 DEF Ui
<1>9. TabsApart(g) /\ QueueInOrder(g) /\ NoSession(g) /\ Fresh(g) /\ OpenKnown(g) /\ RowsKnown(g)
  BY <1>4, <1>6, <1>7 DEF UiInvariant, TabsApart, QueueInOrder, NoSession, Fresh, OpenKnown,
                          RowsKnown
<1>10. ClosingLetGo(g) /\ NoneLeaks(g) /\ NewsKnown(g)
  BY <1>4, <1>6, <1>7 DEF UiInvariant, ClosingLetGo, NoneLeaks, NewsKnown, Queued
<1>11. SourceKnown(g) /\ SourceHeld(g) /\ ExportKnown(g) /\ TaskKnown(g)
  BY <1>4, <1>6, <1>7 DEF UiInvariant, SourceKnown, SourceHeld, ExportKnown, TaskKnown, Fetching,
                          Done
<1>12. PageKnown(g)
  <2>1. Fetched(g) = Fetched(s) /\ (Fetching(o) <=> Fetching(op))
    BY <1>4, <1>6, <1>7 DEF Fetched, Fetching
  <2> SUFFICES ASSUME Fetching(op) PROVE PageKnown(g)
    BY <1>7, <2>1 DEF PageKnown
  <2>2. /\ op.reply = "pending" /\ conn = "open" /\ op.of \in DOMAIN open =>
             open[op.of].at = Len(Fetched(s))
        /\ op.reply = "ok" =>
             /\ op.page.row = Len(Fetched(s)) + 1 /\ op.page.row <= s.res[op.of].size
             /\ op.page.more = (op.page.row < s.res[op.of].size)
             /\ conn = "open" => s.res[op.of].current
             /\ op.of \in DOMAIN open => op.page.more /\ open[op.of].at = op.page.row
        /\ op.reply \in Failures /\ ~(op.kind = "export-fetch" /\ op.cancel)
              /\ conn = "open" => op.of \notin DOMAIN open
    BY <1>4 DEF UiInvariant, PageKnown
  <2>3. o.reply \in Failures /\ ~(o.kind = "export-fetch" /\ o.cancel) =>
          op.reply \in Failures /\ ~(op.kind = "export-fetch" /\ op.cancel)
    BY <1>6
  <2> QED BY <1>6, <1>7, <2>1, <2>2, <2>3 DEF PageKnown
<1>13. Honoured(g, Spent(g)) /\ InStep(g, Ahead(g))
  <2>1. Spent(g) = Spent(s) /\ Ahead(g) = Ahead(s)
    BY <1>4, <1>6, <1>7 DEF Spent, Ahead, Fetching
  <2> QED BY <1>4, <1>6, <1>7, <2>1 DEF UiInvariant, Honoured, InStep
<1>14. UiInvariant(g)
  BY <1>9, <1>10, <1>11, <1>12, <1>13 DEF UiInvariant
<1> QED BY <1>4, <1>7, <1>8, <1>14, SameSession

\* An export that goes on: its rows are the first of the query, and the shown
\* result has the token that the next page is asked for.
GoodJob(s, job) ==
  /\ job \in Operation /\ job.tab \in Tab /\ job.of \in Result /\ job.news = <<>>
  /\ s.tabs[job.tab].active = job.of /\ s.tabs[job.tab].last = job.of
  /\ job.rows = [i \in 1..Len(job.rows) |-> i] /\ Len(job.rows) <= s.res[job.of].size
  /\ job.full /\ ~job.cursor => Len(job.rows) = s.res[job.of].size
  /\ job.full /\ job.cursor =>
       /\ s.res[job.of].cursor
       /\ conn = "open" /\ job.of \in DOMAIN open => open[job.of].at = Len(job.rows)

\* An export goes on with its next page or with the file, from rows that are the first
\* of its query.
LEMMA JobGoesOn ==
  ASSUME Session, NEW s \in UiRecord, NEW job, GoodJob(s, job), s.op.kind = "none",
         Good(s, {}, {job.of}, FALSE), (job.full /\ job.cursor) \/ Good(s, {}, {}, FALSE),
         NEW h, h = IF job.full THEN FetchNextPage(s, job) ELSE StartWriter(s, job)
  PROVE  h \in UiRecord /\ UiInvariant(h)
<1>1. s.res[job.of] \in Read /\ SourceIsCurrent(s, job)
  BY UiFields DEF GoodJob, SourceIsCurrent
<1>2. Len(job.rows) <= MaxRows
  BY RowsAreBounded DEF GoodJob, Operation
<1>3. CASE job.full /\ job.cursor
  <2>1. PICK o : o = [job EXCEPT !.kind = "export-fetch", !.reply = "pending"]
    OBVIOUS
  <2>2. /\ o \in Operation /\ o.kind = "export-fetch" /\ o.tab = job.tab /\ o.of = job.of
        /\ o.full = job.full /\ o.rows = job.rows /\ o.cursor = job.cursor
        /\ o.reply = "pending" /\ o.news = job.news
    BY <2>1 DEF GoodJob, Operation, Kinds
  <2>3. h = StartOn(s, o)
    BY <1>1, <1>3, <2>1 DEF FetchNextPage
  <2>4. StartsWell(s, o)
    <3>1. o.of # None /\ o.tab \in Tab /\ o.news = <<>> /\ s.tabs[o.tab].last = o.of
      BY <2>2, Values DEF GoodJob
    <3>2. o.rows = [i \in 1..Len(o.rows) |-> i] /\ Len(o.rows) <= MaxRows
          /\ Len(o.rows) <= s.res[o.of].size
      <4>1. job.rows = [i \in 1..Len(job.rows) |-> i] /\ Len(job.rows) <= s.res[job.of].size
        BY DEF GoodJob
      <4> QED BY <1>2, <2>2, <4>1
    <3>3. /\ s.res[o.of].cursor
          /\ conn = "open" /\ o.of \in DOMAIN open => open[o.of].at = Len(o.rows)
      BY <1>3, <2>2 DEF GoodJob
    <3> QED BY <1>3, <2>2, <3>1, <3>2, <3>3 DEF StartsWell
  <2>5. {r \in Result : r = o.of /\ Fetching(o)} = {job.of}
    BY <2>2 DEF GoodJob, Fetching
  <2> QED BY <2>3, <2>4, <2>5, StartKeeps
<1>4. CASE ~(job.full /\ job.cursor)
  <2>1. PICK o : o = [job EXCEPT !.kind = "export-write", !.reply = "pending"]
    OBVIOUS
  <2>2. /\ o \in Operation /\ o.kind = "export-write" /\ o.tab = job.tab /\ o.of = job.of
        /\ o.full = job.full /\ o.rows = job.rows /\ o.cursor = job.cursor
        /\ o.reply = "pending" /\ o.news = job.news
    BY <2>1 DEF GoodJob, Operation, Kinds
  <2>3. h = StartOn(s, o)
    BY <1>1, <1>4, <2>1 DEF FetchNextPage, StartWriter
  <2>4. StartsWell(s, o)
    <3>1. o.of # None /\ o.tab \in Tab /\ o.news = <<>> /\ s.tabs[o.tab].last = o.of
      BY <2>2, Values DEF GoodJob
    <3>2. o.rows = [i \in 1..Len(o.rows) |-> i] /\ Len(o.rows) <= MaxRows
      <4>1. job.rows = [i \in 1..Len(job.rows) |-> i]
        BY DEF GoodJob
      <4> QED BY <1>2, <2>2, <4>1
    <3>3. o.full => Len(o.rows) = s.res[o.of].size
      BY <1>4, <2>2 DEF GoodJob
    <3> QED BY <2>2, <3>1, <3>2, <3>3 DEF StartsWell, Fetching
  <2>5. {r \in Result : r = o.of /\ Fetching(o)} = {}
    BY <2>2 DEF Fetching
  <2>6. Good(s, {}, {}, FALSE)
    BY <1>4
  <2> QED BY <2>3, <2>4, <2>5, <2>6, StartKeeps
<1> QED BY <1>3, <1>4

\* An export is started on what a tab shows.
LEMMA ExportStart ==
  ASSUME IInv, NEW t \in Tab, NEW full \in BOOLEAN, Export(t, full)
  PROVE  IInv'
<1>1. PICK s : s = Ui
  OBVIOUS
<1>2. PICK r : r = tabs[t].active
  OBVIOUS
<1>3. PICK j : j = [Start("export-write", t, r) EXCEPT
                      !.full = full, !.rows = res[r].rows, !.cursor = res[r].cursor]
  OBVIOUS
<1>4. /\ Exportable(t, full) /\ UNCHANGED <<open, conn, worker>>
      /\ Becomes(IF full THEN FetchNextPage(s, j) ELSE StartWriter(s, j))
  BY <1>1, <1>2, <1>3 DEF Export, sessionVars
<1>5. ~Busy /\ r # None /\ (full => (res[r].more => res[r].cursor))
  BY <1>2, <1>4 DEF Exportable
<1>6. Session /\ s \in UiRecord /\ s.op.kind = "none" /\ Good(s, {}, {}, FALSE)
  BY <1>1, <1>5, IdleUi
<1>7. s.tabs[t].active = r /\ r \in Result /\ s.tabs[t].last = r /\ r \in InTabs(s.tabs)
      /\ s.res = res
  <2>1. s.tabs[t].active = r /\ s.res = res
    BY <1>1, <1>2, UiIs
  <2>2. s.tabs \in [Tab -> Shown]
    BY <1>6, UiFields
  <2>3. s.tabs[t].active \in {None, s.tabs[t].last}
    BY <1>6 DEF Good, Settled, TabsApart
  <2> QED BY <1>5, <2>1, <2>2, <2>3, InTabsFacts
<1>8. PICK a : a = s.res[r]
  OBVIOUS
<1>9. a \in Read
  BY <1>6, <1>7, <1>8, UiFields
<1>10. PICK o : o = Start("export-write", t, r)
  OBVIOUS
<1>11. o \in Operation /\ o.kind = "export-write" /\ o.tab = t /\ o.of = r /\ o.news = <<>>
  BY <1>7, <1>10, StartFields DEF Kinds
<1>12. j = [o EXCEPT !.full = full, !.rows = a.rows, !.cursor = a.cursor]
  BY <1>3, <1>7, <1>8, <1>10
<1>13. /\ j \in Operation /\ j.kind = "export-write" /\ j.tab = t /\ j.of = r /\ j.news = <<>>
       /\ j.rows = a.rows /\ j.cursor = a.cursor /\ j.full = full
  BY <1>9, <1>11, <1>12 DEF Operation, Read
<1>14. /\ a.rows = [i \in 1..Len(a.rows) |-> i] /\ Len(a.rows) <= a.size
       /\ ~a.more => Len(a.rows) = a.size
  BY <1>6, <1>7, <1>8 DEF Good, Settled, RowsKnown
<1>15. conn = "open" /\ a.cursor /\ r \in DOMAIN open => open[r].at = Len(a.rows)
  BY <1>6, <1>7, <1>8 DEF Good, InStep
<1>16. full /\ ~a.cursor => Len(a.rows) = a.size
  BY <1>5, <1>7, <1>8, <1>14
<1>17. GoodJob(s, j)
  BY <1>7, <1>8, <1>13, <1>14, <1>15, <1>16 DEF GoodJob
<1>18. Good(s, {}, {j.of}, FALSE)
  BY <1>6 DEF Good, InStep
<1>19. PICK h : h = (IF full THEN FetchNextPage(s, j) ELSE StartWriter(s, j)) /\ Becomes(h)
  BY <1>4
<1>20. h \in UiRecord /\ UiInvariant(h)
  <2>1. h = IF j.full THEN FetchNextPage(s, j) ELSE StartWriter(s, j)
    BY <1>13, <1>19
  <2> QED BY <1>6, <1>17, <1>18, <2>1, JobGoesOn
<1> QED BY <1>4, <1>6, <1>19, <1>20, UiStepKeeps

\* Whatever the user starts keeps the invariant.
LEMMA UserStepKeeps ==
  ASSUME IInv, NEW t \in Tab, UserSteps(t)
  PROVE  IInv'
BY PlainStart, MoreStart, ReconnectKeeps, HelpKeeps, CloseTabKeeps, ExportStart DEF UserSteps

-----------------------------------------------------------------------------
(* The UI is told that its operation is over.                              *)

\* What the handler of an answer finds.
LEMMA ToldIs ==
  ASSUME IInv, Done(op), ~(op.kind = "rollback" /\ op.reply = "ok"), NEW s, s = Told
  PROVE  /\ Session /\ s \in UiRecord /\ s.op = Idle /\ s.op.kind = "none" /\ s.tabs = tabs
         /\ s.queue = queue /\ s.ui = op.up /\ op \in Operation
         /\ Good(s, Spent(Ui), Ahead(Ui), TRUE)
         /\ \A r \in Result : /\ SameRows(s.res[r], res[r])
                              /\ s.res[r].cursor => res[r].cursor
                              /\ s.res[r].edit => res[r].edit
         /\ WasLost \/ Interrupted => \A r \in InTabs(s.tabs) : ~s.res[r].cursor
         /\ ~(WasLost \/ Interrupted) =>
              s.res = res /\ (op.news = <<>> => NoneLeaks(s))
         /\ WasLost => conn # "open"
<1>1. PICK u : u = Ui
  OBVIOUS
<1>2. /\ Session /\ u \in UiRecord /\ UiInvariant(u) /\ u.tabs = tabs /\ u.res = res
      /\ u.queue = queue /\ u.op = op
  BY <1>1, UiIs DEF IInv
<1>3. op \in Operation /\ op.up \in BOOLEAN
  <2>1. op \in Operation
    BY <1>2, UiFields
  <2> QED BY <2>1 DEF Operation
<1>4. PICK g : g = [u EXCEPT !.ui = op.up, !.op = Idle]
  OBVIOUS
<1>5. /\ g \in UiRecord /\ g.tabs = tabs /\ g.res = res /\ g.queue = queue /\ g.op = Idle
      /\ g.ui = op.up
  BY <1>2, <1>3, <1>4, Values DEF UiRecord
<1>6. PICK X, Y : X = Spent(u) /\ Y = Ahead(u)
  OBVIOUS
<1>7. Good(g, X, Y, TRUE)
  <2>1. /\ Idle.kind = "none" /\ Idle.of = None /\ Idle.reply = "pending" /\ Idle.news = <<>>
        /\ Range(Idle.news) = {} /\ Idle.rows = <<>>
    <3>1. \A z : z = <<>> => Range(z) = {}
      BY DEF Range
    <3> QED BY <3>1, Values
  <2>2. \A i \in 1..Len(queue) : queue[i].kind # "task"
    BY <1>2 DEF UiInvariant, QueueInOrder, Done
  <2>3. TabsApart(g) /\ RowsKnown(g) /\ TaskKnown(g)
    BY <1>2, <1>5, <2>1 DEF UiInvariant, TabsApart, RowsKnown, TaskKnown, Done
  <2>4. QueueInOrder(g)
    BY <1>2, <1>5, <2>2 DEF UiInvariant, QueueInOrder
  <2>5. ClosingLetGo(g)
    BY <1>2, <1>5, <2>1 DEF UiInvariant, ClosingLetGo, Queued
  <2>6. NoSession(g) /\ Fresh(g)
    BY <1>2, <1>5, <2>1 DEF UiInvariant, NoSession, Fresh
  <2>7. OpenKnown(g)
    BY <1>2, <1>5, <2>1, CursorsAssumption DEF UiInvariant, OpenKnown, Session
  <2>8. NewsKnown(g)
    <3>1. \A z : z = <<>> => IsInjective(z) /\ Len(z) = 0
      BY DEF IsInjective
    <3> QED BY <1>5, <2>1, <3>1 DEF NewsKnown
  <2>9. SourceKnown(g) /\ PageKnown(g)
    BY <1>5, <2>1 DEF SourceKnown, PageKnown, Fetching
  <2>10. ExportKnown(g)
    <3>1. \A z : z = <<>> => Len(z) = 0 /\ z = [i \in 1..Len(z) |-> i]
      OBVIOUS
    <3> QED BY <1>5, <2>1, <3>1, CursorsAssumption DEF ExportKnown
  <2>11. Honoured(g, X) /\ InStep(g, Y)
    BY <1>2, <1>5, <1>6, <2>1 DEF UiInvariant, Honoured, InStep
  <2> QED BY <2>3, <2>4, <2>5, <2>6, <2>7, <2>8, <2>9, <2>10, <2>11 DEF Good, Settled
<1>8. op.news = <<>> => NoneLeaks(g)
  <2>1. op.news = <<>> => Range(op.news) = {}
    <3>1. \A z : z = <<>> => Range(z) = {}
      BY DEF Range
    <3> QED BY <3>1
  <2> QED BY <1>2, <1>5, <2>1 DEF UiInvariant, NoneLeaks, Queued
<1>9. WasLost => conn # "open"
  BY <1>2 DEF UiInvariant, TaskKnown, WasLost
<1>10. CASE WasLost \/ Interrupted
  <2>1. s = Detach(g)
    BY <1>1, <1>4, <1>10 DEF Told
  <2>2. /\ s \in UiRecord /\ Good(s, X, Y, TRUE) /\ Fewer(s, g)
        /\ s.queue = g.queue /\ s.ui = g.ui
        /\ \A r \in InTabs(s.tabs) : ~s.res[r].cursor
    BY <1>2, <1>5, <1>7, <2>1, DetachKeeps
  <2> QED BY <1>1, <1>2, <1>3, <1>5, <1>6, <1>9, <1>10, <2>2, Values DEF Fewer
<1>11. CASE ~(WasLost \/ Interrupted)
  <2>1. s = g
    BY <1>1, <1>4, <1>11 DEF Told
  <2>2. \A r \in Result : SameRows(res[r], res[r])
    BY DEF SameRows
  <2> QED BY <1>1, <1>2, <1>3, <1>5, <1>6, <1>7, <1>8, <1>9, <1>11, <2>1, <2>2, Values
<1> QED BY <1>10, <1>11

\* What a handler makes of it, followed by what poll does after the handler.
LEMMA HandledKeeps ==
  ASSUME Session, NEW s \in UiRecord, NEW X, NEW Y, Good(s, X, Y, TRUE), s.op.kind = "none",
         WasLost => conn # "open",
         ~(WasLost \/ Interrupted) => UiInvariant(s), NEW h, h = Handled(s)
  PROVE  h \in UiRecord /\ UiInvariant(h)
<1>1. PICK d : d = Detach(s)
  OBVIOUS
<1>2. /\ d \in UiRecord /\ Good(d, X, Y, TRUE) /\ d.op = s.op
      /\ \A r \in InTabs(d.tabs) : ~d.res[r].cursor
  BY <1>1, DetachKeeps DEF Fewer
<1>3. CASE WasLost
  <2>1. h = d
    BY <1>1, <1>3 DEF Handled
  <2>2. NoneLeaks(d) /\ Honoured(d, Spent(d)) /\ InStep(d, Ahead(d)) /\ SourceHeld(d)
    BY <1>2, <1>3 DEF NoneLeaks, Honoured, InStep, SourceHeld, Fetching
  <2> QED BY <1>2, <2>1, <2>2 DEF Good, Settled, UiInvariant
<1>4. CASE ~WasLost /\ Interrupted
  <2>1. h = SubmitBackground(d, Command("closeAll", None))
    BY <1>1, <1>4 DEF Handled
  <2>2. CASE worker = "serving"
    <3>1. h = [d EXCEPT !.queue = Append(@, Command("closeAll", None))]
      BY <2>1, <2>2 DEF SubmitBackground
    <3> QED BY <1>2, <2>2, <3>1, CloseAllKeeps
  <2>3. CASE worker # "serving"
    <3>1. PICK g : g = [d EXCEPT !.ui = FALSE]
      OBVIOUS
    <3>2. h = Detach(g)
      BY <2>1, <2>3, <3>1 DEF SubmitBackground
    <3>3. /\ g \in UiRecord /\ g.tabs = d.tabs /\ g.res = d.res /\ g.queue = d.queue
          /\ g.op = d.op
      BY <1>2, <3>1 DEF UiRecord
    <3>4. Fewer(g, d)
      <4>1. \A r \in Result : SameRows(d.res[r], d.res[r])
        BY DEF SameRows
      <4> QED BY <3>3, <4>1 DEF Fewer
    <3>5. QueueInOrder(g) /\ ClosingLetGo(g)
      BY <1>2, <3>3 DEF Good, Settled, QueueInOrder, ClosingLetGo, Queued
    <3>6. /\ TabsApart(g) /\ NoSession(g) /\ Fresh(g) /\ OpenKnown(g) /\ RowsKnown(g)
          /\ NewsKnown(g) /\ SourceKnown(g) /\ ExportKnown(g) /\ PageKnown(g) /\ TaskKnown(g)
          /\ Honoured(g, X) /\ InStep(g, Y)
      BY <1>2, <3>4, FewerKeeps
    <3>7. Good(g, X, Y, TRUE)
      BY <3>5, <3>6 DEF Good, Settled
    <3> QED BY <1>2, <2>3, <3>2, <3>3, <3>7, NotStarted
  <2> QED BY <2>2, <2>3
<1>5. CASE ~(WasLost \/ Interrupted)
  BY <1>5 DEF Handled
<1> QED BY <1>3, <1>4, <1>5

\* A completion keeps the invariant, if its handler does when nothing was lost
\* and leaves a record in order when something was.
LEMMA CompletionKeeps ==
  ASSUME IInv, NEW s \in UiRecord, NEW X, NEW Y, Good(s, X, Y, TRUE), s.op.kind = "none",
         WasLost => conn # "open", ~(WasLost \/ Interrupted) => UiInvariant(s),
         Becomes(Handled(s)), UNCHANGED <<open, conn, worker>>
  PROVE  IInv'
<1>1. PICK h : h = Handled(s)
  OBVIOUS
<1>2. Session
  BY DEF IInv
<1>3. h \in UiRecord /\ UiInvariant(h)
  BY <1>1, <1>2, HandledKeeps
<1>4. Becomes(h)
  BY <1>1
<1> QED BY <1>2, <1>3, <1>4, UiStepKeeps

\* An operation that brings no result: the table stays, or goes for a text.
LEMMA TextCompletion ==
  ASSUME IInv, Done(op), ~(op.kind = "rollback" /\ op.reply = "ok"), op.news = <<>>,
         ~Fetching(op), NEW told, told = Told, NEW s,
         s = told \/ s = ClearTable(told, op.tab),
         Becomes(Handled(s)), UNCHANGED <<open, conn, worker>>
  PROVE  IInv'
<1>1. Spent(Ui) = {} /\ Ahead(Ui) = {}
  BY UiIs DEF Spent, Ahead
<1>2. PICK X : X = {}
  OBVIOUS
<1>3. /\ Session /\ told \in UiRecord /\ told.op.kind = "none"
      /\ Good(told, Spent(Ui), Ahead(Ui), TRUE)
      /\ ~(WasLost \/ Interrupted) => NoneLeaks(told)
      /\ WasLost => conn # "open"
  BY ToldIs
<1>4. Good(told, X, X, TRUE)
  BY <1>1, <1>2, <1>3
<1>5. op.tab \in Tab
  BY UiIs DEF IInv, UiInvariant, SourceKnown, Done
<1>6. s \in UiRecord /\ s.op.kind = "none" /\ Good(s, X, X, TRUE)
      /\ (~(WasLost \/ Interrupted) => Good(s, X, X, FALSE))
  <2>1. CASE s = told
    BY <1>3, <1>4, <2>1 DEF Good
  <2>2. CASE s = ClearTable(told, op.tab)
    <3>1. s \in UiRecord /\ Good(s, X, X, TRUE) /\ s.op = told.op
      <4>1. PICK yes \in BOOLEAN : yes = TRUE
        OBVIOUS
      <4>2. Good(told, X, X, yes)
        BY <1>4, <4>1
      <4>3. s \in UiRecord /\ Good(s, X, X, yes) /\ s.op = told.op
        BY <1>3, <1>5, <2>2, <4>2, ClearKeeps
      <4> QED BY <4>1, <4>3
    <3>2. ASSUME ~(WasLost \/ Interrupted) PROVE Good(s, X, X, FALSE)
      <4>1. PICK no \in BOOLEAN : no = FALSE
        OBVIOUS
      <4>2. Good(told, X, X, no)
        BY <1>3, <1>4, <3>2 DEF Good
      <4>3. Good(s, X, X, no)
        BY <1>3, <1>5, <2>2, <4>2, ClearKeeps
      <4> QED BY <4>1, <4>3
    <3> QED BY <1>3, <3>1, <3>2
  <2> QED BY <2>1, <2>2
<1>7. ~(WasLost \/ Interrupted) => UiInvariant(s)
  BY <1>2, <1>6, IdleInvariant
<1> QED BY <1>3, <1>6, <1>7, CompletionKeeps

\* The end of a file writer keeps the invariant.
LEMMA WriteCompletionKeeps ==
  ASSUME IInv, WriteCompletes
  PROVE  IInv'
<1>1. PICK told : told = Told
  OBVIOUS
<1>2. op.kind = "export-write" /\ op.reply # "pending" /\ Becomes(Handled(told))
      /\ UNCHANGED <<open, conn, worker>>
  BY <1>1 DEF WriteCompletes, Completes, sessionVars
<1>3. op.news = <<>>
  BY <1>2, UiIs DEF IInv, UiInvariant, NewsKnown
<1> QED BY <1>1, <1>2, <1>3, TextCompletion DEF Done, Fetching

\* The end of a connect, commit or other plain task keeps it.
LEMMA OtherCompletionKeeps ==
  ASSUME IInv, OtherCompletes
  PROVE  IInv'
<1>1. PICK told : told = Told
  OBVIOUS
<1>2. PICK keep \in BOOLEAN : Completes({"connect", "other"}, IF Succeeded THEN told
                                                              ELSE ErrorShown(told, keep))
  BY <1>1 DEF OtherCompletes
<1>3. PICK s : s = IF Succeeded THEN told ELSE ErrorShown(told, keep)
  OBVIOUS
<1>4. op.kind \in {"connect", "other"} /\ op.reply # "pending" /\ Becomes(Handled(s))
      /\ UNCHANGED <<open, conn, worker>>
  BY <1>2, <1>3 DEF Completes, sessionVars
<1>5. op.news = <<>>
  BY <1>4, UiIs DEF IInv, UiInvariant, NewsKnown
<1>6. s = told \/ s = ClearTable(told, op.tab)
  BY <1>3 DEF ErrorShown
<1> QED BY <1>1, <1>4, <1>5, <1>6, TextCompletion DEF Done, Fetching

\* The end of an explain keeps it, with a plan or an error in the place of the table.
LEMMA ExplainCompletionKeeps ==
  ASSUME IInv, ExplainCompletes
  PROVE  IInv'
<1>1. PICK told : told = Told
  OBVIOUS
<1>2. PICK s : s = IF Succeeded THEN ClearTable(told, op.tab) ELSE ErrorOfStatement(told)
  OBVIOUS
<1>3. op.kind = "explain" /\ op.reply # "pending" /\ Becomes(Handled(s))
      /\ UNCHANGED <<open, conn, worker>>
  BY <1>1, <1>2 DEF ExplainCompletes, Completes, sessionVars
<1>4. op.news = <<>>
  BY <1>3, UiIs DEF IInv, UiInvariant, NewsKnown
<1>5. s = told \/ s = ClearTable(told, op.tab)
  BY <1>2 DEF ErrorOfStatement
<1> QED BY <1>1, <1>3, <1>4, <1>5, TextCompletion DEF Done, Fetching

\* A rollback succeeded: no tab shows anything, and nothing is open.
LEMMA RolledBack ==
  ASSUME IInv, op.kind = "rollback", op.reply = "ok",
         Becomes(Handled(Invalidate(Told))), UNCHANGED <<open, conn, worker>>
  PROVE  IInv'
<1>1. PICK u : u = Ui
  OBVIOUS
<1>2. /\ Session /\ u \in UiRecord /\ UiInvariant(u) /\ u.tabs = tabs /\ u.res = res
      /\ u.queue = queue /\ u.op = op
  BY <1>1, UiIs DEF IInv
<1>3. op.up \in BOOLEAN /\ op.news = <<>> /\ DOMAIN open = {}
  <2>1. op \in Operation
    BY <1>2, UiFields
  <2>2. op.news = <<>> /\ open = << >>
    BY <1>2 DEF UiInvariant, NewsKnown, TaskKnown
  <2> QED BY <2>1, <2>2 DEF Operation
<1>4. PICK g : g = [u EXCEPT !.ui = op.up, !.op = Idle]
  OBVIOUS
<1>5. /\ g \in UiRecord /\ g.tabs = tabs /\ g.res = res /\ g.queue = queue /\ g.op = Idle
  BY <1>2, <1>3, <1>4, Values DEF UiRecord
<1>6. PICK s : s = Told
  OBVIOUS
<1>7. /\ s \in UiRecord /\ s.tabs = tabs /\ s.queue = queue /\ s.op = Idle
      /\ \A r \in Result : SameRows(s.res[r], res[r])
  <2>1. CASE WasLost \/ Interrupted
    <3>1. s = Detach(g)
      BY <1>1, <1>4, <1>6, <2>1 DEF Told
    <3> QED BY <1>5, <3>1, DetachFields
  <2>2. CASE ~(WasLost \/ Interrupted)
    <3>1. s = g
      BY <1>1, <1>4, <1>6, <2>2 DEF Told
    <3>2. \A r \in Result : SameRows(res[r], res[r])
      BY DEF SameRows
    <3> QED BY <1>5, <3>1, <3>2
  <2> QED BY <2>1, <2>2
<1>8. PICK rs : rs = InTabs(s.tabs)
  OBVIOUS
<1>9. PICK k \in BOOLEAN : k
  OBVIOUS
<1>10. PICK e : e = Stripped(s, rs, k)
  OBVIOUS
<1>11. /\ e \in UiRecord /\ e.tabs = s.tabs /\ e.queue = s.queue /\ e.op = s.op
       /\ \A r \in Result : SameRows(e.res[r], s.res[r])
  BY <1>7, <1>10, StrippedFields
<1>12. PICK ts : ts = [t \in Tab |-> Blank]
  OBVIOUS
<1>13. /\ ts \in [Tab -> Shown] /\ InTabs(ts) = {}
       /\ \A t \in Tab : ts[t].active = None /\ ts[t].last = None
  BY <1>12, BlankTabs
<1>14. PICK h : h = [e EXCEPT !.tabs = ts]
  OBVIOUS
<1>15. h = Invalidate(s)
  BY <1>8, <1>9, <1>10, <1>12, <1>14 DEF Invalidate
<1>16. /\ h \in UiRecord /\ h.tabs = ts /\ h.res = e.res /\ h.queue = queue /\ h.op = Idle
  BY <1>7, <1>11, <1>13, <1>14 DEF UiRecord
<1>17. \A r \in Result : SameRows(h.res[r], res[r])
  BY <1>7, <1>11, <1>16 DEF SameRows
<1>18. /\ Idle.kind = "none" /\ Idle.of = None /\ Idle.reply = "pending" /\ Idle.news = <<>>
       /\ Range(Idle.news) = {} /\ Idle.rows = <<>>
  <2>1. \A z : z = <<>> => Range(z) = {}
    BY DEF Range
  <2> QED BY <2>1, Values
<1>19. TabsApart(h) /\ Fresh(h) /\ OpenKnown(h) /\ NoneLeaks(h)
  BY <1>3, <1>13, <1>16, <1>18 DEF TabsApart, Fresh, OpenKnown, NoneLeaks
<1>20. RowsKnown(h)
  BY <1>2, <1>17 DEF UiInvariant, RowsKnown, SameRows
<1>21. QueueInOrder(h)
  <2>1. \A i \in 1..Len(queue) : queue[i].kind # "task"
    BY <1>2 DEF UiInvariant, QueueInOrder
  <2> QED BY <1>2, <1>16, <2>1 DEF UiInvariant, QueueInOrder
<1>22. ClosingLetGo(h) /\ NoSession(h)
  BY <1>2, <1>13, <1>16, <1>18 DEF UiInvariant, ClosingLetGo, NoSession
<1>23. NewsKnown(h)
  <2>1. \A z : z = <<>> => IsInjective(z) /\ Len(z) = 0
    BY DEF IsInjective
  <2> QED BY <1>13, <1>16, <1>18, <2>1 DEF NewsKnown
<1>24. SourceKnown(h) /\ SourceHeld(h) /\ PageKnown(h) /\ TaskKnown(h)
  BY <1>16, <1>18 DEF SourceKnown, SourceHeld, PageKnown, TaskKnown, Fetching, Done
<1>25. ExportKnown(h)
  <2>1. \A z : z = <<>> => Len(z) = 0 /\ z = [i \in 1..Len(z) |-> i]
    OBVIOUS
  <2> QED BY <1>16, <1>18, <2>1, CursorsAssumption DEF ExportKnown
<1>26. Honoured(h, Spent(h)) /\ InStep(h, Ahead(h))
  BY <1>13, <1>16, <1>18 DEF Honoured, InStep
<1>27. UiInvariant(h)
  BY <1>19, <1>20, <1>21, <1>22, <1>23, <1>24, <1>25, <1>26 DEF UiInvariant
<1>28. Good(h, Spent(h), Ahead(h), TRUE) /\ h.op.kind = "none"
  BY <1>16, <1>18, <1>27, UiInvariantIsGood DEF Good
<1>29. WasLost => conn # "open"
  BY <1>2 DEF UiInvariant, TaskKnown, WasLost, Done
<1>30. Becomes(Handled(h))
  BY <1>6, <1>15
<1>31. PICK X, Y : X = Spent(h) /\ Y = Ahead(h)
  OBVIOUS
<1> QED BY <1>16, <1>27, <1>28, <1>29, <1>30, <1>31, CompletionKeeps

\* The end of a rollback keeps it, successful or not.
LEMMA RollbackCompletionKeeps ==
  ASSUME IInv, RollbackCompletes
  PROVE  IInv'
<1>1. PICK told : told = Told
  OBVIOUS
<1>2. PICK keep \in BOOLEAN : Completes({"rollback"}, IF Succeeded THEN Invalidate(told)
                                                      ELSE ErrorShown(told, keep))
  BY <1>1 DEF RollbackCompletes
<1>3. PICK s : s = IF Succeeded THEN Invalidate(told) ELSE ErrorShown(told, keep)
  OBVIOUS
<1>4. op.kind = "rollback" /\ op.reply # "pending" /\ Becomes(Handled(s))
      /\ UNCHANGED <<open, conn, worker>>
  BY <1>2, <1>3 DEF Completes, sessionVars
<1>5. op.news = <<>>
  BY <1>4, UiIs DEF IInv, UiInvariant, NewsKnown
<1>6. CASE op.reply = "ok"
  <2>1. s = Invalidate(Told)
    BY <1>1, <1>3, <1>6 DEF Succeeded
  <2> QED BY <1>4, <1>6, <2>1, RolledBack
<1>7. CASE op.reply # "ok"
  <2>1. s = told \/ s = ClearTable(told, op.tab)
    BY <1>3, <1>7 DEF ErrorShown, Succeeded
  <2> QED BY <1>1, <1>4, <1>5, <1>7, <2>1, TextCompletion DEF Done, Fetching
<1> QED BY <1>6, <1>7

\* What holds of a page that has come back.
LEMMA PageFacts ==
  ASSUME IInv, Fetching(op), op.reply # "pending", NEW told, told = Told
  PROVE  /\ op \in Operation /\ op.tab \in Tab /\ op.of \in Result /\ op.news = <<>>
         /\ tabs[op.tab].last = op.of /\ tabs[op.tab].active \in {None, op.of}
         /\ told.res[op.of].rows = res[op.of].rows /\ told.res[op.of].size = res[op.of].size
         /\ told.res[op.of].current = res[op.of].current
         /\ op.of \in InTabs(tabs) /\ told.tabs = tabs
         /\ res[op.of].cursor => tabs[op.tab].active = op.of
         /\ tabs[op.tab].active # op.of => ~told.res[op.of].cursor
         /\ Spent(Ui) \subseteq {op.of} /\ Ahead(Ui) = {op.of}
         /\ op.reply = "ok" /\ op.page.more => Spent(Ui) = {}
<1>1. PICK u : u = Ui
  OBVIOUS
<1>2. /\ Session /\ u \in UiRecord /\ UiInvariant(u) /\ u.tabs = tabs /\ u.res = res
      /\ u.op = op
  BY <1>1, UiIs DEF IInv
<1>3. op \in Operation /\ op.tab \in Tab /\ op.of \in Result /\ op.news = <<>>
      /\ tabs[op.tab].last = op.of
  <2>1. op \in Operation /\ op.of \in Result \cup {None}
    BY <1>2, UiFields
  <2> QED BY <1>2, <2>1 DEF UiInvariant, SourceKnown, NewsKnown, Fetching
<1>4. tabs[op.tab].active \in {None, op.of}
      /\ (res[op.of].cursor => tabs[op.tab].active = op.of)
  BY <1>2, <1>3, Values DEF UiInvariant, TabsApart
<1>5. op.of \in InTabs(tabs)
  BY <1>2, <1>3, UiFields, InTabsFacts
<1>6. /\ told.tabs = tabs /\ SameRows(told.res[op.of], res[op.of])
      /\ told.res[op.of].cursor => res[op.of].cursor
  BY <1>3, ToldIs DEF Done, Fetching
<1>7. /\ Spent(Ui) \subseteq {op.of} /\ Ahead(Ui) = {op.of}
      /\ op.reply = "ok" /\ op.page.more => Spent(Ui) = {}
  BY <1>3, UiIs DEF Spent, Ahead, Fetching
<1> QED BY <1>3, <1>4, <1>5, <1>6, <1>7 DEF SameRows

\* Once the result of the page holds no token there is nothing to make an exception of.
LEMMA NoExceptions ==
  ASSUME NEW s, NEW X, NEW Y, NEW r, Good(s, X, Y, TRUE), X \subseteq {r},
         Y \subseteq {r}, ~s.res[r].cursor
  PROVE  Good(s, {}, {}, TRUE) /\ (NoneLeaks(s) => Good(s, {}, {}, FALSE))
BY DEF Good, Honoured, InStep

\* A page that failed takes the token of what the tab shows.
LEMMA PageFailedKeeps ==
  ASSUME IInv, Fetching(op), op.reply \in Failures, ~(op.kind = "export-fetch" /\ op.cancel),
         NEW told, told = Told, NEW s, s = PageFailed(told, op.tab)
  PROVE  /\ s \in UiRecord /\ s.op.kind = "none" /\ Good(s, Spent(Ui), Ahead(Ui), TRUE)
         /\ ~(WasLost \/ Interrupted) => UiInvariant(s)
<1>1. op.reply # "pending" /\ op.reply # "ok"
  BY DEF Failures
<1>2. /\ Session /\ told \in UiRecord /\ told.op = Idle /\ told.op.kind = "none"
      /\ told.tabs = tabs /\ Good(told, Spent(Ui), Ahead(Ui), TRUE)
      /\ ~(WasLost \/ Interrupted) => NoneLeaks(told)
  BY <1>1, PageFacts, ToldIs DEF Done, Fetching
<1>3. /\ op.tab \in Tab /\ op.of \in Result /\ tabs[op.tab].active \in {None, op.of}
      /\ tabs[op.tab].active # op.of => ~told.res[op.of].cursor
      /\ Spent(Ui) \subseteq {op.of} /\ Ahead(Ui) = {op.of}
  BY <1>1, PageFacts
<1>4. conn = "open" => op.of \notin DOMAIN open
  BY UiIs DEF IInv, UiInvariant, PageKnown
<1>5. PICK X, Y : X = Spent(Ui) /\ Y = Ahead(Ui)
  OBVIOUS
<1>6. /\ s \in UiRecord /\ s.tabs = told.tabs /\ s.queue = told.queue /\ s.op = told.op
      /\ Fewer(s, told) /\ ~s.res[op.of].cursor
      /\ \A r \in Result : r # op.of => s.res[r] = told.res[r]
  <2>1. CASE tabs[op.tab].active = None
    <3>1. s = told
      BY <1>2, <2>1 DEF PageFailed
    <3>2. \A r \in Result : SameRows(told.res[r], told.res[r])
      BY DEF SameRows
    <3> QED BY <1>2, <1>3, <2>1, <3>1, <3>2, Values DEF Fewer
  <2>2. CASE tabs[op.tab].active = op.of
    <3>1. PICK r : r = op.of
      OBVIOUS
    <3>2. s = [told EXCEPT !.res[r].cursor = FALSE]
      BY <1>2, <1>3, <2>2, <3>1, Values DEF PageFailed
    <3>3. PICK a : a = told.res[r]
      OBVIOUS
    <3>4. PICK b : b = [a EXCEPT !.cursor = FALSE]
      OBVIOUS
    <3>5. a \in Read /\ told.res \in [Result -> Read] /\ r \in Result
      BY <1>2, <1>3, <3>1, <3>3, UiFields
    <3>6. b \in Read /\ SameRows(b, a) /\ b.edit = a.edit /\ ~b.cursor
      BY <3>4, <3>5 DEF Read, SameRows
    <3>7. PICK f : f = [told.res EXCEPT ![r] = b]
      OBVIOUS
    <3>8. f \in [Result -> Read] /\ f[r] = b /\ \A q \in Result : q # r => f[q] = told.res[q]
      BY <3>5, <3>6, <3>7
    <3>9. s = [told EXCEPT !.res = f]
      BY <3>2, <3>3, <3>4, <3>7
    <3>10. /\ s \in UiRecord /\ s.tabs = told.tabs /\ s.queue = told.queue /\ s.op = told.op
           /\ s.res = f
      BY <1>2, <3>8, <3>9 DEF UiRecord
    <3>11. \A q \in Result : /\ SameRows(f[q], told.res[q])
                             /\ f[q].cursor => told.res[q].cursor
                             /\ f[q].edit => told.res[q].edit
      <4>1. \A q \in Result : SameRows(told.res[q], told.res[q])
        BY DEF SameRows
      <4> QED BY <3>3, <3>6, <3>8, <4>1
    <3>12. Fewer(s, told)
      BY <3>10, <3>11 DEF Fewer
    <3> QED BY <3>1, <3>6, <3>8, <3>10, <3>12
  <2> QED BY <1>3, <2>1, <2>2
<1>7. Good(s, X, Y, TRUE)
  <2>1. InTabs(told.tabs) \subseteq Result
    BY <1>2, UiFields, InTabsFacts
  <2>2. QueueInOrder(s)
    BY <1>2, <1>6 DEF Good, Settled, QueueInOrder
  <2>3. ClosingLetGo(s)
    BY <1>2, <1>6, <2>1 DEF Good, Settled, ClosingLetGo, Queued
  <2>4. /\ TabsApart(s) /\ NoSession(s) /\ Fresh(s) /\ OpenKnown(s) /\ RowsKnown(s)
        /\ NewsKnown(s) /\ SourceKnown(s) /\ ExportKnown(s) /\ PageKnown(s) /\ TaskKnown(s)
        /\ Honoured(s, X) /\ InStep(s, Y)
    <3>1. Good(told, X, Y, TRUE)
      BY <1>2, <1>5
    <3> QED BY <1>2, <1>6, <3>1, FewerKeeps
  <2> QED BY <2>2, <2>3, <2>4 DEF Good, Settled
<1>8. ASSUME ~(WasLost \/ Interrupted) PROVE UiInvariant(s)
  <2>1. NoneLeaks(told)
    BY <1>2, <1>8
  <2>2. NoneLeaks(s)
    BY <1>2, <1>4, <1>6, <2>1 DEF NoneLeaks, Queued, Session
  <2>3. Good(s, {}, {}, FALSE)
    BY <1>3, <1>5, <1>6, <1>7, <2>2, NoExceptions
  <2> QED BY <1>2, <1>6, <2>3, IdleInvariant
<1> QED BY <1>2, <1>5, <1>6, <1>7, <1>8

\* One row more, and the rows are still the first of the query.
LEMMA RowAppended ==
  ASSUME NEW rows \in Rows, rows = [i \in 1..Len(rows) |-> i], NEW row,
         row = Len(rows) + 1, row <= MaxRows, NEW z, z = Append(rows, row)
  PROVE  /\ z \in Rows /\ Len(z) = row /\ row \in Nat /\ z = [i \in 1..Len(z) |-> i]
<1>1. PICK n : n = Len(rows)
  OBVIOUS
<1>2. n \in Nat /\ row = n + 1
  BY <1>1, RowsAreBounded
<1>3. rows \in Seq(Nat) /\ row \in Nat
  BY <1>1, <1>2
<1>4. /\ z \in Seq(Nat) /\ Len(z) = n + 1 /\ (\A i \in 1..n : z[i] = rows[i])
      /\ z[n + 1] = row
  BY <1>1, <1>3, AppendProperties
<1>5. z \in [1..n + 1 -> Nat]
  BY <1>4, LenProperties
<1>6. \A i \in 1..n + 1 : z[i] = i
  BY <1>1, <1>2, <1>4
<1>7. z = [i \in 1..n + 1 |-> i]
  BY <1>5, <1>6
<1>8. z \in [1..n + 1 -> 1..MaxRows] /\ n + 1 \in 0..MaxRows
  <2>1. n + 1 <= MaxRows /\ MaxRows \in Nat
    BY <1>2, CursorsAssumption
  <2>2. \A i \in 1..n + 1 : i \in 1..MaxRows
    BY <1>2, <2>1
  <2>3. \A i \in 1..n + 1 : z[i] \in 1..MaxRows
    BY <1>6, <2>2
  <2>4. n + 1 \in 0..MaxRows
    BY <1>2, <2>1
  <2>5. z \in [1..n + 1 -> 1..MaxRows]
    BY <1>5, <2>3
  <2> QED BY <2>4, <2>5
<1>9. z \in Rows
  BY <1>8 DEF Rows, BoundedSeq, SeqOf
<1> QED BY <1>2, <1>3, <1>4, <1>7, <1>9

\* The rows of a result are the first of the query, and all if there are no more.
InOrder(a) == /\ a.rows = [i \in 1..Len(a.rows) |-> i] /\ Len(a.rows) <= a.size
              /\ ~a.more => Len(a.rows) = a.size

\* A page came back for the result that is still shown: whatever rows the result
\* is given, it holds a token again if the cursor is open.
Attached(s, told) ==
  /\ s \in UiRecord /\ s.tabs = told.tabs /\ s.queue = told.queue /\ s.op = told.op
  /\ \A r \in Result : r # op.of => s.res[r] = told.res[r]
  /\ s.res[op.of].cursor = op.page.more /\ s.res[op.of].size = res[op.of].size
  /\ s.res[op.of].current = res[op.of].current /\ InOrder(s.res[op.of])

\* A page put to the result it was fetched for is in order there: its token and rows
\* agree with the session again.
LEMMA PageAttached ==
  ASSUME IInv, Fetching(op), op.reply = "ok", tabs[op.tab].active = op.of,
         NEW told, told = Told, NEW s, Attached(s, told)
  PROVE  /\ Good(s, Result, Result, TRUE)
         /\ ~(WasLost \/ Interrupted) => Good(s, {}, {op.of}, FALSE)
<1>1. PICK u : u = Ui
  OBVIOUS
<1>2. PICK a : a = s.res[op.of]
  OBVIOUS
<1>3. /\ s \in UiRecord /\ s.tabs = told.tabs /\ s.queue = told.queue /\ s.op = told.op
      /\ \A r \in Result : r # op.of => s.res[r] = told.res[r]
      /\ a.cursor = op.page.more /\ a.size = res[op.of].size
      /\ a.current = res[op.of].current /\ InOrder(a)
  BY <1>2 DEF Attached
<1>4. /\ Session /\ u \in UiRecord /\ UiInvariant(u) /\ u.tabs = tabs /\ u.res = res
      /\ u.queue = queue /\ u.op = op
  BY <1>1, UiIs DEF IInv
<1>5. /\ told \in UiRecord /\ told.op = Idle /\ told.tabs = tabs /\ told.queue = queue
      /\ Good(told, Spent(Ui), Ahead(Ui), TRUE)
      /\ ~(WasLost \/ Interrupted) => told.res = res /\ NoneLeaks(told)
  BY PageFacts, ToldIs DEF Done, Fetching
<1>6. /\ op \in Operation /\ op.tab \in Tab /\ op.of \in Result /\ tabs[op.tab].last = op.of
      /\ op.of \in InTabs(tabs) /\ Spent(Ui) \subseteq {op.of} /\ Ahead(Ui) = {op.of}
      /\ op.page.more => Spent(Ui) = {}
  BY PageFacts
<1>7. /\ op.page.more = (op.page.row < res[op.of].size)
      /\ conn = "open" => res[op.of].current
      /\ op.of \in DOMAIN open => op.page.more /\ open[op.of].at = op.page.row
  BY <1>4 DEF UiInvariant, PageKnown
<1>8. worker = "serving" => res[op.of].cursor
  BY <1>4 DEF UiInvariant, SourceHeld
<1>9. /\ ~Queued(u, Command("close", op.of)) /\ ~Queued(u, Command("closeAll", None))
  <2>1. CASE worker = "serving"
    BY <1>4, <1>6, <1>8, <2>1 DEF UiInvariant, ClosingLetGo
  <2>2. CASE worker = "gone"
    <3>1. Len(u.queue) = 0
      BY <1>4, <2>2 DEF UiInvariant, QueueInOrder
    <3> QED BY <3>1 DEF Queued
  <2> QED BY <1>4, <2>1, <2>2 DEF Session
<1>10. /\ Idle.kind = "none" /\ Idle.of = None /\ Idle.reply = "pending" /\ Idle.news = <<>>
       /\ Range(Idle.news) = {}
  <2>1. \A z : z = <<>> => Range(z) = {}
    BY DEF Range
  <2> QED BY <2>1, Values
<1>11. InTabs(tabs) \subseteq Result
  BY <1>2, <1>3, <1>4, UiFields, InTabsFacts
<1>12. QueueInOrder(s) /\ NoSession(s) /\ SourceKnown(s) /\ TaskKnown(s)
  BY <1>2, <1>3, <1>5, <1>10
     DEF Good, Settled, QueueInOrder, NoSession, SourceKnown, TaskKnown, Done
<1>13. TabsApart(s)
  <2>1. \A t \in Tab : tabs[t].last = op.of => t = op.tab
    BY <1>2, <1>3, <1>4, <1>6, Values DEF UiInvariant, TabsApart
  <2>2. \A t \in Tab : tabs[t].last # None => tabs[t].last \in Result
    BY <1>2, <1>3, <1>4, UiFields, InTabsFacts
  <2> QED BY <1>2, <1>3, <1>5, <1>6, <2>1, <2>2 DEF Good, Settled, TabsApart
<1>14. ClosingLetGo(s)
  BY <1>2, <1>3, <1>4, <1>5, <1>9, <1>10, <1>11 DEF Good, Settled, ClosingLetGo, Queued
<1>15. Fresh(s)
  BY <1>2, <1>3, <1>5, <1>7, <1>10, <1>11 DEF Good, Settled, Fresh
<1>16. OpenKnown(s)
  <2>1. \A r \in DOMAIN open : open[r].at < open[r].size
    BY <1>2, <1>3, <1>5 DEF Good, Settled, OpenKnown
  <2>2. op.of \in DOMAIN open => open[op.of].size = a.size
    BY <1>2, <1>3, <1>4 DEF UiInvariant, OpenKnown
  <2>3. \A r \in DOMAIN open \cap InTabs(tabs) :
          r # op.of => open[r].size = s.res[r].size /\ (conn = "open" => s.res[r].current)
    BY <1>2, <1>3, <1>5, <1>11 DEF Good, Settled, OpenKnown
  <2> QED BY <1>2, <1>3, <1>4, <1>5, <1>7, <1>10, <2>1, <2>2, <2>3, Values DEF OpenKnown, Session
<1>17. RowsKnown(s)
  BY <1>2, <1>3, <1>5 DEF Good, Settled, RowsKnown, InOrder
<1>18. NewsKnown(s) /\ ExportKnown(s) /\ PageKnown(s)
  <2>1. NewsKnown(told) /\ ExportKnown(told)
    BY <1>2, <1>3, <1>5 DEF Good, Settled
  <2>2. Len(Idle.news) = 0
    BY <1>2, <1>3, <1>10
  <2> QED BY <1>2, <1>3, <1>5, <1>10, <2>1, <2>2 DEF NewsKnown, ExportKnown, PageKnown, Fetching
<1>19. Settled(s)
  BY <1>2, <1>3, <1>12, <1>13, <1>14, <1>15, <1>16, <1>17, <1>18 DEF Settled
<1>20. Good(s, Result, Result, TRUE)
  BY <1>2, <1>3, <1>5, <1>10, <1>11, <1>19 DEF Good, Honoured, InStep
<1>21. ASSUME ~(WasLost \/ Interrupted) PROVE Good(s, {}, {op.of}, FALSE)
  <2>1. told.res = res /\ NoneLeaks(told)
    BY <1>2, <1>3, <1>5, <1>21
  <2>2. NoneLeaks(s)
    <3> SUFFICES ASSUME conn = "open", NEW r \in DOMAIN open
                 PROVE  \/ r \in InTabs(s.tabs) \cup Range(s.op.news) /\ s.res[r].cursor
                        \/ Queued(s, Command("close", r)) \/ Queued(s, Command("closeAll", None))
      BY <1>2, <1>3 DEF NoneLeaks
    <3>1. CASE r = op.of
      BY <1>2, <1>3, <1>5, <1>6, <1>7, <3>1
    <3>2. CASE r # op.of
      <4>1. s.res[r] = told.res[r]
        BY <1>2, <1>3, <1>4, <3>2 DEF Session
      <4>2. \A c : Queued(s, c) <=> Queued(told, c)
        BY <1>2, <1>3 DEF Queued
      <4> QED BY <1>2, <1>3, <2>1, <4>1, <4>2 DEF NoneLeaks
    <3> QED BY <1>2, <1>3, <3>1, <3>2
  <2>3. Honoured(s, {})
    <3> SUFFICES ASSUME conn = "open", NEW r \in InTabs(tabs), s.res[r].cursor
                 PROVE  r \in DOMAIN open
      BY <1>2, <1>3, <1>5, <1>10 DEF Honoured
    <3>1. worker = "serving"
      BY <1>2, <1>3, <1>4 DEF UiInvariant, NoSession, Session
    <3>2. CASE r = op.of
      BY <1>2, <1>3, <1>5, <1>6, <1>8, <2>1, <3>1, <3>2 DEF Good, Honoured
    <3>3. CASE r # op.of
      BY <1>2, <1>3, <1>5, <1>6, <1>11, <3>3 DEF Good, Honoured
    <3> QED BY <1>2, <1>3, <3>2, <3>3
  <2>4. InStep(s, {op.of})
    BY <1>2, <1>3, <1>5, <1>6, <1>10, <1>11 DEF Good, InStep
  <2> QED BY <1>2, <1>3, <1>19, <2>2, <2>3, <2>4 DEF Good
<1> QED BY <1>2, <1>3, <1>20, <1>21

\* The rows of a page go to the result that asked for it.
LEMMA PageTakenKeeps ==
  ASSUME IInv, op.kind = "more", op.reply = "ok", NEW told, told = Told,
         NEW s, s = PageTaken(told)
  PROVE  \E X, Y : /\ s \in UiRecord /\ s.op.kind = "none" /\ Good(s, X, Y, TRUE)
                   /\ ~(WasLost \/ Interrupted) => UiInvariant(s)
<1>1. Fetching(op) /\ Fetched(Ui) = res[op.of].rows
  BY UiIs DEF Fetching, Fetched
<1>2. /\ Session /\ told \in UiRecord /\ told.op = Idle /\ told.op.kind = "none"
      /\ told.tabs = tabs /\ Good(told, Spent(Ui), Ahead(Ui), TRUE)
      /\ ~(WasLost \/ Interrupted) => NoneLeaks(told)
  BY <1>1, PageFacts, ToldIs DEF Done, Fetching
<1>3. /\ op \in Operation /\ op.tab \in Tab /\ op.of \in Result
      /\ told.res[op.of].rows = res[op.of].rows /\ told.res[op.of].size = res[op.of].size
      /\ told.res[op.of].current = res[op.of].current
      /\ tabs[op.tab].active # op.of => ~told.res[op.of].cursor
      /\ Spent(Ui) \subseteq {op.of} /\ Ahead(Ui) = {op.of}
  BY <1>1, PageFacts
<1>4. CASE tabs[op.tab].active # op.of
  <2>1. s = told
    BY <1>2, <1>3, <1>4 DEF PageTaken, Release, ReleaseAll
  <2>2. ~(WasLost \/ Interrupted) => Good(told, {}, {}, FALSE)
    BY <1>2, <1>3, <1>4, NoExceptions
  <2> QED BY <1>2, <2>1, <2>2, IdleInvariant
<1>5. CASE tabs[op.tab].active = op.of
  <2>1. PICK r : r = op.of
    OBVIOUS
  <2>2. PICK more, row : more = op.page.more /\ row = op.page.row
    OBVIOUS
  <2>3. PICK b : b = told.res[r]
    OBVIOUS
  <2>4. PICK a : a = [b EXCEPT !.rows = Append(b.rows, row), !.cursor = more, !.more = more]
    OBVIOUS
  <2>5. s = [told EXCEPT !.res[r] = a]
    BY <1>2, <1>5, <2>1, <2>2, <2>3, <2>4 DEF PageTaken
  <2>6. PICK f : f = [told.res EXCEPT ![r] = a]
    OBVIOUS
  <2>7. s = [told EXCEPT !.res = f]
    BY <2>5, <2>6
  <2>8. b \in Read /\ told.res \in [Result -> Read] /\ r \in Result
    BY <1>2, <1>3, <2>1, <2>3, UiFields
  <2>9. /\ row = Len(b.rows) + 1 /\ row <= b.size /\ more = (row < b.size)
        /\ conn = "open" => b.current
        /\ r \in DOMAIN open => more /\ open[r].at = row
    BY <1>1, <1>3, <2>1, <2>2, <2>3, UiIs DEF IInv, UiInvariant, PageKnown
  <2>10. b.rows = [i \in 1..Len(b.rows) |-> i]
    BY <1>2, <1>3, <2>1, <2>3 DEF Good, Settled, RowsKnown
  <2>11. b.rows \in Rows /\ b.size \in 0..MaxRows
    BY <2>8 DEF Read
  <2>12. PICK m : m = b.size
    OBVIOUS
  <2>13. m \in Nat /\ m <= MaxRows /\ row <= m /\ (~more => ~(row < m))
    <3>1. m \in Nat /\ m <= MaxRows
      BY <2>11, <2>12, CursorsAssumption
    <3>2. row <= m /\ (~more => ~(row < m))
      BY <2>9, <2>12
    <3> QED BY <3>1, <3>2
  <2>14. PICK z : z = Append(b.rows, row)
    OBVIOUS
  <2>15. row <= MaxRows
    <3>1. row \in Nat
      BY <2>9, <2>11, RowsAreBounded
    <3> QED BY <2>13, <3>1, CursorsAssumption
  <2>16. z \in Rows /\ Len(z) = row /\ row \in Nat /\ z = [i \in 1..Len(z) |-> i]
    <3>1. row = Len(b.rows) + 1
      BY <2>9
    <3> QED BY <2>10, <2>11, <2>14, <2>15, <3>1, RowAppended
  <2>17. more \in BOOLEAN
    BY <2>9
  <2>18. /\ a \in Read /\ a.rows = z /\ a.cursor = more /\ a.more = more /\ a.size = b.size
         /\ a.current = b.current
    <3>1. a = [rows |-> z, more |-> more, cursor |-> more, edit |-> b.edit, size |-> b.size,
               current |-> b.current]
      BY <2>4, <2>8, <2>14 DEF Read
    <3> QED BY <2>8, <2>16, <2>17, <3>1 DEF Read
  <2>19. f \in [Result -> Read] /\ f[r] = a /\ \A q \in Result : q # r => f[q] = told.res[q]
    BY <2>6, <2>8, <2>18
  <2>20. /\ s \in UiRecord /\ s.tabs = told.tabs /\ s.queue = told.queue /\ s.op = told.op
         /\ s.res = f
    BY <1>2, <2>7, <2>19 DEF UiRecord
  <2>21. InOrder(a)
    <3>1. /\ a.rows = z /\ a.more = more /\ a.size = m
          /\ row <= m /\ (~more => row = m)
      BY <2>12, <2>13, <2>16, <2>18
    <3> QED BY <2>16, <3>1 DEF InOrder
  <2>22. /\ Good(s, Result, Result, TRUE)
         /\ ~(WasLost \/ Interrupted) => Good(s, {}, {op.of}, FALSE)
    <3>1. \A q \in Result : q # op.of => s.res[q] = told.res[q]
      BY <2>1, <2>19, <2>20
    <3>2. /\ a = s.res[op.of] /\ a.cursor = op.page.more
          /\ a.size = res[op.of].size /\ a.current = res[op.of].current
      BY <1>3, <2>1, <2>2, <2>3, <2>18, <2>19, <2>20
    <3>3. /\ s \in UiRecord /\ s.tabs = told.tabs /\ s.queue = told.queue /\ s.op = told.op
      BY <2>20
    <3>4. Attached(s, told)
      BY <2>21, <3>1, <3>2, <3>3 DEF Attached
    <3> QED BY <1>1, <1>5, <3>4, PageAttached
  <2>23. Good(s, {}, {op.of}, FALSE) => Good(s, {}, {}, FALSE)
    <3>1. r \in DOMAIN open => open[r].at = Len(a.rows)
      BY <2>9, <2>16, <2>18
    <3> QED BY <2>1, <2>19, <2>20, <3>1 DEF Good, InStep
  <2>24. s.op.kind = "none"
    BY <1>2, <2>20
  <2> QED BY <2>20, <2>22, <2>23, <2>24, IdleInvariant
<1> QED BY <1>4, <1>5

\* The token of the result that is shown follows the cursor, while an export
\* goes on with its own copy of the rows.
LEMMA PageLoadedKeeps ==
  ASSUME IInv, op.kind = "export-fetch", op.reply = "ok", NEW told, told = Told,
         NEW s, s = PageLoaded(told)
  PROVE  \/ \E X, Y : /\ s \in UiRecord /\ s.op.kind = "none" /\ Good(s, X, Y, TRUE)
                      /\ ~(WasLost \/ Interrupted) => UiInvariant(s)
         \/ ~(WasLost \/ Interrupted) /\ s \in UiRecord /\ UiInvariant(s)
<1>1. Fetching(op) /\ Fetched(Ui) = op.rows
  BY UiIs DEF Fetching, Fetched
<1>2. /\ Session /\ told \in UiRecord /\ told.op = Idle /\ told.op.kind = "none"
      /\ told.tabs = tabs /\ told.ui = op.up /\ Good(told, Spent(Ui), Ahead(Ui), TRUE)
      /\ ~(WasLost \/ Interrupted) => NoneLeaks(told)
  BY <1>1, PageFacts, ToldIs DEF Done, Fetching
<1>3. /\ op \in Operation /\ op.tab \in Tab /\ op.of \in Result /\ op.news = <<>>
      /\ op.of \in InTabs(tabs) /\ tabs[op.tab].last = op.of
      /\ told.res[op.of].rows = res[op.of].rows /\ told.res[op.of].size = res[op.of].size
      /\ told.res[op.of].current = res[op.of].current
      /\ tabs[op.tab].active # op.of => ~told.res[op.of].cursor
      /\ Spent(Ui) \subseteq {op.of} /\ Ahead(Ui) = {op.of}
  BY <1>1, PageFacts
<1>4. /\ op.full /\ op.cursor /\ op.rows = [i \in 1..Len(op.rows) |-> i]
  BY UiIs DEF IInv, UiInvariant, ExportKnown
<1>5. /\ op.page.row = Len(op.rows) + 1 /\ op.page.row <= res[op.of].size
      /\ op.page.more = (op.page.row < res[op.of].size)
      /\ op.of \in DOMAIN open => op.page.more /\ open[op.of].at = op.page.row
  BY <1>1, UiIs DEF IInv, UiInvariant, PageKnown
<1>6. PICK r, more, row : r = op.of /\ more = op.page.more /\ row = op.page.row
  OBVIOUS
<1>7. PICK b : b = told.res[r]
  OBVIOUS
<1>8. b \in Read /\ told.res \in [Result -> Read] /\ r \in Result
  BY <1>2, <1>3, <1>6, <1>7, UiFields
<1>9. CASE tabs[op.tab].active # op.of
  <2>1. PICK d : d = [told EXCEPT !.res[r].cursor = FALSE]
    OBVIOUS
  <2>2. d = told
    <3>1. PICK c : c = [b EXCEPT !.cursor = FALSE]
      OBVIOUS
    <3>2. c = b
      BY <1>3, <1>6, <1>7, <1>8, <1>9, <3>1 DEF Read
    <3>3. PICK f : f = [told.res EXCEPT ![r] = c]
      OBVIOUS
    <3>4. f = told.res
      BY <1>7, <1>8, <3>2, <3>3
    <3>5. d = [told EXCEPT !.res = f]
      BY <1>7, <2>1, <3>1, <3>3
    <3> QED BY <1>2, <3>4, <3>5 DEF UiRecord
  <2>3. s = SubmitBackground(told, Command("close", r))
    BY <1>2, <1>4, <1>6, <1>9, <2>1, <2>2 DEF PageLoaded, SourceIsCurrent, Abort
  <2>4. Good(told, {}, {}, TRUE)
    BY <1>2, <1>3, <1>9, NoExceptions
  <2>5. CASE worker = "serving"
    <3>1. s = [told EXCEPT !.queue = Append(@, Command("close", r))]
      BY <2>3, <2>5 DEF SubmitBackground
    <3>2. PICK Z : Z = {}
      OBVIOUS
    <3>3. /\ s \in UiRecord /\ Good(s, Z, Z, TRUE) /\ s.op = told.op
          /\ NoneLeaks(told) => NoneLeaks(s)
      <4>1. r \in InTabs(told.tabs) => ~told.res[r].cursor
        BY <1>3, <1>6, <1>9
      <4>2. Good(told, Z, Z, TRUE)
        BY <2>4, <3>2
      <4> QED BY <1>2, <1>8, <2>5, <3>1, <4>1, <4>2, CloseKeeps
    <3>4. ASSUME ~(WasLost \/ Interrupted) PROVE UiInvariant(s)
      <4>1. Good(s, {}, {}, FALSE)
        BY <1>2, <3>2, <3>3, <3>4 DEF Good
      <4> QED BY <1>2, <3>3, <4>1, IdleInvariant
    <3> QED BY <1>2, <3>3, <3>4
  <2>6. CASE worker # "serving"
    <3>1. PICK g : g = [told EXCEPT !.ui = FALSE]
      OBVIOUS
    <3>2. s = Detach(g)
      BY <2>3, <2>6, <3>1 DEF SubmitBackground
    <3>3. /\ g \in UiRecord /\ g.tabs = told.tabs /\ g.res = told.res
          /\ g.queue = told.queue /\ g.op = told.op
      BY <1>2, <3>1 DEF UiRecord
    <3>4. Good(g, {}, {}, TRUE)
      <4>1. \A q \in Result : SameRows(told.res[q], told.res[q])
        BY DEF SameRows
      <4>2. Fewer(g, told)
        BY <3>3, <4>1 DEF Fewer
      <4>3. QueueInOrder(g) /\ ClosingLetGo(g)
        BY <2>4, <3>3 DEF Good, Settled, QueueInOrder, ClosingLetGo, Queued
      <4>4. /\ TabsApart(g) /\ NoSession(g) /\ Fresh(g) /\ OpenKnown(g) /\ RowsKnown(g)
            /\ NewsKnown(g) /\ SourceKnown(g) /\ ExportKnown(g) /\ PageKnown(g) /\ TaskKnown(g)
            /\ Honoured(g, {}) /\ InStep(g, {})
        BY <1>2, <2>4, <4>2, FewerKeeps
      <4> QED BY <4>3, <4>4 DEF Good, Settled
    <3>5. s \in UiRecord /\ UiInvariant(s)
      BY <1>2, <2>6, <3>2, <3>3, <3>4, NotStarted
    <3>6. Fewer(s, g)
      BY <1>2, <3>2, <3>3, <3>4, DetachKeeps
    <3>7. s.op.kind = "none"
      BY <1>2, <3>3, <3>6 DEF Fewer
    <3>8. Good(s, Spent(s), Ahead(s), TRUE)
      BY <3>5, UiInvariantIsGood DEF Good
    <3> QED BY <3>5, <3>7, <3>8
  <2> QED BY <2>5, <2>6
<1>10. CASE tabs[op.tab].active = op.of
  <2>1. PICK a : a = [b EXCEPT !.cursor = more]
    OBVIOUS
  <2>2. more \in BOOLEAN
    BY <1>5, <1>6
  <2>3. /\ a \in Read /\ a.rows = b.rows /\ a.cursor = more /\ a.more = b.more /\ a.size = b.size
        /\ a.current = b.current
    BY <1>8, <2>1, <2>2 DEF Read
  <2>4. PICK f : f = [told.res EXCEPT ![r] = a]
    OBVIOUS
  <2>5. f \in [Result -> Read] /\ f[r] = a /\ \A q \in Result : q # r => f[q] = told.res[q]
    BY <1>8, <2>3, <2>4
  <2>6. PICK e : e = [told EXCEPT !.res[r].cursor = more]
    OBVIOUS
  <2>7. e = [told EXCEPT !.res = f]
    BY <1>7, <2>1, <2>4, <2>6
  <2>8. /\ e \in UiRecord /\ e.tabs = told.tabs /\ e.queue = told.queue /\ e.op = told.op
        /\ e.res = f
    BY <1>2, <2>5, <2>7 DEF UiRecord
  <2>9. Attached(e, told)
    <3>1. InOrder(a)
      BY <1>2, <1>7, <1>8, <2>3 DEF Good, Settled, RowsKnown, InOrder
    <3>2. e.res[op.of] = a /\ \A q \in Result : q # op.of => e.res[q] = told.res[q]
      BY <1>6, <2>5, <2>8
    <3>3. a.cursor = op.page.more /\ a.size = res[op.of].size /\ a.current = res[op.of].current
      BY <1>3, <1>6, <1>7, <2>3
    <3> QED BY <2>8, <3>1, <3>2, <3>3 DEF Attached
  <2>10. /\ Good(e, Result, Result, TRUE)
         /\ ~(WasLost \/ Interrupted) => Good(e, {}, {op.of}, FALSE)
    BY <1>1, <1>10, <2>9, PageAttached
  <2>11. e.op.kind = "none"
    BY <1>2, <2>8
  <2>12. CASE ~op.up \/ op.cancel
    <3>1. WasLost \/ Interrupted
      BY <2>12 DEF WasLost, Interrupted
    <3>2. s = e
      BY <1>2, <1>6, <1>10, <2>6, <2>12 DEF PageLoaded, SourceIsCurrent
    <3> QED BY <2>8, <2>10, <2>11, <3>1, <3>2
  <2>13. CASE op.up /\ ~op.cancel
    <3>1. ~(WasLost \/ Interrupted)
      BY <2>13 DEF WasLost, Interrupted
    <3>2. PICK z : z = Append(op.rows, row)
      OBVIOUS
    <3>3. PICK job : job = [op EXCEPT !.rows = z, !.cursor = more]
      OBVIOUS
    <3>4. s = FetchNextPage(e, job)
      BY <1>2, <1>6, <1>10, <2>6, <2>13, <3>2, <3>3 DEF PageLoaded, SourceIsCurrent
    <3>5. op.rows \in Rows
      BY <1>3 DEF Operation
    <3>6. PICK m : m = b.size
      OBVIOUS
    <3>7. m \in Nat /\ m <= MaxRows /\ row <= m /\ (~more => ~(row < m)) /\ row \in Nat
      <4>1. m \in Nat /\ m <= MaxRows
        BY <1>8, <3>6, CursorsAssumption DEF Read
      <4>2. row <= m /\ (~more => ~(row < m))
        BY <1>3, <1>5, <1>6, <1>7, <3>6
      <4>3. row \in Nat
        BY <1>5, <1>6, <3>5, RowsAreBounded
      <4> QED BY <4>1, <4>2, <4>3
    <3>8. z \in Rows /\ Len(z) = row /\ row \in Nat /\ z = [i \in 1..Len(z) |-> i]
      <4>1. row = Len(op.rows) + 1 /\ row <= MaxRows
        BY <1>5, <1>6, <3>7, CursorsAssumption
      <4> QED BY <1>4, <3>2, <3>5, <4>1, RowAppended
    <3>9. /\ job \in Operation /\ job.tab = op.tab /\ job.of = r /\ job.news = <<>> /\ job.full
          /\ job.rows = z /\ job.cursor = more
      BY <1>3, <1>4, <1>6, <2>2, <3>3, <3>8 DEF Operation
    <3>10. GoodJob(e, job)
      <4>1. e.res[r].size = m /\ e.res[r].cursor = more
        BY <2>3, <2>5, <2>8, <3>6
      <4>2. Len(z) <= m /\ (~more => Len(z) = m)
        BY <3>7, <3>8
      <4>3. r \in DOMAIN open => open[r].at = Len(z)
        BY <1>5, <1>6, <3>8
      <4>4. e.tabs[job.tab].active = r /\ e.tabs[job.tab].last = r /\ job.tab \in Tab
        BY <1>2, <1>3, <1>6, <1>10, <2>8, <3>9
      <4> QED BY <1>8, <3>8, <3>9, <4>1, <4>2, <4>3, <4>4 DEF GoodJob
    <3>11. Good(e, {}, {job.of}, FALSE)
      BY <1>6, <2>10, <3>1, <3>9
    <3>12. (job.full /\ job.cursor) \/ Good(e, {}, {}, FALSE)
      BY <2>3, <2>5, <2>8, <3>9, <3>11 DEF Good, InStep
    <3>13. s = IF job.full THEN FetchNextPage(e, job) ELSE StartWriter(e, job)
      BY <3>4, <3>9
    <3>14. s \in UiRecord /\ UiInvariant(s)
      BY <1>2, <2>8, <2>11, <3>10, <3>11, <3>12, <3>13, JobGoesOn
    <3> QED BY <3>1, <3>14
  <2>14. op.up \in BOOLEAN /\ op.cancel \in BOOLEAN
    BY <1>3 DEF Operation
  <2> QED BY <2>12, <2>13, <2>14
<1> QED BY <1>9, <1>10

\* The end of a page for the grid keeps the invariant.
LEMMA MoreCompletionKeeps ==
  ASSUME IInv, MoreCompletes
  PROVE  IInv'
<1>1. PICK told : told = Told
  OBVIOUS
<1>2. PICK s : s = IF Succeeded THEN PageTaken(told) ELSE PageFailed(told, op.tab)
  OBVIOUS
<1>3. op.kind = "more" /\ op.reply # "pending" /\ Becomes(Handled(s))
      /\ UNCHANGED <<open, conn, worker>>
  BY <1>1, <1>2 DEF MoreCompletes, Completes, sessionVars
<1>4. Fetching(op) /\ Done(op)
  BY <1>3 DEF Fetching, Done
<1>5. (WasLost => conn # "open") /\ op \in Operation
  BY <1>1, <1>3, <1>4, ToldIs
<1>6. \E X, Y : /\ s \in UiRecord /\ s.op.kind = "none" /\ Good(s, X, Y, TRUE)
                /\ ~(WasLost \/ Interrupted) => UiInvariant(s)
  <2>1. CASE op.reply = "ok"
    <3>1. s = PageTaken(told)
      BY <1>2, <2>1 DEF Succeeded
    <3> QED BY <1>1, <1>3, <2>1, <3>1, PageTakenKeeps
  <2>2. CASE op.reply # "ok"
    <3>1. s = PageFailed(told, op.tab)
      BY <1>2, <2>2 DEF Succeeded
    <3>2. op.reply \in Failures
      BY <1>3, <1>5, <2>2 DEF Operation
    <3> QED BY <1>1, <1>3, <1>4, <3>1, <3>2, PageFailedKeeps
  <2> QED BY <2>1, <2>2
<1> QED BY <1>3, <1>5, <1>6, CompletionKeeps

\* The end of a page for an export keeps it, whether the export goes on, stops or was
\* cancelled.
LEMMA PageCompletionKeeps ==
  ASSUME IInv, PageCompletes
  PROVE  IInv'
<1>1. PICK told : told = Told
  OBVIOUS
<1>2. PICK s : s = IF Succeeded THEN PageLoaded(told)
                   ELSE IF op.cancel THEN told ELSE PageFailed(told, op.tab)
  OBVIOUS
<1>3. op.kind = "export-fetch" /\ op.reply # "pending" /\ Becomes(Handled(s))
      /\ UNCHANGED <<open, conn, worker>>
  BY <1>1, <1>2 DEF PageCompletes, Completes, sessionVars
<1>4. Fetching(op) /\ Done(op)
  BY <1>3 DEF Fetching, Done
<1>5. /\ WasLost => conn # "open"
      /\ op \in Operation /\ told \in UiRecord /\ told.op.kind = "none" /\ Session
      /\ Good(told, Spent(Ui), Ahead(Ui), TRUE)
  BY <1>1, <1>3, <1>4, ToldIs
<1>6. \/ \E X, Y : /\ s \in UiRecord /\ s.op.kind = "none" /\ Good(s, X, Y, TRUE)
                   /\ ~(WasLost \/ Interrupted) => UiInvariant(s)
      \/ ~(WasLost \/ Interrupted) /\ s \in UiRecord /\ UiInvariant(s)
  <2>1. CASE op.reply = "ok"
    <3>1. s = PageLoaded(told)
      BY <1>2, <2>1 DEF Succeeded
    <3> QED BY <1>1, <1>3, <2>1, <3>1, PageLoadedKeeps
  <2>2. CASE op.reply # "ok" /\ op.cancel
    <3>1. s = told
      BY <1>2, <2>2 DEF Succeeded
    <3>2. Interrupted
      BY <1>3, <2>2 DEF Interrupted
    <3> QED BY <1>5, <3>1, <3>2
  <2>3. CASE op.reply # "ok" /\ ~op.cancel
    <3>1. s = PageFailed(told, op.tab)
      BY <1>2, <2>3 DEF Succeeded
    <3>2. op.reply \in Failures
      BY <1>3, <1>5, <2>3 DEF Operation
    <3> QED BY <1>1, <1>4, <2>3, <3>1, <3>2, PageFailedKeeps
  <2> QED BY <2>1, <2>2, <2>3
<1>7. CASE \E X, Y : /\ s \in UiRecord /\ s.op.kind = "none" /\ Good(s, X, Y, TRUE)
                     /\ ~(WasLost \/ Interrupted) => UiInvariant(s)
  BY <1>3, <1>5, <1>7, CompletionKeeps
<1>8. CASE ~(WasLost \/ Interrupted) /\ s \in UiRecord /\ UiInvariant(s)
  <2>1. Handled(s) = s
    BY <1>8 DEF Handled
  <2> QED BY <1>3, <1>5, <1>8, <2>1, UiStepKeeps
<1> QED BY <1>6, <1>7, <1>8


\* Letting go of tokens twice is letting go of tokens.
LEMMA LetsGoTwice ==
  ASSUME NEW s \in UiRecord, NEW a, LetsGo(a, s), NEW h, LetsGo(h, a)
  PROVE  LetsGo(h, s)
<1>1. /\ a \in UiRecord /\ h \in UiRecord /\ h.tabs = s.tabs /\ h.op = s.op
      /\ Len(s.queue) \in Nat /\ Len(a.queue) \in Nat /\ Len(h.queue) \in Nat
  BY UiFields DEF LetsGo
<1>2. \A r \in Result : /\ SameRows(h.res[r], s.res[r])
                        /\ h.res[r].cursor => s.res[r].cursor
                        /\ h.res[r].edit => s.res[r].edit
  BY DEF LetsGo, SameRows
<1>3. ASSUME worker = "serving"
      PROVE  /\ h.ui = s.ui
             /\ \A r \in Result : h.res[r].edit = s.res[r].edit
             /\ Len(s.queue) <= Len(h.queue)
             /\ \A i \in 1..Len(s.queue) : h.queue[i] = s.queue[i]
  BY <1>1, <1>3 DEF LetsGo
<1>4. ASSUME worker = "serving", NEW i \in 1..Len(h.queue), i > Len(s.queue)
      PROVE  \E r \in Result : /\ h.queue[i] = Command("close", r)
                               /\ s.res[r].cursor /\ ~h.res[r].cursor
  <2>1. CASE i > Len(a.queue)
    BY <1>4, <2>1 DEF LetsGo
  <2>2. CASE i \in 1..Len(a.queue)
    BY <1>4, <2>2 DEF LetsGo
  <2> QED BY <1>1, <1>4, <2>1, <2>2
<1>5. ASSUME worker = "serving", NEW r \in Result, s.res[r].cursor, ~h.res[r].cursor
      PROVE  \E i \in 1..Len(h.queue) : h.queue[i] = Command("close", r)
  <2>1. CASE a.res[r].cursor
    BY <1>5, <2>1 DEF LetsGo
  <2>2. CASE ~a.res[r].cursor
    <3>1. PICK i \in 1..Len(a.queue) : a.queue[i] = Command("close", r)
      BY <1>5, <2>2 DEF LetsGo
    <3>2. i \in 1..Len(h.queue) /\ h.queue[i] = a.queue[i]
      BY <1>1, <1>5 DEF LetsGo
    <3> QED BY <3>1, <3>2
  <2> QED BY <2>1, <2>2
<1>6. worker # "serving" => h.queue = s.queue
  BY DEF LetsGo
<1> QED BY <1>1, <1>2, <1>3, <1>4, <1>5, <1>6 DEF LetsGo

\* The results of a script that has ended: the last one is shown, the others and
\* what was shown before have their cursors closed.
LEMMA Rendered ==
  ASSUME IInv, op.kind = "execute", op.reply # "pending", NEW told, told = Told,
         NEW h, h = Render(told, op.tab, op.news)
  PROVE  /\ h \in UiRecord /\ h.op.kind = "none" /\ Good(h, {}, {}, TRUE)
         /\ ~(WasLost \/ Interrupted) => UiInvariant(h)
<1>1. PICK u : u = Ui
  OBVIOUS
<1>2. /\ Session /\ u \in UiRecord /\ UiInvariant(u) /\ u.tabs = tabs /\ u.res = res
      /\ u.queue = queue /\ u.op = op
  BY <1>1, UiIs DEF IInv
<1>3. /\ told \in UiRecord /\ told.op = Idle /\ told.op.kind = "none" /\ told.tabs = tabs
      /\ told.queue = queue /\ Good(told, Spent(u), Ahead(u), TRUE)
      /\ \A r \in Result : /\ SameRows(told.res[r], res[r])
                           /\ told.res[r].cursor => res[r].cursor
                           /\ told.res[r].edit => res[r].edit
      /\ ~(WasLost \/ Interrupted) => told.res = res
  BY <1>1, ToldIs DEF Done
<1>4. PICK no : no = {}
  OBVIOUS
<1>5. Spent(u) = no /\ Ahead(u) = no
  BY <1>2, <1>4 DEF Spent, Ahead, Fetching
<1>6. PICK list : list = op.news
  OBVIOUS
<1>7. PICK t : t = op.tab
  OBVIOUS
<1>8. /\ t \in Tab /\ list \in Seq(Result) /\ Range(list) \subseteq Result
      /\ \A r \in Range(list) : r \notin InTabs(tabs)
      /\ \A i \in 1..Len(list) : res[list[i]].cursor => i = Len(list)
  <2>1. op \in Operation /\ Range(op.news) \subseteq Result
    BY <1>2, UiFields
  <2> QED BY <1>2, <1>6, <1>7, <2>1 DEF UiInvariant, NewsKnown, SourceKnown, Operation
<1>9. PICK shown : shown = IF list = <<>> THEN None ELSE Last(list)
  OBVIOUS
<1>10. /\ shown \in Result \cup {None}
       /\ shown # None => shown \in Range(list)
       /\ shown # None <=> list # <<>>
       /\ \A r \in Range(list) : res[r].cursor => r = shown
  <2>1. CASE list = <<>>
    <3>1. \A z : z = <<>> => Range(z) = {}
      BY DEF Range
    <3> QED BY <1>9, <2>1, <3>1
  <2>2. CASE list # <<>>
    <3>1. Len(list) \in 1..Len(list) /\ shown = list[Len(list)]
      BY <1>8, <1>9, <2>2 DEF Last
    <3>2. list[Len(list)] \in Range(list) /\ Range(list) \subseteq Result
      BY <1>8, <3>1 DEF Range
    <3>3. \A r \in Range(list) : \E i \in 1..Len(list) : r = list[i]
      BY <1>8 DEF Range
    <3> QED BY <1>8, <2>2, <3>1, <3>2, <3>3, Values
  <2> QED BY <2>1, <2>2
<1>11. PICK old : old = tabs[t].active
  OBVIOUS
<1>12. PICK a : a = ReleaseAll(told, {old})
  OBVIOUS
<1>13. PICK rs : rs = Range(list) \ {shown}
  OBVIOUS
<1>14. PICK b : b = ReleaseAll(a, rs)
  OBVIOUS
<1>15. h = [b EXCEPT !.tabs[t] = [active |-> shown, last |-> shown]]
  BY <1>3, <1>6, <1>7, <1>9, <1>11, <1>12, <1>13, <1>14 DEF Render, Release
<1>16. /\ tabs \in [Tab -> Shown] /\ old \in Result \cup {None}
       /\ \A v \in Tab : /\ tabs[v].active \in {None, tabs[v].last}
                         /\ tabs[v].last \in Result \cup {None}
  <2>1. tabs \in [Tab -> Shown]
    BY <1>2, UiFields
  <2> QED BY <1>2, <1>8, <1>11, <2>1, InTabsFacts DEF UiInvariant, TabsApart
<1>17. Good(told, no, no, TRUE) /\ Range(told.op.news) = {}
  <2>1. \A z : z = <<>> => Range(z) = {}
    BY DEF Range
  <2> QED BY <1>3, <1>5, <2>1, Values
<1>18. /\ a \in UiRecord /\ Good(a, no, no, TRUE) /\ LetsGo(a, told) /\ a.tabs = told.tabs
       /\ a.op = told.op
       /\ old # None => ~a.res[old].cursor
  <2>1. PICK os : os = {old}
    OBVIOUS
  <2>2. os \subseteq Result \cup {None} /\ os \cap Range(told.op.news) = {}
    BY <1>16, <1>17, <2>1
  <2>3. PICK yes \in BOOLEAN : yes = TRUE
    OBVIOUS
  <2>4. Good(told, no, no, yes) /\ a = ReleaseAll(told, os)
    BY <1>12, <1>17, <2>1, <2>3
  <2>5. /\ a \in UiRecord /\ Good(a, no, no, yes) /\ LetsGo(a, told) /\ a.tabs = told.tabs
        /\ a.op = told.op /\ \A r \in os \ {None} : ~a.res[r].cursor
    BY <1>2, <1>3, <2>2, <2>4, ReleaseKeeps
  <2> QED BY <2>1, <2>3, <2>5
<1>19. /\ b \in UiRecord /\ Good(b, no, no, TRUE) /\ LetsGo(b, a) /\ b.tabs = a.tabs
       /\ b.op = a.op
  <2>1. rs \subseteq Result \cup {None} /\ rs \cap Range(a.op.news) = {}
    BY <1>8, <1>13, <1>17, <1>18
  <2>2. PICK yes \in BOOLEAN : yes = TRUE
    OBVIOUS
  <2>3. Good(a, no, no, yes)
    BY <1>18, <2>2
  <2>4. /\ b \in UiRecord /\ Good(b, no, no, yes) /\ LetsGo(b, a) /\ b.tabs = a.tabs
        /\ b.op = a.op
    BY <1>2, <1>14, <1>18, <2>1, <2>3, ReleaseKeeps
  <2> QED BY <2>2, <2>4
<1>20. LetsGo(b, told)
  BY <1>3, <1>18, <1>19, LetsGoTwice
<1>21. PICK f : f = [tabs EXCEPT ![t] = [active |-> shown, last |-> shown]]
  OBVIOUS
<1>22. /\ f \in [Tab -> Shown] /\ f[t].active = shown /\ f[t].last = shown
       /\ \A v \in Tab : v # t => f[v] = tabs[v]
  <2>1. [active |-> shown, last |-> shown] \in Shown
    BY <1>10 DEF Shown
  <2> QED BY <1>8, <1>16, <1>21, <2>1
<1>23. /\ h \in UiRecord /\ h.tabs = f /\ h.res = b.res /\ h.queue = b.queue /\ h.op = Idle
       /\ h.op.kind = "none"
  <2>1. PICK e : e = [active |-> shown, last |-> shown]
    OBVIOUS
  <2>2. h = [b EXCEPT !.tabs[t] = e] /\ f = [b.tabs EXCEPT ![t] = e]
    BY <1>3, <1>15, <1>18, <1>19, <1>21, <2>1
  <2>3. b \in UiRecord /\ b.op = Idle /\ Idle.kind = "none"
    BY <1>3, <1>18, <1>19
  <2> QED BY <1>22, <2>2, <2>3 DEF UiRecord
<1>24. \A r \in InTabs(f) : r \in Result /\ (r = shown \/ r \in InTabs(tabs))
  BY <1>16, <1>22, InTabsFacts
<1>25. \A r \in Result : /\ SameRows(b.res[r], res[r])
                         /\ b.res[r].cursor => res[r].cursor
                         /\ b.res[r].edit => res[r].edit
  BY <1>3, <1>20 DEF LetsGo, SameRows
<1>26. shown # None => shown \notin InTabs(tabs)
  BY <1>8, <1>10
<1>27. Idle.kind = "none" /\ Idle.of = None /\ Idle.news = <<>> /\ Range(Idle.news) = {}
  BY <1>3, <1>17, Values
<1>28. TabsApart(h)
  <2>1. ASSUME NEW v \in Tab, NEW w \in Tab, f[v].last = f[w].last
        PROVE  v = w \/ f[v].last = None
    <3>1. \A x \in Tab : tabs[x].last = shown => shown = None
      BY <1>16, <1>26, InTabsFacts
    <3> QED BY <1>2, <1>22, <2>1, <3>1 DEF UiInvariant, TabsApart
  <2>2. ASSUME NEW v \in Tab
        PROVE  /\ f[v].active \in {None, f[v].last}
               /\ f[v].last # None /\ b.res[f[v].last].cursor => f[v].active = f[v].last
    <3>1. CASE v = t
      BY <1>22, <3>1
    <3>2. CASE v # t
      <4>1. b.tabs[v] = f[v]
        BY <1>3, <1>18, <1>19, <1>22, <3>2
      <4> QED BY <1>19, <4>1 DEF Good, Settled, TabsApart
    <3> QED BY <3>1, <3>2
  <2> QED BY <1>23, <2>1, <2>2 DEF TabsApart
<1>29. \A c : Queued(b, c) => Queued(u, c) \/ \E r \in Result : /\ c = Command("close", r)
                                                                /\ ~b.res[r].cursor
  <2>1. CASE worker = "serving"
    BY <1>2, <1>3, <1>20, <2>1, UiFields DEF LetsGo, Queued
  <2>2. CASE worker # "serving"
    BY <1>2, <1>3, <1>20, <2>2 DEF LetsGo, Queued
  <2> QED BY <2>1, <2>2
<1>30. \A r : Command("close", r) # Command("closeAll", None)
  BY DEF Command
<1>31. \A r, q : Command("close", r) = Command("close", q) => r = q
  BY DEF Command
<1>32. ClosingLetGo(h)
  <2>1. ASSUME NEW r \in Result, Queued(b, Command("close", r)), r \in InTabs(f)
        PROVE  ~b.res[r].cursor
    <3>1. CASE r \in InTabs(tabs)
      BY <1>3, <1>18, <1>19, <2>1, <3>1 DEF Good, Settled, ClosingLetGo
    <3>2. CASE r \notin InTabs(tabs)
      <4>1. r = shown /\ r \in Range(list)
        BY <1>10, <1>24, <2>1, <3>2, Values
      <4>2. ~Queued(u, Command("close", r))
        BY <1>2, <1>6, <4>1 DEF UiInvariant, ClosingLetGo
      <4> QED BY <1>29, <1>31, <2>1, <4>2
    <3> QED BY <3>1, <3>2
  <2>2. ASSUME Queued(b, Command("closeAll", None)), NEW r \in InTabs(f)
        PROVE  ~b.res[r].cursor
    <3>1. Queued(u, Command("closeAll", None))
      BY <1>29, <1>30, <2>2
    <3>2. shown = None
      BY <1>2, <1>6, <1>10, <3>1 DEF UiInvariant, ClosingLetGo
    <3>3. r \in InTabs(tabs)
      BY <1>24, <2>2, <3>2, Values
    <3> QED BY <1>3, <1>18, <1>19, <2>2, <3>3 DEF Good, Settled, ClosingLetGo
  <2> QED BY <1>23, <1>27, <2>1, <2>2 DEF ClosingLetGo, Queued
<1>33. NoSession(h) /\ QueueInOrder(h)
  <2>1. worker = "serving" /\ conn = "none" => InTabs(f) = {}
    <3>1. worker = "serving" /\ conn = "none" => InTabs(tabs) = {} /\ shown = None
      BY <1>2, <1>6, <1>10 DEF UiInvariant, NoSession
    <3> QED BY <1>24, <3>1, Values
  <2>2. QueueInOrder(b) /\ NoSession(b)
    BY <1>19 DEF Good, Settled
  <2>3. b.op = Idle
    BY <1>3, <1>18, <1>19
  <2> QED BY <1>23, <1>27, <2>1, <2>2, <2>3 DEF NoSession, QueueInOrder
<1>34. Fresh(h)
  <2>1. conn = "open" => \A r \in InTabs(tabs) \cup Range(list) :
          (res[r].cursor \/ res[r].edit) => res[r].current
    BY <1>2, <1>6 DEF UiInvariant, Fresh
  <2> QED BY <1>10, <1>23, <1>24, <1>25, <1>27, <2>1, Values DEF Fresh, SameRows
<1>35. OpenKnown(h)
  <2>1. /\ \A r \in DOMAIN open : open[r].at < open[r].size
        /\ \A r \in DOMAIN open \cap (InTabs(tabs) \cup Range(list)) :
             open[r].size = res[r].size /\ (conn = "open" => res[r].current)
    BY <1>2, <1>6 DEF UiInvariant, OpenKnown
  <2>2. DOMAIN open \subseteq Result
    BY <1>2 DEF Session
  <2> QED BY <1>10, <1>23, <1>24, <1>25, <1>27, <2>1, <2>2, Values DEF OpenKnown, SameRows
<1>36. /\ RowsKnown(h) /\ NewsKnown(h) /\ SourceKnown(h) /\ ExportKnown(h) /\ PageKnown(h)
       /\ TaskKnown(h)
  <2>1. b.op = Idle
    BY <1>3, <1>18, <1>19
  <2>2. /\ RowsKnown(b) /\ NewsKnown(b) /\ SourceKnown(b) /\ ExportKnown(b) /\ PageKnown(b)
        /\ TaskKnown(b)
    BY <1>19 DEF Good, Settled
  <2>3. NewsKnown(h)
    BY <1>23, <1>27, <2>1, <2>2 DEF NewsKnown
  <2> QED BY <1>23, <1>27, <2>1, <2>2, <2>3
          DEF RowsKnown, SourceKnown, ExportKnown, PageKnown, TaskKnown, Fetching, Done
<1>37. Honoured(h, {}) /\ InStep(h, {})
  <2>1. conn = "open" => \A r \in InTabs(tabs) \cup Range(list) :
          res[r].cursor => r \in DOMAIN open /\ open[r].at = Len(res[r].rows)
    BY <1>2, <1>4, <1>5, <1>6 DEF UiInvariant, Honoured, InStep
  <2> QED BY <1>10, <1>23, <1>24, <1>25, <1>27, <2>1, Values DEF Honoured, InStep, SameRows
<1>38. Good(h, {}, {}, TRUE)
  BY <1>28, <1>32, <1>33, <1>34, <1>35, <1>36, <1>37 DEF Good, Settled
<1>39. ASSUME ~(WasLost \/ Interrupted) PROVE NoneLeaks(h)
  <2> SUFFICES ASSUME conn = "open", NEW r \in DOMAIN open
               PROVE  \/ r \in InTabs(f) /\ b.res[r].cursor
                      \/ Queued(h, Command("close", r)) \/ Queued(h, Command("closeAll", None))
    BY <1>23, <1>27 DEF NoneLeaks
  <2>1. worker = "serving" /\ r \in Result
    BY <1>2 DEF UiInvariant, NoSession, Session
  <2>2. \A c : Queued(u, c) => Queued(h, c)
    BY <1>2, <1>3, <1>20, <1>23, <2>1, UiFields DEF LetsGo, Queued
  <2>3. \/ r \in InTabs(tabs) \cup Range(list) /\ res[r].cursor
        \/ Queued(u, Command("close", r)) \/ Queued(u, Command("closeAll", None))
    BY <1>2, <1>6 DEF UiInvariant, NoneLeaks
  <2>4. CASE r \in InTabs(tabs) \cup Range(list) /\ res[r].cursor
    <3>1. CASE ~b.res[r].cursor
      <4>1. told.res[r].cursor
        BY <1>3, <1>39, <2>4
      <4>2. \E i \in 1..Len(b.queue) : b.queue[i] = Command("close", r)
        BY <1>20, <2>1, <3>1, <4>1 DEF LetsGo
      <4> QED BY <1>23, <4>2 DEF Queued
    <3>2. CASE b.res[r].cursor /\ r \in Range(list)
      <4>1. r = shown
        BY <1>10, <2>4, <3>2
      <4> QED BY <1>8, <1>22, <2>1, <3>2, <4>1, InTabsFacts
    <3>3. CASE b.res[r].cursor /\ r \in InTabs(tabs)
      <4>1. PICK v \in Tab : r = tabs[v].last /\ r # None
        BY <1>16, <2>1, <3>3, InTabsFacts, Values
      <4>2. tabs[v].active = r
        BY <1>2, <2>4, <4>1 DEF UiInvariant, TabsApart
      <4>3. v # t
        <5>1. a.res[r].cursor
          BY <1>19, <2>1, <3>3 DEF LetsGo
        <5> QED BY <1>11, <1>18, <2>1, <4>1, <4>2, <5>1
      <4>4. r \in InTabs(f)
        BY <1>22, <2>1, <4>1, <4>3, InTabsFacts
      <4> QED BY <3>3, <4>4
    <3> QED BY <2>4, <3>1, <3>2, <3>3
  <2>5. CASE Queued(u, Command("close", r)) \/ Queued(u, Command("closeAll", None))
    BY <2>2, <2>5
  <2> QED BY <2>3, <2>4, <2>5
<1>40. ASSUME ~(WasLost \/ Interrupted) PROVE UiInvariant(h)
  <2>1. Good(h, {}, {}, FALSE)
    BY <1>38, <1>39, <1>40 DEF Good
  <2> QED BY <1>23, <2>1, IdleInvariant
<1> QED BY <1>23, <1>38, <1>40

\* The answer to a script, with the results it got to.
LEMMA ExecuteCompletionKeeps ==
  ASSUME IInv, ExecuteCompletes
  PROVE  IInv'
<1>1. PICK told : told = Told
  OBVIOUS
<1>2. PICK s : s = IF Succeeded \/ op.news # <<>> THEN Render(told, op.tab, op.news)
                                                  ELSE ErrorOfStatement(told)
  OBVIOUS
<1>3. op.kind = "execute" /\ op.reply # "pending" /\ Becomes(Handled(s))
      /\ UNCHANGED <<open, conn, worker>>
  BY <1>1, <1>2 DEF ExecuteCompletes, Completes, sessionVars
<1>4. CASE Succeeded \/ op.news # <<>>
  <2>1. s = Render(told, op.tab, op.news)
    BY <1>2, <1>4
  <2>2. /\ s \in UiRecord /\ s.op.kind = "none" /\ Good(s, {}, {}, TRUE)
        /\ ~(WasLost \/ Interrupted) => UiInvariant(s)
    BY <1>1, <1>3, <2>1, Rendered
  <2>3. WasLost => conn # "open"
    BY <1>3, UiIs DEF IInv, UiInvariant, TaskKnown, Done, WasLost
  <2>4. PICK no : no = {}
    OBVIOUS
  <2>5. Good(s, no, no, TRUE)
    BY <2>2, <2>4
  <2> QED BY <1>3, <2>2, <2>3, <2>5, CompletionKeeps
<1>5. CASE ~(Succeeded \/ op.news # <<>>)
  <2>1. s = told \/ s = ClearTable(told, op.tab)
    BY <1>2, <1>5 DEF ErrorOfStatement
  <2> QED BY <1>1, <1>3, <1>5, <2>1, TextCompletion DEF Done, Fetching
<1> QED BY <1>4, <1>5

\* The answer to an operation.
LEMMA CompletionStepKeeps ==
  ASSUME IInv, Completions
  PROVE  IInv'
BY ExecuteCompletionKeeps, ExplainCompletionKeeps, MoreCompletionKeeps, PageCompletionKeeps,
   WriteCompletionKeeps, RollbackCompletionKeeps, OtherCompletionKeeps DEF Completions

-----------------------------------------------------------------------------
(* The worker runs a command.                                              *)

\* The command at the head of the queue is taken.
LEMMA Taken ==
  ASSUME NEW q \in Seq(Cmd), q # <<>>, NEW z, z = Tail(q)
  PROVE  /\ z \in Seq(Cmd) /\ Head(q) \in Cmd /\ Head(q) = q[1] /\ 1 \in 1..Len(q)
         /\ Len(z) \in Nat /\ Len(q) \in Nat /\ Len(z) = Len(q) - 1
         /\ \A i \in 1..Len(z) : i + 1 \in 1..Len(q) /\ z[i] = q[i + 1]
         /\ \A i \in 1..Len(q) : i # 1 => i - 1 \in 1..Len(z) /\ z[i - 1] = q[i]
OBVIOUS

\* What is left is what was there but for that command; a task is the last but
\* for cursors to be closed.
LEMMA QueueTaken ==
  ASSUME NEW s \in UiRecord, QueueInOrder(s), worker = "serving", s.queue # <<>>,
         NEW g, g.queue = Tail(s.queue)
  PROVE  /\ g.queue \in Seq(Cmd) /\ Head(s.queue) \in Cmd /\ Queued(s, Head(s.queue))
         /\ \A c : Queued(g, c) => Queued(s, c)
         /\ \A c : Queued(s, c) => Queued(g, c) \/ c = Head(s.queue)
         /\ Head(s.queue).kind = "task" =>
              /\ s.op.kind # "none" /\ s.op.reply = "pending"
              /\ \A i \in 1..Len(g.queue) : g.queue[i].kind = "close"
         /\ g.op = s.op => QueueInOrder(g)
<1>1. PICK q, z : q = s.queue /\ z = g.queue
  OBVIOUS
<1>2. /\ z \in Seq(Cmd) /\ Head(q) \in Cmd /\ Head(q) = q[1] /\ 1 \in 1..Len(q)
      /\ Len(z) \in Nat /\ Len(q) \in Nat /\ Len(z) = Len(q) - 1
      /\ \A i \in 1..Len(z) : i + 1 \in 1..Len(q) /\ z[i] = q[i + 1]
      /\ \A i \in 1..Len(q) : i # 1 => i - 1 \in 1..Len(z) /\ z[i - 1] = q[i]
  BY <1>1, UiFields, Taken
<1>3. \A i \in 1..Len(q) : q[i].kind = "task" =>
        /\ s.op.kind # "none" /\ s.op.reply = "pending"
        /\ \A j \in 1..Len(q) : i < j => q[j].kind = "close"
  BY <1>1 DEF QueueInOrder
<1>4. \A c : Queued(g, c) => Queued(s, c)
  BY <1>1, <1>2 DEF Queued
<1>5. ASSUME NEW c, Queued(s, c) PROVE Queued(g, c) \/ c = Head(q)
  <2>1. PICK i \in 1..Len(q) : q[i] = c
    BY <1>1, <1>5 DEF Queued
  <2>2. i # 1 => i - 1 \in 1..Len(z) /\ z[i - 1] = q[i]
    BY <1>2
  <2> QED BY <1>1, <1>2, <2>1, <2>2 DEF Queued
<1>6. Head(q).kind = "task" =>
        /\ s.op.kind # "none" /\ s.op.reply = "pending"
        /\ \A i \in 1..Len(z) : z[i].kind = "close"
  <2>1. \A i \in 1..Len(z) : i + 1 \in 1..Len(q) /\ 1 < i + 1
    BY <1>2
  <2> QED BY <1>2, <1>3, <2>1
<1>7. ASSUME g.op = s.op, NEW i \in 1..Len(z), z[i].kind = "task"
      PROVE  /\ s.op.kind # "none" /\ s.op.reply = "pending"
             /\ \A j \in 1..Len(z) : i < j => z[j].kind = "close"
  <2>1. i + 1 \in 1..Len(q) /\ q[i + 1].kind = "task"
    BY <1>2, <1>7
  <2>2. \A j \in 1..Len(z) : i < j => j + 1 \in 1..Len(q) /\ i + 1 < j + 1 /\ z[j] = q[j + 1]
    BY <1>2
  <2> QED BY <1>3, <2>1, <2>2
<1>8. g.op = s.op => QueueInOrder(g)
  BY <1>1, <1>7 DEF QueueInOrder
<1>9. Queued(s, Head(q))
  BY <1>1, <1>2 DEF Queued
<1> QED BY <1>1, <1>2, <1>4, <1>5, <1>6, <1>8, <1>9

\* A task that brings no result is answered: the operation has its reply,
Marked(o) ==
  /\ op' = o /\ UNCHANGED <<tabs, ui, worker>> /\ o \in Operation
  /\ o.kind = op.kind /\ o.tab = op.tab /\ o.of = op.of /\ o.full = op.full /\ o.rows = op.rows
  /\ o.cursor = op.cursor /\ o.cancel = op.cancel /\ o.news = op.news
  /\ o.reply # "pending" /\ o.up = (conn' = "open") /\ o.kind # "execute"

\* results may no longer be current,
Aging(o) ==
  /\ res' \in [Result -> Read]
  /\ \A r \in Result :
       /\ res'[r].rows = res[r].rows /\ res'[r].more = res[r].more
       /\ res'[r].cursor = res[r].cursor /\ res'[r].edit = res[r].edit
       /\ res'[r].size = res[r].size
       /\ conn' = conn /\ o.kind # "connect" /\ ~(o.kind = "rollback" /\ o.reply = "ok") =>
            res'[r].current = res[r].current

\* and the session forgets cursors, if anything.
Remaining(o) ==
  /\ Session'
  /\ \A r \in DOMAIN open' : /\ r \in DOMAIN open /\ open'[r].size = open[r].size
                             /\ open'[r].at < open'[r].size
                             /\ ~(r = o.of /\ Fetching(o)) => open'[r].at = open[r].at
  /\ \A r \in DOMAIN open : \/ r \in DOMAIN open'
                            \/ o.kind \in {"connect", "rollback"}
                            \/ r = o.of /\ Fetching(o)
  /\ o.kind = "rollback" /\ o.reply # "ok" => DOMAIN open' = DOMAIN open
  /\ o.kind = "connect" \/ (o.kind = "rollback" /\ o.reply = "ok") => open' = << >>
  /\ Fetching(o) /\ o.reply = "ok" /\ o.page.more => DOMAIN open' = DOMAIN open
  /\ conn' = "none" => open' = << >>
  /\ o.kind # "connect" =>
       (conn' = "none" => conn = "none") /\ (conn' = "open" => conn # "dead")

Answers(o) == Marked(o) /\ Aging(o) /\ Remaining(o)

\* Such an answer keeps the invariant, if what it says of a page is right.
LEMMA AnswerKeeps ==
  ASSUME IInv, Serving("task"), NEW o, Answers(o), PageKnown(Ui)'
  PROVE  IInv'
<1>1. PICK s : s = Ui
  OBVIOUS
<1>2. /\ Session /\ s \in UiRecord /\ UiInvariant(s) /\ s.tabs = tabs /\ s.res = res
      /\ s.ui = ui /\ s.queue = queue /\ s.op = op
  BY <1>1, UiIs DEF IInv
<1>3. PICK g : g = Ui'
  OBVIOUS
<1>4. PICK f : f = res'
  OBVIOUS
<1>5. PICK z : z = Tail(s.queue)
  OBVIOUS
<1>6. /\ worker = "serving" /\ worker' = "serving" /\ s.queue # <<>> /\ queue' = z
      /\ Head(s.queue).kind = "task"
  BY <1>2, <1>5 DEF Serving, Answers, Marked, Aging, Remaining
<1>7. g = [tabs |-> s.tabs, res |-> f, ui |-> s.ui, queue |-> z, op |-> o]
  BY <1>2, <1>3, <1>4, <1>6 DEF Ui, Answers, Marked, Aging, Remaining
<1>8. g.tabs = s.tabs /\ g.res = f /\ g.ui = s.ui /\ g.queue = z /\ g.op = o
  BY <1>7
<1>9. /\ z \in Seq(Cmd) /\ Head(s.queue) \in Cmd
      /\ \A c : Queued(g, c) => Queued(s, c)
      /\ \A c : Queued(s, c) => Queued(g, c) \/ c = Head(s.queue)
      /\ op.kind # "none" /\ op.reply = "pending"
      /\ \A i \in 1..Len(z) : z[i].kind # "task"
  <2>1. QueueInOrder(s) /\ g.queue = Tail(s.queue)
    BY <1>2, <1>5, <1>8 DEF UiInvariant
  <2>2. /\ g.queue \in Seq(Cmd) /\ Head(s.queue) \in Cmd
        /\ \A c : Queued(g, c) => Queued(s, c)
        /\ \A c : Queued(s, c) => Queued(g, c) \/ c = Head(s.queue)
        /\ Head(s.queue).kind = "task" =>
             /\ s.op.kind # "none" /\ s.op.reply = "pending"
             /\ \A i \in 1..Len(g.queue) : g.queue[i].kind = "close"
    BY <1>2, <1>6, <2>1, QueueTaken
  <2> QED BY <1>2, <1>6, <1>8, <2>2
<1>10. /\ o \in Operation /\ o.kind = op.kind /\ o.tab = op.tab /\ o.of = op.of
       /\ o.full = op.full /\ o.rows = op.rows /\ o.cursor = op.cursor /\ o.cancel = op.cancel
       /\ o.news = op.news /\ o.reply # "pending" /\ o.up = (conn' = "open")
       /\ o.kind # "execute" /\ f \in [Result -> Read]
  BY <1>4 DEF Answers, Marked, Aging, Remaining
<1>11. g \in UiRecord
  BY <1>2, <1>7, <1>9, <1>10, UiFields DEF UiRecord
<1>12. op.news = <<>> /\ Range(op.news) = {}
  <2>1. \A x : x = <<>> => Range(x) = {}
    BY DEF Range
  <2> QED BY <1>2, <1>9, <2>1 DEF UiInvariant, NewsKnown
<1>13. \A r \in Result :
         /\ f[r].rows = res[r].rows /\ f[r].more = res[r].more /\ f[r].cursor = res[r].cursor
         /\ f[r].edit = res[r].edit /\ f[r].size = res[r].size
         /\ conn' = conn /\ o.kind # "connect" /\ ~(o.kind = "rollback" /\ o.reply = "ok") =>
              f[r].current = res[r].current
  BY <1>4 DEF Answers, Marked, Aging, Remaining
<1>14. /\ InTabs(s.tabs) \subseteq Result /\ DOMAIN open \subseteq Result
       /\ op.of \in Result \cup {None}
       /\ \A t \in Tab : s.tabs[t].last \in Result \cup {None}
  BY <1>2, UiFields, InTabsFacts DEF Session
<1>15. o.kind = "connect" \/ conn = "none" => InTabs(s.tabs) = {}
  BY <1>2, <1>6, <1>10 DEF UiInvariant, NoSession
<1>16. TabsApart(g)'
  BY <1>2, <1>8, <1>13, <1>14 DEF UiInvariant, TabsApart
<1>17. QueueInOrder(g)'
  BY <1>6, <1>8, <1>9 DEF QueueInOrder
<1>18. ClosingLetGo(g)'
  <2>1. \A c : Queued(g, c)' => Queued(s, c)
    BY <1>9 DEF Queued
  <2>2. \A r \in Result : Queued(s, Command("close", r)) =>
          (r \in InTabs(s.tabs) => ~res[r].cursor)
    BY <1>2 DEF UiInvariant, ClosingLetGo
  <2>3. Queued(s, Command("closeAll", None)) => \A r \in InTabs(s.tabs) : ~res[r].cursor
    BY <1>2 DEF UiInvariant, ClosingLetGo
  <2> QED BY <1>8, <1>10, <1>12, <1>13, <1>14, <2>1, <2>2, <2>3 DEF ClosingLetGo
<1>19. NoSession(g)'
  BY <1>6, <1>8, <1>10, <1>12, <1>15 DEF NoSession, Answers, Marked, Aging, Remaining
<1>20. conn = "open" => \A r \in InTabs(s.tabs) : (res[r].cursor \/ res[r].edit) => res[r].current
  BY <1>2, <1>9 DEF UiInvariant, Fresh
<1>21. conn' = "open" /\ o.kind # "connect" => conn = "none" \/ (conn = "open" /\ conn' = conn)
  BY <1>2 DEF Answers, Marked, Aging, Remaining, Session
<1>22. Fresh(g)'
  BY <1>8, <1>10, <1>12, <1>13, <1>14, <1>15, <1>20, <1>21 DEF Fresh
<1>23. OpenKnown(g)'
  <2>1. conn = "none" => DOMAIN open = {}
    BY <1>2, GoneFacts DEF UiInvariant
  <2>2. o.kind = "connect" \/ (o.kind = "rollback" /\ o.reply = "ok") => DOMAIN open' = {}
    BY DEF Answers, Marked, Aging, Remaining
  <2>3. \A r \in DOMAIN open' : /\ r \in DOMAIN open /\ open'[r].size = open[r].size
                                /\ open'[r].at < open'[r].size
    BY DEF Answers, Marked, Aging, Remaining
  <2>4. \A r \in DOMAIN open \cap (InTabs(s.tabs) \cup {op.of}) :
          open[r].size = res[r].size /\ (conn = "open" => res[r].current)
    BY <1>2 DEF UiInvariant, OpenKnown
  <2> QED BY <1>8, <1>10, <1>12, <1>13, <1>14, <1>21, <2>1, <2>2, <2>3, <2>4 DEF OpenKnown
<1>24. RowsKnown(g)'
  BY <1>2, <1>8, <1>13 DEF UiInvariant, RowsKnown
<1>25. NoneLeaks(g)'
  <2>1. ASSUME conn' = "open", NEW r \in DOMAIN open'
        PROVE  \/ r \in InTabs(s.tabs) /\ f[r].cursor
               \/ Queued(g, Command("close", r)) \/ Queued(g, Command("closeAll", None))
    <3>1. r \in DOMAIN open /\ o.kind # "connect" /\ r \in Result
      BY <1>14, <2>1 DEF Answers, Marked, Aging, Remaining
    <3>2. conn = "open"
      BY <1>2, <1>21, <2>1, <3>1, GoneFacts DEF UiInvariant
    <3>3. \/ r \in InTabs(s.tabs) /\ res[r].cursor
          \/ Queued(s, Command("close", r)) \/ Queued(s, Command("closeAll", None))
      BY <1>2, <1>12, <3>1, <3>2 DEF UiInvariant, NoneLeaks
    <3>4. Command("close", r) # Head(s.queue) /\ Command("closeAll", None) # Head(s.queue)
      BY <1>6 DEF Command
    <3> QED BY <1>9, <1>13, <3>1, <3>3, <3>4
  <2> QED BY <1>8, <1>10, <1>12, <2>1 DEF NoneLeaks, Queued
<1>26. NewsKnown(g)'
  BY <1>2, <1>8, <1>10, <1>12 DEF UiInvariant, NewsKnown
<1>27. SourceKnown(g)' /\ SourceHeld(g)' /\ ExportKnown(g)'
  <2>1. SourceKnown(g)'
    BY <1>2, <1>8, <1>9, <1>10 DEF UiInvariant, SourceKnown
  <2>2. SourceHeld(g)'
    <3>1. Fetching(o) => op.of \in Result
      BY <1>2, <1>10, <1>14 DEF UiInvariant, SourceKnown, Fetching
    <3>2. Fetching(o) /\ tabs[op.tab].active = op.of => res[op.of].cursor
      BY <1>2, <1>6, <1>10 DEF UiInvariant, SourceHeld, Fetching
    <3> QED BY <1>2, <1>8, <1>10, <1>13, <3>1, <3>2 DEF SourceHeld, Fetching
  <2>3. ExportKnown(g)'
    <3>1. o.kind \in {"export-fetch", "export-write"} => op.of \in Result
      BY <1>2, <1>10, <1>14 DEF UiInvariant, SourceKnown
    <3> QED BY <1>2, <1>8, <1>10, <1>13, <3>1 DEF UiInvariant, ExportKnown
  <2> QED BY <2>1, <2>2, <2>3
<1>28. PageKnown(g)'
  BY <1>3 DEF PageKnown, Fetching, Fetched
<1>29. TaskKnown(g)'
  BY <1>8, <1>10 DEF TaskKnown, Answers, Marked, Aging, Remaining
<1>30. ASSUME conn' = "open", o.kind # "connect", NEW r \in InTabs(s.tabs), res[r].cursor
       PROVE  conn = "open" /\ r \in DOMAIN open /\ (r # op.of \/ ~Fetching(op) =>
                open[r].at = Len(res[r].rows))
  <2>1. conn = "open"
    BY <1>15, <1>21, <1>30
  <2>2. r \notin Spent(s) /\ (r # op.of \/ ~Fetching(op) => r \notin Ahead(s))
    BY <1>2, <1>9 DEF Spent, Ahead
  <2> QED BY <1>2, <1>30, <2>1, <2>2 DEF UiInvariant, Honoured, InStep
<1>31. Honoured(g, Spent(g))'
  <2>1. ASSUME conn' = "open", NEW r \in InTabs(s.tabs), r \notin Spent(g), f[r].cursor
        PROVE  r \in DOMAIN open'
    <3>1. o.kind # "connect" /\ r \in Result
      BY <1>14, <1>15, <2>1
    <3>2. r \in DOMAIN open
      BY <1>13, <1>30, <2>1, <3>1
    <3>3. ~(o.kind = "rollback" /\ o.reply = "ok")
      BY <1>8, <2>1, <3>1 DEF Spent
    <3>4. r = o.of /\ Fetching(o) => o.reply = "ok" /\ o.page.more
      BY <1>8, <1>10, <2>1, <3>1 DEF Spent
    <3> QED BY <3>1, <3>2, <3>3, <3>4 DEF Answers, Marked, Aging, Remaining
  <2> QED BY <1>8, <1>10, <1>12, <2>1 DEF Honoured, Spent, Fetching
<1>32. InStep(g, Ahead(g))'
  <2>1. ASSUME conn' = "open", NEW r \in InTabs(s.tabs), r \notin Ahead(g), f[r].cursor,
               r \in DOMAIN open'
        PROVE  open'[r].at = Len(f[r].rows)
    <3>1. o.kind # "connect" /\ r \in Result
      BY <1>14, <1>15, <2>1
    <3>2. ~(r = o.of /\ Fetching(o))
      BY <1>8, <2>1, <3>1 DEF Ahead
    <3>3. r # op.of \/ ~Fetching(op)
      BY <1>10, <3>2 DEF Fetching
    <3>4. open[r].at = Len(res[r].rows)
      BY <1>13, <1>30, <2>1, <3>1, <3>3
    <3> QED BY <1>13, <2>1, <3>1, <3>2, <3>4 DEF Answers, Marked, Aging, Remaining
  <2> QED BY <1>8, <1>10, <1>12, <2>1 DEF InStep, Ahead, Fetching
<1>33. UiInvariant(g)'
  BY <1>16, <1>17, <1>18, <1>19, <1>22, <1>23, <1>24, <1>25, <1>26, <1>27, <1>28, <1>29, <1>31,
     <1>32 DEF UiInvariant
<1> QED BY <1>3, <1>11, <1>33, NextInvariant DEF Answers, Marked, Aging, Remaining

\* The registry without a cursor.
LEMMA WithoutOne ==
  ASSUME NEW x, open' = Without({x})
  PROVE  /\ DOMAIN open' = DOMAIN open \ {x} /\ (\A r \in DOMAIN open' : open'[r] = open[r])
         /\ (open = << >> => open' = << >>)
<1>1. open' = [r \in DOMAIN open \ {x} |-> open[r]]
  BY DEF Without, Restrict
<1>2. DOMAIN open' = DOMAIN open \ {x} /\ \A r \in DOMAIN open' : open'[r] = open[r]
  BY <1>1
<1>3. CASE open = << >>
  <2>1. DOMAIN open \ {x} = {}
    BY <1>3
  <2> QED BY <1>1, <1>2, <2>1
<1> QED BY <1>2, <1>3

\* A cursor is closed on its own.
LEMMA CloseRunsKeeps ==
  ASSUME IInv, CloseRuns
  PROVE  IInv'
<1>1. PICK s : s = Ui
  OBVIOUS
<1>2. /\ Session /\ s \in UiRecord /\ UiInvariant(s) /\ s.tabs = tabs /\ s.res = res
      /\ s.ui = ui /\ s.queue = queue /\ s.op = op
  BY <1>1, UiIs DEF IInv
<1>3. PICK g : g = Ui'
  OBVIOUS
<1>4. PICK z, c : z = Tail(s.queue) /\ c = Head(s.queue)
  OBVIOUS
<1>5. /\ worker = "serving" /\ s.queue # <<>> /\ queue' = z /\ c.kind = "close"
      /\ UNCHANGED <<tabs, res, ui, op, conn, worker>>
  BY <1>2, <1>4 DEF CloseRuns, Serving
<1>6. g = [tabs |-> s.tabs, res |-> s.res, ui |-> s.ui, queue |-> z, op |-> s.op]
  BY <1>2, <1>3, <1>5 DEF Ui
<1>7. g.tabs = s.tabs /\ g.res = s.res /\ g.ui = s.ui /\ g.queue = z /\ g.op = s.op
  BY <1>6
<1>8. /\ z \in Seq(Cmd) /\ c \in Cmd /\ Queued(s, c)
      /\ \A d : Queued(g, d) => Queued(s, d)
      /\ \A d : Queued(s, d) => Queued(g, d) \/ d = c
      /\ QueueInOrder(g)
  <2>1. QueueInOrder(s) /\ g.queue = Tail(s.queue)
    BY <1>2, <1>4, <1>7 DEF UiInvariant
  <2>2. /\ g.queue \in Seq(Cmd) /\ Head(s.queue) \in Cmd /\ Queued(s, Head(s.queue))
        /\ \A d : Queued(g, d) => Queued(s, d)
        /\ \A d : Queued(s, d) => Queued(g, d) \/ d = Head(s.queue)
        /\ g.op = s.op => QueueInOrder(g)
    BY <1>2, <1>5, <2>1, QueueTaken
  <2> QED BY <1>4, <1>7, <2>2
<1>9. g \in UiRecord
  BY <1>2, <1>6, <1>8, UiFields DEF UiRecord
<1>10. PICK x : x = c.of
  OBVIOUS
<1>11. c = Command("close", x)
  BY <1>5, <1>8, <1>10 DEF Cmd, Command
<1>12. /\ DOMAIN open' = DOMAIN open \ {x} /\ (\A r \in DOMAIN open' : open'[r] = open[r])
       /\ (open = << >> => open' = << >>)
  <2>1. open' = Without({x})
    BY <1>2, <1>4, <1>10 DEF CloseRuns
  <2> QED BY <1>2, <2>1, WithoutOne
<1>13. open = << >> => open' = << >>
  BY <1>12
<1>14. Session'
  BY <1>2, <1>5, <1>12 DEF Session
<1>15. TabsApart(g)' /\ QueueInOrder(g)' /\ Fresh(g)' /\ RowsKnown(g)' /\ NewsKnown(g)'
  BY <1>2, <1>5, <1>7, <1>8
     DEF UiInvariant, TabsApart, QueueInOrder, Fresh, RowsKnown, NewsKnown
<1>16. SourceKnown(g)' /\ SourceHeld(g)' /\ ExportKnown(g)'
  BY <1>2, <1>5, <1>7 DEF UiInvariant, SourceKnown, SourceHeld, ExportKnown
<1>17. ClosingLetGo(g)'
  BY <1>2, <1>7, <1>8 DEF UiInvariant, ClosingLetGo, Queued
<1>18. NoSession(g)' /\ TaskKnown(g)'
  BY <1>2, <1>5, <1>7, <1>13 DEF UiInvariant, NoSession, TaskKnown
<1>19. OpenKnown(g)'
  BY <1>2, <1>5, <1>7, <1>12 DEF UiInvariant, OpenKnown
<1>20. PageKnown(g)'
  BY <1>2, <1>5, <1>7, <1>12 DEF UiInvariant, PageKnown, Fetched
<1>21. NoneLeaks(g)'
  <2>1. ASSUME conn = "open", NEW r \in DOMAIN open, r # x
        PROVE  \/ r \in InTabs(s.tabs) \cup Range(s.op.news) /\ s.res[r].cursor
               \/ Queued(g, Command("close", r)) \/ Queued(g, Command("closeAll", None))
    <3>1. Command("close", r) # c /\ Command("closeAll", None) # c
      BY <1>11, <2>1 DEF Command
    <3> QED BY <1>2, <1>8, <2>1, <3>1 DEF UiInvariant, NoneLeaks
  <2> QED BY <1>5, <1>7, <1>12, <2>1 DEF NoneLeaks, Queued
<1>22. \A r \in InTabs(s.tabs) \cup Range(s.op.news) : s.res[r].cursor => r # x
  <2>1. InTabs(s.tabs) \subseteq Result /\ Range(s.op.news) \subseteq Result
    BY <1>2, UiFields, InTabsFacts
  <2> QED BY <1>2, <1>8, <1>11, <2>1 DEF UiInvariant, ClosingLetGo
<1>23. Honoured(g, Spent(g))' /\ InStep(g, Ahead(g))'
  <2>1. Spent(g) = Spent(s) /\ Ahead(g) = Ahead(s)
    BY <1>7 DEF Spent, Ahead
  <2>2. Honoured(s, Spent(g)) /\ InStep(s, Ahead(g))
    BY <1>2, <2>1 DEF UiInvariant
  <2> QED BY <1>5, <1>7, <1>12, <1>22, <2>2 DEF Honoured, InStep, Spent, Ahead
<1>24. UiInvariant(g)'
  BY <1>15, <1>16, <1>17, <1>18, <1>19, <1>20, <1>21, <1>23 DEF UiInvariant
<1> QED BY <1>3, <1>9, <1>14, <1>24, NextInvariant

\* All cursors are closed, after an interrupt.
LEMMA CloseAllRunsKeeps ==
  ASSUME IInv, CloseAllRuns
  PROVE  IInv'
<1>1. PICK s : s = Ui
  OBVIOUS
<1>2. /\ Session /\ s \in UiRecord /\ UiInvariant(s) /\ s.tabs = tabs /\ s.res = res
      /\ s.ui = ui /\ s.queue = queue /\ s.op = op
  BY <1>1, UiIs DEF IInv
<1>3. PICK g : g = Ui'
  OBVIOUS
<1>4. PICK z, c : z = Tail(s.queue) /\ c = Head(s.queue)
  OBVIOUS
<1>5. /\ worker = "serving" /\ s.queue # <<>> /\ queue' = z /\ c.kind = "closeAll"
      /\ open' = << >> /\ UNCHANGED <<tabs, res, ui, op, conn, worker>>
  BY <1>2, <1>4 DEF CloseAllRuns, Serving
<1>6. g = [tabs |-> s.tabs, res |-> s.res, ui |-> s.ui, queue |-> z, op |-> s.op]
  BY <1>2, <1>3, <1>5 DEF Ui
<1>7. g.tabs = s.tabs /\ g.res = s.res /\ g.ui = s.ui /\ g.queue = z /\ g.op = s.op
  BY <1>6
<1>8. /\ z \in Seq(Cmd) /\ c \in Cmd /\ Queued(s, c)
      /\ \A d : Queued(g, d) => Queued(s, d)
      /\ QueueInOrder(g)
  <2>1. QueueInOrder(s) /\ g.queue = Tail(s.queue)
    BY <1>2, <1>4, <1>7 DEF UiInvariant
  <2>2. /\ g.queue \in Seq(Cmd) /\ Head(s.queue) \in Cmd /\ Queued(s, Head(s.queue))
        /\ \A d : Queued(g, d) => Queued(s, d)
        /\ g.op = s.op => QueueInOrder(g)
    BY <1>2, <1>5, <2>1, QueueTaken
  <2> QED BY <1>4, <1>7, <2>2
<1>9. g \in UiRecord
  BY <1>2, <1>6, <1>8, UiFields DEF UiRecord
<1>10. c = Command("closeAll", None)
  BY <1>5, <1>8 DEF Cmd, Command
<1>11. s.op.news = <<>> /\ \A r \in InTabs(s.tabs) : ~s.res[r].cursor
  BY <1>2, <1>8, <1>10 DEF UiInvariant, ClosingLetGo
<1>12. DOMAIN open' = {} /\ Range(s.op.news) = {}
  <2>1. \A x : x = <<>> => DOMAIN x = {} /\ Range(x) = {}
    BY DEF Range
  <2> QED BY <1>5, <1>11, <2>1
<1>13. Session'
  BY <1>2, <1>5, <1>12 DEF Session
<1>14. TabsApart(g)' /\ QueueInOrder(g)' /\ Fresh(g)' /\ RowsKnown(g)' /\ NewsKnown(g)'
  BY <1>2, <1>5, <1>7, <1>8
     DEF UiInvariant, TabsApart, QueueInOrder, Fresh, RowsKnown, NewsKnown
<1>15. SourceKnown(g)' /\ SourceHeld(g)' /\ ExportKnown(g)'
  BY <1>2, <1>5, <1>7 DEF UiInvariant, SourceKnown, SourceHeld, ExportKnown
<1>16. ClosingLetGo(g)'
  BY <1>2, <1>7, <1>8 DEF UiInvariant, ClosingLetGo, Queued
<1>17. NoSession(g)' /\ TaskKnown(g)'
  BY <1>2, <1>5, <1>7 DEF UiInvariant, NoSession, TaskKnown
<1>18. OpenKnown(g)' /\ NoneLeaks(g)'
  BY <1>12 DEF OpenKnown, NoneLeaks
<1>19. PageKnown(g)'
  BY <1>2, <1>5, <1>7, <1>12 DEF UiInvariant, PageKnown, Fetched
<1>20. Honoured(g, Spent(g))' /\ InStep(g, Ahead(g))'
  BY <1>7, <1>11, <1>12 DEF Honoured, InStep
<1>21. UiInvariant(g)'
  BY <1>14, <1>15, <1>16, <1>17, <1>18, <1>19, <1>20 DEF UiInvariant
<1> QED BY <1>3, <1>9, <1>13, <1>21, NextInvariant

\* What was read before may no longer be current; nothing else changes.
LEMMA AgedFields ==
  ASSUME res \in [Result -> Read], NEW ended \in BOOLEAN, Aged(ended)
  PROVE  /\ res' \in [Result -> Read]
         /\ \A r \in Result :
              /\ res'[r].rows = res[r].rows /\ res'[r].more = res[r].more
              /\ res'[r].cursor = res[r].cursor /\ res'[r].edit = res[r].edit
              /\ res'[r].size = res[r].size
              /\ res'[r].current = (res[r].current /\ ~ended)
<1>1. ASSUME NEW r \in Result
      PROVE  /\ res'[r] \in Read
             /\ res'[r].rows = res[r].rows /\ res'[r].more = res[r].more
             /\ res'[r].cursor = res[r].cursor /\ res'[r].edit = res[r].edit
             /\ res'[r].size = res[r].size
             /\ res'[r].current = (res[r].current /\ ~ended)
  <2>1. PICK a : a = res[r]
    OBVIOUS
  <2>2. PICK now : now = (a.current /\ ~ended)
    OBVIOUS
  <2>3. PICK b : b = [a EXCEPT !.current = now]
    OBVIOUS
  <2>4. res'[r] = b
    BY <2>1, <2>2, <2>3 DEF Aged
  <2>5. a \in Read /\ now \in BOOLEAN
    BY <2>1, <2>2 DEF Read
  <2>6. /\ b \in Read /\ b.rows = a.rows /\ b.more = a.more /\ b.cursor = a.cursor
        /\ b.edit = a.edit /\ b.size = a.size /\ b.current = now
    BY <2>3, <2>5 DEF Read
  <2> QED BY <2>1, <2>2, <2>4, <2>6
<1>2. res' \in [Result -> Read]
  BY <1>1 DEF Aged
<1> QED BY <1>1, <1>2

\* An answer without a page or results of its own says how the task ended and what
\* became of the session.
LEMMA PlainReply ==
  ASSUME op \in Operation, NEW reply \in {"ok"} \cup Failures,
         Reply([op EXCEPT !.reply = reply]), NEW o, o = op'
  PROVE  /\ o \in Operation /\ o.kind = op.kind /\ o.tab = op.tab /\ o.of = op.of
         /\ o.full = op.full /\ o.rows = op.rows /\ o.cursor = op.cursor /\ o.cancel = op.cancel
         /\ o.news = op.news /\ o.page = op.page /\ o.reply = reply /\ o.reply # "pending"
         /\ o.up = (conn' = "open")
<1>1. PICK up : up = (conn' = "open")
  OBVIOUS
<1>2. PICK x : x = [op EXCEPT !.reply = reply]
  OBVIOUS
<1>3. up \in BOOLEAN
  BY <1>1
<1>4. /\ x \in Operation /\ x.kind = op.kind /\ x.tab = op.tab /\ x.of = op.of
      /\ x.full = op.full /\ x.rows = op.rows /\ x.cursor = op.cursor /\ x.cancel = op.cancel
      /\ x.news = op.news /\ x.page = op.page /\ x.reply = reply
  BY <1>2 DEF Operation
<1>5. o = [x EXCEPT !.up = up]
  BY <1>1, <1>2 DEF Reply
<1>6. /\ o \in Operation /\ o.kind = x.kind /\ o.tab = x.tab /\ o.of = x.of
      /\ o.full = x.full /\ o.rows = x.rows /\ o.cursor = x.cursor /\ o.cancel = x.cancel
      /\ o.news = x.news /\ o.page = x.page /\ o.reply = x.reply /\ o.up = up
  BY <1>3, <1>4, <1>5 DEF Operation
<1>7. reply # "pending"
  BY DEF Failures
<1> QED BY <1>1, <1>4, <1>6, <1>7

\* No page is under way when the operation is of another kind.
LEMMA NoPage ==
  ASSUME NEW o, op' = o, ~Fetching(o)
  PROVE  PageKnown(Ui)'
BY DEF PageKnown, Ui, Fetching

\* What the worker knows before it runs a task.
LEMMA BeforeTask ==
  ASSUME IInv
  PROVE  /\ Session /\ op \in Operation /\ res \in [Result -> Read]
         /\ (conn = "none" => open = << >>)
         /\ \A r \in DOMAIN open : open[r].at < open[r].size
<1>1. Ui \in UiRecord /\ UiInvariant(Ui) /\ Session /\ Ui.op = op /\ Ui.res = res
  BY UiIs DEF IInv
<1> QED BY <1>1, UiFields DEF UiInvariant, NoSession, OpenKnown

\* The registry may stay as it is,
LEMMA RegistryStays ==
  ASSUME UNCHANGED open, Session, Session', NEW o, o.kind # "connect",
         ~(o.kind = "rollback" /\ o.reply = "ok"), conn = "none" => open = << >>,
         \A r \in DOMAIN open : open[r].at < open[r].size,
         conn' = "none" => conn = "none", conn' = "open" => conn # "dead"
  PROVE  Remaining(o)
<1>1. \A r \in DOMAIN open' : /\ r \in DOMAIN open /\ open'[r].size = open[r].size
                               /\ open'[r].at < open'[r].size
                               /\ open'[r].at = open[r].at
  OBVIOUS
<1>2. DOMAIN open' = DOMAIN open /\ (conn' = "none" => open' = << >>)
  OBVIOUS
<1> QED BY <1>1, <1>2 DEF Remaining

\* or lose all its cursors.
LEMMA RegistryEmptied ==
  ASSUME open' = << >>, Session', NEW o, o.kind \in {"connect", "rollback"},
         o.kind = "rollback" => o.reply = "ok" /\ UNCHANGED conn /\ conn # "dead"
  PROVE  Remaining(o)
<1>1. DOMAIN open' = {}
  OBVIOUS
<1> QED BY <1>1 DEF Remaining, Fetching

\* A task that has nothing to do with cursors.
LEMMA OtherRunsKeeps ==
  ASSUME IInv, OtherRuns
  PROVE  IInv'
<1>1. PICK reply \in {"ok"} \cup Failures :
        /\ IF reply = "ok" THEN Connected ELSE StatementFailed
        /\ Aged(conn' # conn)
        /\ Reply([op EXCEPT !.reply = reply])
  BY DEF OtherRuns
<1>2. /\ Serving("task") /\ op.kind \in {"explain", "other"} /\ UNCHANGED <<tabs, ui, worker>>
      /\ UNCHANGED open
  BY DEF OtherRuns, Task
<1>3. PICK o : o = op'
  OBVIOUS
<1>4. PICK ended \in BOOLEAN : ended = (conn' # conn)
  OBVIOUS
<1>5. /\ Session /\ op \in Operation /\ res \in [Result -> Read]
      /\ (conn = "none" => open = << >>)
      /\ \A r \in DOMAIN open : open[r].at < open[r].size
  BY BeforeTask
<1>6. /\ o \in Operation /\ o.kind = op.kind /\ o.tab = op.tab /\ o.of = op.of
      /\ o.full = op.full /\ o.rows = op.rows /\ o.cursor = op.cursor /\ o.cancel = op.cancel
      /\ o.news = op.news /\ o.reply # "pending" /\ o.up = (conn' = "open")
  BY <1>1, <1>3, <1>5, PlainReply
<1>7. Aged(ended)
  BY <1>1, <1>4
<1>8. /\ res' \in [Result -> Read]
      /\ \A r \in Result :
           /\ res'[r].rows = res[r].rows /\ res'[r].more = res[r].more
           /\ res'[r].cursor = res[r].cursor /\ res'[r].edit = res[r].edit
           /\ res'[r].size = res[r].size
           /\ res'[r].current = (res[r].current /\ ~ended)
  BY <1>5, <1>7, AgedFields
<1>9. /\ conn' \in {"open", "dead", "none"} /\ (conn' = "none" => conn = "none")
      /\ (conn' = "open" => conn # "dead")
  BY <1>1, <1>5 DEF Session, Connected, StatementFailed, Failed
<1>10. Session'
  BY <1>2, <1>5, <1>9 DEF Session
<1>11. \A r \in Result : conn' = conn => res'[r].current = res[r].current
  BY <1>4, <1>5, <1>8 DEF Read
<1>12. Answers(o)
  <2>1. Marked(o)
    BY <1>2, <1>3, <1>5, <1>6, <1>8, <1>9, <1>10, <1>11 DEF Marked
  <2>2. Aging(o)
    BY <1>2, <1>3, <1>5, <1>6, <1>8, <1>9, <1>10, <1>11 DEF Aging
  <2>3. Remaining(o)
    BY <1>2, <1>5, <1>6, <1>9, <1>10, RegistryStays
  <2> QED BY <2>1, <2>2, <2>3 DEF Answers
<1>13. PageKnown(Ui)'
  BY <1>2, <1>3, <1>6, NoPage DEF Fetching
<1> QED BY <1>2, <1>12, <1>13, AnswerKeeps

\* The file is written without the session.
LEMMA WriteRunsKeeps ==
  ASSUME IInv, WriteRuns
  PROVE  IInv'
<1>1. PICK reply \in {"ok", "error"} : Reply([op EXCEPT !.reply = reply])
  BY DEF WriteRuns
<1>2. /\ Serving("task") /\ op.kind = "export-write" /\ UNCHANGED <<tabs, ui, worker>>
      /\ UNCHANGED <<res, open, conn>>
  BY DEF WriteRuns, Task, sessionVars
<1>3. PICK o : o = op'
  OBVIOUS
<1>4. /\ Session /\ op \in Operation /\ res \in [Result -> Read]
      /\ (conn = "none" => open = << >>)
      /\ \A r \in DOMAIN open : open[r].at < open[r].size
  BY BeforeTask
<1>5. /\ o \in Operation /\ o.kind = op.kind /\ o.tab = op.tab /\ o.of = op.of
      /\ o.full = op.full /\ o.rows = op.rows /\ o.cursor = op.cursor /\ o.cancel = op.cancel
      /\ o.news = op.news /\ o.reply # "pending" /\ o.up = (conn' = "open")
  BY <1>1, <1>3, <1>4, PlainReply DEF Failures
<1>6. Session'
  BY <1>2, <1>4 DEF Session
<1>7. Answers(o)
  <2>1. Marked(o)
    BY <1>2, <1>3, <1>4, <1>5, <1>6 DEF Marked
  <2>2. Aging(o)
    BY <1>2, <1>3, <1>4, <1>5, <1>6 DEF Aging
  <2>3. Remaining(o)
    <3>1. (conn' = "none" => conn = "none") /\ (conn' = "open" => conn # "dead")
      BY <1>2
    <3> QED BY <1>2, <1>4, <1>5, <1>6, <3>1, RegistryStays
  <2> QED BY <2>1, <2>2, <2>3 DEF Answers
<1>8. PageKnown(Ui)'
  BY <1>2, <1>3, <1>5, NoPage DEF Fetching
<1> QED BY <1>2, <1>7, <1>8, AnswerKeeps

\* A cancelled page never gets to its cursor.
LEMMA FetchCancelledKeeps ==
  ASSUME IInv, FetchCancelled
  PROVE  IInv'
<1>1. Reply([op EXCEPT !.reply = "error"])
  BY DEF FetchCancelled
<1>2. /\ Serving("task") /\ op.kind = "export-fetch" /\ UNCHANGED <<tabs, ui, worker>>
      /\ UNCHANGED <<res, open, conn>> /\ op.cancel
  BY DEF FetchCancelled, Task, sessionVars
<1>3. PICK o : o = op'
  OBVIOUS
<1>4. /\ Session /\ op \in Operation /\ res \in [Result -> Read]
      /\ (conn = "none" => open = << >>)
      /\ \A r \in DOMAIN open : open[r].at < open[r].size
  BY BeforeTask
<1>5. /\ o \in Operation /\ o.kind = op.kind /\ o.tab = op.tab /\ o.of = op.of
      /\ o.full = op.full /\ o.rows = op.rows /\ o.cursor = op.cursor /\ o.cancel = op.cancel
      /\ o.news = op.news /\ o.reply = "error" /\ o.reply # "pending" /\ o.up = (conn' = "open")
  BY <1>1, <1>3, <1>4, PlainReply DEF Failures
<1>6. Session'
  BY <1>2, <1>4 DEF Session
<1>7. Answers(o)
  <2>1. Marked(o)
    BY <1>2, <1>3, <1>4, <1>5, <1>6 DEF Marked
  <2>2. Aging(o)
    BY <1>2, <1>3, <1>4, <1>5, <1>6 DEF Aging
  <2>3. Remaining(o)
    <3>1. (conn' = "none" => conn = "none") /\ (conn' = "open" => conn # "dead")
      BY <1>2
    <3> QED BY <1>2, <1>4, <1>5, <1>6, <3>1, RegistryStays
  <2> QED BY <2>1, <2>2, <2>3 DEF Answers
<1>8. PageKnown(Ui)'
  BY <1>2, <1>3, <1>5 DEF PageKnown, Ui
<1> QED BY <1>2, <1>7, <1>8, AnswerKeeps

\* A new session, or none: there are no results when it is asked for.
LEMMA ConnectRunsKeeps ==
  ASSUME IInv, ConnectRuns
  PROVE  IInv'
<1>1. PICK reply \in {"ok"} \cup Failures : Reply([op EXCEPT !.reply = reply])
  BY DEF ConnectRuns
<1>2. /\ Serving("task") /\ op.kind = "connect" /\ UNCHANGED <<tabs, ui, worker>>
      /\ open' = << >> /\ conn' \in {"open", "none"} /\ Aged(TRUE)
  BY DEF ConnectRuns, Task
<1>3. PICK o : o = op'
  OBVIOUS
<1>4. Session /\ op \in Operation /\ res \in [Result -> Read]
  BY BeforeTask
<1>5. /\ o \in Operation /\ o.kind = op.kind /\ o.tab = op.tab /\ o.of = op.of
      /\ o.full = op.full /\ o.rows = op.rows /\ o.cursor = op.cursor /\ o.cancel = op.cancel
      /\ o.news = op.news /\ o.reply # "pending" /\ o.up = (conn' = "open")
  BY <1>1, <1>3, <1>4, PlainReply
<1>6. /\ res' \in [Result -> Read]
      /\ \A r \in Result :
           /\ res'[r].rows = res[r].rows /\ res'[r].more = res[r].more
           /\ res'[r].cursor = res[r].cursor /\ res'[r].edit = res[r].edit
           /\ res'[r].size = res[r].size
  BY <1>2, <1>4, AgedFields
<1>7. DOMAIN open' = {}
  BY <1>2
<1>8. Session'
  BY <1>2, <1>4, <1>7 DEF Session
<1>9. Answers(o)
  <2>1. Marked(o)
    BY <1>2, <1>3, <1>5, <1>6, <1>7, <1>8 DEF Marked
  <2>2. Aging(o)
    BY <1>2, <1>3, <1>5, <1>6, <1>7, <1>8 DEF Aging
  <2>3. Remaining(o)
    BY <1>2, <1>5, <1>8, RegistryEmptied
  <2> QED BY <2>1, <2>2, <2>3 DEF Answers
<1>10. PageKnown(Ui)'
  BY <1>2, <1>3, <1>5, NoPage DEF Fetching
<1> QED BY <1>2, <1>9, <1>10, AnswerKeeps

\* A rollback closes every cursor, unless it fails.
LEMMA RollbackRunsKeeps ==
  ASSUME IInv, RollbackRuns
  PROVE  IInv'
<1>1. /\ Serving("task") /\ op.kind = "rollback" /\ UNCHANGED <<tabs, ui, worker>>
  BY DEF RollbackRuns, Task
<1>2. PICK o : o = op'
  OBVIOUS
<1>3. /\ Session /\ op \in Operation /\ res \in [Result -> Read]
      /\ (conn = "none" => open = << >>)
      /\ \A r \in DOMAIN open : open[r].at < open[r].size
  BY BeforeTask
<1>4. CASE /\ conn # "dead" /\ UNCHANGED conn /\ open' = << >> /\ Aged(TRUE)
           /\ Reply([op EXCEPT !.reply = "ok"])
  <2>1. /\ o \in Operation /\ o.kind = op.kind /\ o.tab = op.tab /\ o.of = op.of
        /\ o.full = op.full /\ o.rows = op.rows /\ o.cursor = op.cursor /\ o.cancel = op.cancel
        /\ o.news = op.news /\ o.reply = "ok" /\ o.reply # "pending" /\ o.up = (conn' = "open")
    BY <1>2, <1>3, <1>4, PlainReply
  <2>2. /\ res' \in [Result -> Read]
        /\ \A r \in Result :
             /\ res'[r].rows = res[r].rows /\ res'[r].more = res[r].more
             /\ res'[r].cursor = res[r].cursor /\ res'[r].edit = res[r].edit
             /\ res'[r].size = res[r].size
    BY <1>3, <1>4, AgedFields
  <2>3. DOMAIN open' = {}
    BY <1>4
  <2>4. Session'
    BY <1>1, <1>3, <1>4, <2>3 DEF Session
  <2>5. Answers(o)
    <3>1. Marked(o)
      BY <1>1, <1>2, <1>4, <2>1, <2>2, <2>3, <2>4 DEF Marked
    <3>2. Aging(o)
      BY <1>1, <1>2, <1>4, <2>1, <2>2, <2>3, <2>4 DEF Aging
    <3>3. Remaining(o)
      BY <1>1, <1>4, <2>1, <2>4, RegistryEmptied
    <3> QED BY <3>1, <3>2, <3>3 DEF Answers
  <2>6. PageKnown(Ui)'
    BY <1>1, <1>2, <2>1, NoPage DEF Fetching
  <2> QED BY <1>1, <2>5, <2>6, AnswerKeeps
<1>5. ASSUME NEW reply \in Failures, Failed, UNCHANGED open, Aged(conn' # conn),
             Reply([op EXCEPT !.reply = reply])
      PROVE  IInv'
  <2>1. /\ o \in Operation /\ o.kind = op.kind /\ o.tab = op.tab /\ o.of = op.of
        /\ o.full = op.full /\ o.rows = op.rows /\ o.cursor = op.cursor /\ o.cancel = op.cancel
        /\ o.news = op.news /\ o.reply = reply /\ o.reply # "pending" /\ o.up = (conn' = "open")
    BY <1>2, <1>3, <1>5, PlainReply
  <2>2. PICK ended \in BOOLEAN : ended = (conn' # conn)
    OBVIOUS
  <2>3. Aged(ended)
    BY <1>5, <2>2
  <2>4. /\ res' \in [Result -> Read]
        /\ \A r \in Result :
             /\ res'[r].rows = res[r].rows /\ res'[r].more = res[r].more
             /\ res'[r].cursor = res[r].cursor /\ res'[r].edit = res[r].edit
             /\ res'[r].size = res[r].size
             /\ res'[r].current = (res[r].current /\ ~ended)
    BY <1>3, <2>3, AgedFields
  <2>5. \A r \in Result : conn' = conn => res'[r].current = res[r].current
    BY <1>3, <2>2, <2>4 DEF Read
  <2>6. /\ conn' \in {"open", "dead", "none"} /\ (conn' = "none" => conn = "none")
        /\ (conn' = "open" => conn # "dead")
    BY <1>3, <1>5 DEF Session, Failed
  <2>7. Session'
    BY <1>1, <1>3, <1>5, <2>6 DEF Session
  <2>8. reply # "ok"
    BY DEF Failures
  <2>9. Answers(o)
    <3>1. Marked(o)
      BY <1>1, <1>2, <1>3, <1>5, <2>1, <2>4, <2>5, <2>6, <2>7, <2>8 DEF Marked
    <3>2. Aging(o)
      BY <1>1, <1>2, <1>3, <1>5, <2>1, <2>4, <2>5, <2>6, <2>7, <2>8 DEF Aging
    <3>3. Remaining(o)
      BY <1>1, <1>3, <1>5, <2>1, <2>6, <2>7, <2>8, RegistryStays
    <3> QED BY <3>1, <3>2, <3>3 DEF Answers
  <2>10. PageKnown(Ui)'
    BY <1>1, <1>2, <2>1, NoPage DEF Fetching
  <2> QED BY <1>1, <2>9, <2>10, AnswerKeeps
<1> QED BY <1>4, <1>5 DEF RollbackRuns

\* The page that is asked for is the one after the rows it is for.
LEMMA BeforePage ==
  ASSUME IInv, Serving("task"), Fetching(op)
  PROVE  /\ op.of \in Result /\ op.reply = "pending"
         /\ conn = "open" /\ op.of \in DOMAIN open =>
              /\ open[op.of].at = Len(Fetched(Ui)) /\ open[op.of].size = res[op.of].size
              /\ res[op.of].current /\ open[op.of].at < open[op.of].size
              /\ open[op.of].at \in 1..MaxRows /\ open[op.of].size \in 1..MaxRows
<1>1. PICK s : s = Ui
  OBVIOUS
<1>2. /\ Session /\ s \in UiRecord /\ UiInvariant(s) /\ s.tabs = tabs /\ s.res = res
      /\ s.ui = ui /\ s.queue = queue /\ s.op = op
  BY <1>1, UiIs DEF IInv
<1>3. op.reply = "pending"
  <2>1. PICK g : g = [s EXCEPT !.queue = Tail(s.queue)]
    OBVIOUS
  <2>2. QueueInOrder(s) /\ worker = "serving" /\ s.queue # <<>> /\ Head(s.queue).kind = "task"
    BY <1>2 DEF UiInvariant, Serving
  <2>3. g.queue = Tail(s.queue)
    BY <1>2, <2>1 DEF UiRecord
  <2> QED BY <1>2, <2>2, <2>3, QueueTaken
<1>4. op.of \in Result
  BY <1>2, UiFields DEF UiInvariant, SourceKnown, Fetching
<1>5. ASSUME conn = "open", op.of \in DOMAIN open
      PROVE  /\ open[op.of].at = Len(Fetched(s)) /\ open[op.of].size = res[op.of].size
             /\ res[op.of].current /\ open[op.of].at < open[op.of].size
             /\ open[op.of].at \in 1..MaxRows /\ open[op.of].size \in 1..MaxRows
  <2>1. open[op.of].at = Len(Fetched(s))
    BY <1>2, <1>3, <1>5 DEF UiInvariant, PageKnown
  <2>2. /\ open[op.of].size = res[op.of].size /\ res[op.of].current
        /\ open[op.of].at < open[op.of].size
    BY <1>2, <1>5 DEF UiInvariant, OpenKnown
  <2>3. open[op.of] \in [at : 1..MaxRows, size : 1..MaxRows]
    BY <1>2, <1>5 DEF Session
  <2> QED BY <2>1, <2>2, <2>3
<1> QED BY <1>1, <1>3, <1>4, <1>5

\* The worker gives the next row, or closes the cursor.
LEMMA FetchRunsKeeps ==
  ASSUME IInv, FetchRuns
  PROVE  IInv'
<1>1. /\ Serving("task") /\ Fetching(op) /\ UNCHANGED <<tabs, ui, worker>>
  BY DEF FetchRuns, Task, Fetching
<1>2. PICK o : o = op'
  OBVIOUS
<1>3. /\ Session /\ op \in Operation /\ res \in [Result -> Read]
      /\ (conn = "none" => open = << >>)
      /\ \A r \in DOMAIN open : open[r].at < open[r].size
  BY BeforeTask
<1>4. PICK x : x = op.of
  OBVIOUS
<1>5. /\ x \in Result /\ op.reply = "pending"
      /\ conn = "open" /\ x \in DOMAIN open =>
           /\ open[x].at = Len(Fetched(Ui)) /\ open[x].size = res[x].size
           /\ res[x].current /\ open[x].at < open[x].size
           /\ open[x].at \in 1..MaxRows /\ open[x].size \in 1..MaxRows
  BY <1>1, <1>4, BeforePage
<1>6. ASSUME x \in DOMAIN open, conn = "open", NEW row, NEW more,
             row = open[x].at + 1, more = MoreAfter(row, open[x].size),
             IF more THEN open' = [open EXCEPT ![x].at = row] ELSE open' = Without({x}),
             UNCHANGED <<res, conn>>,
             Reply([op EXCEPT !.reply = "ok", !.page = [row |-> row, more |-> more]])
      PROVE  IInv'
  <2>1. row \in 0..MaxRows /\ more \in BOOLEAN /\ more = (row < res[x].size) /\ row <= res[x].size
    BY <1>5, <1>6, CursorsAssumption DEF MoreAfter
  <2>2. PICK page : page = [row |-> row, more |-> more]
    OBVIOUS
  <2>3. page \in [row : 0..MaxRows, more : BOOLEAN] /\ page.row = row /\ page.more = more
    BY <2>1, <2>2
  <2>4. PICK news : news = op.news
    OBVIOUS
  <2>5. news \in Seq(Result)
    BY <1>3, <2>4 DEF Operation
  <2>6. PICK z : z = [op EXCEPT !.reply = "ok", !.page = page]
    OBVIOUS
  <2>7. /\ z \in Operation /\ z.kind = op.kind /\ z.tab = op.tab /\ z.of = op.of
        /\ z.full = op.full /\ z.rows = op.rows /\ z.cursor = op.cursor /\ z.cancel = op.cancel
        /\ z.news = op.news /\ z.page = page /\ z.reply = "ok"
    BY <1>3, <2>3, <2>6 DEF Operation
  <2>8. Reply(z)
    BY <1>6, <2>2, <2>6
  <2>9. PICK up : up = (conn' = "open")
    OBVIOUS
  <2>10. o = [z EXCEPT !.up = up] /\ up \in BOOLEAN
    BY <1>2, <2>8, <2>9 DEF Reply
  <2>11. /\ o \in Operation /\ o.kind = op.kind /\ o.tab = op.tab /\ o.of = op.of
         /\ o.full = op.full /\ o.rows = op.rows /\ o.cursor = op.cursor /\ o.cancel = op.cancel
         /\ o.news = op.news /\ o.page = page /\ o.reply = "ok" /\ o.up = up
    BY <2>7, <2>10 DEF Operation
  <2>12. Marked(o)
    BY <1>1, <1>2, <2>9, <2>11 DEF Marked, Fetching
  <2>13. Aging(o)
    BY <1>3, <1>6 DEF Aging
  <2>14. /\ DOMAIN open' \subseteq DOMAIN open /\ (more => DOMAIN open' = DOMAIN open)
         /\ ~more => x \notin DOMAIN open'
         /\ more => open'[x].at = row
         /\ \A r \in DOMAIN open : r # x => r \in DOMAIN open'
         /\ \A r \in DOMAIN open' : r # x => open'[r] = open[r]
         /\ \A r \in DOMAIN open' : /\ open'[r] \in [at : 1..MaxRows, size : 1..MaxRows]
                                    /\ open'[r].size = open[r].size
                                    /\ open'[r].at < open'[r].size
    <3>1. CASE more
      <4>1. PICK a : a = open[x]
        OBVIOUS
      <4>2. PICK b : b = [a EXCEPT !.at = row]
        OBVIOUS
      <4>3. open' = [open EXCEPT ![x] = b]
        BY <1>6, <3>1, <4>1, <4>2
      <4>4. a \in [at : 1..MaxRows, size : 1..MaxRows] /\ row \in 1..MaxRows /\ row < a.size
        BY <1>3, <1>5, <1>6, <2>1, <3>1, <4>1, CursorsAssumption DEF Session
      <4>5. /\ b \in [at : 1..MaxRows, size : 1..MaxRows] /\ b.at = row /\ b.size = a.size
        BY <4>2, <4>4
      <4>6. DOMAIN open' = DOMAIN open /\ open'[x] = b
            /\ \A r \in DOMAIN open : r # x => open'[r] = open[r]
        BY <1>6, <4>3
      <4>7. \A r \in DOMAIN open : open[r] \in [at : 1..MaxRows, size : 1..MaxRows]
        BY <1>3 DEF Session
      <4> QED BY <1>3, <3>1, <4>1, <4>4, <4>5, <4>6, <4>7
    <3>2. CASE ~more
      <4>1. DOMAIN open' = DOMAIN open \ {x} /\ \A r \in DOMAIN open' : open'[r] = open[r]
        BY <1>6, <3>2, WithoutOne
      <4> QED BY <1>3, <3>2, <4>1 DEF Session
    <3> QED BY <2>1, <3>1, <3>2
  <2>15. Session'
    BY <1>1, <1>3, <1>6, <2>14 DEF Session
  <2>16. Remaining(o)
    BY <1>1, <1>4, <1>6, <2>3, <2>11, <2>14, <2>15 DEF Remaining, Fetching
  <2>17. PageKnown(Ui)'
    <3>1. Fetched(Ui)' = Fetched(Ui)
      BY <1>2, <1>4, <1>6, <2>11 DEF Fetched, Ui
    <3>2. page.row = Len(Fetched(Ui)) + 1
      BY <1>5, <1>6, <2>3
    <3>3. /\ Ui'.op = o /\ Ui'.res = res
      BY <1>2, <1>6 DEF Ui
    <3>4. /\ page.row <= res[x].size /\ page.more = (page.row < res[x].size)
          /\ res[x].current
          /\ x \in DOMAIN open' => page.more /\ open'[x].at = page.row
      BY <1>5, <1>6, <2>1, <2>3, <2>14
    <3> QED BY <1>4, <2>11, <3>1, <3>2, <3>3, <3>4 DEF PageKnown, Failures
  <2>18. Answers(o)
    BY <2>12, <2>13, <2>16 DEF Answers
  <2> QED BY <1>1, <2>17, <2>18, AnswerKeeps
<1>7. ASSUME NEW reply \in Failures, Failed, open' = Without({x}), Aged(conn' # conn),
             Reply([op EXCEPT !.reply = reply])
      PROVE  IInv'
  <2>1. /\ o \in Operation /\ o.kind = op.kind /\ o.tab = op.tab /\ o.of = op.of
        /\ o.full = op.full /\ o.rows = op.rows /\ o.cursor = op.cursor /\ o.cancel = op.cancel
        /\ o.news = op.news /\ o.reply = reply /\ o.reply # "pending" /\ o.up = (conn' = "open")
    BY <1>2, <1>3, <1>7, PlainReply
  <2>2. PICK ended \in BOOLEAN : ended = (conn' # conn)
    OBVIOUS
  <2>3. Aged(ended)
    BY <1>7, <2>2
  <2>4. /\ res' \in [Result -> Read]
        /\ \A r \in Result :
             /\ res'[r].rows = res[r].rows /\ res'[r].more = res[r].more
             /\ res'[r].cursor = res[r].cursor /\ res'[r].edit = res[r].edit
             /\ res'[r].size = res[r].size
             /\ res'[r].current = (res[r].current /\ ~ended)
    BY <1>3, <2>3, AgedFields
  <2>5. \A r \in Result : conn' = conn => res'[r].current = res[r].current
    BY <1>3, <2>2, <2>4 DEF Read
  <2>6. /\ conn' \in {"open", "dead", "none"} /\ (conn' = "none" => conn = "none")
        /\ (conn' = "open" => conn # "dead")
    BY <1>3, <1>7 DEF Session, Failed
  <2>7. /\ DOMAIN open' = DOMAIN open \ {x} /\ (\A r \in DOMAIN open' : open'[r] = open[r])
        /\ (open = << >> => open' = << >>)
    BY <1>7, WithoutOne
  <2>8. Session'
    BY <1>1, <1>3, <1>7, <2>6, <2>7 DEF Session
  <2>9. reply # "ok"
    BY DEF Failures
  <2>10. Answers(o)
    <3>1. Marked(o)
      BY <1>1, <1>2, <2>1 DEF Marked, Fetching
    <3>2. Aging(o)
      BY <2>4, <2>5 DEF Aging
    <3>3. Remaining(o)
      BY <1>1, <1>3, <1>4, <2>1, <2>6, <2>7, <2>8, <2>9 DEF Remaining, Fetching
    <3> QED BY <3>1, <3>2, <3>3 DEF Answers
  <2>11. PageKnown(Ui)'
    <3>1. Ui'.op = o /\ x \notin DOMAIN open'
      BY <1>2, <2>7 DEF Ui
    <3> QED BY <1>4, <2>1, <2>9, <3>1 DEF PageKnown
  <2> QED BY <1>1, <2>10, <2>11, AnswerKeeps
<1>8. \/ /\ x \in DOMAIN open /\ conn = "open"
         /\ LET row == open[x].at + 1
                more == MoreAfter(row, open[x].size)
            IN  /\ IF more THEN open' = [open EXCEPT ![x].at = row] ELSE open' = Without({x})
                /\ UNCHANGED <<res, conn>>
                /\ Reply([op EXCEPT !.reply = "ok", !.page = [row |-> row, more |-> more]])
      \/ /\ Failed
         /\ open' = Without({x})
         /\ Aged(conn' # conn)
         /\ \E reply \in Failures : Reply([op EXCEPT !.reply = reply])
  BY <1>4 DEF FetchRuns, LastPage
<1> QED BY <1>6, <1>7, <1>8

\* The session ends by itself: nothing that is said of an open one matters now.
LEMMA SessionDiesKeeps ==
  ASSUME IInv, SessionDies
  PROVE  IInv'
<1>1. PICK s : s = Ui
  OBVIOUS
<1>2. /\ Session /\ s \in UiRecord /\ UiInvariant(s) /\ s.tabs = tabs /\ s.res = res
      /\ s.ui = ui /\ s.queue = queue /\ s.op = op
  BY <1>1, UiIs DEF IInv
<1>3. PICK f : f = res'
  OBVIOUS
<1>4. PICK g : g = Ui'
  OBVIOUS
<1>5. /\ conn = "open" /\ conn' = "dead" /\ Aged(TRUE)
      /\ UNCHANGED <<tabs, ui, queue, op, open, worker>>
  BY DEF SessionDies
<1>6. g = [tabs |-> s.tabs, res |-> f, ui |-> s.ui, queue |-> s.queue, op |-> s.op]
  BY <1>2, <1>3, <1>4, <1>5 DEF Ui
<1>7. g.tabs = s.tabs /\ g.res = f /\ g.ui = s.ui /\ g.queue = s.queue /\ g.op = s.op
  BY <1>6
<1>8. /\ f \in [Result -> Read]
      /\ \A r \in Result :
           /\ f[r].rows = s.res[r].rows /\ f[r].more = s.res[r].more
           /\ f[r].cursor = s.res[r].cursor /\ f[r].edit = s.res[r].edit
           /\ f[r].size = s.res[r].size
  <2>1. res \in [Result -> Read]
    BY <1>2, UiFields
  <2> QED BY <1>2, <1>3, <1>5, <2>1, AgedFields
<1>9. g \in UiRecord
  BY <1>2, <1>6, <1>8, UiFields DEF UiRecord
<1>10. Session'
  BY <1>2, <1>5 DEF Session
<1>11. /\ InTabs(s.tabs) \subseteq Result /\ Range(s.op.news) \subseteq Result
       /\ \A t \in Tab : s.tabs[t].last \in Result \cup {None}
       /\ s.op.of \in Result \cup {None} /\ DOMAIN open \subseteq Result /\ None \notin Result
       /\ \A i \in 1..Len(s.op.news) : s.op.news[i] \in Result
  <2>1. s.op \in Operation
    BY <1>2, UiFields
  <2>2. \A i \in 1..Len(s.op.news) : s.op.news[i] \in Result
    BY <2>1 DEF Operation
  <2> QED BY <1>2, <2>2, UiFields, InTabsFacts, Values DEF Session
<1>12. worker = "serving"
  BY <1>2, <1>5 DEF UiInvariant, NoSession, Session
<1>13. TabsApart(g)' /\ QueueInOrder(g)'
  BY <1>2, <1>5, <1>7, <1>8, <1>11 DEF UiInvariant, TabsApart, QueueInOrder
<1>14. ClosingLetGo(g)'
  BY <1>2, <1>7, <1>8, <1>11 DEF UiInvariant, ClosingLetGo, Queued
<1>15. NoSession(g)' /\ TaskKnown(g)'
  BY <1>2, <1>5, <1>7, <1>12 DEF UiInvariant, NoSession, TaskKnown
<1>16. Fresh(g)' /\ Honoured(g, Spent(g))' /\ InStep(g, Ahead(g))' /\ NoneLeaks(g)'
  BY <1>5 DEF Fresh, Honoured, InStep, NoneLeaks
<1>17. OpenKnown(g)'
  BY <1>2, <1>5, <1>7, <1>8, <1>11 DEF UiInvariant, OpenKnown
<1>18. RowsKnown(g)'
  BY <1>2, <1>7, <1>8 DEF UiInvariant, RowsKnown
<1>19. NewsKnown(g)'
  BY <1>2, <1>7, <1>8, <1>11 DEF UiInvariant, NewsKnown
<1>20. SourceKnown(g)'
  BY <1>2, <1>7 DEF UiInvariant, SourceKnown
<1>21. s.op.kind \in {"more", "export-fetch", "export-write"} => s.op.of \in Result
  BY <1>2, <1>11 DEF UiInvariant, SourceKnown
<1>22. SourceHeld(g)' /\ ExportKnown(g)'
  BY <1>2, <1>5, <1>7, <1>8, <1>21 DEF UiInvariant, SourceHeld, ExportKnown, Fetching
<1>23. PageKnown(g)'
  <2>1. Fetching(s.op) => s.op.of \in Result
    BY <1>21 DEF Fetching
  <2>2. Fetching(s.op) => Fetched(g) = Fetched(s)
    BY <1>7, <1>8, <2>1 DEF Fetched
  <2>3. ASSUME Fetching(s.op), s.op.reply = "ok"
        PROVE  /\ s.op.page.row = Len(Fetched(g)) + 1 /\ s.op.page.row <= f[s.op.of].size
               /\ s.op.page.more = (s.op.page.row < f[s.op.of].size)
               /\ s.op.of \in DOMAIN open => s.op.page.more /\ open[s.op.of].at = s.op.page.row
    BY <1>2, <1>8, <2>1, <2>2, <2>3 DEF UiInvariant, PageKnown
  <2> QED BY <1>5, <1>7, <2>3 DEF PageKnown, Fetched, Fetching
<1>24. UiInvariant(g)'
  BY <1>13, <1>14, <1>15, <1>16, <1>17, <1>18, <1>19, <1>20, <1>22, <1>23 DEF UiInvariant
<1> QED BY <1>4, <1>9, <1>10, <1>24, NextInvariant

\* The worker ends, and with it the session and what was asked of it.
LEMMA WorkerDiesKeeps ==
  ASSUME IInv, WorkerDies
  PROVE  IInv'
<1>1. PICK s : s = Ui
  OBVIOUS
<1>2. /\ Session /\ s \in UiRecord /\ UiInvariant(s) /\ s.tabs = tabs /\ s.res = res
      /\ s.ui = ui /\ s.queue = queue /\ s.op = op
  BY <1>1, UiIs DEF IInv
<1>3. PICK f : f = res'
  OBVIOUS
<1>4. PICK g : g = Ui'
  OBVIOUS
<1>5. PICK o : o = op'
  OBVIOUS
<1>6. /\ worker = "serving" /\ worker' = "gone" /\ queue' = <<>> /\ conn' = "none"
      /\ open' = << >> /\ Aged(TRUE) /\ UNCHANGED <<tabs, ui>>
      /\ o = IF op.kind # "none" /\ op.reply = "pending"
             THEN [op EXCEPT !.reply = "error", !.up = FALSE] ELSE op
  BY <1>5 DEF WorkerDies, Busy
<1>7. PICK z : z = <<>> /\ z \in Seq(Cmd) /\ Len(z) = 0
  <2>1. \A x : x = <<>> => x \in Seq(Cmd) /\ Len(x) = 0
    OBVIOUS
  <2> QED BY <2>1
<1>8. g = [tabs |-> s.tabs, res |-> f, ui |-> s.ui, queue |-> z, op |-> o]
  BY <1>2, <1>3, <1>4, <1>5, <1>6, <1>7 DEF Ui
<1>9. g.tabs = s.tabs /\ g.res = f /\ g.ui = s.ui /\ g.queue = z /\ g.op = o
  BY <1>8
<1>10. /\ f \in [Result -> Read]
       /\ \A r \in Result :
            /\ f[r].rows = s.res[r].rows /\ f[r].more = s.res[r].more
            /\ f[r].cursor = s.res[r].cursor /\ f[r].edit = s.res[r].edit
            /\ f[r].size = s.res[r].size
  <2>1. res \in [Result -> Read]
    BY <1>2, UiFields
  <2> QED BY <1>2, <1>3, <1>6, <2>1, AgedFields
<1>11. op \in Operation
  BY <1>2, UiFields
<1>12. /\ o \in Operation /\ o.kind = op.kind /\ o.tab = op.tab /\ o.of = op.of
       /\ o.full = op.full /\ o.rows = op.rows /\ o.cursor = op.cursor /\ o.cancel = op.cancel
       /\ o.news = op.news /\ o.page = op.page
       /\ (op.kind = "none" \/ op.reply # "pending" => o = op)
       /\ (op.kind # "none" /\ op.reply = "pending" => o.reply = "error" /\ ~o.up)
  BY <1>6, <1>11 DEF Operation, Failures
<1>13. g \in UiRecord
  BY <1>2, <1>7, <1>8, <1>10, <1>12, UiFields DEF UiRecord
<1>14. DOMAIN open' = {}
  BY <1>6
<1>15. Session'
  BY <1>2, <1>6, <1>14 DEF Session
<1>16. /\ InTabs(s.tabs) \subseteq Result
       /\ \A t \in Tab : s.tabs[t].last \in Result \cup {None}
       /\ op.of \in Result \cup {None} /\ None \notin Result
       /\ \A i \in 1..Len(op.news) : op.news[i] \in Result
  <2>1. \A i \in 1..Len(op.news) : op.news[i] \in Result
    BY <1>11 DEF Operation
  <2> QED BY <1>2, <2>1, UiFields, InTabsFacts, Values
<1>17. TabsApart(g)'
  BY <1>2, <1>9, <1>10, <1>16 DEF UiInvariant, TabsApart
<1>18. QueueInOrder(g)' /\ ClosingLetGo(g)'
  BY <1>7, <1>9 DEF QueueInOrder, ClosingLetGo, Queued
<1>19. NoSession(g)'
  BY <1>2, <1>6, <1>9, <1>12 DEF UiInvariant, NoSession
<1>20. TaskKnown(g)'
  BY <1>6, <1>9 DEF TaskKnown
<1>21. Fresh(g)' /\ Honoured(g, Spent(g))' /\ InStep(g, Ahead(g))' /\ NoneLeaks(g)' /\ OpenKnown(g)'
  BY <1>6, <1>14 DEF Fresh, Honoured, InStep, NoneLeaks, OpenKnown
<1>22. RowsKnown(g)'
  BY <1>2, <1>9, <1>10 DEF UiInvariant, RowsKnown
<1>23. NewsKnown(g)'
  <2>1. /\ op.news # <<>> => op.kind = "execute" /\ op.reply # "pending"
        /\ \A r \in Range(op.news) : r \notin InTabs(s.tabs)
        /\ \A i \in 1..Len(op.news) : s.res[op.news[i]].cursor => i = Len(op.news)
        /\ op.kind = "execute" => op.of = None
        /\ IsInjective(op.news)
    BY <1>2 DEF UiInvariant, NewsKnown
  <2>2. op.news # <<>> => o.reply # "pending"
    BY <1>12, <2>1
  <2> QED BY <1>9, <1>10, <1>12, <1>16, <2>1, <2>2 DEF NewsKnown
<1>24. SourceKnown(g)'
  BY <1>2, <1>9, <1>12 DEF UiInvariant, SourceKnown
<1>25. op.kind \in {"more", "export-fetch", "export-write"} => op.of \in Result
  BY <1>2, <1>16 DEF UiInvariant, SourceKnown
<1>26. SourceHeld(g)' /\ ExportKnown(g)'
  <2>1. SourceHeld(g)'
    BY <1>6 DEF SourceHeld
  <2>2. ExportKnown(g)'
    BY <1>2, <1>9, <1>10, <1>12, <1>25 DEF UiInvariant, ExportKnown
  <2> QED BY <2>1, <2>2
<1>27. PageKnown(g)'
  <2>1. Fetching(op) => op.of \in Result
    BY <1>25 DEF Fetching
  <2>2. Fetching(op) => Fetched(g) = Fetched(s)
    BY <1>2, <1>9, <1>10, <1>12, <2>1 DEF Fetched
  <2>3. ASSUME Fetching(op), o.reply = "ok"
        PROVE  /\ o.page.row = Len(Fetched(g)) + 1 /\ o.page.row <= f[o.of].size
               /\ o.page.more = (o.page.row < f[o.of].size)
    <3>1. o = op
      BY <1>12, <2>3
    <3> QED BY <1>2, <1>10, <2>1, <2>2, <2>3, <3>1 DEF UiInvariant, PageKnown
  <2> QED BY <1>6, <1>9, <1>12, <1>14, <2>3 DEF PageKnown, Fetched, Fetching
<1>28. UiInvariant(g)'
  BY <1>17, <1>18, <1>19, <1>20, <1>21, <1>22, <1>23, <1>24, <1>26, <1>27 DEF UiInvariant
<1> QED BY <1>4, <1>13, <1>15, <1>28, NextInvariant

\* The results of a script are new: nothing refers to them, and no cursor of
\* theirs is open or about to be closed.
LEMMA UnusedFacts ==
  ASSUME IInv, NEW list \in BoundedSeq(Unused, 2), op.news = <<>>
  PROVE  /\ list \in Seq(Result) /\ Len(list) \in Nat /\ Range(list) \subseteq Unused
         /\ \A i \in 1..Len(list) : list[i] \in Range(list)
         /\ \A r \in Range(list) : /\ r \in Result /\ r \notin InTabs(tabs) /\ r # op.of
                                   /\ r \notin DOMAIN open /\ ~Queued(Ui, Command("close", r))
         /\ list = <<>> => Range(list) = {}
<1>1. PICK m \in 0..2 : list \in [1..m -> Unused]
  BY DEF BoundedSeq, SeqOf
<1>2. m \in Nat
  OBVIOUS
<1>3. list \in Seq(Unused) /\ Len(list) = m
  <2>1. list \in Seq(Unused)
    BY <1>1, <1>2, SeqDef
  <2> QED BY <1>1, <1>2, <2>1, LenProperties
<1>4. Unused \subseteq Result
  BY DEF Unused
<1>5. /\ list \in Seq(Result) /\ Range(list) \subseteq Unused
      /\ \A i \in 1..Len(list) : list[i] \in Range(list)
  BY <1>1, <1>2, <1>3, <1>4 DEF Range
<1>6. ASSUME NEW r \in Unused
      PROVE  /\ r \in Result /\ r \notin InTabs(tabs) /\ r # op.of /\ r \notin DOMAIN open
             /\ ~Queued(Ui, Command("close", r))
  <2>1. /\ r \in Result /\ r \notin InTabs(tabs) /\ r # op.of
        /\ r \notin DOMAIN open /\ r \notin Closing
    BY <1>6 DEF Unused
  <2>2. Command("close", r).of = r
    BY DEF Command
  <2> QED BY <2>1, <2>2, UiIs DEF Closing, Queued
<1>7. list = <<>> => Range(list) = {}
  <2>1. \A x : x = <<>> => Range(x) = {}
    BY DEF Range
  <2> QED BY <2>1
<1> QED BY <1>2, <1>3, <1>5, <1>6, <1>7

\* A new result has the first row of its query.
LEMMA FirstRow ==
  ASSUME NEW z, z = << 1 >>
  PROVE  z \in Rows /\ Len(z) = 1 /\ z = [i \in 1..Len(z) |-> i]
<1>1. Len(z) = 1 /\ z = [i \in 1..Len(z) |-> i] /\ z \in [1..1 -> {1}]
  OBVIOUS
<1>2. 1 \in 0..MaxRows /\ 1 \in 1..MaxRows
  BY CursorsAssumption
<1>3. z \in [1..1 -> 1..MaxRows]
  BY <1>1, <1>2
<1>4. z \in Rows
  BY <1>2, <1>3 DEF Rows, BoundedSeq, SeqOf
<1> QED BY <1>1, <1>4

\* What a script leaves: its results, of which the last one may have a cursor.
Scripted(f, o, list, kept) ==
  /\ o \in Operation /\ o.kind = op.kind /\ o.tab = op.tab /\ o.of = op.of /\ o.full = op.full
  /\ o.rows = op.rows /\ o.cursor = op.cursor /\ o.cancel = op.cancel /\ o.news = list
  /\ o.reply # "pending" /\ o.up = (conn' = "open")
  /\ list \in Seq(Result) /\ IsInjective(list) /\ Range(list) \subseteq Unused
  /\ kept \subseteq Range(list) /\ (list # <<>> => kept \subseteq {Last(list)})
  /\ f \in [Result -> Read]
  /\ \A r \in Range(list) :
       /\ f[r].rows = << 1 >> /\ (~f[r].more => f[r].size = 1) /\ f[r].size \in 1..MaxRows
       /\ f[r].cursor = (r \in kept) /\ (r \in kept => 1 < f[r].size)
       /\ f[r].current = (conn' = "open")
  /\ \A r \in Result : r \notin Range(list) =>
       /\ f[r].rows = res[r].rows /\ f[r].more = res[r].more
       /\ f[r].cursor = res[r].cursor /\ f[r].edit = res[r].edit
       /\ f[r].size = res[r].size /\ (conn' = conn => f[r].current = res[r].current)
  /\ DOMAIN open' = DOMAIN open \cup kept
  /\ \A r \in DOMAIN open : open'[r] = open[r]
  /\ \A r \in kept : open'[r].at = 1 /\ open'[r].size = f[r].size
  /\ open = << >> /\ kept = {} => open' = << >>
  /\ conn' = "none" => conn = "none" /\ list = <<>>
  /\ conn' = "open" => conn # "dead"

\* It keeps the invariant.
LEMMA ScriptKeeps ==
  ASSUME IInv, Serving("task"), op.kind = "execute", UNCHANGED <<tabs, ui, worker>>,
         Session', NEW f, res' = f, NEW o, op' = o, NEW list \in BoundedSeq(Unused, 2), NEW kept,
         Scripted(f, o, list, kept)
  PROVE  IInv'
<1>1. PICK s : s = Ui
  OBVIOUS
<1>2. /\ Session /\ s \in UiRecord /\ UiInvariant(s) /\ s.tabs = tabs /\ s.res = res
      /\ s.ui = ui /\ s.queue = queue /\ s.op = op
  BY <1>1, UiIs DEF IInv
<1>3. PICK g : g = Ui'
  OBVIOUS
<1>4. PICK z : z = Tail(s.queue)
  OBVIOUS
<1>5. /\ worker = "serving" /\ worker' = "serving" /\ s.queue # <<>> /\ queue' = z
      /\ Head(s.queue).kind = "task"
  BY <1>2, <1>4 DEF Serving
<1>6. g = [tabs |-> s.tabs, res |-> f, ui |-> s.ui, queue |-> z, op |-> o]
  BY <1>2, <1>3, <1>5 DEF Ui
<1>7. g.tabs = s.tabs /\ g.res = f /\ g.ui = s.ui /\ g.queue = z /\ g.op = o
  BY <1>6
<1>8. /\ z \in Seq(Cmd)
      /\ \A c : Queued(g, c) => Queued(s, c)
      /\ \A c : Queued(s, c) => Queued(g, c) \/ c = Head(s.queue)
      /\ op.kind # "none" /\ op.reply = "pending"
      /\ \A i \in 1..Len(z) : z[i].kind = "close"
  <2>1. QueueInOrder(s) /\ g.queue = Tail(s.queue)
    BY <1>2, <1>4, <1>7 DEF UiInvariant
  <2>2. /\ g.queue \in Seq(Cmd)
        /\ \A c : Queued(g, c) => Queued(s, c)
        /\ \A c : Queued(s, c) => Queued(g, c) \/ c = Head(s.queue)
        /\ Head(s.queue).kind = "task" =>
             /\ s.op.kind # "none" /\ s.op.reply = "pending"
             /\ \A i \in 1..Len(g.queue) : g.queue[i].kind = "close"
    BY <1>2, <1>5, <2>1, QueueTaken
  <2> QED BY <1>2, <1>5, <1>7, <2>2
<1>9. op.news = <<>> /\ Range(op.news) = {}
  <2>1. \A x : x = <<>> => Range(x) = {}
    BY DEF Range
  <2> QED BY <1>2, <1>8, <2>1 DEF UiInvariant, NewsKnown
<1>10. PICK new : new = Range(list)
  OBVIOUS
<1>11. /\ list \in Seq(Result) /\ Len(list) \in Nat
       /\ \A i \in 1..Len(list) : list[i] \in new
       /\ \A r \in new : /\ r \in Result /\ r \notin InTabs(tabs) /\ r # op.of
                         /\ r \notin DOMAIN open /\ ~Queued(s, Command("close", r))
       /\ list = <<>> => new = {}
  BY <1>1, <1>9, <1>10, UnusedFacts
<1>12. /\ o \in Operation /\ o.kind = "execute" /\ o.tab = op.tab /\ o.of = op.of
       /\ o.rows = op.rows /\ o.news = list /\ o.reply # "pending" /\ o.up = (conn' = "open")
       /\ IsInjective(list) /\ kept \subseteq new /\ (list # <<>> => kept \subseteq {Last(list)})
       /\ f \in [Result -> Read]
  BY <1>10 DEF Scripted
<1>13. \A r \in new :
         /\ f[r].rows = << 1 >> /\ (~f[r].more => f[r].size = 1) /\ f[r].size \in 1..MaxRows
         /\ f[r].cursor = (r \in kept) /\ (r \in kept => 1 < f[r].size)
         /\ f[r].current = (conn' = "open")
  BY <1>10 DEF Scripted
<1>14. \A r \in Result : r \notin new =>
         /\ f[r].rows = res[r].rows /\ f[r].more = res[r].more
         /\ f[r].cursor = res[r].cursor /\ f[r].edit = res[r].edit
         /\ f[r].size = res[r].size /\ (conn' = conn => f[r].current = res[r].current)
  BY <1>10 DEF Scripted
<1>15. /\ DOMAIN open' = DOMAIN open \cup kept
       /\ \A r \in DOMAIN open : open'[r] = open[r]
       /\ \A r \in kept : open'[r].at = 1 /\ open'[r].size = f[r].size
       /\ conn' = "none" => conn = "none" /\ list = <<>>
       /\ conn' = "open" => conn # "dead"
  BY DEF Scripted
<1>16. g \in UiRecord
  BY <1>2, <1>6, <1>8, <1>12, UiFields DEF UiRecord
<1>17. /\ InTabs(s.tabs) \subseteq Result /\ DOMAIN open \subseteq Result
       /\ \A t \in Tab : s.tabs[t].last \in Result \cup {None}
       /\ \A r \in InTabs(s.tabs) : r \notin new
       /\ \A t \in Tab : s.tabs[t].last # None =>
            s.tabs[t].last \in Result /\ s.tabs[t].last \notin new
  <2>1. /\ InTabs(s.tabs) \subseteq Result /\ DOMAIN open \subseteq Result
        /\ \A t \in Tab : s.tabs[t].last \in Result \cup {None}
    BY <1>2, UiFields, InTabsFacts DEF Session
  <2>2. \A r \in InTabs(s.tabs) : r \notin new
    BY <1>2, <1>11
  <2>3. \A t \in Tab : s.tabs[t].last # None =>
          s.tabs[t].last \in Result /\ s.tabs[t].last \in InTabs(s.tabs)
    BY <1>2, <2>1, UiFields, InTabsFacts
  <2> QED BY <2>1, <2>2, <2>3
<1>18. /\ conn = "none" => InTabs(s.tabs) = {} /\ open = << >> /\ DOMAIN open = {}
       /\ conn' = "open" => conn = "none" \/ (conn = "open" /\ conn' = conn)
  <2>1. conn = "none" => InTabs(s.tabs) = {} /\ open = << >>
    BY <1>2, <1>5 DEF UiInvariant, NoSession
  <2> QED BY <1>2, <1>15, <2>1 DEF Session
<1>19. TabsApart(g)'
  BY <1>2, <1>7, <1>14, <1>17 DEF UiInvariant, TabsApart
<1>20. QueueInOrder(g)'
  BY <1>5, <1>7, <1>8 DEF QueueInOrder
<1>21. ClosingLetGo(g)'
  <2>1. ASSUME NEW r \in Result, Queued(g, Command("close", r))
        PROVE  r \notin new /\ (r \in InTabs(s.tabs) => ~f[r].cursor)
    <3>1. Queued(s, Command("close", r))
      BY <1>8, <2>1
    <3>2. r \in InTabs(s.tabs) => ~res[r].cursor
      BY <1>2, <3>1 DEF UiInvariant, ClosingLetGo
    <3> QED BY <1>11, <1>14, <3>1, <3>2
  <2>2. ~Queued(g, Command("closeAll", None))
    <3>1. Command("closeAll", None).kind # "close"
      BY DEF Command
    <3> QED BY <1>7, <1>8, <3>1 DEF Queued
  <2> QED BY <1>7, <1>10, <1>12, <2>1, <2>2 DEF ClosingLetGo, Queued
<1>22. NoSession(g)'
  <2>1. ASSUME conn' = "none" PROVE open' = << >> /\ InTabs(s.tabs) = {} /\ list = <<>>
    <3>1. conn = "none" /\ list = <<>>
      BY <1>15, <2>1
    <3>2. new = {} /\ kept = {} /\ DOMAIN open' = {}
      BY <1>11, <1>12, <1>15, <1>18, <3>1
    <3>3. open' = << >>
      BY <1>18, <3>1, <3>2 DEF Scripted
    <3> QED BY <1>18, <3>1, <3>3
  <2> QED BY <1>5, <1>7, <1>12, <2>1 DEF NoSession
<1>23. conn = "open" => \A r \in InTabs(s.tabs) : (res[r].cursor \/ res[r].edit) => res[r].current
  BY <1>2, <1>8 DEF UiInvariant, Fresh
<1>24. Fresh(g)'
  BY <1>7, <1>10, <1>12, <1>13, <1>14, <1>17, <1>18, <1>23 DEF Fresh
<1>25. \A r \in DOMAIN open : /\ open[r].at < open[r].size
                              /\ r \in InTabs(s.tabs) \cup {op.of} =>
                                   open[r].size = res[r].size /\ (conn = "open" => res[r].current)
  BY <1>2 DEF UiInvariant, OpenKnown
<1>26. OpenKnown(g)'
  <2>1. \A r \in DOMAIN open' : open'[r].at < open'[r].size
    BY <1>12, <1>13, <1>15, <1>25
  <2>2. ASSUME NEW r \in DOMAIN open', r \in new
        PROVE  open'[r].size = f[r].size /\ (conn' = "open" => f[r].current)
    BY <1>11, <1>13, <1>15, <2>2
  <2>3. ASSUME NEW r \in DOMAIN open', r \notin new, r \in InTabs(s.tabs) \cup {op.of}
        PROVE  open'[r].size = f[r].size /\ (conn' = "open" => f[r].current)
    <3>1. r \in DOMAIN open /\ r \in Result
      BY <1>12, <1>15, <1>17, <2>3
    <3> QED BY <1>14, <1>15, <1>18, <1>25, <2>3, <3>1
  <2> QED BY <1>7, <1>10, <1>12, <2>1, <2>2, <2>3 DEF OpenKnown
<1>27. RowsKnown(g)'
  <2>1. ASSUME NEW r \in new
        PROVE  /\ f[r].rows = [i \in 1..Len(f[r].rows) |-> i] /\ Len(f[r].rows) <= f[r].size
               /\ ~f[r].more => Len(f[r].rows) = f[r].size
    <3>1. PICK x : x = << 1 >>
      OBVIOUS
    <3>2. x \in Rows /\ Len(x) = 1 /\ x = [i \in 1..Len(x) |-> i]
      BY <3>1, FirstRow
    <3>3. PICK n : n = f[r].size
      OBVIOUS
    <3>4. n \in 1..MaxRows /\ 1 <= n /\ (~f[r].more => n = 1) /\ f[r].rows = x
      BY <1>13, <3>1, <3>3, CursorsAssumption
    <3> QED BY <3>2, <3>3, <3>4
  <2>2. ASSUME NEW r \in Result, r \notin new
        PROVE  /\ f[r].rows = [i \in 1..Len(f[r].rows) |-> i] /\ Len(f[r].rows) <= f[r].size
               /\ ~f[r].more => Len(f[r].rows) = f[r].size
    <3>1. /\ s.res[r].rows = [i \in 1..Len(s.res[r].rows) |-> i]
          /\ Len(s.res[r].rows) <= s.res[r].size
          /\ ~s.res[r].more => Len(s.res[r].rows) = s.res[r].size
      BY <1>2 DEF UiInvariant, RowsKnown
    <3> QED BY <1>2, <1>14, <2>2, <3>1
  <2> QED BY <1>7, <2>1, <2>2 DEF RowsKnown
<1>28. NoneLeaks(g)'
  <2>1. ASSUME conn' = "open", NEW r \in DOMAIN open'
        PROVE  \/ r \in InTabs(s.tabs) \cup new /\ f[r].cursor
               \/ Queued(g, Command("close", r)) \/ Queued(g, Command("closeAll", None))
    <3>1. CASE r \in kept
      BY <1>12, <1>13, <3>1
    <3>2. CASE r \in DOMAIN open
      <4>1. conn = "open"
        BY <1>18, <2>1, <3>2
      <4>2. \/ r \in InTabs(s.tabs) /\ res[r].cursor
            \/ Queued(s, Command("close", r)) \/ Queued(s, Command("closeAll", None))
        BY <1>2, <1>9, <3>2, <4>1 DEF UiInvariant, NoneLeaks
      <4>3. Command("close", r) # Head(s.queue) /\ Command("closeAll", None) # Head(s.queue)
        BY <1>5 DEF Command
      <4> QED BY <1>8, <1>14, <1>17, <4>2, <4>3
    <3> QED BY <1>15, <2>1, <3>1, <3>2
  <2> QED BY <1>7, <1>10, <1>12, <2>1 DEF NoneLeaks, Queued
<1>29. NewsKnown(g)'
  <2>1. ASSUME NEW i \in 1..Len(list), f[list[i]].cursor PROVE i = Len(list)
    <3>1. list[i] \in kept
      BY <1>11, <1>13, <2>1
    <3>2. list # <<>> /\ Len(list) \in 1..Len(list)
      BY <1>11, <2>1
    <3>3. list[i] = list[Len(list)]
      BY <1>12, <3>1, <3>2 DEF Last
    <3> QED BY <1>11, <1>12, <3>2, <3>3 DEF IsInjective
  <2>2. op.of = None
    BY <1>2 DEF UiInvariant, NewsKnown
  <2>3. \A r \in Range(list) : r \notin InTabs(s.tabs)
    BY <1>10, <1>17
  <2> QED BY <1>7, <1>12, <2>1, <2>2, <2>3 DEF NewsKnown
<1>30. SourceKnown(g)' /\ SourceHeld(g)' /\ ExportKnown(g)' /\ PageKnown(g)' /\ TaskKnown(g)'
  <2>1. op.tab \in Tab
    BY <1>2 DEF UiInvariant, SourceKnown
  <2>2. op.rows = [i \in 1..Len(op.rows) |-> i] /\ Len(op.rows) <= MaxRows
    BY <1>2 DEF UiInvariant, ExportKnown
  <2> QED BY <1>7, <1>12, <2>1, <2>2
          DEF SourceKnown, SourceHeld, ExportKnown, PageKnown, TaskKnown, Fetching
<1>31. ASSUME conn' = "open", NEW r \in InTabs(s.tabs) \cup new, f[r].cursor
       PROVE  r \in DOMAIN open' /\ open'[r].at = Len(f[r].rows)
  <2>1. CASE r \in new
    <3>1. PICK x : x = << 1 >>
      OBVIOUS
    <3>2. Len(x) = 1
      BY <3>1
    <3> QED BY <1>13, <1>15, <1>31, <2>1, <3>1, <3>2
  <2>2. CASE r \in InTabs(s.tabs)
    <3>1. conn = "open" /\ r \in Result /\ r \notin new
      BY <1>17, <1>18, <1>31, <2>2
    <3>2. r \notin Spent(s) /\ r \notin Ahead(s)
      BY <1>2 DEF Spent, Ahead, Fetching
    <3>3. res[r].cursor
      BY <1>14, <1>31, <3>1
    <3>4. r \in DOMAIN open /\ open[r].at = Len(res[r].rows)
      BY <1>2, <2>2, <3>1, <3>2, <3>3 DEF UiInvariant, Honoured, InStep
    <3> QED BY <1>14, <1>15, <3>1, <3>4
  <2> QED BY <1>31, <2>1, <2>2
<1>32. Honoured(g, Spent(g))' /\ InStep(g, Ahead(g))'
  BY <1>7, <1>10, <1>12, <1>31 DEF Honoured, InStep
<1>33. UiInvariant(g)'
  BY <1>19, <1>20, <1>21, <1>22, <1>24, <1>26, <1>27, <1>28, <1>29, <1>30, <1>32 DEF UiInvariant
<1> QED BY <1>3, <1>16, <1>33, NextInvariant

\* The statements of a script run.
LEMMA ExecuteRunsKeeps ==
  ASSUME IInv, ExecuteRuns
  PROVE  IInv'
<1>1. /\ Serving("task") /\ op.kind = "execute" /\ UNCHANGED <<tabs, ui, worker>>
  BY DEF ExecuteRuns, Task
<1>2. /\ Session /\ op \in Operation /\ res \in [Result -> Read]
  BY BeforeTask
<1>3. op.news = <<>>
  <2>1. PICK s : s = Ui
    OBVIOUS
  <2>2. /\ s \in UiRecord /\ UiInvariant(s) /\ s.queue = queue /\ s.op = op
    BY <2>1, UiIs DEF IInv
  <2>3. PICK g : g = [s EXCEPT !.queue = Tail(s.queue)]
    OBVIOUS
  <2>4. QueueInOrder(s) /\ worker = "serving" /\ s.queue # <<>> /\ Head(s.queue).kind = "task"
    BY <1>1, <2>2 DEF UiInvariant, Serving
  <2>5. g.queue = Tail(s.queue)
    BY <2>2, <2>3 DEF UiRecord
  <2>6. op.reply = "pending"
    BY <2>2, <2>4, <2>5, QueueTaken
  <2> QED BY <2>2, <2>6 DEF UiInvariant, NewsKnown
<1>4. PICK list \in BoundedSeq(Unused, 2),
           sizes \in [Unused -> 1..MaxRows], reply \in {"ok"} \cup Failures :
        LET paged == {r \in Range(list) : MoreAfter(1, sizes[r])}
            new == [r \in Range(list) |->
                      [rows |-> << 1 >>, more |-> r \in paged, edit |-> TRUE,
                       cursor |-> r \in paged \cap KeptOpen(list),
                       size |-> sizes[r], current |-> conn' = "open"]]
        IN  /\ IsInjective(list)
            /\ \A r \in Unused \ Range(list) : sizes[r] = 1
            /\ \/ reply = "ok" /\ Connected
               \/ reply # "ok" /\ list = <<>> /\ StatementFailed
               \/ reply # "ok" /\ list # <<>> /\ conn # "dead" /\ conn' \in {"open", "dead"}
            /\ res' = [r \in Result |->
                 IF r \in Range(list) THEN new[r]
                 ELSE [res[r] EXCEPT !.current = @ /\ conn' = conn]]
            /\ open' = [r \in DOMAIN open \cup (paged \cap KeptOpen(list)) |->
                 IF r \in DOMAIN open THEN open[r] ELSE [at |-> 1, size |-> sizes[r]]]
            /\ Reply([op EXCEPT !.reply = reply, !.news = list])
  BY DEF ExecuteRuns
<1>5. PICK paged, kept, up : /\ paged = {r \in Range(list) : MoreAfter(1, sizes[r])}
                             /\ kept = paged \cap KeptOpen(list) /\ up = (conn' = "open")
  OBVIOUS
<1>6. PICK new : new = [r \in Range(list) |->
                          [rows |-> << 1 >>, more |-> r \in paged, edit |-> TRUE,
                           cursor |-> r \in kept, size |-> sizes[r], current |-> up]]
  OBVIOUS
<1>7. /\ IsInjective(list)
      /\ \/ reply = "ok" /\ Connected
         \/ reply # "ok" /\ list = <<>> /\ StatementFailed
         \/ reply # "ok" /\ list # <<>> /\ conn # "dead" /\ conn' \in {"open", "dead"}
      /\ res' = [r \in Result |->
           IF r \in Range(list) THEN new[r] ELSE [res[r] EXCEPT !.current = @ /\ conn' = conn]]
      /\ open' = [r \in DOMAIN open \cup kept |->
           IF r \in DOMAIN open THEN open[r] ELSE [at |-> 1, size |-> sizes[r]]]
      /\ Reply([op EXCEPT !.reply = reply, !.news = list])
  BY <1>4, <1>5, <1>6
<1>8. PICK f, o : f = res' /\ o = op'
  OBVIOUS
<1>9. /\ list \in Seq(Result) /\ Len(list) \in Nat /\ Range(list) \subseteq Unused
      /\ \A r \in Range(list) : r \in Result /\ r \notin DOMAIN open
      /\ list = <<>> => Range(list) = {}
  BY <1>3, UnusedFacts
<1>10. /\ conn' \in {"open", "dead", "none"}
       /\ conn' = "none" => conn = "none" /\ list = <<>>
       /\ conn' = "open" => conn # "dead"
  BY <1>2, <1>7 DEF Connected, StatementFailed, Failed, Session
<1>11. /\ kept \subseteq Range(list) /\ (list # <<>> => kept \subseteq {Last(list)})
       /\ \A r \in kept : r \in paged
       /\ \A r \in Range(list) : r \in paged <=> 1 < sizes[r]
  BY <1>5 DEF KeptOpen, MoreAfter
<1>12. ASSUME NEW r \in Range(list)
       PROVE  /\ f[r] \in Read
              /\ f[r].rows = << 1 >> /\ (~f[r].more => f[r].size = 1) /\ f[r].size \in 1..MaxRows
              /\ f[r].cursor = (r \in kept) /\ (r \in kept => 1 < f[r].size)
              /\ f[r].current = (conn' = "open") /\ f[r].size = sizes[r]
  <2>1. PICK x : x = << 1 >>
    OBVIOUS
  <2>2. x \in Rows
    BY <2>1, FirstRow
  <2>3. PICK more, cursor : more = (r \in paged) /\ cursor = (r \in kept)
    OBVIOUS
  <2>4. PICK n : n = sizes[r]
    OBVIOUS
  <2>5. n \in 1..MaxRows /\ n \in 0..MaxRows /\ (more <=> 1 < n) /\ (~more => n = 1)
    <3>1. n \in 1..MaxRows
      BY <1>9, <2>4
    <3>2. more <=> 1 < n
      BY <1>11, <2>3, <2>4
    <3>3. n \in Nat /\ n >= 1 /\ n \in 0..MaxRows
      BY <3>1, CursorsAssumption
    <3> QED BY <3>1, <3>2, <3>3
  <2>6. f[r] = [rows |-> x, more |-> more, edit |-> TRUE, cursor |-> cursor, size |-> n,
                current |-> up]
    BY <1>6, <1>7, <1>8, <1>9, <2>1, <2>3, <2>4
  <2>7. /\ f[r].rows = x /\ f[r].more = more /\ f[r].cursor = cursor /\ f[r].size = n
        /\ f[r].current = up
    BY <2>6
  <2>8. f[r] \in Read
    BY <1>5, <2>2, <2>3, <2>5, <2>6 DEF Read
  <2> QED BY <1>5, <1>11, <2>1, <2>3, <2>4, <2>5, <2>7, <2>8
<1>13. ASSUME NEW r \in Result, r \notin Range(list)
       PROVE  /\ f[r] \in Read
              /\ f[r].rows = res[r].rows /\ f[r].more = res[r].more
              /\ f[r].cursor = res[r].cursor /\ f[r].edit = res[r].edit
              /\ f[r].size = res[r].size /\ (conn' = conn => f[r].current = res[r].current)
  <2>1. PICK a : a = res[r]
    OBVIOUS
  <2>2. PICK now : now = (a.current /\ conn' = conn)
    OBVIOUS
  <2>3. PICK b : b = [a EXCEPT !.current = now]
    OBVIOUS
  <2>4. f[r] = b
    BY <1>7, <1>8, <1>13, <2>1, <2>2, <2>3
  <2>5. a \in Read /\ now \in BOOLEAN
    BY <1>2, <2>1, <2>2 DEF Read
  <2>6. /\ b \in Read /\ b.rows = a.rows /\ b.more = a.more /\ b.cursor = a.cursor
        /\ b.edit = a.edit /\ b.size = a.size /\ b.current = now
    BY <2>3, <2>5 DEF Read
  <2>7. conn' = conn => now = a.current
    BY <2>2, <2>5 DEF Read
  <2> QED BY <2>1, <2>4, <2>6, <2>7
<1>14. f \in [Result -> Read]
  <2>1. \A r \in Result : f[r] \in Read
    BY <1>12, <1>13
  <2> QED BY <1>7, <1>8, <2>1
<1>15. /\ DOMAIN open' = DOMAIN open \cup kept
       /\ \A r \in DOMAIN open : open'[r] = open[r]
       /\ \A r \in kept : open'[r] = [at |-> 1, size |-> sizes[r]]
       /\ open = << >> /\ kept = {} => open' = << >>
  <2>1. \A r \in kept : r \notin DOMAIN open
    BY <1>9, <1>11
  <2>2. ASSUME open = << >>, kept = {} PROVE open' = << >>
    <3>1. DOMAIN open \cup kept = {}
      BY <2>2
    <3> QED BY <1>7, <3>1
  <2> QED BY <1>7, <2>1, <2>2
<1>16. \A r \in kept : /\ open'[r].at = 1 /\ open'[r].size = f[r].size
                       /\ open'[r] \in [at : 1..MaxRows, size : 1..MaxRows]
  <2>1. 1 \in 1..MaxRows
    BY CursorsAssumption
  <2>2. \A r \in kept : r \in Range(list) /\ sizes[r] \in 1..MaxRows /\ f[r].size = sizes[r]
    BY <1>9, <1>11, <1>12
  <2> QED BY <1>15, <2>1, <2>2
<1>17. Session'
  <2>1. DOMAIN open' \subseteq Result
    BY <1>2, <1>9, <1>11, <1>15 DEF Session
  <2>2. \A r \in DOMAIN open' : open'[r] \in [at : 1..MaxRows, size : 1..MaxRows]
    BY <1>2, <1>15, <1>16 DEF Session
  <2> QED BY <1>1, <1>2, <1>10, <2>1, <2>2 DEF Session
<1>18. PICK x : x = [op EXCEPT !.reply = reply, !.news = list]
  OBVIOUS
<1>19. /\ x \in Operation /\ x.kind = op.kind /\ x.tab = op.tab /\ x.of = op.of
       /\ x.full = op.full /\ x.rows = op.rows /\ x.cursor = op.cursor /\ x.cancel = op.cancel
       /\ x.news = list /\ x.reply = reply
  BY <1>2, <1>9, <1>18 DEF Operation
<1>20. o = [x EXCEPT !.up = up] /\ up \in BOOLEAN
  BY <1>5, <1>7, <1>8, <1>18 DEF Reply
<1>21. /\ o \in Operation /\ o.kind = op.kind /\ o.tab = op.tab /\ o.of = op.of
       /\ o.full = op.full /\ o.rows = op.rows /\ o.cursor = op.cursor /\ o.cancel = op.cancel
       /\ o.news = list /\ o.reply = reply /\ o.up = up
  BY <1>19, <1>20 DEF Operation
<1>22. reply # "pending"
  BY DEF Failures
<1>23. Scripted(f, o, list, kept)
  BY <1>5, <1>7, <1>9, <1>10, <1>11, <1>12, <1>13, <1>14, <1>15, <1>16, <1>21, <1>22 DEF Scripted
<1> QED BY <1>1, <1>8, <1>17, <1>23, ScriptKeeps

\* The worker runs a command.
LEMMA WorkerStepKeeps ==
  ASSUME IInv, WorkerSteps
  PROVE  IInv'
BY CloseRunsKeeps, CloseAllRunsKeeps, ExecuteRunsKeeps, OtherRunsKeeps, FetchCancelledKeeps,
   FetchRunsKeeps, RollbackRunsKeeps, ConnectRunsKeeps, WriteRunsKeeps DEF WorkerSteps

-----------------------------------------------------------------------------
(* The invariant and what follows from it.                                 *)

\* It holds at the start: no tab shows anything, and nothing is under way.
LEMMA InitKeeps ==
  ASSUME Init
  PROVE  IInv
<1>1. PICK s : s = Ui
  OBVIOUS
<1>2. PICK q : q = <<>> /\ q \in Seq(Cmd) /\ Len(q) = 0 /\ Range(q) = {} /\ IsInjective(q)
  <2>1. \A z : z = <<>> => /\ z \in Seq(Cmd) /\ Len(z) = 0 /\ Range(z) = {}
                           /\ IsInjective(z)
    BY DEF Range, IsInjective
  <2> QED BY <2>1
<1>3. s = [tabs |-> tabs, res |-> res, ui |-> TRUE, queue |-> q, op |-> Idle]
  BY <1>1, <1>2 DEF Init, Ui
<1>4. s.tabs = tabs /\ s.res = res /\ s.ui = TRUE /\ s.queue = q /\ s.op = Idle
  BY <1>3
<1>5. /\ tabs \in [Tab -> Shown] /\ InTabs(tabs) = {}
      /\ \A t \in Tab : tabs[t].active = None /\ tabs[t].last = None
  BY BlankTabs DEF Init
<1>6. res \in [Result -> Read] /\ \A r \in Result : res[r] = Unread
  BY Values DEF Init
<1>7. s \in UiRecord
  BY <1>2, <1>3, <1>5, <1>6, Values DEF UiRecord
<1>8. DOMAIN open = {} /\ conn = "open" /\ worker = "serving"
  BY DEF Init
<1>9. Session
  BY <1>8 DEF Session
<1>10. /\ Idle.kind = "none" /\ Idle.of = None /\ Idle.rows = q /\ Idle.reply = "pending"
       /\ Idle.news = q
  BY <1>2, Values
<1>11. TabsApart(s) /\ NoSession(s)
  BY <1>4, <1>5, <1>8, <1>10 DEF TabsApart, NoSession
<1>12. QueueInOrder(s) /\ ClosingLetGo(s)
  BY <1>2, <1>4 DEF QueueInOrder, ClosingLetGo, Queued
<1>13. Fresh(s) /\ Honoured(s, Spent(s)) /\ InStep(s, Ahead(s))
  BY <1>2, <1>4, <1>5, <1>10 DEF Fresh, Honoured, InStep
<1>14. OpenKnown(s) /\ NoneLeaks(s)
  BY <1>8 DEF OpenKnown, NoneLeaks
<1>15. RowsKnown(s)
  <2>1. q = [i \in 1..Len(q) |-> i]
    BY <1>2
  <2>2. \A r \in Result : res[r].rows = q /\ res[r].size = 0
    BY <1>2, <1>6, Values
  <2> QED BY <1>2, <1>4, <2>1, <2>2 DEF RowsKnown
<1>16. NewsKnown(s) /\ SourceKnown(s) /\ SourceHeld(s)
  BY <1>2, <1>4, <1>10 DEF NewsKnown, SourceKnown, SourceHeld, Fetching
<1>17. ExportKnown(s) /\ PageKnown(s) /\ TaskKnown(s)
  <2>1. q = [i \in 1..Len(q) |-> i]
    BY <1>2
  <2> QED BY <1>2, <1>4, <1>10, <2>1, CursorsAssumption
          DEF ExportKnown, PageKnown, TaskKnown, Fetching, Done
<1>18. UiInvariant(s)
  BY <1>11, <1>12, <1>13, <1>14, <1>15, <1>16, <1>17 DEF UiInvariant
<1> QED BY <1>1, <1>7, <1>9, <1>18 DEF IInv

\* Every step keeps it.
LEMMA StepKeeps ==
  ASSUME IInv, [Next]_vars
  PROVE  IInv'
<1>1. ASSUME NEW t \in Tab, UserSteps(t) PROVE IInv'
  BY <1>1, UserStepKeeps
<1>2. CASE Interrupt
  BY <1>2, InterruptKeeps
<1>3. CASE WorkerSteps
  BY <1>3, WorkerStepKeeps
<1>4. CASE SessionDies
  BY <1>4, SessionDiesKeeps
<1>5. CASE WorkerDies
  BY <1>5, WorkerDiesKeeps
<1>6. CASE Completions
  BY <1>6, CompletionStepKeeps
<1>7. CASE UNCHANGED vars
  <2>1. PICK g : g = Ui
    OBVIOUS
  <2>2. Ui' = g
    BY <1>7, <2>1 DEF vars, Ui
  <2>3. Session /\ g \in UiRecord /\ UiInvariant(g)
    BY <2>1 DEF IInv
  <2>4. UNCHANGED <<open, conn, worker>>
    BY <1>7 DEF vars
  <2> QED BY <2>2, <2>3, <2>4, SameSession
<1> QED BY <1>1, <1>2, <1>3, <1>4, <1>5, <1>6, <1>7 DEF Next

\* The UI's lists, the queue and the session's registry fit together in every
\* state, whatever completes, fails, is interrupted or dies in between
\* (result_presenter.py, result_export.py, db_operations.py, execution.py).
THEOREM InvariantHolds == Spec => []IInv
<1>1. Init => IInv
  BY InitKeeps
<1>2. IInv /\ [Next]_vars => IInv'
  BY StepKeeps
<1> QED BY <1>1, <1>2, PTL DEF Spec

\* Every variable keeps to its set.
THEOREM TypeCorrect == Spec => []TypeOK
<1>1. IInv => TypeOK
  <2> SUFFICES ASSUME IInv PROVE TypeOK
    OBVIOUS
  <2>1. Ui \in UiRecord /\ Session
    BY DEF IInv
  <2>2. /\ tabs \in [Tab -> Shown] /\ res \in [Result -> Read] /\ ui \in BOOLEAN
        /\ queue \in Seq(Cmd) /\ op \in Operation
    BY <2>1, UiIs, UiFields
  <2>3. queue \in Seq([kind : {"task", "close", "closeAll"}, of : Result \cup {None}])
    <3>1. PICK S : S = [kind : {"task", "close", "closeAll"}, of : Result \cup {None}]
      OBVIOUS
    <3>2. \A c \in Cmd : c \in S
      BY <3>1 DEF Cmd
    <3>3. Len(queue) \in Nat /\ queue \in [1..Len(queue) -> S]
      BY <2>2, <3>2, LenProperties
    <3>4. queue \in Seq(S)
      BY <3>3, SeqDef
    <3> QED BY <3>1, <3>4
  <2>4. Range(open) \subseteq [at : 1..MaxRows, size : 1..MaxRows]
    BY <2>1 DEF Session, Range
  <2> QED BY <2>1, <2>2, <2>3, <2>4 DEF TypeOK, Session, Read, Operation
<1> QED BY <1>1, InvariantHolds, PTL

\* No row is skipped or taken twice, though the grid and an export share one
\* cursor and either may stop half-way.
THEOREM NoRowsSkippedHolds == Spec => []NoRowsSkipped
<1>1. IInv => NoRowsSkipped
  <2> SUFFICES ASSUME IInv PROVE NoRowsSkipped
    OBVIOUS
  <2>1. RowsKnown(Ui) /\ ExportKnown(Ui)
    BY DEF IInv, UiInvariant
  <2> QED BY <2>1, UiIs DEF RowsKnown, ExportKnown, NoRowsSkipped
<1> QED BY <1>1, InvariantHolds, PTL

\* Once everything asked of the worker is done, the cursors open on the session
\* are exactly those whose tokens the results of tabs hold.
THEOREM CursorsMatchResultsHolds == Spec => []CursorsMatchResults
<1>1. IInv => CursorsMatchResults
  <2> SUFFICES ASSUME IInv, ~Busy, queue = <<>>, conn = "open"
               PROVE  DOMAIN open = {r \in InTabs(tabs) : res[r].cursor}
    BY DEF CursorsMatchResults
  <2>1. PICK s : s = Ui
    OBVIOUS
  <2>2. /\ Session /\ s \in UiRecord /\ s.op = Idle /\ Good(s, {}, {}, FALSE)
        /\ s.tabs = tabs /\ s.res = res /\ s.queue = queue
    BY <2>1, IdleUi, UiIs
  <2>3. Range(s.op.news) = {}
    <3>1. \A z : z = <<>> => Range(z) = {}
      BY DEF Range
    <3> QED BY <2>2, <3>1, Values
  <2>4. \A c : ~Queued(s, c)
    BY <2>2 DEF Queued
  <2>5. \A r \in DOMAIN open : r \in InTabs(tabs) /\ res[r].cursor
    BY <2>2, <2>3, <2>4 DEF Good, NoneLeaks
  <2>6. \A r \in InTabs(tabs) : res[r].cursor => r \in DOMAIN open
    BY <2>2, <2>3 DEF Good, Honoured
  <2> QED BY <2>5, <2>6
<1> QED BY <1>1, InvariantHolds, PTL

\* An export of all available rows that reaches the file writer has every row
\* of its query.
THEOREM FullExportCompleteHolds == Spec => []FullExportComplete
<1>1. IInv => FullExportComplete
  <2> SUFFICES ASSUME IInv, op.kind = "export-write", op.full
               PROVE  op.rows = [i \in 1..res[op.of].size |-> i]
    BY DEF FullExportComplete
  <2>1. ExportKnown(Ui)
    BY DEF IInv, UiInvariant
  <2> QED BY <2>1, UiIs DEF ExportKnown
<1> QED BY <1>1, InvariantHolds, PTL

\* A result read before a rollback, a lost session or a reconnect is never left
\* with a cursor or an editing handle.
THEOREM StaleResultsInertHolds == Spec => []StaleResultsInert
<1>1. IInv => StaleResultsInert
  <2> SUFFICES ASSUME IInv, ~Busy, conn = "open", NEW r \in InTabs(tabs),
                      res[r].cursor \/ res[r].edit
               PROVE  res[r].current
    BY DEF StaleResultsInert
  <2>1. Fresh(Ui)
    BY DEF IInv, UiInvariant
  <2> QED BY <2>1, UiIs DEF Fresh, Busy
<1> QED BY <1>1, InvariantHolds, PTL
=============================================================================
