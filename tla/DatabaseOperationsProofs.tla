---------------------- MODULE DatabaseOperationsProofs ----------------------
(***************************************************************************)
(* Proofs about DatabaseWorker, for any number of commands, any effect of  *)
(* a task, any failure of a snapshot or of an event sink; and then about   *)
(* DatabaseOperations, for any number of commands and of workers: what the *)
(* UI thread believes of the worker stays true whatever the two do between *)
(* each other's steps.                                                     *)
(***************************************************************************)
EXTENDS DatabaseOperations, SequenceTheorems, TLAPS

-----------------------------------------------------------------------------
(* The worker.                                                             *)

\* The records the thread builds have their types.
LEMMA Values ==
  /\ NoSession \in Session
  /\ \A s \in Session : [s EXCEPT !.connected = FALSE] \in Session
  /\ \A s \in Session : [s EXCEPT !.pending = FALSE] \in Session
  /\ \A s \in Session : s.pending \in BOOLEAN
  /\ \A b \in BOOLEAN : [connected |-> FALSE, pending |-> b] \in Session
  /\ Progress \in Event
  /\ \A o \in Outcome, s \in Session : Finished(o, s) \in Event
<1>1. NoSession \in Session
  BY DEF Session, NoSession
<1>2. \A s \in Session : [s EXCEPT !.connected = FALSE] \in Session
  BY DEF Session
<1>3. \A s \in Session : [s EXCEPT !.pending = FALSE] \in Session
  BY DEF Session
<1>4. \A s \in Session : s.pending \in BOOLEAN
  BY DEF Session
<1>5. \A b \in BOOLEAN : [connected |-> FALSE, pending |-> b] \in Session
  BY DEF Session
<1>6. Progress \in Event
  BY DEF Event
<1>7. \A o \in Outcome, s \in Session : Finished(o, s) \in Event
  BY DEF Event
<1> QED
  BY <1>1, <1>2, <1>3, <1>4, <1>5, <1>6, <1>7

\* What the queue holds, and what Append, Head and Tail do to it.
LEMMA QueueTypes ==
  ASSUME NEW q \in Seq(Command \cup {Stop}), NEW e \in Command \cup {Stop}
  PROVE  /\ Append(q, e) \in Seq(Command \cup {Stop})
         /\ q # <<>> => /\ Head(q) \in Command \cup {Stop}
                        /\ Tail(q) \in Seq(Command \cup {Stop})
BY AppendProperties, HeadTailProperties

\* What emitting an event does to the events of a handle.
LEMMA EventTypes ==
  ASSUME NEW q \in Seq(Event), NEW e \in Event
  PROVE  Append(q, e) \in Seq(Event)
BY AppendProperties

\* Every step keeps the types of the worker, its handles and its thread.
LEMMA TypeStep ==
  ASSUME TypeOK, WorkerInvariant, [Next]_vars
  PROVE  TypeOK'
<1> USE WorkerAssumption, Values, QueueTypes
<1> USE DEF TypeOK, client, handles, flags, locals, history
<1>1. ASSUME NEW b \in BOOLEAN, Submit(b) PROVE TypeOK'
  <2>1. WorkerTypes'
    BY <1>1 DEF Submit, WorkerTypes, Command
  <2>2. HandleTypes'
    BY <1>1 DEF Submit, HandleTypes
  <2>3. ThreadTypes'
    BY <1>1 DEF Submit, ThreadTypes, PC, Outcome
  <2> QED
    BY <2>1, <2>2, <2>3
<1>2. ASSUME NEW i \in Command, NEW hit \in BOOLEAN, Cancel(i, hit) PROVE TypeOK'
  <2>1. WorkerTypes'
    BY <1>2 DEF Cancel, Hittable, WorkerTypes, ThreadTypes
  <2>2. HandleTypes'
    BY <1>2 DEF Cancel, Hittable, HandleTypes
  <2>3. ThreadTypes'
    BY <1>2 DEF Cancel, Hittable, ThreadTypes, WorkerInvariant, InHand, Command, None
  <2> QED
    BY <2>1, <2>2, <2>3
<1>3. ASSUME NEW i \in Command, Receive(i) PROVE TypeOK'
  <2>1. WorkerTypes'
    BY <1>3 DEF Receive, WorkerTypes, ThreadTypes
  <2>2. HandleTypes'
    BY <1>3 DEF Receive, HandleTypes
  <2>3. ThreadTypes'
    BY <1>3 DEF Receive, ThreadTypes, PC, Outcome
  <2> QED
    BY <2>1, <2>2, <2>3
<1>4. ASSUME NEW i \in Command, Ignore(i) PROVE TypeOK'
  <2>1. WorkerTypes'
    BY <1>4 DEF Ignore, WorkerTypes, ThreadTypes
  <2>2. HandleTypes'
    BY <1>4 DEF Ignore, HandleTypes
  <2>3. ThreadTypes'
    BY <1>4 DEF Ignore, ThreadTypes, PC, Outcome
  <2> QED
    BY <2>1, <2>2, <2>3
<1>5. CASE Shutdown
  <2>1. WorkerTypes'
    BY <1>5 DEF Shutdown, WorkerTypes, ThreadTypes
  <2>2. HandleTypes'
    BY <1>5 DEF Shutdown, HandleTypes
  <2>3. ThreadTypes'
    BY <1>5 DEF Shutdown, ThreadTypes, PC, Outcome
  <2> QED
    BY <2>1, <2>2, <2>3
<1>6. CASE ConnectionDies
  <2>1. WorkerTypes'
    BY <1>6 DEF ConnectionDies, WorkerTypes, ThreadTypes
  <2>2. HandleTypes'
    BY <1>6 DEF ConnectionDies, HandleTypes
  <2>3. ThreadTypes'
    BY <1>6 DEF ConnectionDies, ThreadTypes, PC, Outcome
  <2> QED
    BY <2>1, <2>2, <2>3
<1>7. CASE InitialSnapshot
  <2>1. WorkerTypes'
    BY <1>7 DEF InitialSnapshot, WorkerTypes, ThreadTypes
  <2>2. HandleTypes'
    BY <1>7 DEF InitialSnapshot, HandleTypes
  <2>3. ThreadTypes'
    BY <1>7 DEF InitialSnapshot, ThreadTypes, PC, Outcome
  <2> QED
    BY <2>1, <2>2, <2>3
<1>8. CASE Take
  <2>1. WorkerTypes'
    BY <1>8 DEF Take, WorkerTypes, ThreadTypes
  <2>2. HandleTypes'
    BY <1>8 DEF Take, HandleTypes
  <2>3. ThreadTypes'
    BY <1>8 DEF Take, WorkerTypes, ThreadTypes, PC, Stop, None
  <2> QED
    BY <2>1, <2>2, <2>3
<1>9. CASE Begin
  <2>1. WorkerTypes'
    BY <1>9 DEF Begin, WorkerTypes, ThreadTypes
  <2>2. HandleTypes'
    BY <1>9 DEF Begin, HandleTypes
  <2>3. ThreadTypes'
    BY <1>9 DEF Begin, ThreadTypes, WorkerInvariant, InHand, PC
  <2> QED
    BY <2>1, <2>2, <2>3
<1>10. CASE ReportProgress
  <2>1. WorkerTypes'
    BY <1>10 DEF ReportProgress, Emitted, WorkerTypes, ThreadTypes
  <2>2. HandleTypes'
    BY <1>10, EventTypes DEF ReportProgress, Emitted, HandleTypes
  <2>3. ThreadTypes'
    BY <1>10 DEF ReportProgress, Emitted, ThreadTypes, PC, Outcome
  <2> QED
    BY <2>1, <2>2, <2>3
<1>11. ASSUME NEW w \in TaskLeaves, NEW o \in {"ok", "error"}, TaskReturns(o, w)
       PROVE  TypeOK'
  <2>1. WorkerTypes'
    BY <1>11 DEF TaskReturns, WorkerTypes, ThreadTypes
  <2>2. HandleTypes'
    BY <1>11 DEF TaskReturns, HandleTypes
  <2>3. ThreadTypes'
    BY <1>11 DEF TaskReturns, ThreadTypes, PC, Outcome
  <2> QED
    BY <2>1, <2>2, <2>3
<1>12. ASSUME NEW w \in TaskLeaves, TaskCrashes(w) PROVE TypeOK'
  <2>1. WorkerTypes'
    BY <1>12 DEF TaskCrashes, WorkerTypes, ThreadTypes
  <2>2. HandleTypes'
    BY <1>12 DEF TaskCrashes, HandleTypes
  <2>3. ThreadTypes'
    BY <1>12 DEF TaskCrashes, ThreadTypes, PC, Outcome
  <2> QED
    BY <2>1, <2>2, <2>3
<1>13. CASE ClearCurrent
  <2>1. WorkerTypes'
    BY <1>13 DEF ClearCurrent, WorkerTypes, ThreadTypes
  <2>2. HandleTypes'
    BY <1>13 DEF ClearCurrent, HandleTypes
  <2>3. ThreadTypes'
    BY <1>13 DEF ClearCurrent, ThreadTypes, PC, Outcome
  <2> QED
    BY <2>1, <2>2, <2>3
<1>14. CASE Snapshot
  <2>1. WorkerTypes'
    BY <1>14 DEF Snapshot, SnapshotWith, WorkerTypes, ThreadTypes
  <2>2. HandleTypes'
    BY <1>14 DEF Snapshot, SnapshotWith, HandleTypes
  <2>3. ThreadTypes'
    BY <1>14 DEF Snapshot, SnapshotWith, WorkerTypes, ThreadTypes, PC, Outcome
  <2> QED
    BY <2>1, <2>2, <2>3
<1>15. CASE Publish
  <2>1. WorkerTypes'
    BY <1>15 DEF Publish, WorkerTypes, ThreadTypes
  <2>2. HandleTypes'
    BY <1>15 DEF Publish, HandleTypes
  <2>3. ThreadTypes'
    BY <1>15 DEF Publish, ThreadTypes, PC, Outcome
  <2> QED
    BY <2>1, <2>2, <2>3
<1>16. CASE Emit
  <2>1. WorkerTypes'
    BY <1>16 DEF Emit, Emitted, WorkerTypes, ThreadTypes
  <2>2. HandleTypes'
    <3>1. Finished(report.outcome, report.session) \in Event
      BY DEF ThreadTypes
    <3>2. \A i \in Command : events'[i] = events[i]
            \/ events'[i] = Append(events[i], Finished(report.outcome, report.session))
      BY <1>16 DEF Emit, Emitted, HandleTypes
    <3>3. events' \in [Command -> Seq(Event)]
      <4>1. \A i \in Command : events'[i] \in Seq(Event)
        BY <3>1, <3>2, EventTypes DEF HandleTypes
      <4>2. events' = [i \in Command |-> events'[i]]
        BY <1>16 DEF Emit, Emitted, HandleTypes
      <4> QED
        BY <4>1, <4>2
    <3> QED
      BY <1>16, <3>3 DEF Emit, HandleTypes
  <2>3. ThreadTypes'
    BY <1>16 DEF Emit, Emitted, ThreadTypes, PC, Outcome
  <2> QED
    BY <2>1, <2>2, <2>3
<1>17. CASE MarkDone
  <2>1. WorkerTypes'
    BY <1>17 DEF MarkDone, WorkerTypes, ThreadTypes
  <2>2. HandleTypes'
    BY <1>17 DEF MarkDone, HandleTypes
  <2>3. ThreadTypes'
    BY <1>17 DEF MarkDone, ThreadTypes, PC, Outcome
  <2> QED
    BY <2>1, <2>2, <2>3
<1>18. CASE Fail
  <2>1. WorkerTypes'
    BY <1>18 DEF Fail, WorkerTypes, ThreadTypes
  <2>2. HandleTypes'
    BY <1>18 DEF Fail, HandleTypes
  <2>3. ThreadTypes'
    BY <1>18 DEF Fail, ThreadTypes, PC, Outcome
  <2> QED
    BY <2>1, <2>2, <2>3
<1>19. CASE Drain
  <2>1. WorkerTypes'
    BY <1>19 DEF Drain, WorkerTypes, ThreadTypes
  <2>2. HandleTypes'
    BY <1>19 DEF Drain, HandleTypes
  <2>3. ThreadTypes'
    BY <1>19 DEF Drain, WorkerTypes, ThreadTypes, PC, Outcome, Stop, None
  <2> QED
    BY <2>1, <2>2, <2>3
<1>20. CASE Drained
  <2>1. WorkerTypes'
    BY <1>20 DEF Drained, WorkerTypes, ThreadTypes
  <2>2. HandleTypes'
    BY <1>20 DEF Drained, HandleTypes
  <2>3. ThreadTypes'
    BY <1>20 DEF Drained, ThreadTypes, PC, Outcome
  <2> QED
    BY <2>1, <2>2, <2>3
<1>21. CASE Close
  <2>1. WorkerTypes'
    BY <1>21 DEF Close, WorkerTypes, ThreadTypes
  <2>2. HandleTypes'
    BY <1>21 DEF Close, HandleTypes
  <2>3. ThreadTypes'
    BY <1>21 DEF Close, WorkerTypes, ThreadTypes, PC
  <2> QED
    BY <2>1, <2>2, <2>3
<1>22. CASE Exit
  <2>1. WorkerTypes'
    BY <1>22 DEF Exit, WorkerTypes, ThreadTypes
  <2>2. HandleTypes'
    BY <1>22 DEF Exit, HandleTypes
  <2>3. ThreadTypes'
    BY <1>22 DEF Exit, ThreadTypes, PC, Outcome
  <2> QED
    BY <2>1, <2>2, <2>3
<1>23. CASE UNCHANGED vars
  BY <1>23 DEF vars, WorkerTypes, HandleTypes, ThreadTypes
<1> QED
  BY <1>1, <1>2, <1>3, <1>4, <1>5, <1>6, <1>7, <1>8, <1>9, <1>10, <1>11, <1>12, <1>13, <1>14, <1>15, <1>16, <1>17, <1>18, <1>19, <1>20, <1>21, <1>22, <1>23
     DEF Next, Client, Thread, Serve, Task

-----------------------------------------------------------------------------
(* What the queue operations do to the order of the queue.                 *)

\* Only the empty queue has no item.
LEMMA OnlyEmptyHasNoItem ==
  ASSUME NEW q \in Seq(Nat)
  PROVE  q = <<>> <=> Len(q) = 0
OBVIOUS

\* A submission puts the newest command last.
LEMMA SubmitKeepsOrder ==
  ASSUME NEW q \in Seq(Nat), NEW n \in Nat \ {0}, InOrder(q, n), WaitingIn(q) = Len(q)
  PROVE  WaitingIn(Append(q, n)) = Len(q) + 1 /\ InOrder(Append(q, n), n + 1)
<1> DEFINE r == Append(q, n)
<1>a. Len(q) \in Nat
  BY LenProperties
<1>b. r \in Seq(Nat) /\ Len(r) = Len(q) + 1
  BY <1>a DEF Stop
<1>2. r[Len(r)] = n
  BY <1>a DEF Stop
<1>3. \A k \in 1..Len(q) : r[k] = q[k]
  BY <1>a DEF Stop
<1> HIDE DEF r
<1>1. r \in Seq(Nat) /\ Len(r) = Len(q) + 1 /\ r # <<>> /\ Len(q) \in Nat
  BY <1>a, <1>b, OnlyEmptyHasNoItem
<1>4. WaitingIn(r) = Len(q) + 1
  BY <1>1, <1>2 DEF WaitingIn, Stop
<1>5. InOrder(r, n + 1)
  <2>1. Len(q) < n /\ \A k \in 1..Len(q) : q[k] = n - Len(q) + k - 1
    BY <1>1 DEF InOrder
  <2>2. \A k \in 1..Len(q) : r[k] = n + 1 - (Len(q) + 1) + k - 1
    BY <1>1, <1>3, <2>1
  <2>3. r[Len(q) + 1] = n + 1 - (Len(q) + 1) + (Len(q) + 1) - 1
    BY <1>1, <1>2
  <2>4. \A k \in 1..Len(r) : r[k] = n + 1 - (Len(q) + 1) + k - 1
    BY <1>1, <2>2, <2>3
  <2> QED
    BY <1>1, <1>4, <2>1, <2>4 DEF InOrder
<1> QED BY <1>4, <1>5 DEF r

\* A shutdown puts the Stop last, behind every command.
LEMMA StopKeepsOrder ==
  ASSUME NEW q \in Seq(Nat), NEW n \in Nat \ {0}, InOrder(q, n), WaitingIn(q) = Len(q)
  PROVE  WaitingIn(Append(q, Stop)) = Len(q) /\ InOrder(Append(q, Stop), n)
<1> DEFINE r == Append(q, Stop)
<1>a. Len(q) \in Nat
  BY LenProperties
<1>b. r \in Seq(Nat) /\ Len(r) = Len(q) + 1
  BY <1>a DEF Stop
<1>2. r[Len(r)] = Stop
  BY <1>a DEF Stop
<1>3. \A k \in 1..Len(q) : r[k] = q[k]
  BY <1>a DEF Stop
<1> HIDE DEF r
<1>1. r \in Seq(Nat) /\ Len(r) = Len(q) + 1 /\ r # <<>> /\ Len(q) \in Nat
  BY <1>a, <1>b, OnlyEmptyHasNoItem
<1>4. WaitingIn(r) = Len(q)
  BY <1>1, <1>2 DEF WaitingIn
<1>5. InOrder(r, n)
  BY <1>1, <1>2, <1>3, <1>4 DEF InOrder
<1> QED BY <1>4, <1>5 DEF r

\* The thread takes the commands out one after the other, and a Stop only
\* when no command is left.
LEMMA TakeKeepsOrder ==
  ASSUME NEW q \in Seq(Nat), NEW n \in Nat \ {0}, InOrder(q, n), q # <<>>
  PROVE  /\ InOrder(Tail(q), n)
         /\ Head(q) = Stop => WaitingIn(q) = 0 /\ Len(q) = 1 /\ Tail(q) = <<>> /\ WaitingIn(Tail(q)) = 0
         /\ Head(q) # Stop => Head(q) = n - WaitingIn(q) /\ WaitingIn(Tail(q)) = WaitingIn(q) - 1 /\ WaitingIn(q) >= 1
<1> DEFINE r == Tail(q)
<1>1. r \in Seq(Nat) /\ Len(r) = Len(q) - 1 /\ Len(q) \in Nat \ {0} /\ Head(q) = q[1]
  BY HeadTailProperties, LenProperties, EmptySeq
<1>2. \A k \in 1..Len(r) : r[k] = q[k + 1]
  BY HeadTailProperties
<1>3. WaitingIn(q) \in {Len(q), Len(q) - 1}
  BY DEF WaitingIn
<1>4. r = <<>> <=> Len(r) = 0
  BY <1>1, EmptySeq
<1> HIDE DEF r
<1>5. CASE Head(q) = Stop
  <2>1. WaitingIn(q) = 0 
    BY <1>1, <1>3, <1>5 DEF InOrder, Stop
  <2>2. Len(q) = 1
    BY <1>1, <1>3, <2>1
  <2>3. r = <<>> /\ WaitingIn(r) = 0 /\ Len(r) = 0
    BY <1>1, <1>4, <2>2 DEF WaitingIn
  <2> QED
    <3>1. InOrder(r, n)
      <4>1. WaitingIn(r) < n
        BY <2>3
      <4>2. 1..Len(r) = {}
        BY <2>3
      <4> QED BY <4>1, <4>2 DEF InOrder
    <3> QED BY <3>1, <1>5, <2>1, <2>2, <2>3 DEF r
<1>6. CASE Head(q) # Stop
  <2>1. WaitingIn(q) >= 1 /\ Head(q) = n - WaitingIn(q)
    <3>1. 1 <= WaitingIn(q)
      BY <1>1, <1>3, <1>6 DEF InOrder
    <3>2. q[1] = n - WaitingIn(q) + 1 - 1
      <4>1. 1 \in 1..Len(q)
        BY <1>1
      <4>2. q[1] = IF 1 <= WaitingIn(q) THEN n - WaitingIn(q) + 1 - 1 ELSE Stop
        BY <4>1 DEF InOrder
      <4> QED BY <3>1, <4>2
    <3>3. WaitingIn(q) \in Nat
      BY <1>1, <1>3
    <3> QED BY <1>1, <3>1, <3>2, <3>3
  <2>2. WaitingIn(r) = WaitingIn(q) - 1
    <3>1. CASE Len(q) = 1
      BY <3>1, <1>1, <1>4, <1>6, <2>1 DEF WaitingIn
    <3>2. CASE Len(q) # 1
      <4>1. Len(r) \in 1..Len(r) /\ r[Len(r)] = q[Len(q)] /\ r # <<>> /\ q # <<>>
        BY <3>2, <1>1, <1>2, <1>4
      <4> QED BY <4>1, <1>1 DEF WaitingIn
    <3> QED BY <3>1, <3>2
  <2>3. InOrder(r, n)
    <3>1. \A k \in 1..Len(r) : r[k] = IF k <= WaitingIn(r) THEN n - WaitingIn(r) + k - 1 ELSE Stop
      <4> SUFFICES ASSUME NEW k \in 1..Len(r) PROVE r[k] = IF k <= WaitingIn(r) THEN n - WaitingIn(r) + k - 1 ELSE Stop
        OBVIOUS
      <4>1. k + 1 \in 1..Len(q) /\ r[k] = q[k+1]
        BY <1>1, <1>2
      <4>2. q[k+1] = IF k + 1 <= WaitingIn(q) THEN n - WaitingIn(q) + (k + 1) - 1 ELSE Stop
        BY <4>1 DEF InOrder
      <4>3. WaitingIn(q) \in Nat /\ k \in Nat
        BY <1>1, <1>3
      <4>4. n - WaitingIn(q) + (k + 1) - 1 = n - (WaitingIn(q) - 1) + k - 1
        BY <4>3
      <4> QED BY <4>1, <4>2, <4>3, <4>4, <2>2
    <3> QED BY <3>1, <2>2, <1>3, <1>1 DEF InOrder
  <2> QED
    BY <1>6, <2>1, <2>2, <2>3 DEF r
<1> QED BY <1>5, <1>6

-----------------------------------------------------------------------------
(* The invariant is inductive.                                             *)

\* The queue as a sequence of numbers, and the command to be taken next.
LEMMA QueueNumbers ==
  ASSUME TypeOK, QueueInOrder
  PROVE  /\ commands \in Seq(Nat) /\ nextId \in Nat \ {0}
         /\ WaitingIn(commands) \in Nat /\ NextTaken \in Nat \ {0}
<1>1. commands \in Seq(Nat) /\ nextId \in Nat \ {0}
  BY WorkerAssumption DEF TypeOK, WorkerTypes, Command, Stop
<1>2. Len(commands) \in Nat /\ (commands # <<>> => Len(commands) # 0)
  BY <1>1, OnlyEmptyHasNoItem
<1>3. WaitingIn(commands) \in Nat
  BY <1>2 DEF WaitingIn
<1> QED
  BY <1>1, <1>3 DEF QueueInOrder, InOrder, NextTaken

\* What leaves the queue alone leaves its order alone.
LEMMA QueueKept ==
  ASSUME QueueInOrder, UNCHANGED <<commands, nextId>>, accepting' => accepting
  PROVE  QueueInOrder' /\ NextTaken' = NextTaken
BY DEF QueueInOrder, NextTaken

\* Every step of client, network and thread keeps the invariant.
LEMMA InvariantStep ==
  ASSUME TypeOK, WorkerInvariant, [Next]_vars
  PROVE  WorkerInvariant'
<1> USE QueueNumbers DEF WorkerInvariant, client, handles, flags, locals, history, None
<1> NextTaken \in Nat \ {0}
  OBVIOUS
<1>1. ASSUME NEW b \in BOOLEAN, Submit(b) PROVE WorkerInvariant'
  <2>0. WaitingIn(commands) = Len(commands)
    BY <1>1 DEF Submit, QueueInOrder
  <2>1. QueueInOrder' /\ NextTaken' = NextTaken
    BY <1>1, <2>0, SubmitKeepsOrder DEF Submit, QueueInOrder, NextTaken
  <2>2. InHand'
    BY <1>1, <2>1 DEF Submit, InHand
  <2>3. TakenAnswered'
    BY <1>1, <2>1 DEF Submit, InHand, TakenAnswered
  <2>4. WayOut'
    BY <1>1, <2>1 DEF Submit, WayOut
  <2> QED
    BY <2>1, <2>2, <2>3, <2>4
<1>2. ASSUME NEW i \in Command, NEW hit \in BOOLEAN, Cancel(i, hit) PROVE WorkerInvariant'
  <2>1. QueueInOrder' /\ NextTaken' = NextTaken
    BY <1>2, QueueKept DEF Cancel
  <2>2. InHand'
    BY <1>2, <2>1 DEF Cancel, InHand
  <2>3. TakenAnswered'
    BY <1>2, <2>1 DEF Cancel, InHand, TakenAnswered
  <2>4. WayOut'
    BY <1>2, <2>1 DEF Cancel, WayOut
  <2> QED
    BY <2>1, <2>2, <2>3, <2>4
<1>3. ASSUME NEW i \in Command, Receive(i) PROVE WorkerInvariant'
  <2>1. QueueInOrder' /\ NextTaken' = NextTaken
    BY <1>3, QueueKept DEF Receive
  <2>2. InHand'
    BY <1>3, <2>1 DEF Receive, InHand
  <2>3. TakenAnswered'
    BY <1>3, <2>1 DEF Receive, InHand, TakenAnswered
  <2>4. WayOut'
    BY <1>3, <2>1 DEF Receive, WayOut
  <2> QED
    BY <2>1, <2>2, <2>3, <2>4
<1>4. ASSUME NEW i \in Command, Ignore(i) PROVE WorkerInvariant'
  <2>1. QueueInOrder' /\ NextTaken' = NextTaken
    BY <1>4, QueueKept DEF Ignore
  <2>2. InHand'
    BY <1>4, <2>1 DEF Ignore, InHand
  <2>3. TakenAnswered'
    BY <1>4, <2>1 DEF Ignore, InHand, TakenAnswered
  <2>4. WayOut'
    BY <1>4, <2>1 DEF Ignore, WayOut
  <2> QED
    BY <2>1, <2>2, <2>3, <2>4
<1>5. CASE Shutdown
  <2>0. WaitingIn(commands) = Len(commands)
    BY <1>5 DEF Shutdown, QueueInOrder
  <2>1. QueueInOrder' /\ NextTaken' = NextTaken
    BY <1>5, <2>0, StopKeepsOrder DEF Shutdown, QueueInOrder, NextTaken
  <2>2. InHand'
    BY <1>5, <2>1 DEF Shutdown, InHand
  <2>3. TakenAnswered'
    BY <1>5, <2>1 DEF Shutdown, InHand, TakenAnswered
  <2>4. WayOut'
    BY <1>5, <2>1 DEF Shutdown, WayOut
  <2> QED
    BY <2>1, <2>2, <2>3, <2>4
<1>6. CASE ConnectionDies
  <2>1. QueueInOrder' /\ NextTaken' = NextTaken
    BY <1>6, QueueKept DEF ConnectionDies
  <2>2. InHand'
    BY <1>6, <2>1 DEF ConnectionDies, InHand
  <2>3. TakenAnswered'
    BY <1>6, <2>1 DEF ConnectionDies, InHand, TakenAnswered
  <2>4. WayOut'
    BY <1>6, <2>1 DEF ConnectionDies, WayOut
  <2> QED
    BY <2>1, <2>2, <2>3, <2>4
<1>7. CASE InitialSnapshot
  <2>1. QueueInOrder' /\ NextTaken' = NextTaken
    BY <1>7, QueueKept DEF InitialSnapshot
  <2>2. InHand'
    BY <1>7, <2>1 DEF InitialSnapshot, InHand
  <2>3. TakenAnswered'
    BY <1>7, <2>1 DEF InitialSnapshot, InHand, TakenAnswered
  <2>4. WayOut'
    BY <1>7, <2>1 DEF InitialSnapshot, WayOut
  <2> QED
    BY <2>1, <2>2, <2>3, <2>4
<1>8. CASE Take
  <2>0. /\ InOrder(commands', nextId')
        /\ Head(commands) = Stop => commands' = <<>> /\ ~accepting /\ NextTaken' = NextTaken
        /\ Head(commands) # Stop => Head(commands) = NextTaken /\ NextTaken' = NextTaken + 1
    BY <1>8, TakeKeepsOrder DEF Take, QueueInOrder, NextTaken
  <2>1. QueueInOrder'
    BY <1>8, <2>0, TakeKeepsOrder DEF Take, QueueInOrder
  <2>2. InHand'
    <3>1. Head(commands) # Stop => Head(commands) \in Command /\ ~done[Head(commands)]
      BY <1>8, <2>0, QueueTypes DEF Take, TakenAnswered, TypeOK, WorkerTypes
    <3>2. job = None
      BY <1>8 DEF Take, InHand
    <3> QED
      BY <1>8, <2>0, <3>1, <3>2 DEF Take, InHand, Command, Stop
  <2>3. TakenAnswered'
    <3>1. job = None
      BY <1>8 DEF Take, InHand
    <3>2. CASE Head(commands) = Stop
      BY <1>8, <2>0, <3>1, <3>2 DEF Take, TakenAnswered, Stop
    <3>3. CASE Head(commands) # Stop
      BY <1>8, <2>0, <3>1, <3>3 DEF Take, TakenAnswered, Command
    <3> QED
      BY <3>2, <3>3
  <2>4. WayOut'
    BY <1>8, <2>0 DEF Take, WayOut, Stop
  <2> QED
    BY <2>1, <2>2, <2>3, <2>4
<1>9. CASE Begin
  <2>1. QueueInOrder' /\ NextTaken' = NextTaken
    BY <1>9, QueueKept DEF Begin
  <2>2. InHand'
    BY <1>9, <2>1 DEF Begin, InHand
  <2>3. TakenAnswered'
    BY <1>9, <2>1 DEF Begin, InHand, TakenAnswered
  <2>4. WayOut'
    BY <1>9, <2>1 DEF Begin, WayOut
  <2> QED
    BY <2>1, <2>2, <2>3, <2>4
<1>10. CASE ReportProgress
  <2>1. QueueInOrder' /\ NextTaken' = NextTaken
    BY <1>10, QueueKept DEF ReportProgress
  <2>2. InHand'
    BY <1>10, <2>1 DEF ReportProgress, InHand
  <2>3. TakenAnswered'
    BY <1>10, <2>1 DEF ReportProgress, InHand, TakenAnswered
  <2>4. WayOut'
    BY <1>10, <2>1 DEF ReportProgress, WayOut
  <2> QED
    BY <2>1, <2>2, <2>3, <2>4
<1>11. ASSUME NEW w \in TaskLeaves, NEW o \in {"ok", "error"}, TaskReturns(o, w)
       PROVE  WorkerInvariant'
  <2>1. QueueInOrder' /\ NextTaken' = NextTaken
    BY <1>11, QueueKept DEF TaskReturns
  <2>2. InHand'
    BY <1>11, <2>1 DEF TaskReturns, InHand
  <2>3. TakenAnswered'
    BY <1>11, <2>1 DEF TaskReturns, InHand, TakenAnswered
  <2>4. WayOut'
    BY <1>11, <2>1 DEF TaskReturns, WayOut
  <2> QED
    BY <2>1, <2>2, <2>3, <2>4
<1>12. ASSUME NEW w \in TaskLeaves, TaskCrashes(w) PROVE WorkerInvariant'
  <2>1. QueueInOrder' /\ NextTaken' = NextTaken
    BY <1>12, QueueKept DEF TaskCrashes
  <2>2. InHand'
    BY <1>12, <2>1 DEF TaskCrashes, InHand
  <2>3. TakenAnswered'
    BY <1>12, <2>1 DEF TaskCrashes, InHand, TakenAnswered, WayOut
  <2>4. WayOut'
    BY <1>12, <2>1 DEF TaskCrashes, WayOut
  <2> QED
    BY <2>1, <2>2, <2>3, <2>4
<1>13. CASE ClearCurrent
  <2>1. QueueInOrder' /\ NextTaken' = NextTaken
    BY <1>13, QueueKept DEF ClearCurrent
  <2>2. InHand'
    BY <1>13, <2>1 DEF ClearCurrent, InHand
  <2>3. TakenAnswered'
    BY <1>13, <2>1 DEF ClearCurrent, InHand, TakenAnswered
  <2>4. WayOut'
    BY <1>13, <2>1 DEF ClearCurrent, WayOut
  <2> QED
    BY <2>1, <2>2, <2>3, <2>4
<1>14. CASE Snapshot
  <2>1. QueueInOrder' /\ NextTaken' = NextTaken
    BY <1>14, QueueKept DEF Snapshot, SnapshotWith
  <2>2. InHand'
    BY <1>14, <2>1 DEF Snapshot, SnapshotWith, InHand
  <2>3. TakenAnswered'
    BY <1>14, <2>1 DEF Snapshot, SnapshotWith, InHand, TakenAnswered, WayOut
  <2>4. WayOut'
    BY <1>14, <2>1 DEF Snapshot, SnapshotWith, WayOut
  <2> QED
    BY <2>1, <2>2, <2>3, <2>4
<1>15. CASE Publish
  <2>1. QueueInOrder' /\ NextTaken' = NextTaken
    BY <1>15, QueueKept DEF Publish
  <2>2. InHand'
    BY <1>15, <2>1 DEF Publish, InHand
  <2>3. TakenAnswered'
    BY <1>15, <2>1 DEF Publish, InHand, TakenAnswered
  <2>4. WayOut'
    BY <1>15, <2>1 DEF Publish, WayOut
  <2> QED
    BY <2>1, <2>2, <2>3, <2>4
<1>16. CASE Emit
  <2>1. QueueInOrder' /\ NextTaken' = NextTaken
    BY <1>16, QueueKept DEF Emit
  <2>2. InHand'
    BY <1>16, <2>1 DEF Emit, InHand
  <2>3. TakenAnswered'
    BY <1>16, <2>1 DEF Emit, InHand, TakenAnswered
  <2>4. WayOut'
    BY <1>16, <2>1 DEF Emit, WayOut
  <2> QED
    BY <2>1, <2>2, <2>3, <2>4
<1>17. CASE MarkDone
  <2>1. QueueInOrder' /\ NextTaken' = NextTaken
    BY <1>17, QueueKept DEF MarkDone
  <2>2. InHand'
    BY <1>17, <2>1 DEF MarkDone, InHand
  <2>3. TakenAnswered'
    BY <1>17, <2>1 DEF MarkDone, InHand, TakenAnswered, TypeOK, HandleTypes
  <2>4. WayOut'
    BY <1>17, <2>1 DEF MarkDone, WayOut, TypeOK, ThreadTypes
  <2> QED
    BY <2>1, <2>2, <2>3, <2>4
<1>18. CASE Fail
  <2>1. QueueInOrder' /\ NextTaken' = NextTaken
    BY <1>18, QueueKept DEF Fail
  <2>2. InHand'
    BY <1>18, <2>1 DEF Fail, InHand
  <2>3. TakenAnswered'
    BY <1>18, <2>1 DEF Fail, InHand, TakenAnswered
  <2>4. WayOut'
    BY <1>18, <2>1 DEF Fail, WayOut
  <2> QED
    BY <2>1, <2>2, <2>3, <2>4
<1>19. CASE Drain
  <2>0. /\ InOrder(commands', nextId')
        /\ Head(commands) = Stop => commands' = <<>> /\ ~accepting /\ NextTaken' = NextTaken
        /\ Head(commands) # Stop => Head(commands) = NextTaken /\ NextTaken' = NextTaken + 1
    BY <1>19, TakeKeepsOrder DEF Drain, QueueInOrder, NextTaken
  <2>1. QueueInOrder'
    BY <1>19, <2>0, TakeKeepsOrder DEF Drain, QueueInOrder
  <2>2. InHand'
    <3>1. Head(commands) # Stop => Head(commands) \in Command /\ ~done[Head(commands)]
      BY <1>19, <2>0, QueueTypes DEF Drain, TakenAnswered, TypeOK, WorkerTypes
    <3>2. job = None
      BY <1>19 DEF Drain, InHand, WayOut
    <3> QED
      BY <1>19, <2>0, <3>1, <3>2 DEF Drain, InHand, Command, Stop, WayOut
  <2>3. TakenAnswered'
    <3>1. job = None
      BY <1>19 DEF Drain, InHand
    <3>2. CASE Head(commands) = Stop
      BY <1>19, <2>0, <3>1, <3>2 DEF Drain, TakenAnswered, Stop
    <3>3. CASE Head(commands) # Stop
      BY <1>19, <2>0, <3>1, <3>3 DEF Drain, TakenAnswered, Command, WayOut
    <3> QED
      BY <3>2, <3>3
  <2>4. WayOut'
    BY <1>19, <2>0 DEF Drain, WayOut, Stop
  <2> QED
    BY <2>1, <2>2, <2>3, <2>4
<1>20. CASE Drained
  <2>1. QueueInOrder' /\ NextTaken' = NextTaken
    BY <1>20, QueueKept DEF Drained
  <2>2. InHand'
    BY <1>20, <2>1 DEF Drained, InHand
  <2>3. TakenAnswered'
    BY <1>20, <2>1 DEF Drained, InHand, TakenAnswered
  <2>4. WayOut'
    BY <1>20, <2>1 DEF Drained, WayOut
  <2> QED
    BY <2>1, <2>2, <2>3, <2>4
<1>21. CASE Close
  <2>1. QueueInOrder' /\ NextTaken' = NextTaken
    BY <1>21, QueueKept DEF Close
  <2>2. InHand'
    BY <1>21, <2>1 DEF Close, InHand
  <2>3. TakenAnswered'
    BY <1>21, <2>1 DEF Close, InHand, TakenAnswered
  <2>4. WayOut'
    BY <1>21, <2>1 DEF Close, WayOut
  <2> QED
    BY <2>1, <2>2, <2>3, <2>4
<1>22. CASE Exit
  <2>1. QueueInOrder' /\ NextTaken' = NextTaken
    BY <1>22, QueueKept DEF Exit
  <2>2. InHand'
    BY <1>22, <2>1 DEF Exit, InHand
  <2>3. TakenAnswered'
    BY <1>22, <2>1 DEF Exit, InHand, TakenAnswered
  <2>4. WayOut'
    BY <1>22, <2>1 DEF Exit, WayOut
  <2> QED
    BY <2>1, <2>2, <2>3, <2>4
<1>23. CASE UNCHANGED vars
  <2>1. QueueInOrder' /\ NextTaken' = NextTaken
    BY <1>23, QueueKept DEF vars
  <2>2. InHand'
    BY <1>23, <2>1 DEF vars, InHand
  <2>3. TakenAnswered'
    BY <1>23, <2>1 DEF vars, InHand, TakenAnswered
  <2>4. WayOut'
    BY <1>23, <2>1 DEF vars, WayOut
  <2> QED
    BY <2>1, <2>2, <2>3, <2>4
<1> QED
  BY <1>1, <1>2, <1>3, <1>4, <1>5, <1>6, <1>7, <1>8, <1>9, <1>10, <1>11, <1>12,
     <1>13, <1>14, <1>15, <1>16, <1>17, <1>18, <1>19, <1>20, <1>21, <1>22, <1>23
     DEF Next, Client, Thread, Serve, Task

\* A new worker has its types.
LEMMA TypeInit == Init => TypeOK
<1> SUFFICES ASSUME Init PROVE TypeOK
  OBVIOUS
<1> USE WorkerAssumption, Values DEF Init, None
<1>1. WorkerTypes
  <2>1. commands \in Seq(Command \cup {Stop})
    BY EmptySeq
  <2>2. nextId \in 1..(MaxCommands + 1)
    OBVIOUS
  <2> QED
    BY <2>1, <2>2 DEF WorkerTypes
<1>2. HandleTypes
  <2>1. [i \in Command |-> <<>>] \in [Command -> Seq(Event)]
    BY EmptySeq
  <2> QED
    BY <2>1 DEF HandleTypes
<1>3. ThreadTypes
  BY DEF ThreadTypes, PC, Outcome
<1> QED
  BY <1>1, <1>2, <1>3 DEF TypeOK

\* A new worker has an empty queue and nothing in hand.
LEMMA InvariantInit == Init => WorkerInvariant
<1> SUFFICES ASSUME Init PROVE WorkerInvariant
  OBVIOUS
<1>1. WaitingIn(commands) = 0 /\ Len(commands) = 0 /\ NextTaken = 1
  BY DEF Init, WaitingIn, NextTaken
<1>2. QueueInOrder
  BY <1>1 DEF Init, QueueInOrder, InOrder
<1>3. InHand
  BY DEF Init, InHand, None
<1>4. TakenAnswered
  BY <1>1 DEF Init, TakenAnswered, Command
<1>5. WayOut
  BY DEF Init, WayOut
<1> QED
  BY <1>2, <1>3, <1>4, <1>5 DEF WorkerInvariant

-----------------------------------------------------------------------------
(* What holds in every reachable state.                                    *)

\* Types and invariant hold whatever the client, the network, the tasks and
\* the event sinks do.
THEOREM InvariantHolds == Spec => [](TypeOK /\ WorkerInvariant)
<1>1. Init => TypeOK /\ WorkerInvariant
  BY TypeInit, InvariantInit
<1>2. TypeOK /\ WorkerInvariant /\ [Next]_vars => TypeOK' /\ WorkerInvariant'
  BY TypeStep, InvariantStep
<1> QED
  BY <1>1, <1>2, PTL DEF Spec

\* Every variable of worker, handles and thread keeps its type.
THEOREM TypeCorrect == Spec => []TypeOK
BY InvariantHolds, PTL

\* Commands are executed one at a time, in the order of their acceptance,
\* through crashes and the drain that follows one.
THEOREM SerialFifoHolds == Spec => []SerialFifo
<1>1. TypeOK /\ WorkerInvariant => SerialFifo
  <2> SUFFICES ASSUME TypeOK, WorkerInvariant,
                      NEW i \in Accepted, NEW j \in Accepted, i < j, j = job \/ done[j]
               PROVE  done[i]
    BY DEF SerialFifo
  <2> USE DEF WorkerInvariant
  <2>1. i \in Command /\ j \in Command /\ i \in Nat /\ j \in Nat /\ NextTaken \in Nat
    BY QueueNumbers, WorkerAssumption DEF Accepted, Command
  <2>2. j < NextTaken
    BY <2>1 DEF InHand, TakenAnswered, None, Command
  <2>3. i # job
    BY <2>1, <2>2 DEF InHand, TakenAnswered, None, Command
  <2> QED
    BY <2>1, <2>2, <2>3 DEF TakenAnswered
<1> QED
  BY <1>1, InvariantHolds, PTL

\* A stopped worker leaves no command in the queue and no handle waiting,
\* however its end raced with the last submissions.
THEOREM NobodyStrandedHolds == Spec => []NobodyStranded
<1>1. TypeOK /\ WorkerInvariant => NobodyStranded
  <2> SUFFICES ASSUME TypeOK, WorkerInvariant, stopped
               PROVE  commands = <<>> /\ \A i \in Accepted : done[i]
    BY DEF NobodyStranded
  <2> USE DEF WorkerInvariant
  <2>1. commands = <<>> /\ pc = "exited"
    BY DEF WayOut
  <2>2. NextTaken = nextId
    BY <2>1, QueueNumbers DEF NextTaken, WaitingIn
  <2>3. job = None
    BY <2>1 DEF InHand
  <2> QED
    BY <2>1, <2>2, <2>3 DEF TakenAnswered, Accepted, None, Command
<1> QED
  BY <1>1, InvariantHolds, PTL

\* A worker that stopped without an error has run all it accepted.
THEOREM CleanShutdownDrainsHolds == Spec => []CleanShutdownDrains
<1>1. TypeOK /\ WorkerInvariant => CleanShutdownDrains
  <2> SUFFICES ASSUME TypeOK, WorkerInvariant, stopped, ~shutdownError, NEW i \in Accepted
               PROVE  i \in ran
    BY DEF CleanShutdownDrains
  <2> USE DEF WorkerInvariant
  <2>1. commands = <<>> /\ pc = "exited" /\ mode = "serving"
    BY DEF WayOut
  <2>2. NextTaken = nextId
    BY <2>1, QueueNumbers DEF NextTaken, WaitingIn
  <2> QED
    BY <2>1, <2>2 DEF TakenAnswered, Accepted
<1> QED
  BY <1>1, InvariantHolds, PTL

\* A cancel that comes too late, or early, hits no other command's call.
THEOREM InterruptHitsItsTargetHolds == Spec => []InterruptHitsItsTarget
<1>1. Init => InterruptHitsItsTarget
  BY DEF Init, InterruptHitsItsTarget
<1>2. ASSUME TypeOK, WorkerInvariant, InterruptHitsItsTarget, [Next]_vars
      PROVE  InterruptHitsItsTarget'
  <2> USE <1>2 DEF InterruptHitsItsTarget, client, handles, flags, locals, history
  <2>1. ASSUME NEW i \in Command, NEW hit \in BOOLEAN, Cancel(i, hit)
        PROVE  InterruptHitsItsTarget'
    <3>1. hit => job = i
      BY <2>1 DEF Cancel, Hittable, WorkerInvariant, InHand, Command, None
    <3> QED
      BY <2>1, <3>1 DEF Cancel
  <2>2. CASE UNCHANGED <<asked, broken>>
    BY <2>2
  <2>3. CASE UNCHANGED vars
    BY <2>3 DEF vars
  <2>4. CASE Thread
    <3>1. UNCHANGED <<asked, broken>>
      BY <2>4 DEF Thread, Serve, Task, InitialSnapshot, Take, Begin, ClearCurrent, Snapshot,
         Publish, Emit, MarkDone, Fail, Drain, Drained, Close, Exit, ReportProgress,
         TaskReturns, TaskCrashes
    <3> QED
      BY <3>1
  <2> QED
    BY <2>1, <2>2, <2>3, <2>4 DEF Next, Client, ConnectionDies, Submit, Receive, Ignore, Shutdown
<1> QED
  BY <1>1, <1>2, InvariantHolds, PTL DEF Spec

-----------------------------------------------------------------------------
(* Steps that what is published and what was promised survive.              *)

\* What the last published state rests on once the thread fails, and that no
\* command runs before it is taken.
CrashInv ==
  /\ pc = "starting" => mode = "serving"
  /\ pc = "final" /\ session.pending => preClose

RunInv ==
  \A i \in ran : i < NextTaken /\ (pc = "begin" => i # job)

\* Every step keeps what the last published state rests on.
LEMMA CrashStep ==
  ASSUME TypeOK, WorkerInvariant, CrashInv, [Next]_vars
  PROVE  CrashInv'
<1> USE DEF CrashInv, client, handles, flags, locals, history
<1>1. CASE Client \/ ConnectionDies \/ UNCHANGED vars
  <2>1. UNCHANGED <<pc, mode, session, preClose>>
    BY <1>1 DEF Client, Submit, Cancel, Receive, Ignore, Shutdown, ConnectionDies, vars
  <2> QED BY <2>1
<1>2. CASE Close
  BY <1>2 DEF Close
<1>3. CASE InitialSnapshot \/ Take \/ Begin \/ ClearCurrent \/ Snapshot \/ Publish \/ Emit
           \/ MarkDone \/ Fail \/ Drain \/ Drained \/ Exit \/ ReportProgress \/ Task
  <2>1. pc' \notin {"starting", "final"}
    BY <1>3 DEF InitialSnapshot, Take, Begin, ClearCurrent, Snapshot, Publish, Emit, MarkDone,
         Fail, Drain, Drained, Exit, ReportProgress, Task, TaskReturns, TaskCrashes
  <2> QED BY <2>1
<1> QED BY <1>1, <1>2, <1>3 DEF Next, Thread, Serve

\* A failing thread does not forget published pending work, not even when it
\* has closed the workspace.
LEMMA StepKeepsPending ==
  ASSUME TypeOK, WorkerInvariant, CrashInv, [Next]_vars,
         mode \in {"failing", "draining"}, pc # "publish", session.pending
  PROVE  session'.pending
<1> USE DEF client, handles, flags, locals, history
<1>1. CASE Fail
  <2>1. session \in Session
    BY DEF TypeOK, WorkerTypes
  <2>2. session' = [session EXCEPT !.connected = FALSE]
    BY <1>1 DEF Fail
  <2> QED BY <2>1, <2>2 DEF Session
<1>2. CASE Exit
  <2>1. preClose
    BY <1>2 DEF Exit, CrashInv
  <2>2. PICK s \in SnapshotOutcomes :
          session' = [connected |-> FALSE,
                      pending |-> preClose \/ (IF s = "ok" THEN workspace ELSE session).pending]
    BY <1>2 DEF Exit
  <2> QED BY <2>1, <2>2
<1>3. CASE UNCHANGED session
  BY <1>3
<1>4. ~InitialSnapshot /\ ~Publish
  BY DEF InitialSnapshot, Publish, CrashInv
<1>5. CASE Client \/ ConnectionDies \/ UNCHANGED vars
  BY <1>3, <1>5 DEF Client, Submit, Cancel, Receive, Ignore, Shutdown, ConnectionDies, vars
<1>6. CASE Take \/ Begin \/ ClearCurrent \/ Snapshot \/ Emit \/ MarkDone \/ Drain \/ Drained
           \/ Close \/ ReportProgress \/ Task
  BY <1>3, <1>6
     DEF Take, Begin, ClearCurrent, Snapshot, Emit, MarkDone, Drain, Drained, Close,
         ReportProgress, Task, TaskReturns, TaskCrashes
<1> QED BY <1>1, <1>2, <1>4, <1>5, <1>6 DEF Next, Thread, Serve

\* Once a failing thread has published what its last task left, pending work
\* stays published: closing the workspace does not hide it from the client.
THEOREM PendingSurvivesCrashHolds == Spec => PendingSurvivesCrash
<1>1. Init => CrashInv
  BY DEF Init, CrashInv
<1>2. TypeOK /\ WorkerInvariant /\ CrashInv /\ [Next]_vars => CrashInv'
  BY CrashStep
<1>3. TypeOK /\ WorkerInvariant /\ CrashInv /\ [Next]_vars
        => [(mode \in {"failing", "draining"} /\ pc # "publish" /\ session.pending)
              => session'.pending]_vars
  BY StepKeepsPending
<1> QED BY <1>1, <1>2, <1>3, InvariantHolds, PTL DEF Spec, PendingSurvivesCrash

\* Only the thread takes a command, and the one it takes is the next.
LEMMA TakenStep ==
  ASSUME TypeOK, WorkerInvariant, [Next]_vars
  PROVE  \/ NextTaken' = NextTaken /\ (pc' = "begin" => pc = "begin" /\ job' = job)
         \/ NextTaken' = NextTaken + 1 /\ job' = NextTaken
<1> USE QueueNumbers DEF WorkerInvariant, client, handles, flags, locals, history, None
<1>1. ASSUME NEW b \in BOOLEAN, Submit(b)
      PROVE  NextTaken' = NextTaken /\ UNCHANGED <<pc, job>>
  <2>1. WaitingIn(commands) = Len(commands)
    BY <1>1 DEF Submit, QueueInOrder
  <2> QED BY <1>1, <2>1, SubmitKeepsOrder DEF Submit, QueueInOrder, NextTaken
<1>2. CASE Shutdown
  <2>1. WaitingIn(commands) = Len(commands)
    BY <1>2 DEF Shutdown, QueueInOrder
  <2>2. NextTaken' = NextTaken /\ UNCHANGED <<pc, job>>
    BY <1>2, <2>1, StopKeepsOrder DEF Shutdown, QueueInOrder, NextTaken
  <2> QED BY <2>2
<1>3. CASE (\E i \in Command, hit \in BOOLEAN : Cancel(i, hit))
           \/ (\E i \in Command : Receive(i) \/ Ignore(i)) \/ ConnectionDies \/ UNCHANGED vars
  <2>1. UNCHANGED <<commands, nextId, accepting, pc, job>>
    BY <1>3 DEF Cancel, Receive, Ignore, ConnectionDies, vars
  <2>2. NextTaken' = NextTaken
    BY <2>1, QueueKept
  <2> QED BY <2>1, <2>2
<1>4. CASE Take
  <2>1. /\ Head(commands) = Stop => NextTaken' = NextTaken
        /\ Head(commands) # Stop => Head(commands) = NextTaken /\ NextTaken' = NextTaken + 1
    BY <1>4, TakeKeepsOrder DEF Take, QueueInOrder, NextTaken
  <2> QED BY <1>4, <2>1 DEF Take
<1>5. CASE Drain
  <2>1. /\ Head(commands) = Stop => NextTaken' = NextTaken
        /\ Head(commands) # Stop => Head(commands) = NextTaken /\ NextTaken' = NextTaken + 1
    BY <1>5, TakeKeepsOrder DEF Drain, QueueInOrder, NextTaken
  <2> QED BY <1>5, <2>1 DEF Drain
<1>6. CASE InitialSnapshot \/ Begin \/ ClearCurrent \/ Publish \/ Emit \/ Drained \/ Close
           \/ ReportProgress
  <2>1. UNCHANGED <<commands, nextId, accepting>> /\ (pc' = "begin" => pc = "begin" /\ job' = job)
    BY <1>6 DEF InitialSnapshot, Begin, ClearCurrent, Publish, Emit, Drained, Close, ReportProgress
  <2>2. NextTaken' = NextTaken
    BY <2>1, QueueKept
  <2> QED BY <2>1, <2>2
<1>7. CASE Snapshot \/ Fail \/ Exit \/ Task
  <2>1. CASE Snapshot
    <3>1. UNCHANGED <<commands, nextId>> /\ pc' = "publish"
      BY <2>1 DEF Snapshot
    <3>2. accepting' => accepting
      BY <2>1, Zenon DEF Snapshot, SnapshotWith
    <3>3. NextTaken' = NextTaken
      BY <3>1, <3>2, QueueKept
    <3> QED BY <3>1, <3>3
  <2>2. CASE Fail \/ Exit \/ Task
    <3>1. UNCHANGED <<commands, nextId>> /\ (accepting' => accepting) /\ pc' # "begin"
      BY <2>2 DEF Fail, Exit, Task, TaskReturns, TaskCrashes
    <3>2. NextTaken' = NextTaken
      BY <3>1, QueueKept
    <3> QED BY <3>1, <3>2
  <2> QED BY <1>7, <2>1, <2>2
<1>8. CASE MarkDone
  <2>1. UNCHANGED <<commands, nextId, accepting>>
    BY <1>8 DEF MarkDone
  <2>2. pc' # "begin"
    BY <1>8 DEF MarkDone
  <2>3. NextTaken' = NextTaken
    BY <2>1, QueueKept
  <2> QED BY <2>2, <2>3
<1> QED BY <1>1, <1>2, <1>3, <1>4, <1>5, <1>6, <1>7, <1>8
       DEF Next, Client, Thread, Serve

\* Only commands that were taken run, and each begins once.
LEMMA RunStep ==
  ASSUME TypeOK, WorkerInvariant, RunInv, [Next]_vars
  PROVE  RunInv'
<1> USE DEF client, handles, flags, locals, history
<1>1. /\ NextTaken \in Nat /\ NextTaken' \in {NextTaken, NextTaken + 1} /\ ran \subseteq Nat
      /\ pc' = "begin" /\ (NextTaken' = NextTaken) => pc = "begin" /\ job' = job
      /\ NextTaken' # NextTaken => job' = NextTaken
  BY TakenStep, QueueNumbers DEF WorkerInvariant, TypeOK, ThreadTypes, Command
<1>2. CASE Begin
  <2>1. job # None => job = NextTaken - 1
    BY DEF WorkerInvariant, InHand
  <2>2. job # None /\ ran' = ran \cup {job} /\ pc' = "task"
    BY <1>2 DEF Begin, WorkerInvariant, InHand
  <2> QED BY <1>1, <2>1, <2>2 DEF RunInv
<1>3. CASE ran' = ran
  BY <1>1, <1>3 DEF RunInv
<1>4. Begin \/ ran' = ran
  BY DEF Next, Client, Thread, Serve, Submit, Cancel, Receive, Ignore, Shutdown, ConnectionDies,
     InitialSnapshot, Take, ClearCurrent, Snapshot, Publish, Emit, MarkDone, Fail, Drain,
     Drained, Close, Exit, ReportProgress, Task, TaskReturns, TaskCrashes, vars
<1> QED BY <1>2, <1>3, <1>4

-----------------------------------------------------------------------------
(* The worker implements the command service, step by step.                 *)

\* How far a command has come, as the service sees it.
StatusOf(i) == IF i \notin Accepted THEN "absent"
               ELSE IF done[i] THEN "reported"
               ELSE IF i \in ran THEN "running" ELSE "queued"

Statuses == [i \in Command |-> StatusOf(i)]

\* One command comes further, the others stay where they are.
LEMMA OneMoves ==
  ASSUME NEW k \in Command, NEW v, StatusOf(k)' = v,
         \A i \in Command \ {k} : StatusOf(i)' = StatusOf(i)
  PROVE  Statuses' = [Statuses EXCEPT ![k] = v]
BY DEF Statuses

\* The commands before the one in hand are done, those not accepted untouched.
LEMMA StatusFacts ==
  ASSUME TypeOK, WorkerInvariant, RunInv
  PROVE  /\ NextTaken \in Nat /\ nextId \in Nat /\ NextTaken <= nextId
         /\ \A i \in Command : i >= nextId => ~done[i] /\ i \notin ran
         /\ job # None => /\ job \in Command /\ job \in Accepted /\ ~done[job]
                          /\ \A j \in Command : j < job => j \in Accepted /\ done[j]
                          /\ pc = "begin" => job \notin ran
<1>1. /\ NextTaken \in Nat /\ nextId \in Nat /\ NextTaken <= nextId
  BY QueueNumbers DEF WorkerInvariant, NextTaken
<1>2. \A i \in Command : i >= nextId => ~done[i] /\ i \notin ran
  BY <1>1, WorkerAssumption DEF WorkerInvariant, TakenAnswered, RunInv, Command
<1>3. ASSUME job # None
      PROVE  /\ job \in Command /\ job \in Accepted /\ ~done[job]
             /\ \A j \in Command : j < job => j \in Accepted /\ done[j]
             /\ pc = "begin" => job \notin ran
  <2>1. job \in Command /\ job = NextTaken - 1 /\ ~done[job]
    BY <1>3 DEF TypeOK, ThreadTypes, WorkerInvariant, InHand
  <2>2. \A j \in Command : j \in Nat
    BY WorkerAssumption DEF Command
  <2> QED BY <1>1, <2>1, <2>2 DEF WorkerInvariant, TakenAnswered, RunInv, Accepted
<1> QED BY <1>1, <1>2, <1>3

\* The service's steps, in terms of the worker.
LEMMA ServiceSteps ==
  /\ Service!Command = Command
  /\ Service!Init <=> Statuses = [i \in Command |-> "absent"] /\ accepting = TRUE
  /\ Statuses' = Statuses /\ accepting' = accepting <=> UNCHANGED Service!svars
  /\ accepting /\ accepting' = FALSE /\ Statuses' = Statuses => Service!Next
  /\ \A i \in Command :
       /\ /\ accepting /\ accepting' = accepting /\ Statuses[i] = "absent"
          /\ \A j \in Command : j < i => Statuses[j] # "absent"
          /\ Statuses' = [Statuses EXCEPT ![i] = "queued"]
          => Service!Next
       /\ /\ accepting' = accepting /\ Statuses[i] = "queued"
          /\ \A j \in Command : j < i => Statuses[j] = "reported"
          /\ Statuses' = [Statuses EXCEPT ![i] = "running"]
          => Service!Next
       /\ /\ accepting' = accepting
          /\ \/ Statuses[i] = "running"
             \/ /\ ~accepting /\ Statuses[i] = "queued"
                /\ \A j \in Command : j < i => Statuses[j] = "reported"
          /\ Statuses' = [Statuses EXCEPT ![i] = "reported"]
          => Service!Next
<1> USE DEF Statuses, StatusOf
<1>1. Service!Command = Command
  BY DEF Service!Command, Command
<1>2. Service!Init <=> Statuses = [i \in Command |-> "absent"] /\ accepting = TRUE
  BY <1>1 DEF Service!Init
<1>3. Statuses' = Statuses /\ accepting' = accepting <=> UNCHANGED Service!svars
  BY DEF Service!svars
<1>4. accepting /\ accepting' = FALSE /\ Statuses' = Statuses => Service!Next
  BY DEF Service!Next, Service!Close
<1>5. ASSUME NEW i \in Command
      PROVE  /\ /\ accepting /\ accepting' = accepting /\ Statuses[i] = "absent"
                /\ \A j \in Command : j < i => Statuses[j] # "absent"
                /\ Statuses' = [Statuses EXCEPT ![i] = "queued"]
                => Service!Accept(i)
             /\ /\ accepting' = accepting /\ Statuses[i] = "queued"
                /\ \A j \in Command : j < i => Statuses[j] = "reported"
                /\ Statuses' = [Statuses EXCEPT ![i] = "running"]
                => Service!Start(i)
             /\ /\ accepting' = accepting
                /\ \/ Statuses[i] = "running"
                   \/ /\ ~accepting /\ Statuses[i] = "queued"
                      /\ \A j \in Command : j < i => Statuses[j] = "reported"
                /\ Statuses' = [Statuses EXCEPT ![i] = "reported"]
                => Service!Report(i) \/ Service!Abandon(i)
  BY <1>1, Zenon DEF Service!Accept, Service!Start, Service!Report, Service!Abandon, Service!Turn
<1> QED BY <1>1, <1>2, <1>3, <1>4, <1>5 DEF Service!Next

\* Every step of client, network and thread is a step of the service, or none.
LEMMA ServiceStep ==
  ASSUME TypeOK, WorkerInvariant, RunInv, [Next]_vars
  PROVE  [Service!Next]_(Service!svars)
<1> USE DEF client, handles, flags, locals, history
<1>1. /\ nextId \in Nat /\ Command \subseteq Nat /\ job \in Command \cup {None}
      /\ accepting \in BOOLEAN /\ done \in [Command -> BOOLEAN]
  BY StatusFacts, WorkerAssumption DEF Command, TypeOK, ThreadTypes, WorkerTypes, HandleTypes
<1>2. CASE UNCHANGED <<nextId, done, ran, accepting>>
  <2>1. Statuses' = Statuses
    BY <1>2 DEF Statuses, StatusOf, Accepted
  <2> QED BY <1>2, <2>1, ServiceSteps
<1>3. CASE UNCHANGED <<nextId, done, ran>> /\ accepting' = FALSE
  <2>1. Statuses' = Statuses
    BY <1>3 DEF Statuses, StatusOf, Accepted
  <2> QED BY <1>1, <1>3, <2>1, ServiceSteps
<1>4. ASSUME NEW b \in BOOLEAN, Submit(b) PROVE Service!Next
  <2>1. /\ accepting /\ nextId \in Command /\ nextId' = nextId + 1
        /\ UNCHANGED <<accepting, done, ran>>
    BY <1>4 DEF Submit
  <2>2. ~done[nextId] /\ nextId \notin ran
    BY <1>1, <2>1, StatusFacts
  <2>k. PICK k \in Command : k = nextId
    BY <2>1, <2>2
  <2>3. StatusOf(k)' = "queued"
    BY <1>1, <2>1, <2>2, <2>k DEF StatusOf, Accepted
  <2>4. \A i \in Command \ {k} : StatusOf(i)' = StatusOf(i)
    BY <1>1, <2>1, <2>k DEF StatusOf, Accepted
  <2>5. Statuses' = [Statuses EXCEPT ![k] = "queued"]
    BY <2>3, <2>4, OneMoves
  <2>6. /\ Statuses[k] = "absent"
        /\ \A j \in Command : j < k => Statuses[j] # "absent"
    BY <2>k, <1>1, <2>1 DEF Statuses, StatusOf, Accepted
  <2> QED BY <2>1, <2>5, <2>6, ServiceSteps
<1>5. ASSUME Begin PROVE Service!Next
  <2>1. /\ pc = "begin" /\ ran' = ran \cup {job} /\ UNCHANGED <<nextId, done, accepting>>
        /\ job # None
    BY <1>5 DEF Begin, WorkerInvariant, InHand
  <2>2. /\ job \in Command /\ job \in Accepted /\ ~done[job] /\ job \notin ran
        /\ \A j \in Command : j < job => j \in Accepted /\ done[j]
    BY <2>1, StatusFacts
  <2>k. PICK k \in Command : k = job
    BY <2>1, <2>2
  <2>3. StatusOf(k)' = "running"
    BY <2>1, <2>2, <2>k DEF StatusOf, Accepted
  <2>4. \A i \in Command \ {k} : StatusOf(i)' = StatusOf(i)
    BY <2>1, <2>k DEF StatusOf, Accepted
  <2>5. Statuses' = [Statuses EXCEPT ![k] = "running"]
    BY <2>3, <2>4, OneMoves
  <2>6. /\ Statuses[k] = "queued"
        /\ \A j \in Command : j < k => Statuses[j] = "reported"
    BY <2>k, <2>2 DEF Statuses, StatusOf
  <2> QED BY <2>1, <2>2, <2>5, <2>6, ServiceSteps
<1>6. ASSUME MarkDone PROVE Service!Next
  <2>1. /\ pc = "done" /\ done' = [done EXCEPT ![job] = TRUE]
        /\ UNCHANGED <<nextId, ran, accepting>> /\ job # None
    BY <1>6 DEF MarkDone, WorkerInvariant, InHand
  <2>2. /\ job \in Command /\ job \in Accepted /\ ~done[job]
        /\ \A j \in Command : j < job => j \in Accepted /\ done[j]
    BY <2>1, StatusFacts
  <2>k. PICK k \in Command : k = job
    BY <2>1, <2>2
  <2>3. StatusOf(k)' = "reported"
    BY <1>1, <2>1, <2>2, <2>k DEF StatusOf, Accepted
  <2>4. \A i \in Command \ {k} : StatusOf(i)' = StatusOf(i)
    BY <1>1, <2>1, <2>k DEF StatusOf, Accepted
  <2>5. Statuses' = [Statuses EXCEPT ![k] = "reported"]
    BY <2>3, <2>4, OneMoves
  <2>6. job \in ran \/ ~accepting
    <3>1. job = NextTaken - 1 /\ NextTaken \in Nat
      BY <2>1, StatusFacts DEF WorkerInvariant, InHand
    <3>2. job \in ran \/ mode = "draining"
      BY <1>1, <2>1, <2>2, <3>1 DEF WorkerInvariant, TakenAnswered
    <3> QED BY <3>2 DEF WorkerInvariant, WayOut
  <2>7. /\ Statuses[k] = "running" \/ (~accepting /\ Statuses[k] = "queued")
        /\ \A j \in Command : j < k => Statuses[j] = "reported"
    BY <2>k, <2>2, <2>6 DEF Statuses, StatusOf
  <2> QED BY <2>1, <2>2, <2>5, <2>7, ServiceSteps
<1>7. CASE \/ \E i \in Command, hit \in BOOLEAN : Cancel(i, hit)
           \/ \E i \in Command : Receive(i) \/ Ignore(i)
           \/ ConnectionDies \/ UNCHANGED vars
  BY <1>2, <1>7 DEF Cancel, Receive, Ignore, ConnectionDies, vars
<1>8. CASE Shutdown \/ Fail \/ Exit
  BY <1>3, <1>8 DEF Shutdown, Fail, Exit
<1>9. CASE InitialSnapshot \/ Take \/ ClearCurrent \/ Publish \/ Emit \/ Drain \/ Drained
           \/ Close \/ ReportProgress
  BY <1>2, <1>9 DEF InitialSnapshot, Take, ClearCurrent, Publish, Emit, Drain, Drained, Close,
     ReportProgress
<1>10. CASE Task
  BY <1>2, <1>3, <1>10 DEF Task, TaskReturns, TaskCrashes
<1>11. CASE Snapshot
  <2>1. UNCHANGED <<nextId, done, ran>>
    BY <1>11 DEF Snapshot
  <2>2. accepting' = accepting \/ accepting' = FALSE
    BY <1>1, <1>11, Zenon DEF Snapshot, SnapshotWith
  <2> QED BY <1>2, <1>3, <2>1, <2>2
<1> QED
  BY <1>4, <1>5, <1>6, <1>7, <1>8, <1>9, <1>10, <1>11 DEF Next, Client, Thread, Serve

\* The worker implements the command service, its liveness left out: commands
\* are accepted in order while it is open, run one at a time and in order, are
\* reported once, and are given up only after it has closed for good.
THEOREM WorkerImplementsService == Spec => Service!Init /\ [][Service!Next]_(Service!svars)
<1>1. Init => Service!Init
  <2> SUFFICES ASSUME Init PROVE Service!Init
    OBVIOUS
  <2>1. Statuses = [i \in Command |-> "absent"]
    BY WorkerAssumption DEF Init, Statuses, StatusOf, Accepted, Command
  <2> QED BY <2>1, ServiceSteps DEF Init
<1>2. Init => RunInv
  BY DEF Init, RunInv
<1>3. TypeOK /\ WorkerInvariant /\ RunInv /\ [Next]_vars => RunInv'
  BY RunStep
<1>4. TypeOK /\ WorkerInvariant /\ RunInv /\ [Next]_vars => [Service!Next]_(Service!svars)
  BY ServiceStep
<1> QED BY <1>1, <1>2, <1>3, <1>4, InvariantHolds, PTL DEF Spec

-----------------------------------------------------------------------------
(* What a batch of submissions does to the queue.                          *)

\* The commands a batch puts into the queue, after the last one before n.
Numbered(n, m) == [k \in 1..m |-> n + k - 1]

\* A batch of submissions keeps the queue in order.
LEMMA BatchKeepsOrder ==
  ASSUME NEW q \in Seq(Nat), NEW n \in Nat \ {0}, NEW m \in Nat,
         InOrder(q, n), WaitingIn(q) = Len(q)
  PROVE  /\ q \o Numbered(n, m) \in Seq(Nat)
         /\ WaitingIn(q \o Numbered(n, m)) = Len(q) + m
         /\ Len(q \o Numbered(n, m)) = Len(q) + m
         /\ InOrder(q \o Numbered(n, m), n + m)
<1> DEFINE b == Numbered(n, m)
           r == q \o b
<1>1. Len(q) \in Nat
  BY LenProperties
<1>2. b \in Seq(Nat) /\ Len(b) = m /\ \A k \in 1..m : b[k] = n + k - 1
  <2>1. b = [k \in 1..m |-> n + k - 1]
    BY DEF Numbered
  <2>2. \A k \in 1..m : n + k - 1 \in Nat
    OBVIOUS
  <2> QED BY <2>1, <2>2
<1> HIDE DEF b
<1>3. /\ r \in Seq(Nat) /\ Len(r) = Len(q) + m
      /\ \A k \in 1..(Len(q) + m) : r[k] = IF k <= Len(q) THEN q[k] ELSE b[k - Len(q)]
  BY <1>1, <1>2, ConcatProperties
<1> HIDE DEF r
<1>4. \A k \in 1..Len(q) : q[k] = n - Len(q) + k - 1
  BY <1>1 DEF InOrder
<1>5. \A k \in 1..(Len(q) + m) : r[k] = n - Len(q) + k - 1
  <2> SUFFICES ASSUME NEW k \in 1..(Len(q) + m) PROVE r[k] = n - Len(q) + k - 1
    OBVIOUS
  <2>1. CASE k <= Len(q)
    BY <2>1, <1>1, <1>3, <1>4
  <2>2. CASE k > Len(q)
    <3> DEFINE j == k - Len(q)
    <3>1. j \in 1..m /\ r[k] = b[j]
      BY <2>2, <1>1, <1>3
    <3> QED BY <3>1, <1>1, <1>2
  <2> QED BY <2>1, <2>2, <1>1
<1>6. Len(q) < n
  BY DEF InOrder
<1>7. WaitingIn(r) = Len(q) + m
  <2>1. ASSUME r # <<>> PROVE r[Len(r)] # Stop
    <3>0. Len(r) # 0
      BY <2>1, <1>3, OnlyEmptyHasNoItem
    <3>1. Len(r) \in 1..(Len(q) + m)
      BY <3>0, <1>1, <1>3
    <3> QED BY <3>1, <1>1, <1>3, <1>5, <1>6 DEF Stop
  <2> QED BY <2>1, <1>3 DEF WaitingIn
<1>8. InOrder(r, n + m)
  BY <1>1, <1>3, <1>5, <1>6, <1>7 DEF InOrder
<1> QED BY <1>3, <1>7, <1>8 DEF r, b

\* The queue as it is seen by a batch.
LEMMA OpenQueue ==
  ASSUME TypeOK, WorkerInvariant, accepting
  PROVE  /\ WaitingIn(commands) = Len(commands) /\ commands \in Seq(Nat)
         /\ nextId \in Nat \ {0} /\ InOrder(commands, nextId)
         /\ NextTaken = nextId - Len(commands) /\ Len(commands) \in Nat
BY QueueNumbers, LenProperties DEF WorkerInvariant, QueueInOrder, NextTaken

\* What the thread knows of itself is untouched by what only lengthens the
\* queue.
LEMMA ThreadUntouched ==
  ASSUME TypeOK, WorkerInvariant, QueueInOrder', NextTaken' = NextTaken,
         UNCHANGED <<current, done, pc, job, mode, ran, stopped, shutdownError>>,
         accepting' => accepting, commands' # commands => accepting
  PROVE  WorkerInvariant'
<1> USE DEF WorkerInvariant
<1>1. InHand'
  BY DEF InHand
<1>2. TakenAnswered'
  BY DEF TakenAnswered
<1>3. WayOut'
  BY DEF WayOut
<1> QED BY <1>1, <1>2, <1>3

\* A batch of submissions, and a last Stop, keep the worker's invariant.
Batched(m) ==
  /\ accepting /\ m \in Nat
  /\ nextId' = nextId + m /\ nextId + m <= MaxCommands + 1
  /\ \/ commands' = commands \o Numbered(nextId, m) /\ accepting' = accepting
     \/ commands' = Append(commands \o Numbered(nextId, m), Stop) /\ accepting' = FALSE
  /\ ignored' \in [Command -> BOOLEAN]
  /\ read' \in [Command -> Nat]
  /\ UNCHANGED <<current, flags, session, done, events, workspace, pc, locals, history>>

\* Submitting several commands at once keeps the worker's types and invariant:
\* a completion submits the commands that close the cursors it detached.
LEMMA BatchedKeeps ==
  ASSUME TypeOK, WorkerInvariant, NEW m, Batched(m)
  PROVE  TypeOK' /\ WorkerInvariant' /\ NextTaken' = NextTaken
<1> DEFINE b == commands \o Numbered(nextId, m)
<1> USE DEF flags, locals, history
<1>1. /\ accepting /\ m \in Nat /\ nextId' = nextId + m
      /\ UNCHANGED <<current, done, pc, job, mode, ran, stopped, shutdownError>>
  BY DEF Batched
<1>2. /\ b \in Seq(Nat) /\ WaitingIn(b) = Len(commands) + m /\ Len(b) = Len(commands) + m
      /\ InOrder(b, nextId + m)
  BY <1>1, OpenQueue, BatchKeepsOrder
<1>3. b \in Seq(Command \cup {Stop})
  <2>1. commands \in Seq(Command \cup {Stop})
    BY DEF TypeOK, WorkerTypes
  <2>2. Numbered(nextId, m) \in Seq(Command \cup {Stop})
    <3>1. nextId \in Nat \ {0} /\ nextId + m <= MaxCommands + 1
      BY <1>1, OpenQueue DEF Batched
    <3>2. \A k \in 1..m : nextId + k - 1 \in Command \cup {Stop}
      BY <1>1, <3>1, WorkerAssumption DEF Command
    <3> QED BY <1>1, <3>2 DEF Numbered
  <2> QED BY <2>1, <2>2, ConcatProperties
<1> HIDE DEF b
<1>4. /\ nextId \in Nat \ {0} /\ nextId + m \in Nat \ {0} /\ Len(commands) \in Nat
      /\ NextTaken = nextId - Len(commands)
  BY <1>1, OpenQueue
<1>5. nextId' \in 1..(MaxCommands + 1)
  BY <1>1, <1>4, WorkerAssumption DEF Batched
<1>6. CASE commands' = b /\ accepting' = accepting
  <2>1. QueueInOrder' /\ NextTaken' = NextTaken
    BY <1>1, <1>2, <1>4, <1>6 DEF QueueInOrder, NextTaken
  <2>2. WorkerTypes'
    BY <1>3, <1>5, <1>6 DEF Batched, TypeOK, WorkerTypes
  <2>3. HandleTypes' /\ ThreadTypes'
    BY DEF Batched, TypeOK, HandleTypes, ThreadTypes
  <2> QED BY <1>1, <1>6, <2>1, <2>2, <2>3, ThreadUntouched DEF TypeOK
<1>7. CASE commands' = Append(b, Stop) /\ accepting' = FALSE
  <2>0. /\ WaitingIn(Append(b, Stop)) = Len(b) /\ InOrder(Append(b, Stop), nextId + m)
        /\ Len(Append(b, Stop)) = Len(b) + 1
    BY <1>2, <1>4, StopKeepsOrder, AppendProperties
  <2>1. QueueInOrder' /\ NextTaken' = NextTaken
    BY <1>1, <1>2, <1>4, <1>7, <2>0 DEF QueueInOrder, NextTaken
  <2>2. WorkerTypes'
    BY <1>3, <1>5, <1>7, AppendProperties DEF Batched, TypeOK, WorkerTypes
  <2>3. HandleTypes' /\ ThreadTypes'
    BY DEF Batched, TypeOK, HandleTypes, ThreadTypes
  <2> QED BY <1>1, <1>7, <2>1, <2>2, <2>3, ThreadUntouched DEF TypeOK
<1> QED BY <1>6, <1>7 DEF Batched, b

-----------------------------------------------------------------------------
(* What completing an operation does.                                      *)

\* A sequence of one item.
LEMMA OneItem ==
  ASSUME NEW S, NEW e \in S
  PROVE  <<e>> \in Seq(S) /\ Len(<<e>>) = 1 /\ <<e>>[1] = e
OBVIOUS

\* The commands a completion submits: at most three, and the foreground one,
\* if there is one, stands where the operation's number says.
LEMMA BatchFlags ==
  ASSUME NEW releases \in BOOLEAN, NEW chains \in BOOLEAN, NEW closesAll \in BOOLEAN
  PROVE  LET batch == (IF releases THEN <<TRUE>> ELSE <<>>)
                       \o (IF chains THEN <<FALSE>> ELSE <<>>)
                       \o (IF closesAll THEN <<TRUE>> ELSE <<>>)
         IN  /\ batch \in Seq(BOOLEAN) /\ Len(batch) \in Nat
             /\ \A k \in 1..Len(batch) :
                  ~batch[k] => chains /\ k = (IF releases THEN 2 ELSE 1)
             /\ chains => Len(batch) >= (IF releases THEN 2 ELSE 1)
<1> DEFINE a == IF releases THEN <<TRUE>> ELSE <<>>
           b == IF chains THEN <<FALSE>> ELSE <<>>
           c == IF closesAll THEN <<TRUE>> ELSE <<>>
<1>1. /\ a \in Seq(BOOLEAN) /\ Len(a) = (IF releases THEN 1 ELSE 0)
      /\ \A k \in 1..Len(a) : a[k]
  <2>1. CASE releases
    <3>1. a = <<TRUE>>
      BY <2>1
    <3> HIDE DEF a
    <3>2. <<TRUE>> \in Seq(BOOLEAN) /\ Len(<<TRUE>>) = 1 /\ <<TRUE>>[1] = TRUE
      BY OneItem
    <3>3. a[1] = TRUE
      BY <3>1, <3>2
    <3>4. \A k \in 1..1 : a[k]
      BY <3>3
    <3> QED BY <2>1, <3>1, <3>2, <3>4
  <2>2. CASE ~releases
    BY <2>2, EmptySeq
  <2> QED BY <2>1, <2>2
<1>2. /\ b \in Seq(BOOLEAN) /\ Len(b) = (IF chains THEN 1 ELSE 0)
  <2>1. <<FALSE>> \in Seq(BOOLEAN) /\ Len(<<FALSE>>) = 1
    BY OneItem
  <2> QED BY <2>1, EmptySeq
<1>3. /\ c \in Seq(BOOLEAN) /\ Len(c) = (IF closesAll THEN 1 ELSE 0)
      /\ \A k \in 1..Len(c) : c[k]
  <2>1. CASE closesAll
    <3>1. c = <<TRUE>>
      BY <2>1
    <3> HIDE DEF c
    <3>2. <<TRUE>> \in Seq(BOOLEAN) /\ Len(<<TRUE>>) = 1 /\ <<TRUE>>[1] = TRUE
      BY OneItem
    <3>3. c[1] = TRUE
      BY <3>1, <3>2
    <3>4. \A k \in 1..1 : c[k]
      BY <3>3
    <3> QED BY <2>1, <3>1, <3>2, <3>4
  <2>2. CASE ~closesAll
    BY <2>2, EmptySeq
  <2> QED BY <2>1, <2>2
<1> HIDE DEF a, b, c
<1>4. /\ a \o b \in Seq(BOOLEAN) /\ Len(a \o b) = Len(a) + Len(b)
      /\ \A k \in 1..(Len(a) + Len(b)) : (a \o b)[k] = IF k <= Len(a) THEN a[k] ELSE b[k - Len(a)]
  BY <1>1, <1>2, ConcatProperties
<1>5. /\ (a \o b) \o c \in Seq(BOOLEAN) /\ Len((a \o b) \o c) = Len(a) + Len(b) + Len(c)
      /\ \A k \in 1..(Len(a \o b) + Len(c)) :
           ((a \o b) \o c)[k] = IF k <= Len(a \o b) THEN (a \o b)[k] ELSE c[k - Len(a \o b)]
  BY <1>3, <1>4, ConcatProperties
<1> DEFINE d == (a \o b) \o c
<1>6. Len(a) \in {0, 1} /\ Len(b) \in {0, 1} /\ Len(c) \in {0, 1} /\ Len(d) \in Nat
  BY <1>1, <1>2, <1>3, <1>5
<1>7. \A k \in 1..Len(d) : ~d[k] => chains /\ k = (IF releases THEN 2 ELSE 1)
  <2> SUFFICES ASSUME NEW k \in 1..Len(d), ~d[k]
               PROVE  chains /\ k = (IF releases THEN 2 ELSE 1)
    OBVIOUS
  <2>1. k <= Len(a) + Len(b)
    <3> SUFFICES ASSUME k > Len(a) + Len(b) PROVE FALSE
      BY <1>6
    <3>1. d[k] = c[k - Len(a \o b)] /\ k - Len(a \o b) \in 1..Len(c)
      BY <1>4, <1>5, <1>6
    <3> QED BY <3>1, <1>3
  <2>2. d[k] = (a \o b)[k]
    BY <2>1, <1>4, <1>5, <1>6
  <2>3. k > Len(a)
    BY <2>1, <2>2, <1>1, <1>4, <1>6
  <2> QED BY <2>1, <2>3, <1>1, <1>2, <1>6
<1>8. chains => Len(d) >= (IF releases THEN 2 ELSE 1)
  BY <1>1, <1>2, <1>5, <1>6
<1> QED BY <1>5, <1>6, <1>7, <1>8 DEF a, b, c

\* The UI's own variables have their types.
UiTypes == /\ op \in Operation /\ ui \in Session
           /\ live \in BOOLEAN /\ lost \in BOOLEAN
           /\ uiPc \in UiPC /\ loop \in {"running", "timed", "untimed"}
           /\ workers \in 1..MaxWorkers

\* The fields of an operation have the types the UI relies on.
LEMMA OperationValues ==
  /\ NoOperation \in Operation /\ ~NoOperation.cancelRequested /\ NoOperation.id = None
  /\ \A o \in Operation : /\ o.id \in Command \cup {None} /\ o.cancelRequested \in BOOLEAN
                          /\ o.interruptible \in BOOLEAN /\ o.cooperative \in BOOLEAN
<1>1. NoOperation \in Operation /\ ~NoOperation.cancelRequested /\ NoOperation.id = None
  BY DEF NoOperation, Operation
<1> QED BY <1>1 DEF Operation

\* A completion takes over a session state, drops the live handles of a lost
\* session unless it says connected itself and a command it starts is refused, and
\* leaves at most one foreground command, the next operation.
LEMMA CompleteStep ==
  ASSUME TypeOK, WorkerInvariant, UiTypes, NEW outcome, NEW s \in Session,
         Complete(outcome, s), session' = session
  PROVE  /\ op' \in Operation /\ ~op'.cancelRequested
         /\ ui' \in {s, session} /\ live' \in BOOLEAN
         /\ live' /\ ~ui'.connected => s.connected /\ ~accepting
         /\ \/ UNCHANGED <<commands, nextId, ignored>> /\ op'.id = None
            \/ \E m \in Nat :
                 /\ accepting
                 /\ commands' = commands \o Numbered(nextId, m)
                 /\ nextId' = nextId + m /\ nextId + m <= MaxCommands + 1
                 /\ ignored' \in [Command -> BOOLEAN]
                 /\ \A i \in Command : i < nextId => ignored'[i] = ignored[i]
                 /\ \A i \in Command :
                      i >= nextId /\ i < nextId + m /\ ~ignored'[i] => i = op'.id
                 /\ op'.id = None \/ op'.id >= nextId
<1>1. PICK hitError \in BOOLEAN, releases \in BOOLEAN, attaches \in BOOLEAN, chains \in BOOLEAN :
        LET lostSession == ~s.connected
            interrupted == op.interruptible /\ (op.cancelRequested \/ hitError)
            closesAll   == interrupted /\ ~lostSession
            batch       == (IF releases THEN <<TRUE>> ELSE <<>>)
                           \o (IF chains THEN <<FALSE>> ELSE <<>>)
                           \o (IF closesAll THEN <<TRUE>> ELSE <<>>)
            kept        == (attaches \/ (live /\ ~releases)) /\ ~lostSession /\ ~interrupted
        IN  /\ hitError => outcome = "error"
            /\ \/ /\ Room(Len(batch) - (IF chains THEN 0 ELSE 1))
                  /\ SubmitAll(batch)
                  /\ op' = IF chains
                           THEN [NewOperation(TRUE, FALSE) EXCEPT
                                   !.id = nextId + (IF releases THEN 1 ELSE 0)]
                           ELSE NoOperation
                  /\ ui' = s
                  /\ live' = kept
               \/ /\ ~accepting
                  /\ op' = NoOperation
                  /\ CASE batch = <<>> -> ui' = s /\ live' = kept
                       [] batch # <<>> /\ attaches /\ kept /\ ~chains -> SyncedBefore
                       [] batch # <<>> /\ ~(attaches /\ kept /\ ~chains) -> Synced(kept)
                  /\ UNCHANGED <<commands, nextId, ignored>>
  BY DEF Complete
<1> DEFINE interrupted == op.interruptible /\ (op.cancelRequested \/ hitError)
           closesAll   == interrupted /\ ~(~s.connected)
           batch       == (IF releases THEN <<TRUE>> ELSE <<>>)
                          \o (IF chains THEN <<FALSE>> ELSE <<>>)
                          \o (IF closesAll THEN <<TRUE>> ELSE <<>>)
           kept        == (attaches \/ (live /\ ~releases)) /\ ~(~s.connected) /\ ~interrupted
<1>2. s.connected \in BOOLEAN /\ session.connected \in BOOLEAN /\ live \in BOOLEAN /\ session \in Session
  BY DEF Session, TypeOK, WorkerTypes, UiTypes
<1>3. closesAll \in BOOLEAN /\ kept \in BOOLEAN /\ (~s.connected => ~kept)
  BY <1>2
<1>4. /\ batch \in Seq(BOOLEAN) /\ Len(batch) \in Nat
      /\ \A k \in 1..Len(batch) : ~batch[k] => chains /\ k = (IF releases THEN 2 ELSE 1)
      /\ chains => Len(batch) >= (IF releases THEN 2 ELSE 1)
  BY <1>3, BatchFlags
<1>5. \/ /\ Room(Len(batch) - (IF chains THEN 0 ELSE 1))
         /\ SubmitAll(batch)
         /\ op' = IF chains
                  THEN [NewOperation(TRUE, FALSE) EXCEPT
                          !.id = nextId + (IF releases THEN 1 ELSE 0)]
                  ELSE NoOperation
         /\ ui' = s
         /\ live' = kept
      \/ /\ ~accepting
         /\ op' = NoOperation
         /\ CASE batch = <<>> -> ui' = s /\ live' = kept
              [] batch # <<>> /\ attaches /\ kept /\ ~chains -> SyncedBefore
              [] batch # <<>> /\ ~(attaches /\ kept /\ ~chains) -> Synced(kept)
         /\ UNCHANGED <<commands, nextId, ignored>>
  BY <1>1
<1>6. kept \in BOOLEAN /\ (~s.connected => ~kept)
  BY <1>3
<1> HIDE DEF kept, batch
<1>7. CASE /\ ~accepting
           /\ op' = NoOperation
           /\ CASE batch = <<>> -> ui' = s /\ live' = kept
                [] batch # <<>> /\ attaches /\ kept /\ ~chains -> SyncedBefore
                [] batch # <<>> /\ ~(attaches /\ kept /\ ~chains) -> Synced(kept)
           /\ UNCHANGED <<commands, nextId, ignored>>
  <2>1. \/ ui' = s /\ live' = kept
        \/ ui' = session /\ live' = TRUE /\ kept
        \/ ui' = session /\ live' = (kept /\ session.connected)
    BY <1>7 DEF Synced, SyncedBefore
  <2>2. live' /\ ~ui'.connected => s.connected
    BY <2>1, <1>2, <1>6
  <2>3. ui' \in {s, session} /\ live' \in BOOLEAN
    BY <2>1, <1>2, <1>6
  <2>4. op' \in Operation /\ ~op'.cancelRequested /\ op'.id = None
    BY <1>7, OperationValues
  <2> QED BY <2>2, <2>3, <2>4, <1>7
<1>8. CASE /\ Room(Len(batch) - (IF chains THEN 0 ELSE 1))
           /\ SubmitAll(batch)
           /\ op' = IF chains
                    THEN [NewOperation(TRUE, FALSE) EXCEPT
                            !.id = nextId + (IF releases THEN 1 ELSE 0)]
                    ELSE NoOperation
           /\ ui' = s
           /\ live' = kept
  <2> DEFINE m == Len(batch)
             first == IF releases THEN 1 ELSE 0
  <2>1. /\ accepting
        /\ commands' = commands \o [k \in 1..m |-> nextId + k - 1]
        /\ nextId' = nextId + m
        /\ ignored' = [i \in Command |-> IF i >= nextId /\ i < nextId + m
                                         THEN batch[i - nextId + 1] ELSE ignored[i]]
    BY <1>8 DEF SubmitAll
  <2>2. m \in Nat /\ nextId \in Nat \ {0} /\ nextId + m <= MaxCommands + 1 /\ MaxCommands \in Nat
    BY <1>4, <1>8, <2>1, OpenQueue, WorkerAssumption DEF Room
  <2>3. /\ ignored' \in [Command -> BOOLEAN]
        /\ \A i \in Command : i < nextId => ignored'[i] = ignored[i]
    <3>1. \A k \in 1..m : batch[k] \in BOOLEAN
      BY <1>4, ElementOfSeq
    <3>2. ignored \in [Command -> BOOLEAN]
      BY DEF TypeOK, HandleTypes
    <3>3. \A i \in Command : i >= nextId /\ i < nextId + m => batch[i - nextId + 1] \in BOOLEAN
      BY <3>1, <2>2, WorkerAssumption DEF Command
    <3> QED BY <3>2, <3>3, <2>1, <2>2 DEF Command
  <2>4. \A i \in Command : i >= nextId /\ i < nextId + m /\ ~ignored'[i]
          => chains /\ i = nextId + first
    <3> SUFFICES ASSUME NEW i \in Command, i >= nextId, i < nextId + m, ~ignored'[i]
                 PROVE  chains /\ i = nextId + first
      OBVIOUS
    <3>1. i - nextId + 1 \in 1..m /\ ~batch[i - nextId + 1] /\ i \in Nat
      BY <2>1, <2>2 DEF Command
    <3> QED BY <3>1, <1>4, <2>2
  <2>5. /\ op' \in Operation /\ ~op'.cancelRequested
        /\ op'.id = IF chains THEN nextId + first ELSE None
    <3>1. CASE chains
      <4>1. op' = [id |-> nextId + first, interruptible |-> TRUE, cooperative |-> FALSE,
                   cancelRequested |-> FALSE]
        BY <1>8, <3>1 DEF NewOperation
      <4>2. nextId + first \in Command
        BY <3>1, <1>4, <2>2 DEF Command
      <4> QED BY <3>1, <4>1, <4>2 DEF Operation
    <3>2. CASE ~chains
      BY <1>8, <3>2, OperationValues
    <3> QED BY <3>1, <3>2
  <2>6. commands' = commands \o Numbered(nextId, m)
    BY <2>1 DEF Numbered
  <2>7. op'.id = None \/ op'.id >= nextId
    BY <2>2, <2>5
  <2> QED BY <1>6, <1>8, <2>1, <2>2, <2>3, <2>4, <2>5, <2>6, <2>7
<1> QED BY <1>5, <1>7, <1>8

-----------------------------------------------------------------------------
(* A step of the UI thread.                                                *)

\* There is no operation whose completion is still to come.
Settled == op.id = None \/ done[op.id] \/ ~OnlyProgress(op.id)

\* The UI leaves the thread and what it has reported alone, adds foreground
\* commands only as the operation, and gives the operation up only when it is
\* settled.
UiQuiet ==
  /\ UNCHANGED <<done, events, session, workspace, pc, job, report>>
  /\ NextTaken' = NextTaken
  /\ nextId' \in Nat /\ nextId' >= nextId
  /\ \A i \in Command : i < nextId => ignored'[i] = ignored[i]
  /\ \A i \in Command : i >= nextId /\ i < nextId' /\ ~ignored'[i] => i = op'.id
  /\ \/ op'.id = op.id
     \/ Settled /\ (op'.id = None \/ op'.id >= nextId)

\* The UI drops to a fresh worker only without an operation.
UiFresh == Init' /\ op.id = None /\ op' = op /\ uiPc' # "idle"

\* Where the UI's snapshot comes from when it is without an operation.
UiTold ==
  uiPc' = "idle" /\ op'.id = None =>
    \/ uiPc = "idle" /\ op.id = None /\ ui' = ui
    \/ Settled /\ ui' \in {session, [session EXCEPT !.connected = FALSE]}
    \/ op.id # None /\ \E k \in 1..Len(events[op.id]) :
                         events[op.id][k] # Progress /\ ui' = events[op.id][k].session

\* What a step of the UI has to establish.
UiKeeps == /\ TypeOK' /\ WorkerInvariant' /\ UiTypes' /\ UiShape'
           /\ RecordedInterruptActs'
           /\ UiFresh \/ UiQuiet
           /\ UiTold

\* A worker's step that leaves the UI's view of it alone.
LEMMA WorkerStands ==
  ASSUME TypeOK, WorkerInvariant, [Next]_vars
  PROVE  TypeOK' /\ WorkerInvariant'
BY TypeStep, InvariantStep

\* One submission.
LEMMA SubmitStep ==
  ASSUME TypeOK, WorkerInvariant, NEW b \in BOOLEAN, Submit(b)
  PROVE  /\ TypeOK' /\ WorkerInvariant' /\ NextTaken' = NextTaken
         /\ UNCHANGED <<done, events, session, workspace, pc, job, report, broken>>
         /\ nextId \in Command /\ nextId \in Nat \ {0} /\ nextId' = nextId + 1
         /\ \A i \in Command : i < nextId => ignored'[i] = ignored[i]
         /\ ignored'[nextId] = b
<1> USE DEF locals, history
<1>1. TypeOK' /\ WorkerInvariant'
  BY WorkerStands DEF Next, Client
<1>2. accepting /\ nextId \in Command /\ commands' = Append(commands, nextId) /\ nextId' = nextId + 1
  BY DEF Submit
<1>3. NextTaken' = NextTaken
  BY <1>2, OpenQueue, SubmitKeepsOrder DEF NextTaken
<1>4. nextId \in Nat \ {0} /\ ignored \in [Command -> BOOLEAN]
  BY <1>2, OpenQueue DEF TypeOK, HandleTypes
<1>5. ignored' = [ignored EXCEPT ![nextId] = b]
  BY DEF Submit
<1>6. UNCHANGED <<done, events, session, workspace, pc, job, report, broken>>
  BY DEF Submit
<1>7. \A i \in Command : i < nextId => ignored'[i] = ignored[i]
  BY <1>4, <1>5, WorkerAssumption DEF Command
<1> QED BY <1>1, <1>2, <1>3, <1>4, <1>5, <1>6, <1>7

\* A request for an interrupt.
LEMMA CancelStep ==
  ASSUME TypeOK, WorkerInvariant, NEW i \in Command, NEW hit \in BOOLEAN, Cancel(i, hit)
  PROVE  /\ TypeOK' /\ WorkerInvariant' /\ NextTaken' = NextTaken
         /\ UNCHANGED <<nextId, ignored, done, events, session, workspace, pc, job, report>>
         /\ hit => i \in broken'
         /\ broken \subseteq broken'
<1> USE DEF locals, client, handles
<1>1. TypeOK' /\ WorkerInvariant'
  BY WorkerStands DEF Next, Client
<1>2. UNCHANGED <<commands, nextId, ignored, done, events, session, workspace, pc, job, report>>
  BY DEF Cancel
<1>3. NextTaken' = NextTaken
  BY <1>2 DEF NextTaken
<1>4. hit => job = i
  BY WorkerAssumption DEF Cancel, Hittable, WorkerInvariant, InHand, Command, None
<1>5. broken' = IF hit THEN broken \cup {job} ELSE broken
  BY DEF Cancel
<1> QED BY <1>1, <1>2, <1>3, <1>4, <1>5

\* A worker replaced.
LEMMA FreshStep ==
  ASSUME UiTypes, NewWorker
  PROVE  Init' /\ TypeOK' /\ WorkerInvariant' /\ workers' \in 1..MaxWorkers
<1>1. Init'
  BY DEF NewWorker, FreshWorker, Init
<1>2. (Init => TypeOK)' /\ (Init => WorkerInvariant)'
  BY TypeInit, InvariantInit, PTL
<1>3. workers' \in 1..MaxWorkers
  BY OperationsAssumption DEF NewWorker, UiTypes
<1> QED BY <1>1, <1>2, <1>3

\* A completion, where the operation is settled.
LEMMA CompletionStep ==
  ASSUME TypeOK, WorkerInvariant, UiTypes, op.id # None, Settled,
         NEW outcome, NEW s \in Session, Complete(outcome, s),
         read' \in [Command -> Nat], lost' \in BOOLEAN,
         uiPc' \in {"idle", "waiting"},
         UNCHANGED <<accepting, current, flags, session, done, events, workspace, pc,
                     locals, history, loop, workers>>
  PROVE  /\ TypeOK' /\ WorkerInvariant' /\ UiTypes' /\ UiShape'
         /\ RecordedInterruptActs'
         /\ UiQuiet
         /\ ui' \in {s, session}
<1> USE DEF locals
<1>1. session' = session /\ session \in Session /\ nextId \in Nat
  BY WorkerAssumption DEF TypeOK, WorkerTypes
<1>2. /\ op' \in Operation /\ ~op'.cancelRequested
      /\ ui' \in {s, session} /\ live' \in BOOLEAN
      /\ \/ UNCHANGED <<commands, nextId, ignored>> /\ op'.id = None
         \/ \E m \in Nat :
              /\ accepting
              /\ commands' = commands \o Numbered(nextId, m)
              /\ nextId' = nextId + m /\ nextId + m <= MaxCommands + 1
              /\ ignored' \in [Command -> BOOLEAN]
              /\ \A i \in Command : i < nextId => ignored'[i] = ignored[i]
              /\ \A i \in Command :
                   i >= nextId /\ i < nextId + m /\ ~ignored'[i] => i = op'.id
              /\ op'.id = None \/ op'.id >= nextId
  BY <1>1, CompleteStep
<1>3. UiTypes' /\ UiShape' /\ RecordedInterruptActs'
  <2>1. UiTypes'
    BY <1>1, <1>2 DEF UiTypes, UiPC
  <2>2. UiShape'
    BY <1>2 DEF UiShape, Active
  <2>3. RecordedInterruptActs'
    BY <1>2 DEF RecordedInterruptActs
  <2> QED BY <2>1, <2>2, <2>3
<1>4. CASE UNCHANGED <<commands, nextId, ignored>> /\ op'.id = None
  <2>1. TypeOK'
    BY <1>4 DEF TypeOK, WorkerTypes, HandleTypes, ThreadTypes, history, flags
  <2>2. WorkerInvariant'
    BY <1>4 DEF WorkerInvariant, QueueInOrder, InHand, TakenAnswered, WayOut, NextTaken, history, flags
  <2>3. UiQuiet
    <3>1. nextId' = nextId /\ ignored' = ignored /\ NextTaken' = NextTaken
      BY <1>4 DEF NextTaken
    <3>2. \A i \in Command : i >= nextId /\ i < nextId' => FALSE
      BY <1>1, <3>1, WorkerAssumption DEF Command
    <3> QED BY <1>1, <1>4, <3>1, <3>2 DEF UiQuiet
  <2> QED BY <1>2, <1>3, <2>1, <2>2, <2>3
<1>5. ASSUME NEW m \in Nat,
             /\ accepting
             /\ commands' = commands \o Numbered(nextId, m)
             /\ nextId' = nextId + m /\ nextId + m <= MaxCommands + 1
             /\ ignored' \in [Command -> BOOLEAN]
             /\ \A i \in Command : i < nextId => ignored'[i] = ignored[i]
             /\ \A i \in Command :
                  i >= nextId /\ i < nextId + m /\ ~ignored'[i] => i = op'.id
             /\ op'.id = None \/ op'.id >= nextId
      PROVE  TypeOK' /\ WorkerInvariant' /\ UiQuiet
  <2>1. Batched(m)
    BY <1>5 DEF Batched
  <2>2. TypeOK' /\ WorkerInvariant' /\ NextTaken' = NextTaken
    BY <2>1, BatchedKeeps
  <2>3. UiQuiet
    <3>1. nextId' \in Nat /\ nextId' >= nextId /\ nextId' = nextId + m
      BY <1>1, <1>5
    <3>2. \A i \in Command : i >= nextId /\ i < nextId' /\ ~ignored'[i] => i = op'.id
      BY <1>5, <3>1
    <3>3. \A i \in Command : i < nextId => ignored'[i] = ignored[i]
      BY <1>5
    <3>4. op'.id = None \/ op'.id >= nextId
      BY <1>5
    <3> QED BY <2>2, <3>1, <3>2, <3>3, <3>4 DEF UiQuiet
  <2> QED BY <2>2, <2>3
<1> QED BY <1>2, <1>3, <1>4, <1>5

\* What the worker sees of an action that leaves it alone.
LEMMA UnseenStep ==
  ASSUME TypeOK, WorkerInvariant, UNCHANGED vars, op'.id = op.id
  PROVE  TypeOK' /\ WorkerInvariant' /\ UiQuiet
<1> USE DEF vars, client, handles, flags, locals, history
<1>1. TypeOK' /\ WorkerInvariant'
  BY WorkerStands
<1>2. NextTaken' = NextTaken /\ UNCHANGED <<nextId, ignored, done, events, session, workspace, pc, job, report>>
  BY DEF NextTaken
<1>3. \A i \in Command : i >= nextId /\ i < nextId' => FALSE
  BY <1>2, WorkerAssumption DEF Command, TypeOK, WorkerTypes
<1>4. nextId' \in Nat /\ nextId' >= nextId
  BY <1>2, WorkerAssumption DEF TypeOK, WorkerTypes
<1> QED BY <1>1, <1>2, <1>3, <1>4 DEF UiQuiet

\* A new operation of the UI, submitted.
LEMMA StartStep ==
  ASSUME TypeOK, WorkerInvariant, UiTypes, OperationsInvariant,
         NEW intr \in BOOLEAN, NEW coop \in BOOLEAN,
         Submit(FALSE), op' = NewOperation(intr, coop), op.id = None,
         uiPc' = "idle", UNCHANGED <<ui, live, loop, workers, lost>>
  PROVE  UiKeeps
<1>1. /\ TypeOK' /\ WorkerInvariant' /\ NextTaken' = NextTaken
      /\ UNCHANGED <<done, events, session, workspace, pc, job, report, broken>>
      /\ nextId \in Command /\ nextId \in Nat \ {0} /\ nextId' = nextId + 1
      /\ \A i \in Command : i < nextId => ignored'[i] = ignored[i]
      /\ ignored'[nextId] = FALSE
  BY SubmitStep
<1>2. /\ op' = [id |-> nextId, interruptible |-> intr, cooperative |-> coop, cancelRequested |-> FALSE]
      /\ op' \in Operation
  BY <1>1 DEF NewOperation, Operation
<1>3. op'.id = nextId /\ op'.id # None /\ ~op'.cancelRequested
  BY <1>1, <1>2 DEF None
<1>4. UiTypes' /\ UiShape' /\ RecordedInterruptActs' /\ UiTold
  BY <1>2, <1>3 DEF UiTypes, UiPC, UiShape, Active, OperationsInvariant,
                    RecordedInterruptActs, UiTold
<1>5. \A i \in Command : i >= nextId /\ i < nextId' => i = nextId
  BY <1>1, WorkerAssumption DEF Command
<1>6. Settled /\ op'.id >= nextId
  BY <1>1, <1>3 DEF Settled
<1>7. UiQuiet
  BY <1>1, <1>3, <1>5, <1>6 DEF UiQuiet
<1> QED BY <1>1, <1>4, <1>7 DEF UiKeeps

\* The event the UI reads next.
LEMMA EventRead ==
  ASSUME TypeOK, UiTypes, op.id # None, read[op.id] < Len(events[op.id])
  PROVE  LET k == read[op.id] + 1
             e == events[op.id][k]
         IN  /\ k \in 1..Len(events[op.id]) /\ e \in Event
             /\ e # Progress => e.session \in Session
<1>1. op.id \in Command
  BY OperationValues DEF UiTypes
<1>2. events[op.id] \in Seq(Event) /\ read[op.id] \in Nat
  BY <1>1 DEF TypeOK, HandleTypes
<1>3. read[op.id] + 1 \in 1..Len(events[op.id])
  BY <1>2, LenProperties
<1>4. events[op.id][read[op.id] + 1] \in Event
  BY <1>2, <1>3, ElementOfSeq
<1>5. \A e \in Event : e # Progress => e.session \in Session
  BY DEF Event, Finished
<1> QED BY <1>3, <1>4, <1>5

\* Every step of the UI thread establishes what the invariant asks of it.
LEMMA UiStep ==
  ASSUME TypeOK, WorkerInvariant, UiTypes, OperationsInvariant, UI
  PROVE  UiKeeps
<1>a. /\ op \in Operation /\ ui \in Session /\ live \in BOOLEAN /\ session \in Session
      /\ ui.connected \in BOOLEAN /\ session.connected \in BOOLEAN
  BY DEF UiTypes, TypeOK, WorkerTypes, Session
<1>b. RecordedInterruptActs /\ UiShape
  BY DEF OperationsInvariant
<1>1. ASSUME NEW intr \in BOOLEAN, NEW coop \in BOOLEAN, StartOperation(intr, coop) PROVE UiKeeps
  BY <1>1, StartStep DEF StartOperation, Free, Active
<1>2. CASE StartRefused
  <2>1. TypeOK' /\ WorkerInvariant' /\ UiQuiet
    BY <1>2, UnseenStep DEF StartRefused
  <2>2. /\ op.id = None /\ op' = op /\ uiPc' = uiPc /\ ui' = session /\ loop' = loop
        /\ live' = (live /\ session.connected) /\ workers' = workers /\ lost' = lost
        /\ broken' = broken
    BY <1>2 DEF StartRefused, Synced, Active, vars, history
  <2>3. UiTypes' /\ UiShape' /\ RecordedInterruptActs' /\ UiTold
    BY <1>a, <1>b, <2>2 DEF UiTypes, UiShape, Active, RecordedInterruptActs,
                            UiTold, Settled
  <2> QED BY <2>1, <2>3 DEF UiKeeps
<1>3. CASE StartReplacing
  <2>1. Init' /\ TypeOK' /\ WorkerInvariant' /\ workers' \in 1..MaxWorkers
    BY <1>3, FreshStep DEF StartReplacing
  <2>2. /\ op.id = None /\ op' = op /\ uiPc' \in {"building", "rebuilding"}
        /\ UNCHANGED <<ui, live, loop, lost>>
    BY <1>3 DEF StartReplacing, Active
  <2>3. UiTypes' /\ UiShape' /\ UiTold
    BY <1>b, <2>1, <2>2 DEF UiTypes, UiPC, UiShape, Active, UiTold
  <2>4. RecordedInterruptActs'
    BY <1>b, <2>2 DEF RecordedInterruptActs, UiShape, Active
  <2> QED BY <2>1, <2>2, <2>3, <2>4 DEF UiKeeps, UiFresh
<1>4. CASE WorkerBuilt
  <2>0. uiPc \in {"building", "rebuilding"} /\ op.id = None /\ UNCHANGED <<loop, lost>>
    BY <1>4, <1>b DEF WorkerBuilt, UiShape, Active
  <2>1. CASE Submit(FALSE) /\ op' = NewOperation(TRUE, FALSE) /\ uiPc' = "idle"
             /\ UNCHANGED <<ui, live, workers>>
    BY <2>0, <2>1, StartStep
  <2>2. CASE uiPc = "building" /\ NewWorker /\ uiPc' = "rebuilding" /\ UNCHANGED <<op, ui, live>>
    <3>1. Init' /\ TypeOK' /\ WorkerInvariant' /\ workers' \in 1..MaxWorkers
      BY <2>2, FreshStep
    <3>2. UiTypes' /\ UiShape' /\ UiTold
      BY <1>b, <2>0, <2>2, <3>1 DEF UiTypes, UiPC, UiShape, Active, UiTold
    <3>3. RecordedInterruptActs'
      BY <1>b, <2>0, <2>2 DEF RecordedInterruptActs, UiShape, Active
    <3> QED BY <2>0, <2>2, <3>1, <3>2, <3>3 DEF UiKeeps, UiFresh
  <2>3. CASE Synced(live) /\ uiPc' = "idle" /\ UNCHANGED <<vars, op, workers>>
    <3>1. TypeOK' /\ WorkerInvariant' /\ UiQuiet
      BY <2>3, UnseenStep
    <3>2. ui' = session /\ live' = (live /\ session.connected) /\ op' = op /\ broken' = broken
          /\ workers' = workers
      BY <2>3 DEF Synced, vars, history
    <3>3. UiTypes' /\ UiShape' /\ RecordedInterruptActs' /\ UiTold
      BY <1>a, <1>b, <2>0, <2>3, <3>2
         DEF UiTypes, UiPC, UiShape, Active, RecordedInterruptActs, UiTold, Settled
    <3> QED BY <3>1, <3>3 DEF UiKeeps
  <2> QED BY <1>4, <2>1, <2>2, <2>3 DEF WorkerBuilt
<1>5. CASE ReleaseCursor
  <2>1. PICK stays \in BOOLEAN :
          \/ Submit(TRUE) /\ live' = stays /\ ui' = ui
          \/ Synced(stays) /\ UNCHANGED vars
    BY <1>5 DEF ReleaseCursor
  <2>2. live /\ op' = op /\ uiPc = "idle" /\ UNCHANGED <<uiPc, loop, workers, lost>>
    BY <1>5 DEF ReleaseCursor, Free
  <2>3. CASE Submit(TRUE) /\ live' = stays /\ ui' = ui
    <3>1. /\ TypeOK' /\ WorkerInvariant' /\ NextTaken' = NextTaken
          /\ UNCHANGED <<done, events, session, workspace, pc, job, report, broken>>
          /\ nextId \in Command /\ nextId \in Nat \ {0} /\ nextId' = nextId + 1
          /\ \A i \in Command : i < nextId => ignored'[i] = ignored[i]
          /\ ignored'[nextId] = TRUE
      BY <2>3, SubmitStep
    <3>2. \A i \in Command : i >= nextId /\ i < nextId' => ignored'[i] = TRUE
      BY <3>1, WorkerAssumption DEF Command
    <3>3. UiQuiet
      <4>1. nextId' \in Nat /\ nextId' >= nextId /\ op'.id = op.id
        BY <2>2, <3>1
      <4>2. \A i \in Command : i >= nextId /\ i < nextId' /\ ~ignored'[i] => i = op'.id
        BY <3>2
      <4> QED BY <3>1, <4>1, <4>2 DEF UiQuiet
    <3>4. UiTypes' /\ UiShape' /\ RecordedInterruptActs' /\ UiTold
      BY <1>b, <2>2, <2>3, <3>1 DEF UiTypes, UiShape, Active, RecordedInterruptActs, UiTold
    <3> QED BY <3>1, <3>3, <3>4 DEF UiKeeps
  <2>4. CASE Synced(stays) /\ UNCHANGED vars
    <3>1. TypeOK' /\ WorkerInvariant' /\ UiQuiet
      BY <2>2, <2>4, UnseenStep
    <3>2. ui' = session /\ live' = (stays /\ session.connected) /\ broken' = broken
      BY <2>4 DEF Synced, vars, history
    <3>3. UiTypes' /\ UiShape' /\ RecordedInterruptActs'
      BY <1>a, <1>b, <2>2, <3>2 DEF UiTypes, UiShape, Active, RecordedInterruptActs
    <3>4. UiTold
      BY <2>2, <3>2 DEF UiTold, Settled
    <3> QED BY <3>1, <3>3, <3>4 DEF UiKeeps
  <2> QED BY <2>1, <2>3, <2>4
<1>6. CASE Interrupt
  <2>0. op.id # None /\ op.id \in Command /\ uiPc = "idle" /\ UNCHANGED <<ui, live, uiPc, loop, workers, lost>>
    BY <1>6, <1>a, OperationValues DEF Interrupt, Free, Active
  <2>1. CASE ~op.interruptible /\ op' = [op EXCEPT !.cancelRequested = TRUE] /\ UNCHANGED vars
    <3>1. op' \in Operation /\ op'.id = op.id /\ ~op'.interruptible
      BY <2>1, <1>a DEF Operation
    <3>2. TypeOK' /\ WorkerInvariant' /\ UiQuiet
      BY <2>1, <3>1, UnseenStep
    <3>3. UiTypes' /\ UiShape' /\ RecordedInterruptActs' /\ UiTold
      BY <1>b, <2>0, <3>1 DEF UiTypes, UiShape, Active, RecordedInterruptActs, UiTold
    <3> QED BY <3>2, <3>3 DEF UiKeeps
  <2>2. ASSUME NEW hit \in BOOLEAN, Cancel(op.id, hit),
               op' = [op EXCEPT !.cancelRequested = hit \/ op.cooperative]
        PROVE  UiKeeps
    <3>1. /\ op' \in Operation /\ op'.id = op.id /\ op'.cooperative = op.cooperative
          /\ op'.cancelRequested = (hit \/ op.cooperative) /\ op.cooperative \in BOOLEAN
      BY <2>2, <1>a DEF Operation
    <3>2. /\ TypeOK' /\ WorkerInvariant' /\ NextTaken' = NextTaken
          /\ UNCHANGED <<nextId, ignored, done, events, session, workspace, pc, job, report>>
          /\ hit => op.id \in broken'
      <4>1. PICK i \in Command : i = op.id
        BY <2>0
      <4>2. Cancel(i, hit)
        BY <2>2, <4>1
      <4> QED BY <4>1, <4>2, CancelStep
    <3>3. \A i \in Command : i >= nextId /\ i < nextId' => FALSE
      BY <3>2, WorkerAssumption DEF Command, TypeOK, WorkerTypes
    <3>4. nextId' \in Nat /\ nextId' >= nextId
      BY <3>2, WorkerAssumption DEF TypeOK, WorkerTypes
    <3>5. UiQuiet
      BY <3>1, <3>2, <3>3, <3>4 DEF UiQuiet
    <3>6. UiTypes' /\ UiShape' /\ UiTold
      BY <1>b, <2>0, <3>1 DEF UiTypes, UiShape, Active, UiTold
    <3>7. RecordedInterruptActs'
      BY <3>1, <3>2 DEF RecordedInterruptActs
    <3> QED BY <3>2, <3>5, <3>6, <3>7 DEF UiKeeps
  <2> QED BY <1>6, <2>1, <2>2 DEF Interrupt
<1>7. CASE PollEvent
  <2> DEFINE k == read[op.id] + 1
             e == events[op.id][k]
  <2>1. /\ op.id # None /\ op.id \in Command /\ uiPc \in {"idle", "waiting"}
        /\ read[op.id] < Len(events[op.id]) /\ read' = [read EXCEPT ![op.id] = @ + 1]
        /\ UNCHANGED <<accepting, current, flags, session, done, events, workspace, pc, locals,
                       history, uiPc, loop, workers, lost>>
    BY <1>7, <1>a, OperationValues DEF PollEvent, Active
  <2>2. k \in 1..Len(events[op.id]) /\ (e # Progress => e.session \in Session)
    BY <2>1, EventRead
  <2>3. read' \in [Command -> Nat]
    BY <2>1 DEF TypeOK, HandleTypes
  <2>4. CASE e = Progress
    <3>1. UNCHANGED <<commands, nextId, ignored, op, ui, live>>
      BY <1>7, <2>4 DEF PollEvent
    <3>2. TypeOK'
      BY <2>1, <2>3, <3>1 DEF TypeOK, WorkerTypes, HandleTypes, ThreadTypes, locals, flags, history
    <3>3. WorkerInvariant'
      BY <2>1, <3>1 DEF WorkerInvariant, QueueInOrder, InHand, TakenAnswered, WayOut, NextTaken,
                        locals, flags, history
    <3>4. \A i \in Command : i >= nextId /\ i < nextId' => FALSE
      BY <3>1, WorkerAssumption DEF Command, TypeOK, WorkerTypes
    <3>5. nextId' \in Nat /\ nextId' >= nextId /\ NextTaken' = NextTaken
      BY <3>1, WorkerAssumption DEF TypeOK, WorkerTypes, NextTaken
    <3>6. UiQuiet
      BY <2>1, <3>1, <3>4, <3>5 DEF UiQuiet, locals
    <3>7. UiTypes' /\ UiShape' /\ RecordedInterruptActs' /\ UiTold
      BY <1>b, <2>1, <3>1 DEF UiTypes, UiShape, Active, RecordedInterruptActs,
                              UiTold, history
    <3> QED BY <3>2, <3>3, <3>6, <3>7 DEF UiKeeps
  <2>5. CASE e # Progress
    <3>1. Complete(e.outcome, e.session) /\ e.session \in Session
      BY <1>7, <2>2, <2>5 DEF PollEvent
    <3>2. Settled
      BY <2>2, <2>5 DEF Settled, OnlyProgress
    <3>3. lost' \in BOOLEAN /\ uiPc' \in {"idle", "waiting"}
      BY <2>1 DEF UiTypes
    <3> HIDE DEF e, k
    <3>4. /\ TypeOK' /\ WorkerInvariant' /\ UiTypes' /\ UiShape'
          /\ RecordedInterruptActs'
          /\ UiQuiet
          /\ ui' \in {e.session, session}
      BY <2>1, <2>3, <3>1, <3>2, <3>3, CompletionStep
    <3>5. UiTold
      BY <2>1, <2>2, <2>5, <3>2, <3>4 DEF UiTold, e, k
    <3> QED BY <3>4, <3>5 DEF UiKeeps
  <2> QED BY <2>4, <2>5
<1>8. CASE PollEmpty
  <2>1. op.id # None /\ UNCHANGED <<vars, op, ui, live, loop, workers, lost>> /\ uiPc' = "empty"
    BY <1>8 DEF PollEmpty, Active
  <2>2. TypeOK' /\ WorkerInvariant' /\ UiQuiet
    BY <2>1, UnseenStep
  <2>3. UiTypes' /\ UiShape' /\ RecordedInterruptActs' /\ UiTold
    BY <1>b, <2>1 DEF UiTypes, UiPC, UiShape, Active, RecordedInterruptActs,
                      UiTold, vars, history
  <2> QED BY <2>2, <2>3 DEF UiKeeps
<1>9. CASE PollDone
  <2>1. /\ op.id # None /\ uiPc = "empty" /\ uiPc' \in {"idle", "waiting"}
        /\ UNCHANGED <<accepting, current, flags, session, done, events, read, workspace, pc,
                       locals, history, loop, workers>>
    BY <1>9, <1>b DEF PollDone, UiShape, Active
  <2>2. CASE UNCHANGED <<commands, nextId, ignored, op, ui, live, lost>>
    <3>1. UNCHANGED vars
      BY <2>1, <2>2 DEF vars, client, handles
    <3>2. TypeOK' /\ WorkerInvariant' /\ UiQuiet
      BY <2>2, <3>1, UnseenStep
    <3>3. UiTypes' /\ UiShape' /\ RecordedInterruptActs' /\ UiTold
      BY <1>b, <2>1, <2>2 DEF UiTypes, UiPC, UiShape, Active,
                              RecordedInterruptActs, UiTold, history
    <3> QED BY <3>2, <3>3 DEF UiKeeps
  <2>3. CASE /\ done[op.id]
             /\ Complete("error", [session EXCEPT !.connected = FALSE])
             /\ lost' = (lost \/ read[op.id] < Len(events[op.id]))
    <3> DEFINE s == [session EXCEPT !.connected = FALSE]
    <3>1. s \in Session /\ Settled
      BY <1>a, <2>3, Values DEF Settled
    <3>2. read' \in [Command -> Nat] /\ lost' \in BOOLEAN
      BY <2>1, <2>3 DEF TypeOK, HandleTypes, UiTypes
    <3>3. Complete("error", s)
      BY <2>3
    <3> HIDE DEF s
    <3>4. /\ TypeOK' /\ WorkerInvariant' /\ UiTypes' /\ UiShape'
          /\ RecordedInterruptActs'
          /\ UiQuiet
          /\ ui' \in {s, session}
      BY <2>1, <3>1, <3>2, <3>3, CompletionStep
    <3>5. UiTold
      BY <3>1, <3>4 DEF UiTold, s
    <3> QED BY <3>4, <3>5 DEF UiKeeps
  <2> QED BY <1>9, <2>2, <2>3 DEF PollDone
<1>10. CASE Quit
  <2>1. /\ uiPc' = "waiting" /\ loop' \in {"running", "timed", "untimed"}
        /\ UNCHANGED <<op, ui, live, workers, lost>>
    BY <1>10 DEF Quit
  <2>2. CASE UNCHANGED vars
    <3>1. TypeOK' /\ WorkerInvariant' /\ UiQuiet /\ broken' = broken
      BY <2>1, <2>2, UnseenStep DEF vars, history
    <3>2. UiTypes' /\ UiShape' /\ RecordedInterruptActs' /\ UiTold
      BY <1>b, <2>1, <3>1 DEF UiTypes, UiPC, UiShape, Active,
                              RecordedInterruptActs, UiTold
    <3> QED BY <3>1, <3>2 DEF UiKeeps
  <2>3. ASSUME Active, NEW hit \in BOOLEAN, Cancel(op.id, hit) PROVE UiKeeps
    <3>1. PICK i \in Command : i = op.id
      BY <2>3, <1>a, OperationValues DEF Active
    <3>2. Cancel(i, hit)
      BY <2>3, <3>1
    <3>3. /\ TypeOK' /\ WorkerInvariant' /\ NextTaken' = NextTaken
          /\ UNCHANGED <<nextId, ignored, done, events, session, workspace, pc, job, report>>
          /\ broken \subseteq broken'
      BY <3>2, CancelStep
    <3>4. \A j \in Command : j >= nextId /\ j < nextId' => FALSE
      BY <3>3, WorkerAssumption DEF Command, TypeOK, WorkerTypes
    <3>5. nextId' \in Nat /\ nextId' >= nextId
      BY <3>3, WorkerAssumption DEF TypeOK, WorkerTypes
    <3>6. UiQuiet
      BY <2>1, <3>3, <3>4, <3>5 DEF UiQuiet
    <3>7. UiTypes' /\ UiShape' /\ RecordedInterruptActs' /\ UiTold
      BY <1>b, <2>1, <3>3 DEF UiTypes, UiPC, UiShape, Active,
                              RecordedInterruptActs, UiTold
    <3> QED BY <3>3, <3>6, <3>7 DEF UiKeeps
  <2> QED BY <1>10, <2>2, <2>3 DEF Quit
<1>11. CASE StopWorker
  <2>1. /\ uiPc' = "joining" /\ live' = FALSE /\ accepting' = FALSE
        /\ UNCHANGED <<current, flags, session, done, events, read, workspace, pc, locals,
                       history, op, loop, workers, lost>>
    BY <1>11 DEF StopWorker
  <2> DEFINE m == IF live /\ nextId \in Command THEN 1 ELSE 0
  <2>2. ui' \in {ui, session}
    BY <1>11 DEF StopWorker
  <2>3. UiTypes' /\ UiShape' /\ RecordedInterruptActs' /\ UiTold
    BY <1>a, <1>b, <2>1, <2>2 DEF UiTypes, UiPC, UiShape, Active,
                                  RecordedInterruptActs, UiTold, history
  <2>4. nextId \in Nat /\ nextId <= MaxCommands + 1 /\ MaxCommands \in Nat
        /\ ignored \in [Command -> BOOLEAN] /\ read \in [Command -> Nat]
    BY WorkerAssumption DEF TypeOK, WorkerTypes, HandleTypes
  <2>5. CASE /\ accepting
             /\ LET batch == IF live /\ nextId \in Command THEN <<nextId>> ELSE <<>>
                IN  /\ commands' = commands \o batch \o <<Stop>>
                    /\ nextId' = nextId + Len(batch)
             /\ ignored' = [i \in Command |-> ignored[i] \/ (live /\ i = nextId)]
             /\ ui' = ui
    <3>1. /\ nextId' = nextId + m
          /\ commands' = Append(commands \o Numbered(nextId, m), Stop)
      <4>0. commands \in Seq(Nat) /\ commands \o <<>> = commands
        BY <2>5, OpenQueue
      <4>1. CASE live /\ nextId \in Command
        <5>1. Numbered(nextId, 1) = <<nextId>>
          BY <2>4 DEF Numbered
        <5>2. commands \o <<nextId>> \in Seq(Nat)
          BY <4>0, <2>4
        <5>3. (commands \o <<nextId>>) \o <<Stop>> = Append(commands \o <<nextId>>, Stop)
          BY <5>2 DEF Stop
        <5> QED BY <2>5, <4>1, <5>1, <5>3
      <4>2. CASE ~(live /\ nextId \in Command)
        <5>1. Numbered(nextId, 0) = <<>>
          BY <2>4 DEF Numbered
        <5>2. (commands \o <<>>) \o <<Stop>> = Append(commands \o <<>>, Stop)
          BY <4>0 DEF Stop
        <5> QED BY <2>5, <4>0, <4>2, <5>1, <5>2, <2>4
      <4> QED BY <4>1, <4>2
    <3>2. m \in Nat /\ nextId + m <= MaxCommands + 1
      BY <2>4 DEF Command
    <3>3. ignored' \in [Command -> BOOLEAN]
      BY <2>4, <2>5, <1>a
    <3>4. Batched(m)
      BY <2>1, <2>4, <2>5, <3>1, <3>2, <3>3 DEF Batched
    <3>5. TypeOK' /\ WorkerInvariant' /\ NextTaken' = NextTaken
      BY <3>4, BatchedKeeps
    <3>6. \A i \in Command : i < nextId => ignored'[i] = ignored[i]
      BY <2>4, <2>5 DEF Command
    <3>7. \A i \in Command : i >= nextId /\ i < nextId' => ignored'[i]
      <4> SUFFICES ASSUME NEW i \in Command, i >= nextId, i < nextId' PROVE ignored'[i]
        OBVIOUS
      <4>1. i = nextId /\ live
        BY <2>4, <3>1 DEF Command
      <4>2. ignored'[i] = (ignored[i] \/ (live /\ i = nextId))
        BY <2>5
      <4> QED BY <4>1, <4>2
    <3>8. nextId' \in Nat /\ nextId' >= nextId
      BY <2>4, <3>1, <3>2
    <3>9. UiQuiet
      BY <2>1, <3>5, <3>6, <3>7, <3>8 DEF UiQuiet, locals
    <3> QED BY <2>3, <3>5, <3>9 DEF UiKeeps
  <2>6. CASE ~accepting /\ UNCHANGED <<commands, nextId, ignored>>
    <3>1. UNCHANGED vars
      BY <2>1, <2>6 DEF vars, client, handles, TypeOK, WorkerTypes
    <3>2. TypeOK' /\ WorkerInvariant' /\ UiQuiet
      BY <2>1, <3>1, UnseenStep
    <3> QED BY <2>3, <3>2 DEF UiKeeps
  <2> QED BY <1>11, <2>5, <2>6 DEF StopWorker
<1>12. CASE Leave
  <2>1. UNCHANGED <<vars, op, ui, live, loop, workers, lost>> /\ uiPc' = "left"
    BY <1>12 DEF Leave
  <2>2. TypeOK' /\ WorkerInvariant' /\ UiQuiet
    BY <2>1, UnseenStep
  <2>3. UiTypes' /\ UiShape' /\ RecordedInterruptActs' /\ UiTold
    BY <1>b, <2>1 DEF UiTypes, UiPC, UiShape, Active, RecordedInterruptActs,
                      UiTold, vars, history
  <2> QED BY <2>2, <2>3 DEF UiKeeps
<1> QED BY <1>1, <1>2, <1>3, <1>4, <1>5, <1>6, <1>7, <1>8, <1>9, <1>10, <1>11, <1>12 DEF UI, Poll

-----------------------------------------------------------------------------
(* The UI's steps keep the invariant.                                      *)

\* No step of the curses thread breaks the types or the invariant of operations.
LEMMA UiKeepsOperations ==
  ASSUME TypeOK, WorkerInvariant, UiTypes, OperationsInvariant, UI
  PROVE  TypeOK' /\ WorkerInvariant' /\ UiTypes' /\ OperationsInvariant'
<1>1. UiKeeps
  BY UiStep
<1>2. CASE UiFresh
  <2>1. nextId' = 1 /\ events' = [i \in Command |-> <<>>]
    BY <1>2 DEF UiFresh, Init
  <2>2. OneOperation'
    BY <2>1, WorkerAssumption DEF OneOperation, Accepted, Command
  <2>3. EventsInOrder'
    BY <2>1, EmptySeq DEF EventsInOrder, OnlyProgress
  <2> QED BY <1>1, <2>2, <2>3 DEF UiKeeps, OperationsInvariant
<1>3. CASE UiQuiet
  <2>1. EventsInOrder'
    BY <1>3 DEF UiQuiet, OperationsInvariant, EventsInOrder, OnlyProgress
  <2>2. OneOperation'
    <3> SUFFICES ASSUME NEW i \in Command, i < nextId', ~ignored'[i], ~done[i], OnlyProgress(i)
                 PROVE  i = op'.id
      BY <1>3 DEF OneOperation, Accepted, OnlyProgress, UiQuiet
    <3>1. nextId \in Nat /\ i \in Nat /\ i # None
      BY WorkerAssumption DEF TypeOK, WorkerTypes, Command, None
    <3>2. CASE i >= nextId
      BY <1>3, <3>1, <3>2 DEF UiQuiet
    <3>3. CASE i < nextId
      <4>1. ~ignored[i]
        BY <1>3, <3>3 DEF UiQuiet
      <4>2. i = op.id
        BY <3>3, <4>1 DEF OperationsInvariant, OneOperation, Accepted
      <4>3. ~Settled
        BY <3>1, <4>2 DEF Settled
      <4> QED BY <1>3, <4>2, <4>3 DEF UiQuiet
    <3> QED BY <3>1, <3>2, <3>3
  <2> QED BY <1>1, <2>1, <2>2 DEF UiKeeps, OperationsInvariant
<1> QED BY <1>1, <1>2, <1>3 DEF UiKeeps

\* While no operation is on its way, what is published tells of all the
\* pending work: nothing in the thread's hands is a foreground command.
LEMMA SettledPublished ==
  ASSUME TypeOK, WorkerInvariant, UiTypes, OperationsInvariant, PendingInvariant, Settled,
         workspace.pending
  PROVE  session.pending
<1> SUFFICES ASSUME job # None, ~ignored[job], pc \in {"clear", "snapshot", "publish"}
             PROVE  FALSE
  BY DEF PendingInvariant, PendingPublished
<1>1. job \in Command /\ ~done[job] /\ job = NextTaken - 1
  BY DEF TypeOK, ThreadTypes, WorkerInvariant, InHand
<1>2. job < nextId
  <2>1. NextTaken <= nextId
    BY QueueNumbers DEF WorkerInvariant, NextTaken
  <2> QED BY <1>1, <2>1, QueueNumbers DEF WorkerInvariant
<1>3. OnlyProgress(job)
  BY <1>1 DEF OperationsInvariant, EventsInOrder
<1>4. job = op.id
  BY <1>1, <1>2, <1>3 DEF OperationsInvariant, OneOperation, Accepted
<1> QED BY <1>1, <1>3, <1>4 DEF Settled

\* No step of the curses thread loses sight of pending work: a completion hands over
\* the session state it read, and only replacing the worker discards one.
LEMMA UiKeepsPending ==
  ASSUME TypeOK, WorkerInvariant, UiTypes, OperationsInvariant, PendingInvariant, UI
  PROVE  PendingInvariant'
<1>1. UiKeeps
  BY UiStep
<1>2. CASE UiFresh
  <2>1. workspace' = NoSession /\ uiPc' # "idle"
    BY <1>2 DEF UiFresh, Init
  <2>2. ~workspace'.pending
    BY <2>1 DEF NoSession
  <2> QED BY <2>1, <2>2 DEF PendingInvariant, PendingPublished, PendingReported, PendingDelivered,
                             NoHiddenPendingWork
<1>3. CASE UiQuiet
  <2>1. UNCHANGED <<done, events, session, workspace, pc, job, report>>
    BY <1>3 DEF UiQuiet
  <2>2. job # None => job \in Command /\ job < nextId
    <3>1. NextTaken <= nextId
      BY QueueNumbers DEF WorkerInvariant, NextTaken
    <3> QED BY <3>1, QueueNumbers DEF TypeOK, ThreadTypes, WorkerInvariant, InHand
  <2>3. PendingPublished'
    BY <1>3, <2>1, <2>2 DEF UiQuiet, PendingInvariant, PendingPublished
  <2>4. PendingReported'
    BY <2>1 DEF PendingInvariant, PendingReported
  <2>5. PendingDelivered'
    <3> SUFFICES ASSUME workspace.pending, op'.id # None,
                        NEW k \in 1..Len(events[op'.id]), events[op'.id][k] # Progress
                 PROVE  events[op'.id][k].session.pending
      BY <2>1 DEF PendingDelivered, Active
    <3>1. CASE op'.id = op.id
      BY <3>1 DEF PendingInvariant, PendingDelivered, Active
    <3>2. CASE op'.id >= nextId
      <4>1. op'.id \in Command /\ nextId >= NextTaken /\ NextTaken \in Nat /\ nextId \in Nat
        BY <1>1, QueueNumbers, OperationValues DEF UiKeeps, UiTypes, WorkerInvariant, NextTaken
      <4>2. op'.id >= NextTaken
        BY <3>2, <4>1, WorkerAssumption DEF Command
      <4> QED BY <4>1, <4>2 DEF OperationsInvariant, EventsInOrder, OnlyProgress
    <3> QED BY <1>3, <3>1, <3>2 DEF UiQuiet
  <2>6. NoHiddenPendingWork'
    <3> SUFFICES ASSUME op'.id = None, uiPc' = "idle", workspace.pending
                 PROVE  ui'.pending
      BY <2>1 DEF NoHiddenPendingWork, Active
    <3>1. UiTold
      BY <1>1 DEF UiKeeps
    <3>2. CASE uiPc = "idle" /\ op.id = None /\ ui' = ui
      BY <3>2 DEF PendingInvariant, NoHiddenPendingWork, Active
    <3>3. CASE Settled /\ ui' \in {session, [session EXCEPT !.connected = FALSE]}
      <4>1. session.pending
        BY <3>3, SettledPublished
      <4>2. [session EXCEPT !.connected = FALSE].pending = session.pending
        BY DEF TypeOK, WorkerTypes, Session
      <4> QED BY <3>3, <4>1, <4>2
    <3>4. CASE op.id # None /\ \E k \in 1..Len(events[op.id]) :
                                 events[op.id][k] # Progress /\ ui' = events[op.id][k].session
      BY <3>4 DEF PendingInvariant, PendingDelivered, Active
    <3> QED BY <3>1, <3>2, <3>3, <3>4 DEF UiTold
  <2> QED BY <2>3, <2>4, <2>5, <2>6 DEF PendingInvariant
<1> QED BY <1>1, <1>2, <1>3 DEF UiKeeps

-----------------------------------------------------------------------------
(* The thread's steps keep the invariant.                                  *)

\* What the thread does to the events, in general.
ThreadEffect ==
  /\ UNCHANGED <<nextId, ignored, broken>>
  /\ \A i \in Command : done[i] => done'[i]
  /\ \/ events' = events /\ (pc' = "done" => pc \in {"done", "emit"})
     \/ /\ job \in Command /\ job' = job /\ ~ignored[job]
        /\ \E e \in Event :
             /\ events' = [events EXCEPT ![job] = Append(@, e)]
             /\ \/ e = Progress /\ pc' = pc
                \/ pc = "emit" /\ pc' = "done" /\ e.session = report.session

\* The end of a task that leaves the workspace with any state, not only those
\* the worker's own tasks are given.
LEMMA TaskEnds ==
  ASSUME TypeOK, WorkerInvariant, NEW w \in Session,
         TaskCrashes(w) \/ \E o \in {"ok", "error"} : TaskReturns(o, w)
  PROVE  TypeOK' /\ WorkerInvariant' /\ NextTaken' = NextTaken
<1> USE DEF client, handles, flags, locals, history
<1>1. QueueInOrder' /\ NextTaken' = NextTaken
  BY QueueKept DEF TaskReturns, TaskCrashes, WorkerInvariant
<1>2. InHand'
  BY <1>1 DEF TaskReturns, TaskCrashes, InHand, WorkerInvariant
<1>3. TakenAnswered'
  BY <1>1 DEF TaskReturns, TaskCrashes, InHand, TakenAnswered, WayOut, WorkerInvariant
<1>4. WayOut'
  BY <1>1 DEF TaskReturns, TaskCrashes, WayOut, WorkerInvariant
<1>5. WorkerTypes'
  BY DEF TaskReturns, TaskCrashes, TypeOK, WorkerTypes, ThreadTypes
<1>6. HandleTypes'
  BY DEF TaskReturns, TaskCrashes, TypeOK, HandleTypes
<1>7. ThreadTypes'
  BY DEF TaskReturns, TaskCrashes, TypeOK, ThreadTypes, PC, Outcome
<1> QED BY <1>1, <1>2, <1>3, <1>4, <1>5, <1>6, <1>7 DEF TypeOK, WorkerInvariant

\* A step of the thread or of the network, for the UI that drives it.
LEMMA ThreadKeepsWorker ==
  ASSUME TypeOK, WorkerInvariant, OpsThread
  PROVE  /\ TypeOK' /\ WorkerInvariant'
         /\ NextTaken' = NextTaken \/ (NextTaken' = NextTaken + 1 /\ job' = NextTaken)
<1>1. CASE [Next]_vars
  BY <1>1, WorkerStands, TakenStep
<1>2. CASE BackgroundTask
  <2>1. workspace \in Session
    BY DEF TypeOK, ThreadTypes
  <2>2. TaskCrashes(workspace) \/ \E o \in {"ok", "error"} : TaskReturns(o, workspace)
    BY <1>2 DEF BackgroundTask
  <2> QED BY <2>1, <2>2, TaskEnds
<1> QED BY <1>1, <1>2 DEF OpsThread, ForegroundTask, Next, Thread

\* What each step of the worker thread may change of what the UI sees.
LEMMA ThreadEffects ==
  ASSUME TypeOK, WorkerInvariant, OpsThread
  PROVE  ThreadEffect /\ UNCHANGED uiVars
<1> USE DEF client, handles, flags, locals, history
<1>1. UNCHANGED uiVars
  BY DEF OpsThread
<1>2. CASE Serve \/ ReportProgress \/ ConnectionDies
  <2>2. CASE Emit
    <3>1. job \in Command /\ job' = job /\ pc = "emit" /\ pc' = "done"
      BY <2>2, WorkerAssumption DEF Emit, TypeOK, ThreadTypes, WorkerInvariant, InHand
    <3>2. Finished(report.outcome, report.session) \in Event
          /\ Finished(report.outcome, report.session).session = report.session
      BY Values DEF TypeOK, ThreadTypes, Finished
    <3>3. events' = events \/ (~ignored[job] /\ events' = [events EXCEPT ![job] =
                                  Append(@, Finished(report.outcome, report.session))])
      BY <2>2 DEF Emit, Emitted
    <3>4. UNCHANGED <<nextId, ignored, broken, done>>
      BY <2>2 DEF Emit
    <3> QED BY <1>1, <3>1, <3>2, <3>3, <3>4 DEF ThreadEffect
  <2>3. CASE ReportProgress
    <3>1. job \in Command /\ job' = job /\ pc' = pc /\ ~ignored[job] /\ Progress \in Event
      BY <2>3, Values DEF ReportProgress, TypeOK, ThreadTypes, WorkerInvariant, InHand
    <3>2. events' = [events EXCEPT ![job] = Append(@, Progress)]
      BY <2>3 DEF ReportProgress, Emitted
    <3>3. UNCHANGED <<nextId, ignored, broken, done>>
      BY <2>3 DEF ReportProgress
    <3> QED BY <1>1, <3>1, <3>2, <3>3 DEF ThreadEffect
  <2>4. CASE MarkDone
    <3>1. done' = [done EXCEPT ![job] = TRUE] /\ done \in [Command -> BOOLEAN]
      BY <2>4 DEF MarkDone, TypeOK, HandleTypes
    <3>2. pc = "done"
      BY <2>4 DEF MarkDone
    <3> QED BY <1>1, <2>4, <3>1, <3>2 DEF MarkDone, ThreadEffect
  <2>5. CASE \/ InitialSnapshot \/ Take \/ Begin \/ ClearCurrent \/ Snapshot \/ Publish
             \/ Fail \/ Drain \/ Drained \/ Close \/ Exit \/ ConnectionDies
    BY <1>1, <2>5
       DEF InitialSnapshot, Take, Begin, ClearCurrent, Snapshot, Publish, Fail, Drain, Drained, Close,
           Exit, ConnectionDies, ThreadEffect
  <2> QED BY <1>2, <2>2, <2>3, <2>4, <2>5 DEF Serve
<1>3. ASSUME NEW w, NEW o, pc = "task", TaskReturns(o, w)
      PROVE  ThreadEffect
  BY <1>3 DEF TaskReturns, ThreadEffect
<1>4. ASSUME NEW w, pc = "task", TaskCrashes(w)
      PROVE  ThreadEffect
  BY <1>4 DEF TaskCrashes, ThreadEffect
<1>5. CASE ForegroundTask
  BY <1>1, <1>3, <1>4, <1>5 DEF ForegroundTask, Task
<1>6. CASE BackgroundTask
  BY <1>1, <1>3, <1>4, <1>6 DEF BackgroundTask
<1> QED BY <1>2, <1>5, <1>6 DEF OpsThread

\* The item an emission adds to the events of the command in hand.
LEMMA EventAdded ==
  ASSUME TypeOK, NEW i \in Command, NEW j \in Command, NEW e \in Event,
         events' = [events EXCEPT ![j] = Append(@, e)]
  PROVE  /\ i # j => events'[i] = events[i]
         /\ i = j => /\ Len(events'[i]) = Len(events[i]) + 1
                     /\ events'[i][Len(events[i]) + 1] = e
         /\ \A k \in 1..Len(events[i]) : k \in 1..Len(events'[i]) /\ events'[i][k] = events[i][k]
         /\ Len(events[i]) \in Nat
<1>1. events[j] \in Seq(Event) /\ events[i] \in Seq(Event) /\ events \in [Command -> Seq(Event)]
  BY DEF TypeOK, HandleTypes
<1>2. Len(events[i]) \in Nat /\ Len(events[j]) \in Nat
  BY <1>1, LenProperties
<1>3. events'[j] = Append(events[j], e) /\ (i # j => events'[i] = events[i])
  BY <1>1
<1>4. /\ Len(Append(events[j], e)) = Len(events[j]) + 1
      /\ Append(events[j], e)[Len(events[j]) + 1] = e
      /\ \A k \in 1..Len(events[j]) : Append(events[j], e)[k] = events[j][k]
  BY <1>1, AppendProperties
<1> QED BY <1>2, <1>3, <1>4

\* Events are never taken back.
LEMMA ProgressKept ==
  ASSUME TypeOK, ThreadEffect, NEW i \in Command, OnlyProgress(i)'
  PROVE  OnlyProgress(i)
<1>1. CASE events' = events
  BY <1>1 DEF OnlyProgress
<1>2. CASE job \in Command /\ \E e \in Event : events' = [events EXCEPT ![job] = Append(@, e)]
  <2>1. PICK e \in Event : events' = [events EXCEPT ![job] = Append(@, e)]
    BY <1>2
  <2>2. PICK j \in Command : j = job
    BY <1>2
  <2>3. \A k \in 1..Len(events[i]) : k \in 1..Len(events'[i]) /\ events'[i][k] = events[i][k]
    BY <2>1, <2>2, EventAdded
  <2> QED BY <2>3 DEF OnlyProgress
<1> QED BY <1>1, <1>2 DEF ThreadEffect

\* The thread keeps the command in hand, lets it go, or takes the next.
LEMMA JobStep ==
  ASSUME TypeOK, WorkerInvariant, OpsThread, job' # None
  PROVE  job' = NextTaken \/ (job' = job /\ (pc = "done" => pc' = "done"))
<1> USE DEF client, handles, flags, locals, history
<1>0. /\ WorkerInvariant' /\ TypeOK'
      /\ NextTaken' = NextTaken \/ (NextTaken' = NextTaken + 1 /\ job' = NextTaken)
  BY ThreadKeepsWorker
<1>1. CASE Take \/ Drain
  <2>1. job = None /\ done' = done
    BY <1>1 DEF Take, Drain, WorkerInvariant, InHand
  <2>2. job' \in Command /\ job' = NextTaken' - 1 /\ ~done[job']
    BY <1>0, <2>1 DEF WorkerInvariant, InHand, TypeOK, ThreadTypes
  <2>3. CASE NextTaken' = NextTaken
    <3>1. NextTaken \in Nat
      BY QueueNumbers DEF WorkerInvariant
    <3>2. PICK i \in Command : i = job'
      BY <2>2
    <3>3. i < NextTaken
      BY <2>2, <2>3, <3>1, <3>2
    <3>4. done[i] \/ i = job
      BY <3>3 DEF WorkerInvariant, TakenAnswered
    <3> QED BY <2>1, <2>2, <3>2, <3>4
  <2> QED BY <1>0, <2>3
<1>2. CASE MarkDone
  BY <1>2 DEF MarkDone
<1>3. CASE ForegroundTask \/ BackgroundTask
  BY <1>3 DEF ForegroundTask, BackgroundTask, Task, TaskReturns, TaskCrashes
<1>4. CASE \/ InitialSnapshot \/ Begin \/ ClearCurrent \/ Snapshot \/ Publish \/ Emit
           \/ Fail \/ Drained \/ Close \/ Exit \/ ConnectionDies \/ ReportProgress
  BY <1>4 DEF InitialSnapshot, Begin, ClearCurrent, Snapshot, Publish, Emit, Fail, Drained, Close,
              Exit, ConnectionDies, ReportProgress
<1> QED BY <1>1, <1>2, <1>3, <1>4 DEF OpsThread, Serve

\* No step of the worker thread breaks the types or the invariant of operations.
LEMMA ThreadKeepsOperations ==
  ASSUME TypeOK, WorkerInvariant, UiTypes, OperationsInvariant, OpsThread
  PROVE  TypeOK' /\ WorkerInvariant' /\ UiTypes' /\ OperationsInvariant'
<1>1. /\ TypeOK' /\ WorkerInvariant'
      /\ NextTaken' = NextTaken \/ (NextTaken' = NextTaken + 1 /\ job' = NextTaken)
  BY ThreadKeepsWorker
<1>2. ThreadEffect /\ UNCHANGED uiVars
  BY ThreadEffects
<1>3. UNCHANGED <<op, ui, live, uiPc, loop, workers, lost, nextId, ignored, broken>>
  BY <1>2 DEF uiVars, ThreadEffect
<1>4. UiTypes' /\ UiShape' /\ RecordedInterruptActs'
  BY <1>3 DEF UiTypes, OperationsInvariant, UiShape, Active,
              RecordedInterruptActs
<1>5. OneOperation'
  <2> SUFFICES ASSUME NEW i \in Command, i < nextId, ~ignored[i], ~done'[i], OnlyProgress(i)'
               PROVE  i = op.id
    BY <1>3 DEF OneOperation, Accepted
  <2>1. OnlyProgress(i)
    BY <1>2, ProgressKept
  <2>2. ~done[i]
    BY <1>2 DEF ThreadEffect
  <2> QED BY <2>1, <2>2 DEF OperationsInvariant, OneOperation, Accepted
<1>6. EventsInOrder'
  <2> SUFFICES ASSUME NEW i \in Command, i >= NextTaken' \/ (i = job' /\ pc' # "done")
               PROVE  OnlyProgress(i)'
    BY DEF EventsInOrder
  <2>1. NextTaken \in Nat /\ i \in Nat /\ i # None /\ (job # None => job = NextTaken - 1)
    BY QueueNumbers, WorkerAssumption DEF WorkerInvariant, InHand, Command, None
  <2>2. i >= NextTaken \/ (i = job /\ pc' # "done" /\ pc # "done")
    BY <1>1, <2>1, JobStep
  <2>3. OnlyProgress(i)
    BY <2>2 DEF OperationsInvariant, EventsInOrder
  <2>4. CASE events' = events
    BY <2>3, <2>4 DEF OnlyProgress
  <2>5. ASSUME job \in Command,
               NEW e \in Event, events' = [events EXCEPT ![job] = Append(@, e)],
               e = Progress \/ pc' = "done"
        PROVE  OnlyProgress(i)'
    <3>1. PICK j \in Command : j = job
      BY <2>5
    <3>2. /\ i # j => events'[i] = events[i]
          /\ i = j => /\ Len(events'[i]) = Len(events[i]) + 1
                      /\ events'[i][Len(events[i]) + 1] = e
          /\ \A k \in 1..Len(events[i]) : k \in 1..Len(events'[i]) /\ events'[i][k] = events[i][k]
          /\ Len(events[i]) \in Nat
      <4>1. events' = [events EXCEPT ![j] = Append(@, e)]
        BY <2>5, <3>1
      <4> QED BY <4>1, EventAdded
    <3>3. CASE i # j
      BY <2>3, <3>2, <3>3 DEF OnlyProgress
    <3>4. CASE i = j
      <4>1. i < NextTaken /\ e = Progress
        BY <2>1, <2>2, <2>5, <3>1, <3>4
      <4> QED BY <2>3, <3>2, <3>4, <4>1 DEF OnlyProgress
    <3> QED BY <3>3, <3>4
  <2> QED BY <1>2, <2>4, <2>5 DEF ThreadEffect
<1> QED BY <1>1, <1>4, <1>5, <1>6 DEF OperationsInvariant

\* Pending work comes only from the running operation's task: a background
\* command leaves the workspace's pending work as it is.
LEMMA WorkspaceStep ==
  ASSUME TypeOK, WorkerInvariant, UiTypes, OperationsInvariant, OpsThread,
         workspace'.pending, ~workspace.pending
  PROVE  ForegroundTask /\ job = op.id /\ OnlyProgress(job)
<1> USE DEF client, handles, flags, locals, history
<1>1. CASE ForegroundTask
  <2>1. pc = "task" /\ ~ignored[job]
    BY <1>1 DEF ForegroundTask
  <2>2. job \in Command /\ ~done[job] /\ job = NextTaken - 1
    BY <2>1 DEF TypeOK, ThreadTypes, WorkerInvariant, InHand
  <2>3. job < nextId
    BY <2>2, QueueNumbers DEF WorkerInvariant, NextTaken
  <2>4. OnlyProgress(job)
    BY <2>1, <2>2 DEF OperationsInvariant, EventsInOrder
  <2> QED BY <1>1, <2>1, <2>2, <2>3, <2>4 DEF OperationsInvariant, OneOperation, Accepted
<1>2. CASE BackgroundTask
  <2>1. workspace' = workspace
    BY <1>2 DEF BackgroundTask, TaskReturns, TaskCrashes
  <2> QED BY <2>1
<1>3. CASE ConnectionDies
  <2>1. workspace' = [workspace EXCEPT !.connected = FALSE] /\ workspace \in Session
    BY <1>3 DEF ConnectionDies, TypeOK, ThreadTypes
  <2> QED BY <2>1 DEF Session
<1>4. CASE Close
  BY <1>4 DEF Close, NoSession
<1>5. CASE \/ InitialSnapshot \/ Take \/ Begin \/ ClearCurrent \/ Snapshot \/ Publish \/ Emit
           \/ MarkDone \/ Fail \/ Drain \/ Drained \/ Exit \/ ReportProgress
  <2>1. workspace' = workspace
    BY <1>5 DEF InitialSnapshot, Take, Begin, ClearCurrent, Snapshot, Publish, Emit, MarkDone, Fail,
                Drain, Drained, Exit, ReportProgress
  <2> QED BY <2>1
<1> QED BY <1>1, <1>2, <1>3, <1>4, <1>5 DEF OpsThread, Serve

\* Reading the workspace's state for a report, when it can always be read.
LEMMA SnapshotReads ==
  ASSUME SnapshotOutcomes = {"ok"}, TypeOK, Snapshot
  PROVE  /\ report'.session.pending = workspace.pending
         /\ UNCHANGED <<workspace, session, job, ignored>> /\ pc = "snapshot" /\ pc' = "publish"
<1> USE DEF client, handles
<1>1. SnapshotWith("ok")
  BY DEF Snapshot
<1>2. workspace \in Session
  BY DEF TypeOK, ThreadTypes
<1>3. [workspace EXCEPT !.connected = FALSE].pending = workspace.pending
  BY <1>2 DEF Session
<1>4. report'.session \in {workspace, [workspace EXCEPT !.connected = FALSE]}
  BY <1>1 DEF SnapshotWith
<1> QED BY <1>3, <1>4 DEF Snapshot

\* While the workspace can be read, what the thread publishes and reports knows of
\* the pending work of the workspace.
LEMMA ThreadKeepsReports ==
  ASSUME SnapshotOutcomes = {"ok"}, TypeOK, WorkerInvariant, UiTypes, OperationsInvariant,
         PendingInvariant, OpsThread
  PROVE  PendingPublished' /\ PendingReported'
<1> USE DEF client, handles, flags, locals, history
<1>1. PendingPublished /\ PendingReported
  BY DEF PendingInvariant
<1>2. /\ session \in Session /\ workspace \in Session /\ report.session \in Session
      /\ [session EXCEPT !.connected = FALSE].pending = session.pending
      /\ [workspace EXCEPT !.connected = FALSE].pending = workspace.pending
  BY DEF TypeOK, WorkerTypes, ThreadTypes, Session
<1>3. CASE InitialSnapshot
  BY <1>1, <1>3 DEF InitialSnapshot, PendingPublished, PendingReported, WorkerInvariant, InHand
<1>4. CASE Take \/ Drain
  <2>1. job = None /\ pc \in {"get", "drain"} /\ pc' \in {"closing", "begin", "emit", "drain"}
        /\ UNCHANGED <<workspace, session>>
    BY <1>4 DEF Take, Drain, WorkerInvariant, InHand
  <2>2. pc' = "emit" => report'.session = session
    BY <1>4 DEF Take, Drain
  <2>3. workspace.pending => session.pending
    BY <1>1, <2>1 DEF PendingPublished
  <2> QED BY <2>1, <2>2, <2>3 DEF PendingPublished, PendingReported
<1>5. CASE Begin \/ ReportProgress \/ Drained
  BY <1>1, <1>5 DEF Begin, ReportProgress, Drained, PendingPublished, PendingReported
<1>6. CASE ForegroundTask
  <2>1. job # None /\ ~ignored[job] /\ pc' = "clear" /\ UNCHANGED <<job, ignored>>
    BY <1>6 DEF ForegroundTask, Task, TaskReturns, TaskCrashes, WorkerInvariant, InHand
  <2> QED BY <2>1 DEF PendingPublished, PendingReported
<1>7. CASE BackgroundTask
  <2>1. pc = "task" /\ pc' = "clear" /\ UNCHANGED <<session, workspace>>
    BY <1>7 DEF BackgroundTask, TaskReturns, TaskCrashes
  <2> QED BY <1>1, <2>1 DEF PendingPublished, PendingReported
<1>8. CASE ConnectionDies
  <2>1. workspace'.pending = workspace.pending /\ UNCHANGED <<session, report, pc, job, ignored>>
    BY <1>2, <1>8 DEF ConnectionDies
  <2> QED BY <1>1, <2>1 DEF PendingPublished, PendingReported
<1>9. CASE ClearCurrent
  BY <1>1, <1>9 DEF ClearCurrent, PendingPublished, PendingReported
<1>10. CASE Snapshot
  <2>1. /\ report'.session.pending = workspace.pending
        /\ UNCHANGED <<workspace, session, job, ignored>> /\ pc = "snapshot" /\ pc' = "publish"
    BY <1>10, SnapshotReads
  <2> QED BY <1>1, <2>1 DEF PendingPublished, PendingReported
<1>11. CASE Publish
  <2>1. /\ pc = "publish" /\ pc' = "emit" /\ session' = report.session
        /\ UNCHANGED <<workspace, report>>
    BY <1>11 DEF Publish
  <2> QED BY <1>1, <2>1 DEF PendingPublished, PendingReported
<1>12. CASE Emit \/ MarkDone
  <2>1. pc \in {"emit", "done"} /\ pc' \in {"done", "get", "fatal", "drain"} /\ UNCHANGED <<workspace, session>>
    BY <1>12 DEF Emit, MarkDone
  <2> QED BY <1>1, <2>1 DEF PendingPublished, PendingReported
<1>13. CASE Fail
  <2>1. pc = "fatal" /\ pc' = "drain" /\ session'.pending = session.pending /\ workspace' = workspace
    BY <1>2, <1>13 DEF Fail
  <2> QED BY <1>1, <2>1 DEF PendingPublished, PendingReported
<1>14. CASE Close
  <2>1. ~workspace'.pending
    BY <1>14 DEF Close, NoSession
  <2> QED BY <2>1 DEF PendingPublished, PendingReported
<1>15. CASE Exit
  <2>1. /\ pc' = "exited" /\ workspace' = workspace /\ "ok" \in SnapshotOutcomes
        /\ session' = IF mode = "serving" THEN workspace
                      ELSE [connected |-> FALSE, pending |-> preClose \/ workspace.pending]
    BY <1>15 DEF Exit
  <2>2. workspace.pending => session'.pending
    BY <2>1
  <2> QED BY <2>1, <2>2 DEF PendingPublished, PendingReported
<1> QED BY <1>3, <1>4, <1>5, <1>6, <1>7, <1>8, <1>9, <1>10, <1>11, <1>12, <1>13, <1>14, <1>15
        DEF OpsThread, Serve

\* No step of the worker thread hides pending work from an idle curses thread.
LEMMA ThreadKeepsPending ==
  ASSUME SnapshotOutcomes = {"ok"}, TypeOK, WorkerInvariant, UiTypes, OperationsInvariant,
         PendingInvariant, OpsThread
  PROVE  PendingInvariant'
<1>1. PendingPublished' /\ PendingReported'
  BY ThreadKeepsReports
<1>2. ThreadEffect /\ op' = op /\ ui' = ui /\ uiPc' = uiPc
  BY ThreadEffects DEF uiVars
<1>3. ASSUME ForegroundTask PROVE events' = events
  BY <1>3 DEF ForegroundTask, Task, TaskReturns, TaskCrashes, handles
<1>4. NoHiddenPendingWork'
  <2> SUFFICES ASSUME op.id = None, uiPc = "idle", workspace'.pending PROVE ui.pending
    BY <1>2 DEF NoHiddenPendingWork, Active
  <2>1. workspace.pending
    <3> SUFFICES ASSUME ~workspace.pending PROVE FALSE
      OBVIOUS
    <3>1. ForegroundTask /\ job = op.id
      BY WorkspaceStep
    <3> QED BY <3>1 DEF ForegroundTask, WorkerInvariant, InHand
  <2> QED BY <2>1 DEF PendingInvariant, NoHiddenPendingWork, Active
<1>5. PendingDelivered'
  <2> SUFFICES ASSUME workspace'.pending, op.id # None,
                      NEW k \in 1..Len(events'[op.id]), events'[op.id][k] # Progress
               PROVE  events'[op.id][k].session.pending
    BY <1>2 DEF PendingDelivered, Active
  <2>1. PICK i \in Command : i = op.id
    BY OperationValues DEF UiTypes
  <2>2. CASE ~workspace.pending
    BY <1>3, <2>2, WorkspaceStep DEF OnlyProgress
  <2>3. CASE workspace.pending /\ events' = events
    BY <2>3 DEF PendingInvariant, PendingDelivered, Active
  <2>4. ASSUME workspace.pending, job \in Command, NEW e \in Event,
               events' = [events EXCEPT ![job] = Append(@, e)],
               e = Progress \/ (pc = "emit" /\ e.session = report.session)
        PROVE  events'[op.id][k].session.pending
    <3>1. PICK j \in Command : j = job
      BY <2>4
    <3>2. events' = [events EXCEPT ![j] = Append(@, e)]
      BY <2>4, <3>1
    <3>3. /\ i # j => events'[i] = events[i]
          /\ i = j => /\ Len(events'[i]) = Len(events[i]) + 1
                      /\ events'[i][Len(events[i]) + 1] = e
          /\ \A n \in 1..Len(events[i]) : n \in 1..Len(events'[i]) /\ events'[i][n] = events[i][n]
          /\ Len(events[i]) \in Nat
      BY <3>2, EventAdded
    <3>4. CASE k \in 1..Len(events[i])
      <4>1. events'[i][k] = events[i][k]
        BY <3>3, <3>4
      <4> QED BY <2>1, <2>4, <3>4, <4>1 DEF PendingInvariant, PendingDelivered, Active
    <3>5. CASE k \notin 1..Len(events[i])
      <4>1. k = Len(events[i]) + 1 /\ events'[i][k] = e
        BY <2>1, <3>3, <3>5
      <4>2. pc = "emit" /\ e.session = report.session
        BY <2>1, <2>4, <4>1
      <4> QED BY <2>1, <2>4, <4>1, <4>2 DEF PendingInvariant, PendingReported
    <3> QED BY <3>4, <3>5
  <2>5. events' = events \/ (job \in Command /\ \E e \in Event :
                               /\ events' = [events EXCEPT ![job] = Append(@, e)]
                               /\ e = Progress \/ (pc = "emit" /\ e.session = report.session))
    BY <1>2 DEF ThreadEffect
  <2> QED BY <2>2, <2>3, <2>4, <2>5
<1> QED BY <1>1, <1>4, <1>5 DEF PendingInvariant

-----------------------------------------------------------------------------
(* The theorems.                                                           *)

\* The session starts with its worker just built and no operation.
LEMMA OpsInitial ==
  OpsInit => TypeOK /\ WorkerInvariant /\ UiTypes /\ OperationsInvariant /\ PendingInvariant
<1> SUFFICES ASSUME OpsInit
             PROVE  TypeOK /\ WorkerInvariant /\ UiTypes /\ OperationsInvariant /\ PendingInvariant
  OBVIOUS
<1>1. TypeOK /\ WorkerInvariant
  BY TypeInit, InvariantInit DEF OpsInit
<1>2. /\ nextId = 1 /\ events = [i \in Command |-> <<>>] /\ ~workspace.pending /\ op = NoOperation
      /\ ui = NoSession /\ ~live
  BY DEF OpsInit, Init, NoSession
<1>3. op.id = None /\ ~op.cancelRequested /\ op \in Operation
  BY <1>2, OperationValues
<1>4. UiTypes
  <2>1. ui \in Session
    BY <1>2, Values
  <2>2. workers \in 1..MaxWorkers
    BY OperationsAssumption DEF OpsInit
  <2> QED BY <1>3, <2>1, <2>2 DEF OpsInit, UiTypes, UiPC
<1>5. OneOperation
  BY <1>2, WorkerAssumption DEF OneOperation, Accepted, Command
<1>6. EventsInOrder
  BY <1>2, EmptySeq DEF EventsInOrder, OnlyProgress
<1>7. UiShape /\ RecordedInterruptActs
  BY <1>2, <1>3 DEF OpsInit, UiShape, Active, RecordedInterruptActs
<1>8. PendingInvariant
  BY <1>2 DEF PendingInvariant, PendingPublished, PendingReported, PendingDelivered, NoHiddenPendingWork
<1> QED BY <1>1, <1>4, <1>5, <1>6, <1>7, <1>8 DEF OperationsInvariant

\* Every step of the session keeps types and invariant.
LEMMA OpsStep ==
  TypeOK /\ WorkerInvariant /\ UiTypes /\ OperationsInvariant /\ [OpsNext]_allVars
    => TypeOK' /\ WorkerInvariant' /\ UiTypes' /\ OperationsInvariant'
<1> SUFFICES ASSUME TypeOK, WorkerInvariant, UiTypes, OperationsInvariant, [OpsNext]_allVars
             PROVE  TypeOK' /\ WorkerInvariant' /\ UiTypes' /\ OperationsInvariant'
  OBVIOUS
<1>1. CASE UI
  BY <1>1, UiKeepsOperations
<1>2. CASE OpsThread
  BY <1>2, ThreadKeepsOperations
<1>3. CASE UNCHANGED allVars
  <2>1. TypeOK' /\ WorkerInvariant'
    BY <1>3, WorkerStands DEF allVars
  <2> USE <1>3 DEF allVars, uiVars, vars, client, handles, flags, locals, history
  <2>2. UiTypes'
    BY DEF UiTypes
  <2>3. OneOperation' /\ UiShape' /\ EventsInOrder'
    BY DEF OperationsInvariant, OneOperation, UiShape, Active, EventsInOrder, OnlyProgress, Accepted, NextTaken
  <2>4. RecordedInterruptActs'
    BY DEF OperationsInvariant, RecordedInterruptActs
  <2> QED BY <2>1, <2>2, <2>3, <2>4 DEF OperationsInvariant
<1> QED BY <1>1, <1>2, <1>3 DEF OpsNext

\* Types, the worker's invariant and what ties the UI to its worker hold
\* whatever user, worker thread, tasks, network and event sinks do.
THEOREM OperationsInvariantHolds ==
  OpsSpec => [](TypeOK /\ WorkerInvariant /\ UiTypes /\ OperationsInvariant)
BY OpsInitial, OpsStep, PTL DEF OpsSpec

\* Every variable of the UI's side and of the worker keeps its type.
THEOREM OpsTypeCorrect == OpsSpec => []OpsTypeOK
<1>1. TypeOK /\ UiTypes => OpsTypeOK
  BY DEF UiTypes, OpsTypeOK
<1> QED BY <1>1, OperationsInvariantHolds, PTL

\* A foreground command the worker has not finished is the one operation the
\* UI shows as running.
THEOREM OneForegroundOperationHolds == OpsSpec => []OneForegroundOperation
<1>1. OperationsInvariant => OneForegroundOperation
  BY DEF OperationsInvariant, OneOperation, OnlyProgress, OneForegroundOperation
<1> QED BY <1>1, OperationsInvariantHolds, PTL

\* Where a step may leave a live handle with the UI told that the session is gone.
HandleLeft ==
  \/ live /\ ui' = ui
  \/ Active /\ ~accepting /\ read'[op.id] # read[op.id]
     /\ events[op.id][read'[op.id]].session.connected

\* A completion taken from the event queue detaches, unless it says connected
\* although the worker refuses commands.
LEMMA PollEventDetaches ==
  ASSUME TypeOK, WorkerInvariant, UiTypes, PollEvent, live', ~ui'.connected
  PROVE  HandleLeft
<1>1. /\ op.id \in Command /\ read \in [Command -> Nat] /\ read[op.id] < Len(events[op.id])
      /\ read' = [read EXCEPT ![op.id] = @ + 1] /\ op.id # None /\ session' = session
  BY OperationValues DEF PollEvent, Active, UiTypes, TypeOK, HandleTypes
<1> DEFINE k == read[op.id] + 1
           e == events[op.id][k]
<1>2. read'[op.id] = k /\ k # read[op.id]
  BY <1>1
<1>3. CASE e = Progress
  BY <1>3 DEF PollEvent, HandleLeft
<1>4. CASE e # Progress
  <2>1. Complete(e.outcome, e.session)
    BY <1>4 DEF PollEvent
  <2>2. e.session \in Session
    BY <1>1, <1>4, EventRead
  <2> HIDE DEF e
  <2>3. e.session.connected /\ ~accepting
    BY <1>1, <2>1, <2>2, CompleteStep
  <2> QED BY <1>1, <1>2, <2>3 DEF HandleLeft, Active, e
<1> QED BY <1>3, <1>4

\* Whoever tells the UI that the session is gone, a handle is left only by a
\* completion that says connected, of a worker that by now refuses commands.
THEOREM DetachedWhenToldHolds == OpsSpec => DetachedWhenTold
<1>1. TypeOK /\ WorkerInvariant /\ UiTypes /\ OperationsInvariant /\ [OpsNext]_allVars
        => [live' /\ ~ui'.connected => HandleLeft]_allVars
  <2> SUFFICES ASSUME TypeOK, WorkerInvariant, UiTypes, OpsNext, live', ~ui'.connected
               PROVE  HandleLeft
    OBVIOUS
  <2>1. CASE OpsThread
    BY <2>1 DEF OpsThread, uiVars, HandleLeft
  <2>2. CASE \/ \E intr, coop \in BOOLEAN : StartOperation(intr, coop)
             \/ StartReplacing \/ Interrupt \/ PollEmpty \/ Quit \/ Leave
    BY <2>2 DEF StartOperation, StartReplacing, Interrupt, PollEmpty, Quit, Leave, HandleLeft
  <2>3. CASE StartRefused \/ WorkerBuilt \/ ReleaseCursor
    BY <2>3 DEF StartRefused, WorkerBuilt, ReleaseCursor, Synced, HandleLeft
  <2>4. CASE StopWorker
    BY <2>4 DEF StopWorker
  <2>5. CASE PollEvent
    BY <2>5, PollEventDetaches
  <2>6. CASE PollDone
    <3> DEFINE s == [session EXCEPT !.connected = FALSE]
    <3>1. s \in Session /\ ~s.connected /\ session' = session
      BY <2>6, Values DEF PollDone, TypeOK, WorkerTypes, Session
    <3>2. CASE Complete("error", s)
      <4> HIDE DEF s
      <4> QED BY <3>1, <3>2, CompleteStep
    <3> QED BY <2>6, <3>2 DEF PollDone, HandleLeft
  <2> QED BY <2>1, <2>2, <2>3, <2>4, <2>5, <2>6 DEF OpsNext, UI, Poll
<1>2. [live' /\ ~ui'.connected => HandleLeft]_allVars
        <=> [live' /\ ~ui'.connected =>
               \/ live /\ ui' = ui
               \/ Active /\ ~accepting /\ read'[op.id] # read[op.id]
                  /\ events[op.id][read'[op.id]].session.connected]_allVars
  BY DEF HandleLeft
<1> QED BY <1>1, <1>2, OperationsInvariantHolds, PTL DEF OpsSpec, DetachedWhenTold

\* An interrupt that is recorded as requested has reached the driver call of
\* this very operation, or is watched for by its task.
THEOREM RecordedInterruptActsHolds == OpsSpec => []RecordedInterruptActs
<1>1. OperationsInvariant => RecordedInterruptActs
  BY DEF OperationsInvariant
<1> QED BY <1>1, OperationsInvariantHolds, PTL

\* With a workspace whose state can always be read, as OracleWorkspace's can,
\* the snapshot the UI decides by between operations hides no pending work.
THEOREM NoHiddenPendingWorkHolds ==
  SnapshotOutcomes = {"ok"} => (OpsSpec => []NoHiddenPendingWork)
<1> SUFFICES ASSUME SnapshotOutcomes = {"ok"} PROVE OpsSpec => []NoHiddenPendingWork
  OBVIOUS
<1>1. OpsInit => PendingInvariant
  BY OpsInitial
<1>2. TypeOK /\ WorkerInvariant /\ UiTypes /\ OperationsInvariant /\ PendingInvariant
        /\ [OpsNext]_allVars => PendingInvariant'
  <2> SUFFICES ASSUME TypeOK, WorkerInvariant, UiTypes, OperationsInvariant, PendingInvariant,
                      [OpsNext]_allVars
               PROVE  PendingInvariant'
    OBVIOUS
  <2>1. CASE UI
    BY <2>1, UiKeepsPending
  <2>2. CASE OpsThread
    BY <2>2, ThreadKeepsPending
  <2>3. CASE UNCHANGED allVars
    BY <2>3 DEF allVars, uiVars, vars, client, handles, flags, locals, history, PendingInvariant,
                PendingPublished, PendingReported, PendingDelivered, NoHiddenPendingWork, Active
  <2> QED BY <2>1, <2>2, <2>3 DEF OpsNext
<1>3. PendingInvariant => NoHiddenPendingWork
  BY DEF PendingInvariant
<1> QED BY <1>1, <1>2, <1>3, OperationsInvariantHolds, PTL DEF OpsSpec
=============================================================================
