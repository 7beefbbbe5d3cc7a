--------------------------- MODULE UsbEventsProofs ---------------------------
(****************************************************************************)
(* For any number of threads in synchronous transfers and in libusb_close:  *)
(* device_close counts the closers that are at work, and the transfer on    *)
(* the stack of a thread outlives every callback.                           *)
(****************************************************************************)
EXTENDS UsbEvents, FiniteSetTheorems, TLAPS

USE EventsAssumption

ClosePcs == {"idle", "lockEvents", "locked", "close", "closed",
             "deactivate", "unlock", "broadcast", "returned"}
LoopPcs  == Pcs \ {"idle", "lockEvents", "close", "closed"}

Counted == {c \in Closers : pc[c] \in {"lockEvents", "locked", "close", "closed"}}

\* The threads of libusb_close and those that loop for events go different ways.
Apart ==
  /\ \A c \in Closers : pc[c] \in ClosePcs
  /\ \A p \in Loopers : pc[p] \in LoopPcs

\* "completed" is set by the callback, or when there will be none.
CompletedLast ==
  /\ \A s \in Syncs : completed[s] => xfer[s] \in {"done", "orphan"}
  /\ \A s \in Syncs : pc[s] = "returned" => completed[s]

IInv == TypeOK /\ Apart /\ CompletedLast

LEMMA Roles ==
  /\ Closers \cap Loopers = {} /\ Syncs \subseteq Loopers
  /\ Threads = Closers \cup Loopers /\ IsFiniteSet(Counted)
  <1>1. Counted \subseteq Closers
    BY DEF Counted
  <1>2. IsFiniteSet(Counted)
    BY <1>1, FS_Subset
  <1>3. QED
    BY <1>2 DEF Closers, Loopers, Threads

LEMMA InitIInv == Init => IInv
  <1> SUFFICES ASSUME Init PROVE IInv
    OBVIOUS
  <1> USE DEF Init
  <1>1. Counted = {}
    BY Roles DEF Counted
  <1>2. Cardinality(Counted) = 0
    BY <1>1, FS_EmptySet
  <1>3. TypeOK
    BY <1>2 DEF TypeOK, Pcs, Counted
  <1>4. Apart /\ CompletedLast
    BY Roles DEF Apart, CompletedLast, ClosePcs, LoopPcs, Pcs
  <1>5. QED
    BY <1>3, <1>4 DEF IInv

\* A step of one thread within libusb_close, or within the loop, leaves the count alone.
LEMMA SameCount ==
  ASSUME IInv, NEW p \in Threads, NEW to \in Pcs, Go(p, to),
         p \in Closers => (to \in {"lockEvents", "locked", "close", "closed"} <=> p \in Counted),
         p \in Closers => to \in ClosePcs, p \in Loopers => to \in LoopPcs,
         UNCHANGED deviceClose
  PROVE  /\ pc' \in [Threads -> Pcs] /\ Apart'
         /\ deviceClose' = Cardinality(Counted')
         /\ \A q \in Threads : pc'[q] = IF q = p THEN to ELSE pc[q]
  <1>1. \A q \in Threads : pc'[q] = IF q = p THEN to ELSE pc[q]
    BY DEF IInv, TypeOK, Go
  <1>2. Counted' = Counted
    BY <1>1, Roles DEF Counted
  <1>3. QED
    BY <1>1, <1>2, Roles DEF IInv, TypeOK, Go, Apart, Counted, ClosePcs, LoopPcs

LEMMA ThreadIInv ==
  ASSUME IInv, NEW p \in Threads, ThreadSteps(p) \/ WaitRunsOut(p) \/ CloseBegins(p)
  PROVE  IInv'
  <1> USE DEF IInv
  <1>0. p \in Closers => pc[p] \in ClosePcs /\ p \notin Loopers /\ p \notin Syncs
    BY Roles DEF Apart
  <1>a. p \in Loopers => pc[p] \in LoopPcs /\ p \notin Closers
    BY Roles DEF Apart
  <1>b. p \in Closers \/ p \in Loopers
    BY Roles
  <1>c. p \in Counted <=> p \in Closers /\ pc[p] \in {"lockEvents", "locked", "close", "closed"}
    BY DEF Counted
  <1>d. /\ pc \in [Threads -> Pcs] /\ xfer \in [Syncs -> {"flying", "ended", "done", "orphan"}]
        /\ completed \in [Syncs -> BOOLEAN]
    BY DEF TypeOK
  \* The steps that change pc[p], and neither the count nor the transfers.
  <1>1. ASSUME NEW to \in Pcs, Go(p, to),
               p \in Closers => (to \in {"lockEvents", "locked", "close", "closed"} <=> p \in Counted),
               p \in Closers => to \in ClosePcs, p \in Loopers => to \in LoopPcs,
               p \in Syncs /\ to = "returned" => completed[p],
               UNCHANGED <<deviceClose, xfer, completed>>,
               eventsLock' \in Threads \cup {Nobody}, active' \in BOOLEAN,
               waitersLock' \in Threads \cup {Nobody}, sleeping' \subseteq Loopers
        PROVE  IInv'
    <2>1. /\ pc' \in [Threads -> Pcs] /\ Apart'
          /\ deviceClose' = Cardinality(Counted')
          /\ \A q \in Threads : pc'[q] = IF q = p THEN to ELSE pc[q]
      BY <1>1, SameCount
    <2>2. TypeOK'
      BY <1>1, <2>1 DEF TypeOK, Counted
    <2>3. CompletedLast'
      BY <1>1, <2>1, Roles DEF CompletedLast
    <2>4. QED
      BY <2>1, <2>2, <2>3
  <1>2. CASE Loop(p)
    BY <1>0, <1>a, <1>b, <1>c, <1>1, <1>2 DEF Loop, Finished, TypeOK, Pcs, ClosePcs, LoopPcs
  <1>3. CASE Check(p)
    BY <1>0, <1>a, <1>b, <1>c, <1>1, <1>3 DEF Check, TypeOK, Pcs, ClosePcs, LoopPcs
  <1>4. CASE TryLock(p)
    BY <1>0, <1>a, <1>b, <1>c, <1>1, <1>4 DEF TryLock, TypeOK, Pcs, ClosePcs, LoopPcs
  <1>5. CASE Activate(p)
    BY <1>0, <1>a, <1>b, <1>c, <1>1, <1>5 DEF Activate, Finished, TypeOK, Pcs, ClosePcs, LoopPcs
  <1>6. CASE PollReturns(p)
    BY <1>0, <1>a, <1>b, <1>c, <1>1, <1>6 DEF PollReturns, TypeOK, Pcs, ClosePcs, LoopPcs
  <1>7. CASE EventsHandled(p)
    BY <1>0, <1>a, <1>b, <1>c, <1>1, <1>7 DEF EventsHandled, TypeOK, Pcs, ClosePcs, LoopPcs
  <1>8. CASE Deactivate(p)
    BY <1>0, <1>a, <1>b, <1>c, <1>1, <1>8 DEF Deactivate, TypeOK, Pcs, ClosePcs, LoopPcs
  <1>9. CASE UnlockEvents(p)
    BY <1>0, <1>a, <1>b, <1>c, <1>1, <1>9 DEF UnlockEvents, TypeOK, Pcs, ClosePcs, LoopPcs
  <1>10. CASE Broadcast(p)
    BY <1>0, <1>a, <1>b, <1>c, <1>1, <1>10 DEF Broadcast, After, TypeOK, Pcs, ClosePcs, LoopPcs
  <1>11. CASE LockWaiters(p)
    BY <1>0, <1>a, <1>b, <1>c, <1>1, <1>11 DEF LockWaiters, TypeOK, Pcs, ClosePcs, LoopPcs
  <1>12. CASE AlreadyDone(p) \/ Retry(p) \/ Decide(p)
    BY <1>0, <1>a, <1>b, <1>c, <1>1, <1>12
       DEF AlreadyDone, Retry, Decide, TypeOK, Pcs, ClosePcs, LoopPcs
  <1>13. CASE Wait(p)
    BY <1>0, <1>a, <1>b, <1>c, <1>1, <1>13 DEF Wait, TypeOK, Pcs, ClosePcs, LoopPcs
  <1>14. CASE WakeUp(p)
    BY <1>0, <1>a, <1>b, <1>c, <1>1, <1>14 DEF WakeUp, TypeOK, Pcs, ClosePcs, LoopPcs
  <1>15. CASE LockEvents(p)
    BY <1>0, <1>a, <1>b, <1>c, <1>1, <1>15 DEF LockEvents, TypeOK, Pcs, ClosePcs, LoopPcs
  <1>16. CASE WaitRunsOut(p)
    BY <1>16 DEF WaitRunsOut, TypeOK, Apart, CompletedLast
  \* The steps that touch the transfers.
  <1>17. CASE Afterwards(p)
    <2>1. /\ pc' \in [Threads -> Pcs] /\ Apart' /\ deviceClose' = Cardinality(Counted')
          /\ \A q \in Threads : pc'[q] = IF q = p THEN "loop" ELSE pc[q]
      BY <1>0, <1>a, <1>b, <1>17, SameCount DEF Afterwards, Pcs, ClosePcs, LoopPcs
    <2>2. TypeOK'
      BY <1>d, <1>17, <2>1 DEF Afterwards, TypeOK, Counted
    <2>3. CompletedLast'
      BY <1>d, <1>17, <2>1, Roles DEF Afterwards, CompletedLast
    <2>4. QED
      BY <2>1, <2>2, <2>3
  <1>18. ASSUME NEW s \in Syncs, Handle(p, s)
         PROVE  IInv'
    <2>1. /\ pc' \in [Threads -> Pcs] /\ Apart' /\ deviceClose' = Cardinality(Counted')
          /\ \A q \in Threads : pc'[q] = IF q = p THEN "handling" ELSE pc[q]
      BY <1>0, <1>a, <1>b, <1>18, SameCount DEF Handle, Pcs, ClosePcs, LoopPcs
    <2>2. TypeOK'
      BY <1>d, <1>18, <2>1 DEF Handle, TypeOK, Counted
    <2>3. CompletedLast'
      BY <1>d, <1>18, <2>1, Roles DEF Handle, CompletedLast
    <2>4. QED
      BY <2>1, <2>2, <2>3
  <1>19. CASE DoClose(p)
    <2>1. p \in Closers
      BY <1>a, <1>b, <1>19 DEF DoClose, LoopPcs
    <2>2. /\ pc' \in [Threads -> Pcs] /\ Apart' /\ deviceClose' = Cardinality(Counted')
          /\ \A q \in Threads : pc'[q] = IF q = p THEN "closed" ELSE pc[q]
      BY <1>0, <1>c, <1>19, <2>1, SameCount DEF DoClose, Pcs, ClosePcs
    <2>3. TypeOK'
      BY <1>d, <1>19, <2>2 DEF DoClose, TypeOK, Counted
    <2>4. CompletedLast'
      BY <1>d, <1>19, <2>2, Roles DEF DoClose, CompletedLast
    <2>5. QED
      BY <2>2, <2>3, <2>4
  \* The steps that change the count.
  <1>20. CASE CloseBegins(p)
    <2>1. \A q \in Threads : pc'[q] = IF q = p THEN "lockEvents" ELSE pc[q]
      BY <1>d, <1>20 DEF CloseBegins, Go
    <2>2. p \in Closers /\ p \notin Counted /\ Counted' = Counted \cup {p}
      BY <1>c, <1>20, <2>1, Roles DEF CloseBegins, Counted
    <2>3. Cardinality(Counted') = Cardinality(Counted) + 1
      BY <2>2, Roles, FS_AddElement
    <2>4. deviceClose' = Cardinality(Counted')
      BY <1>20, <2>3 DEF CloseBegins, TypeOK, Counted
    <2>5. TypeOK'
      BY <1>d, <1>20, <2>4 DEF CloseBegins, Go, TypeOK, Counted, Pcs
    <2>6. Apart' /\ CompletedLast'
      BY <1>0, <1>20, <2>1, <2>2, Roles DEF CloseBegins, Apart, CompletedLast, ClosePcs
    <2>7. QED
      BY <2>5, <2>6
  <1>21. CASE CloseEnds(p)
    <2>1. \A q \in Threads : pc'[q] = IF q = p THEN "deactivate" ELSE pc[q]
      BY <1>d, <1>21 DEF CloseEnds, Go
    <2>2. p \in Closers
      BY <1>a, <1>b, <1>21 DEF CloseEnds, LoopPcs
    <2>3. p \in Counted /\ Counted' = Counted \ {p}
      BY <1>c, <1>21, <2>1, <2>2, Roles DEF CloseEnds, Counted
    <2>4. Cardinality(Counted') = Cardinality(Counted) - 1
      BY <2>3, Roles, FS_RemoveElement
    <2>5. deviceClose' = Cardinality(Counted')
      BY <1>21, <2>4 DEF CloseEnds, TypeOK, Counted
    <2>6. TypeOK'
      BY <1>d, <1>21, <2>5 DEF CloseEnds, Go, TypeOK, Counted, Pcs
    <2>7. Apart' /\ CompletedLast'
      BY <1>0, <1>21, <2>1, <2>2, Roles DEF CloseEnds, Apart, CompletedLast, ClosePcs
    <2>8. QED
      BY <2>6, <2>7
  <1>22. QED
    BY <1>2, <1>3, <1>4, <1>5, <1>6, <1>7, <1>8, <1>9, <1>10, <1>11, <1>12, <1>13, <1>14, <1>15,
       <1>16, <1>17, <1>18, <1>19, <1>20, <1>21
    DEF ThreadSteps, HandleSteps, LoopSteps, CloseSteps

LEMMA Inductive == Spec => []IInv
  <1>1. ASSUME IInv, NEW s \in Syncs, TransferEnds(s)
        PROVE  IInv'
    BY <1>1 DEF TransferEnds, IInv, TypeOK, Apart, CompletedLast
  <1>2. ASSUME IInv, UNCHANGED vars
        PROVE  IInv'
    BY <1>2 DEF vars, IInv, TypeOK, Apart, CompletedLast
  <1>3. IInv /\ [Next]_vars => IInv'
    BY <1>1, <1>2, ThreadIInv DEF Next
  <1>4. QED
    BY <1>3, InitIInv, PTL DEF Spec

(****************************************************************************)
(* The theorems.                                                            *)
(****************************************************************************)
\* The variables keep their types, and device_close is the number of threads in
\* libusb_close that have not closed yet.  (libusb_close)
THEOREM TypeCorrect == Spec => []TypeOK
  <1>1. IInv => TypeOK
    BY DEF IInv
  <1>2. QED
    BY <1>1, Inductive, PTL

\* A synchronous transfer returns only when its callback has run, or cannot run any
\* more because a close has taken its handle.
\* (sync_transfer_wait_for_completion, do_close)
THEOREM StackSafe == Spec => []StackOutlivesTransfer
  <1>1. IInv => StackOutlivesTransfer
    BY DEF IInv, CompletedLast, StackOutlivesTransfer
  <1>2. QED
    BY <1>1, Inductive, PTL
=============================================================================
