--------------------------- MODULE FrameHubProofs ---------------------------
(****************************************************************************)
(* Theorems about FrameHub, for any number of clients, of stopping threads, *)
(* of frames and of starts.                                                 *)
(****************************************************************************)
EXTENDS FrameHub, TLAPS

USE HubAssumption

\* The buffer is at most one frame ahead of the size that was published, and
\* only between the copy and the publication.
CallbackInv ==
  /\ buffer = IF cb \in {"count", "publish"} THEN frameSize + 1 ELSE frameSize
  /\ frameCount = IF cb = "publish" THEN buffer ELSE frameSize

\* A client that holds frameLock keeps the size from moving on.
ReaderInv ==
  \A r \in Readers :
    /\ rd[r].pc = "copy" => rd[r].size = frameSize
    /\ rd[r].pc \in {"mark", "send"} =>
         rd[r].data \in {rd[r].size, rd[r].size + 1}

IInv == TypeOK /\ CallbackInv /\ ReaderInv /\ PreviewWhole

LEMMA InitIInv == Init => IInv
  <1> SUFFICES ASSUME Init PROVE IInv
    OBVIOUS
  <1> USE DEF Init, Source!Init, Closed, Frames, ReaderStates, PreviewStates
  <1>1. TypeOK
    <2>1. rd \in [Readers -> ReaderStates]
      OBVIOUS
    <2>2. preview \in PreviewStates
      OBVIOUS
    <2>3. stopper \in [StopThreads -> {"idle", "called", "stop", "join"}]
      OBVIOUS
    <2>4. \A r \in Readers : frameLock = r <=> rd[r].pc \in {"copy", "mark"}
      OBVIOUS
    <2>5. /\ buffer \in Frames /\ frameCount \in Frames /\ frameSize \in Frames
          /\ starts \in 0 .. MaxStarts /\ delivered \in Nat
      OBVIOUS
    <2>6. /\ waitSet \subseteq Readers
          /\ \A r \in waitSet : rd[r].pc = "wait"
          /\ frameLock \in Readers \cup {Nobody}
      OBVIOUS
    <2>7. QED
      BY <2>1, <2>2, <2>3, <2>4, <2>5, <2>6 DEF TypeOK
  <1>2. CallbackInv /\ ReaderInv /\ PreviewWhole
    BY DEF CallbackInv, ReaderInv, PreviewWhole
  <1>3. QED
    BY <1>1, <1>2 DEF IInv

LEMMA NextIInv == IInv /\ [Next]_vars => IInv'
  <1> SUFFICES ASSUME IInv, [Next]_vars PROVE IInv'
    OBVIOUS
  <1> USE DEF IInv, Frames, source, hub, ctl, ReaderStates, PreviewStates
  <1>0. ASSUME UNCHANGED <<cb, hub, rd, preview>>
        PROVE  CallbackInv' /\ ReaderInv' /\ PreviewWhole'
    BY <1>0 DEF CallbackInv, ReaderInv, PreviewWhole
  <1>1. CASE BeginStart
    <2>1. TypeOK'
      BY <1>1 DEF BeginStart, TypeOK
    <2>2. CallbackInv' /\ ReaderInv' /\ PreviewWhole'
      BY <1>0, <1>1 DEF BeginStart
    <2>3. QED
      BY <2>1, <2>2
  <1>2. CASE StartStopsOld
    <2>1. TypeOK'
      BY <1>2 DEF StartStopsOld, Source!Stop, TypeOK
    <2>2. CallbackInv' /\ ReaderInv' /\ PreviewWhole'
      BY <1>0, <1>2 DEF StartStopsOld, Source!Stop
    <2>3. QED
      BY <2>1, <2>2
  <1>3. CASE StartJoinsOld
    <2>1. TypeOK'
      BY <1>3 DEF StartJoinsOld, Source!StopReturns, TypeOK
    <2>2. CallbackInv' /\ ReaderInv' /\ PreviewWhole'
      BY <1>0, <1>3 DEF StartJoinsOld, Source!StopReturns
    <2>3. QED
      BY <2>1, <2>2
  <1>4. CASE StartUVC
    <2>1. TypeOK'
      BY <1>4 DEF StartUVC, Source!Start, TypeOK
    <2>2. CallbackInv' /\ ReaderInv' /\ PreviewWhole'
      BY <1>0, <1>4 DEF StartUVC, Source!Start
    <2>3. QED
      BY <2>1, <2>2
  <1>5. CASE StartFails
    <2>1. TypeOK'
      BY <1>5 DEF StartFails, TypeOK
    <2>2. CallbackInv' /\ ReaderInv' /\ PreviewWhole'
      BY <1>0, <1>5 DEF StartFails
    <2>3. QED
      BY <2>1, <2>2
  <1>6. CASE FirstFrame
    <2>1. TypeOK'
      BY <1>6 DEF FirstFrame, TypeOK
    <2>2. CallbackInv' /\ ReaderInv' /\ PreviewWhole'
      BY <1>0, <1>6 DEF FirstFrame
    <2>3. QED
      BY <2>1, <2>2
  <1>7. CASE NoFirstFrame
    <2>1. TypeOK'
      BY <1>7 DEF NoFirstFrame, TypeOK
    <2>2. CallbackInv' /\ ReaderInv' /\ PreviewWhole'
      BY <1>0, <1>7 DEF NoFirstFrame
    <2>3. QED
      BY <2>1, <2>2
  <1>8. CASE LateStop
    <2>1. TypeOK'
      BY <1>8 DEF LateStop, Source!Stop, TypeOK
    <2>2. CallbackInv' /\ ReaderInv' /\ PreviewWhole'
      BY <1>0, <1>8 DEF LateStop, Source!Stop
    <2>3. QED
      BY <2>1, <2>2
  <1>9. CASE LateStopReturns
    <2>1. TypeOK'
      BY <1>9 DEF LateStopReturns, Source!StopReturns, TypeOK
    <2>2. CallbackInv' /\ ReaderInv' /\ PreviewWhole'
      BY <1>0, <1>9 DEF LateStopReturns, Source!StopReturns
    <2>3. QED
      BY <2>1, <2>2
  <1>10. ASSUME NEW p \in StopThreads, CallStop(p) PROVE IInv'
    <2>1. TypeOK'
      BY <1>10 DEF CallStop, TypeOK
    <2>2. CallbackInv' /\ ReaderInv' /\ PreviewWhole'
      BY <1>0, <1>10 DEF CallStop
    <2>3. QED
      BY <2>1, <2>2
  <1>11. ASSUME NEW p \in StopThreads, ShouldStop(p) PROVE IInv'
    <2>1. TypeOK'
      BY <1>11 DEF ShouldStop, TypeOK
    <2>2. CallbackInv' /\ ReaderInv' /\ PreviewWhole'
      BY <1>0, <1>11 DEF ShouldStop
    <2>3. QED
      BY <2>1, <2>2
  <1>12. ASSUME NEW p \in StopThreads, StopUVC(p) PROVE IInv'
    <2>1. TypeOK'
      BY <1>12 DEF StopUVC, Source!Stop, TypeOK
    <2>2. CallbackInv' /\ ReaderInv' /\ PreviewWhole'
      BY <1>0, <1>12 DEF StopUVC, Source!Stop
    <2>3. QED
      BY <2>1, <2>2
  <1>13. ASSUME NEW p \in StopThreads, StopReturns(p) PROVE IInv'
    <2>1. TypeOK'
      BY <1>13 DEF StopReturns, Source!StopReturns, Stopped, TypeOK
    <2>2. CallbackInv' /\ ReaderInv' /\ PreviewWhole'
      BY <1>0, <1>13 DEF StopReturns, Source!StopReturns, Stopped
    <2>3. QED
      BY <2>1, <2>2
  <1>14. ASSUME NEW p \in StopThreads, StopNothing(p) PROVE IInv'
    <2>1. TypeOK'
      BY <1>14 DEF StopNothing, Stopped, TypeOK
    <2>2. CallbackInv' /\ ReaderInv' /\ PreviewWhole'
      BY <1>0, <1>14 DEF StopNothing, Stopped
    <2>3. QED
      BY <2>1, <2>2
  <1>15. CASE Callback
    <2>1. TypeOK'
      BY <1>15 DEF Callback, Source!Call, TypeOK, CallbackInv
    <2>2. CallbackInv' /\ ReaderInv' /\ PreviewWhole'
      BY <1>15
      DEF Callback, Source!Call, TypeOK, CallbackInv, ReaderInv, PreviewWhole
    <2>3. QED
      BY <2>1, <2>2
  <1>16. CASE DropFrame
    <2>1. TypeOK'
      BY <1>16 DEF DropFrame, TypeOK, CallbackInv
    <2>2. CallbackInv' /\ ReaderInv' /\ PreviewWhole'
      BY <1>16 DEF DropFrame, TypeOK, CallbackInv, ReaderInv, PreviewWhole
    <2>3. QED
      BY <2>1, <2>2
  <1>17. CASE CopyFrame
    <2>1. TypeOK'
      BY <1>17 DEF CopyFrame, TypeOK, CallbackInv
    <2>2. CallbackInv' /\ ReaderInv' /\ PreviewWhole'
      BY <1>17 DEF CopyFrame, TypeOK, CallbackInv, ReaderInv, PreviewWhole
    <2>3. QED
      BY <2>1, <2>2
  <1>18. CASE CountFrame
    <2>1. TypeOK'
      BY <1>18 DEF CountFrame, TypeOK, CallbackInv
    <2>2. CallbackInv' /\ ReaderInv' /\ PreviewWhole'
      BY <1>18 DEF CountFrame, TypeOK, CallbackInv, ReaderInv, PreviewWhole
    <2>3. QED
      BY <2>1, <2>2
  <1>19. CASE PublishSize
    <2>1. TypeOK'
      BY <1>19 DEF PublishSize, TypeOK, CallbackInv
    <2>2. CallbackInv' /\ ReaderInv' /\ PreviewWhole'
      BY <1>19 DEF PublishSize, TypeOK, CallbackInv, ReaderInv, PreviewWhole
    <2>3. QED
      BY <2>1, <2>2
  <1>20. CASE Preview
    <2>1. TypeOK'
      <3>1. [busy |-> TRUE, size |-> frameSize, data |-> buffer]
              \in PreviewStates
        BY DEF TypeOK
      <3>2. QED
        BY <1>20, <3>1 DEF Preview, TypeOK
    <2>2. CallbackInv' /\ ReaderInv' /\ PreviewWhole'
      BY <1>20 DEF Preview, TypeOK, CallbackInv, ReaderInv, PreviewWhole
    <2>3. QED
      BY <2>1, <2>2
  <1>21. CASE CallbackReturns
    <2>1. TypeOK'
      BY <1>21 DEF CallbackReturns, Source!Return, TypeOK, CallbackInv
    <2>2. CallbackInv' /\ ReaderInv' /\ PreviewWhole'
      BY <1>21
      DEF CallbackReturns, Source!Return, TypeOK, CallbackInv, ReaderInv,
          PreviewWhole
    <2>3. QED
      BY <2>1, <2>2
  <1>22. CASE Decoded
    <2>1. TypeOK'
      <3>1. preview' = [busy |-> FALSE, size |-> preview.size,
                        data |-> preview.data]
        BY <1>22 DEF Decoded, TypeOK
      <3>2. preview' \in PreviewStates
        BY <3>1 DEF TypeOK
      <3>3. QED
        BY <1>22, <3>2 DEF Decoded, TypeOK
    <2>2. CallbackInv' /\ ReaderInv' /\ PreviewWhole'
      BY <1>22 DEF Decoded, TypeOK, CallbackInv, ReaderInv, PreviewWhole
    <2>3. QED
      BY <2>1, <2>2
  <1>23. ASSUME NEW r \in Readers, Connect(r) PROVE IInv'
    <2>1. TypeOK'
      BY <1>23 DEF Connect, Closed, TypeOK, CallbackInv
    <2>2. CallbackInv' /\ ReaderInv' /\ PreviewWhole'
      BY <1>23
      DEF Connect, Closed, TypeOK, CallbackInv, ReaderInv, PreviewWhole
    <2>3. QED
      BY <2>1, <2>2
  <1>24. ASSUME NEW r \in Readers, Sent(r) PROVE IInv'
    <2>1. TypeOK'
      BY <1>24 DEF Sent, Closed, TypeOK, CallbackInv
    <2>2. CallbackInv' /\ ReaderInv' /\ PreviewWhole'
      BY <1>24 DEF Sent, Closed, TypeOK, CallbackInv, ReaderInv, PreviewWhole
    <2>3. QED
      BY <2>1, <2>2
  <1>25. ASSUME NEW r \in Readers, EnterRead(r) PROVE IInv'
    <2>1. TypeOK'
      BY <1>25
      DEF EnterRead, TakeSize, WaitForFrame, NewFrame, TypeOK, CallbackInv
    <2>2. CallbackInv' /\ ReaderInv' /\ PreviewWhole'
      BY <1>25
      DEF EnterRead, TakeSize, WaitForFrame, NewFrame, TypeOK, CallbackInv,
          ReaderInv, PreviewWhole
    <2>3. QED
      BY <2>1, <2>2
  <1>26. ASSUME NEW r \in Readers, EndRead(r) PROVE IInv'
    <2>1. TypeOK'
      BY <1>26 DEF EndRead, Closed, TypeOK, CallbackInv
    <2>2. CallbackInv' /\ ReaderInv' /\ PreviewWhole'
      BY <1>26
      DEF EndRead, Closed, TypeOK, CallbackInv, ReaderInv, PreviewWhole
    <2>3. QED
      BY <2>1, <2>2
  <1>27. ASSUME NEW r \in Readers, WakeUp(r) PROVE IInv'
    <2>1. TypeOK'
      BY <1>27
      DEF WakeUp, TakeSize, WaitForFrame, NewFrame, TypeOK, CallbackInv
    <2>2. CallbackInv' /\ ReaderInv' /\ PreviewWhole'
      BY <1>27
      DEF WakeUp, TakeSize, WaitForFrame, NewFrame, TypeOK, CallbackInv,
          ReaderInv, PreviewWhole
    <2>3. QED
      BY <2>1, <2>2
  <1>28. ASSUME NEW r \in Readers, CopySnapshot(r) PROVE IInv'
    <2>1. TypeOK'
      <3>1. rd[r].pc = "copy" /\ frameLock = r
        BY <1>28 DEF CopySnapshot, TypeOK
      <3>2. rd' \in [Readers -> ReaderStates]
        <4>1. /\ rd[r] \in ReaderStates
              /\ buffer \in Frames /\ frameCount \in Frames
          BY <1>28 DEF TypeOK
        <4> DEFINE copied == [rd[r] EXCEPT !.pc = "mark", !.data = buffer]
        <4>2. copied \in ReaderStates
          BY <4>1
        <4>3. rd' = [rd EXCEPT ![r] = copied]
          BY <1>28 DEF CopySnapshot, TypeOK
        <4>4. QED
          BY <4>2, <4>3 DEF TypeOK
      <3>3. \A q \in Readers :
              frameLock' = q <=> rd'[q].pc \in {"copy", "mark"}
        BY <1>28, <3>1 DEF CopySnapshot, TypeOK
      <3>4. \A q \in waitSet' : rd'[q].pc = "wait"
        BY <1>28, <3>1 DEF CopySnapshot, TypeOK
      <3>5. QED
        BY <1>28, <3>2, <3>3, <3>4 DEF CopySnapshot, TypeOK
    <2>2. CallbackInv' /\ ReaderInv' /\ PreviewWhole'
      BY <1>28 DEF CopySnapshot, TypeOK, CallbackInv, ReaderInv, PreviewWhole
    <2>3. QED
      BY <2>1, <2>2
  <1>29. ASSUME NEW r \in Readers, MarkRead(r) PROVE IInv'
    <2>1. TypeOK'
      <3>1. rd[r].pc = "mark" /\ frameLock = r
        BY <1>29 DEF MarkRead, TypeOK
      <3>2. rd' \in [Readers -> ReaderStates]
        <4>1. /\ rd[r] \in ReaderStates
              /\ buffer \in Frames /\ frameCount \in Frames
          BY <1>29 DEF TypeOK
        <4> DEFINE read == [rd[r] EXCEPT !.pc = "send", !.last = frameCount + 1]
        <4>2. ASSUME NEW n \in 0 .. MaxFrames + 1
              PROVE  [rd[r] EXCEPT !.pc = "send", !.last = n] \in ReaderStates
          BY <4>1
        <4>3. frameCount + 1 \in 0 .. MaxFrames + 1
          BY <4>1
        <4>4. read \in ReaderStates
          BY <4>2, <4>3
        <4>5. rd' = [rd EXCEPT ![r] = read]
          BY <1>29 DEF MarkRead, TypeOK
        <4>6. QED
          BY <4>4, <4>5 DEF TypeOK
      <3>3. \A q \in Readers :
              frameLock' = q <=> rd'[q].pc \in {"copy", "mark"}
        BY <1>29, <3>1 DEF MarkRead, TypeOK
      <3>4. \A q \in waitSet' : rd'[q].pc = "wait"
        BY <1>29, <3>1 DEF MarkRead, TypeOK
      <3>5. QED
        BY <1>29, <3>2, <3>3, <3>4 DEF MarkRead, TypeOK
    <2>2. CallbackInv' /\ ReaderInv' /\ PreviewWhole'
      BY <1>29 DEF MarkRead, TypeOK, CallbackInv, ReaderInv, PreviewWhole
    <2>3. QED
      BY <2>1, <2>2
  <1>30. CASE UNCHANGED vars
    BY <1>30 DEF vars, TypeOK, CallbackInv, ReaderInv, PreviewWhole
  <1>31. QED
    BY <1>1, <1>2, <1>3, <1>4, <1>5, <1>6, <1>7, <1>8, <1>9, <1>10, <1>11,
       <1>12, <1>13, <1>14, <1>15, <1>16, <1>17, <1>18, <1>19, <1>20, <1>21,
       <1>22, <1>23, <1>24, <1>25, <1>26, <1>27, <1>28, <1>29, <1>30
    DEF Next, StarterStep, StopperStep, CallbackStep, ReaderStep

-----------------------------------------------------------------------------
(* The invariant holds in every reachable state. *)
LEMMA IInvHolds == Spec => []IInv
  <1>1. QED
    BY InitIInv, NextIInv, PTL DEF Spec

\* The variables of a session keep their types; in particular the client that
\* holds frameLock is the one that copies, and only clients in wait() are in
\* the wait set.
THEOREM TypeCorrect == Spec => []TypeOK
  <1>1. IInv => TypeOK
    BY DEF IInv
  <1>2. QED
    BY <1>1, IInvHolds, PTL

\* MjpegInputStream never sends bytes that are older than the size it sends,
\* nor more than one frame younger, for any number of clients.
THEOREM TearingBounded == Spec => []TearsByOneFrame
  <1>1. IInv => TearsByOneFrame
    BY DEF IInv, ReaderInv, TearsByOneFrame
  <1>2. QED
    BY <1>1, IInvHolds, PTL

\* The preview decoder never gets a mixture of two frames, although the
\* listener reads size and bytes without frameLock.
THEOREM PreviewIntact == Spec => []PreviewWhole
  <1>1. IInv => PreviewWhole
    BY DEF IInv
  <1>2. QED
    BY <1>1, IInvHolds, PTL
=============================================================================
