--------------------------- MODULE UvcStreamProofs ---------------------------
(****************************************************************************)
(* Theorems about UvcStream, for every number of transfers and frames.      *)
(****************************************************************************)
EXTENDS UvcStream, TLAPS

USE NumTransfersAssumption, MaxSeqAssumption

\* Where ctl is determines whether the handle exists and the stream runs.
ControlInv ==
  /\ ctlPc # "idle" => strmh = "open"
  /\ running <=> (strmh = "open" /\ ctlPc \in {"idle", "submit"})
  /\ ctlPc \in {"submit", "cancel"} => slot < NumTransfers
  /\ strmh = "closed" \/ ctlPc = "opened" => usrPc = "none"
  /\ ctlPc = "close" => usrPc \in {"none", "done"}
  /\ usrPc \in {"none", "done"} => ~running

\* Who holds the mutex and who waits on the condition variable.
MutexInv ==
  /\ cb_mutex = "ctl" <=> ctlPc \in {"cancel", "check"}
  /\ cb_mutex = "usr" <=> usrPc = "copy"
  /\ "ctl" \in waiting => ctlPc = "wait"
  /\ "usr" \in waiting => usrPc = "wait"

\* Only the submit loop holds transfers that were never submitted, and the
\* event thread holds exactly the one whose callback runs.
TransferInv ==
  /\ strmh = "closed" \/ ctlPc \in {"opened", "join", "close"} => AllNull
  /\ ctlPc = "submit" => \A t \in Slots : t >= slot => transfers[t] = "ready"
  /\ \A t \in Slots : transfers[t] = "ready" => ctlPc = "submit" /\ t >= slot
  /\ \A t \in Slots : transfers[t] = "callback" <=> t = evXfer
  /\ evPc = "idle" <=> evXfer = NoXfer

\* The buffers are two, the presented one holds the presented frame, and the
\* user thread's copy is whole and as old as its last_seq says.
BufferInv ==
  /\ outbuf # holdbuf
  /\ hold_seq < seq
  /\ strmh = "closed" \/ ctlPc = "opened" => hold_seq = 0 /\ ~got
  /\ content[holdbuf] = hold_seq
  /\ got => content[outbuf] = seq
  /\ evPc \in {"flip", "eof"} => got /\ seq < MaxSeq
  /\ frame.data = frame.sequence
  /\ usrPc # "copy" => frame.sequence = last_seq
  /\ usrPc = "copy" => last_seq = hold_seq /\ frame.sequence < last_seq
  /\ last_seq <= hold_seq
  /\ usrPc = "none" => last_seq = 0

IInv == TypeOK /\ ControlInv /\ MutexInv /\ TransferInv /\ BufferInv

LEMMA InitIInv == Init => IInv
  <1> SUFFICES ASSUME Init PROVE IInv
    OBVIOUS
  <1> USE DEF Init, Slots, XferStates, NoXfer, Bufs, CtlPcs, EvPcs, UsrPcs,
              NoFrame
  <1>1. TypeOK
    <2>1. /\ content \in [Bufs -> 0 .. MaxSeq]
          /\ transfers \in [Slots -> XferStates]
      OBVIOUS
    <2>2. frame \in [sequence : 0 .. MaxSeq, data : 0 .. MaxSeq]
      OBVIOUS
    <2>3. /\ seq \in 1 .. MaxSeq /\ hold_seq \in 0 .. MaxSeq
          /\ last_seq \in 0 .. MaxSeq
          /\ slot \in 0 .. NumTransfers /\ evXfer \in 0 .. NumTransfers
      OBVIOUS
    <2>4. /\ strmh \in {"closed", "open"}
          /\ running \in BOOLEAN /\ got \in BOOLEAN
      OBVIOUS
    <2>5. /\ cb_mutex \in {"none", "ctl", "usr"}
          /\ waiting \in SUBSET {"ctl", "usr"}
      OBVIOUS
    <2>6. /\ outbuf \in Bufs /\ holdbuf \in Bufs
          /\ ctlPc \in CtlPcs /\ evPc \in EvPcs /\ usrPc \in UsrPcs
      OBVIOUS
    <2>7. QED
      BY <2>1, <2>2, <2>3, <2>4, <2>5, <2>6 DEF TypeOK
  <1>2. ControlInv /\ MutexInv
    BY DEF ControlInv, MutexInv
  <1>3. TransferInv
    BY DEF TransferInv, AllNull
  <1>4. BufferInv
    BY DEF BufferInv
  <1>5. QED
    BY <1>1, <1>2, <1>3, <1>4 DEF IInv

LEMMA NextIInv == IInv /\ [Next]_vars => IInv'
  <1> SUFFICES ASSUME IInv, [Next]_vars PROVE IInv'
    OBVIOUS
  <1> USE DEF IInv, Slots, XferStates, NoXfer, Bufs, CtlPcs, EvPcs, UsrPcs,
              NoFrame, ctlVars, evVars, usrVars, bufVars
  <1>1. CASE OpenCtrl
    <2>1. TypeOK'
      BY <1>1 DEF OpenCtrl, TypeOK, ControlInv, BufferInv, TransferInv
    <2>2. ControlInv' /\ MutexInv'
      BY <1>1 DEF OpenCtrl, TypeOK, ControlInv, MutexInv
    <2>3. TransferInv'
      BY <1>1 DEF OpenCtrl, TypeOK, ControlInv, TransferInv, AllNull
    <2>4. BufferInv'
      BY <1>1 DEF OpenCtrl, TypeOK, ControlInv, MutexInv, TransferInv,
         BufferInv
    <2>5. QED
      BY <2>1, <2>2, <2>3, <2>4
  <1>2. CASE StreamStart
    <2>1. TypeOK'
      BY <1>2 DEF StreamStart, TypeOK, ControlInv, BufferInv, TransferInv
    <2>2. ControlInv' /\ MutexInv'
      BY <1>2 DEF StreamStart, TypeOK, ControlInv, MutexInv
    <2>3. TransferInv'
      BY <1>2 DEF StreamStart, TypeOK, ControlInv, TransferInv, AllNull
    <2>4. BufferInv'
      BY <1>2 DEF StreamStart, TypeOK, ControlInv, MutexInv, TransferInv,
         BufferInv
    <2>5. QED
      BY <2>1, <2>2, <2>3, <2>4
  <1>3. CASE StreamStartFails
    <2>1. TypeOK'
      BY <1>3 DEF StreamStartFails, TypeOK, ControlInv, BufferInv, TransferInv
    <2>2. ControlInv' /\ MutexInv'
      BY <1>3 DEF StreamStartFails, TypeOK, ControlInv, MutexInv
    <2>3. TransferInv'
      BY <1>3 DEF StreamStartFails, TypeOK, ControlInv, TransferInv, AllNull
    <2>4. BufferInv'
      BY <1>3 DEF StreamStartFails, TypeOK, ControlInv, MutexInv,
         TransferInv, BufferInv
    <2>5. QED
      BY <2>1, <2>2, <2>3, <2>4
  <1>4. CASE Submit
    <2>1. TypeOK'
      BY <1>4 DEF Submit, TypeOK, ControlInv, BufferInv, TransferInv
    <2>2. ControlInv' /\ MutexInv'
      BY <1>4 DEF Submit, TypeOK, ControlInv, MutexInv
    <2>3. TransferInv'
      <3>1. /\ slot \in Slots
            /\ \A t \in Slots : transfers'[t] =
                 IF t = slot THEN "flight" ELSE transfers[t]
        BY <1>4 DEF Submit, TypeOK, ControlInv
      <3>2. /\ transfers[slot] = "ready"
            /\ \A t \in Slots : transfers[t] = "ready" <=> t >= slot
        BY <1>4, <3>1 DEF Submit, TypeOK, TransferInv
      <3>3. \A t \in Slots : transfers'[t] = "callback" <=> t = evXfer'
        BY <1>4, <3>1, <3>2 DEF Submit, TransferInv
      <3>4. CASE slot + 1 = NumTransfers
        BY <1>4, <3>1, <3>2, <3>3, <3>4
        DEF Submit, TypeOK, ControlInv, TransferInv, AllNull
      <3>5. CASE slot + 1 # NumTransfers
        BY <1>4, <3>1, <3>2, <3>3, <3>5
        DEF Submit, TypeOK, ControlInv, TransferInv, AllNull
      <3>6. QED
        BY <3>4, <3>5
    <2>4. BufferInv'
      BY <1>4 DEF Submit, TypeOK, ControlInv, MutexInv, TransferInv, BufferInv
    <2>5. QED
      BY <2>1, <2>2, <2>3, <2>4
  <1>5. CASE SubmitFails
    <2>1. TypeOK'
      BY <1>5 DEF SubmitFails, TypeOK, ControlInv, BufferInv, TransferInv
    <2>2. ControlInv' /\ MutexInv'
      BY <1>5 DEF SubmitFails, TypeOK, ControlInv, MutexInv
    <2>3. TransferInv'
      <3>1. \A t \in Slots : transfers'[t] =
              IF t >= slot THEN "null" ELSE transfers[t]
        BY <1>5 DEF SubmitFails
      <3>2. \A t \in Slots : transfers'[t] = "callback" <=> t = evXfer'
        BY <1>5, <3>1 DEF SubmitFails, TransferInv
      <3>3. \A t \in Slots : transfers'[t] # "ready"
        <4> SUFFICES ASSUME NEW t \in Slots,
           transfers'[t] = "ready" PROVE FALSE
          OBVIOUS
        <4>1. QED
          BY <1>5, <3>1 DEF SubmitFails, TypeOK, TransferInv
      <3>4. QED
        BY <1>5, <3>2, <3>3 DEF SubmitFails, ControlInv, TransferInv
    <2>4. BufferInv'
      BY <1>5 DEF SubmitFails, TypeOK, ControlInv, MutexInv, TransferInv,
         BufferInv
    <2>5. QED
      BY <2>1, <2>2, <2>3, <2>4
  <1>6. CASE StopBegin
    <2>1. TypeOK'
      BY <1>6 DEF StopBegin, TypeOK, ControlInv, BufferInv, TransferInv
    <2>2. ControlInv' /\ MutexInv'
      BY <1>6 DEF StopBegin, TypeOK, ControlInv, MutexInv
    <2>3. TransferInv'
      BY <1>6 DEF StopBegin, TypeOK, ControlInv, TransferInv, AllNull
    <2>4. BufferInv'
      BY <1>6 DEF StopBegin, TypeOK, ControlInv, MutexInv, TransferInv,
         BufferInv
    <2>5. QED
      BY <2>1, <2>2, <2>3, <2>4
  <1>7. CASE StopLock
    <2>1. TypeOK'
      BY <1>7 DEF StopLock, TypeOK, ControlInv, BufferInv, TransferInv
    <2>2. ControlInv' /\ MutexInv'
      BY <1>7 DEF StopLock, TypeOK, ControlInv, MutexInv
    <2>3. TransferInv'
      BY <1>7 DEF StopLock, TypeOK, ControlInv, TransferInv, AllNull
    <2>4. BufferInv'
      BY <1>7 DEF StopLock, TypeOK, ControlInv, MutexInv, TransferInv,
         BufferInv
    <2>5. QED
      BY <2>1, <2>2, <2>3, <2>4
  <1>8. CASE StopCancel
    <2>1. TypeOK'
      BY <1>8 DEF StopCancel, TypeOK, ControlInv, BufferInv, TransferInv
    <2>2. ControlInv' /\ MutexInv'
      BY <1>8 DEF StopCancel, TypeOK, ControlInv, MutexInv
    <2>3. TransferInv'
      BY <1>8 DEF StopCancel, TypeOK, ControlInv, TransferInv, AllNull
    <2>4. BufferInv'
      BY <1>8 DEF StopCancel, TypeOK, ControlInv, MutexInv, TransferInv,
         BufferInv
    <2>5. QED
      BY <2>1, <2>2, <2>3, <2>4
  <1>9. CASE StopWait
    <2>1. TypeOK'
      BY <1>9 DEF StopWait, TypeOK, ControlInv, BufferInv, TransferInv
    <2>2. ControlInv' /\ MutexInv'
      BY <1>9 DEF StopWait, TypeOK, ControlInv, MutexInv
    <2>3. TransferInv'
      BY <1>9 DEF StopWait, TypeOK, ControlInv, TransferInv, AllNull
    <2>4. BufferInv'
      BY <1>9 DEF StopWait, TypeOK, ControlInv, MutexInv, TransferInv,
         BufferInv
    <2>5. QED
      BY <2>1, <2>2, <2>3, <2>4
  <1>10. CASE StopWake
    <2>1. TypeOK'
      BY <1>10 DEF StopWake, TypeOK, ControlInv, BufferInv, TransferInv
    <2>2. ControlInv' /\ MutexInv'
      BY <1>10 DEF StopWake, TypeOK, ControlInv, MutexInv
    <2>3. TransferInv'
      BY <1>10 DEF StopWake, TypeOK, ControlInv, TransferInv, AllNull
    <2>4. BufferInv'
      BY <1>10 DEF StopWake, TypeOK, ControlInv, MutexInv, TransferInv,
         BufferInv
    <2>5. QED
      BY <2>1, <2>2, <2>3, <2>4
  <1>11. CASE StopKick
    <2>1. TypeOK'
      BY <1>11 DEF StopKick, TypeOK, ControlInv, BufferInv, TransferInv
    <2>2. ControlInv' /\ MutexInv'
      BY <1>11 DEF StopKick, TypeOK, ControlInv, MutexInv
    <2>3. TransferInv'
      BY <1>11 DEF StopKick, TypeOK, ControlInv, TransferInv, AllNull
    <2>4. BufferInv'
      BY <1>11 DEF StopKick, TypeOK, ControlInv, MutexInv, TransferInv,
         BufferInv
    <2>5. QED
      BY <2>1, <2>2, <2>3, <2>4
  <1>12. CASE StopJoin
    <2>1. TypeOK'
      BY <1>12 DEF StopJoin, TypeOK, ControlInv, BufferInv, TransferInv
    <2>2. ControlInv' /\ MutexInv'
      BY <1>12 DEF StopJoin, TypeOK, ControlInv, MutexInv
    <2>3. TransferInv'
      BY <1>12 DEF StopJoin, TypeOK, ControlInv, TransferInv, AllNull
    <2>4. BufferInv'
      BY <1>12 DEF StopJoin, TypeOK, ControlInv, MutexInv, TransferInv,
         BufferInv
    <2>5. QED
      BY <2>1, <2>2, <2>3, <2>4
  <1>13. CASE StreamClose
    <2>1. TypeOK'
      <3>1. content' \in [Bufs -> 0 .. MaxSeq]
        BY <1>13 DEF StreamClose
      <3>2. frame' \in [sequence : 0 .. MaxSeq, data : 0 .. MaxSeq]
        BY <1>13 DEF StreamClose
      <3>3. /\ seq' \in 1 .. MaxSeq /\ hold_seq' \in 0 .. MaxSeq
            /\ last_seq' \in 0 .. MaxSeq
        BY <1>13 DEF StreamClose
      <3>4. QED
        BY <1>13, <3>1, <3>2, <3>3 DEF StreamClose, TypeOK
    <2>2. ControlInv' /\ MutexInv'
      BY <1>13 DEF StreamClose, TypeOK, ControlInv, MutexInv
    <2>3. TransferInv'
      BY <1>13 DEF StreamClose, TypeOK, ControlInv, TransferInv, AllNull
    <2>4. BufferInv'
      <3>1. evPc = "idle"
        BY <1>13 DEF StreamClose, TypeOK, TransferInv, AllNull
      <3>2. frame'.sequence = 0 /\ frame'.data = 0 /\ content'["B"] = 0
        BY <1>13 DEF StreamClose
      <3>3. QED
        BY <1>13, <3>1, <3>2 DEF StreamClose, BufferInv
    <2>5. QED
      BY <2>1, <2>2, <2>3, <2>4
  <1>14. CASE FlipFid
    <2>1. TypeOK'
      BY <1>14 DEF FlipFid, TypeOK, ControlInv, BufferInv, TransferInv
    <2>2. ControlInv' /\ MutexInv'
      BY <1>14 DEF FlipFid, TypeOK, ControlInv, MutexInv
    <2>3. TransferInv'
      BY <1>14 DEF FlipFid, TypeOK, ControlInv, TransferInv, AllNull
    <2>4. BufferInv'
      BY <1>14 DEF FlipFid, TypeOK, ControlInv, MutexInv, TransferInv,
         BufferInv
    <2>5. QED
      BY <2>1, <2>2, <2>3, <2>4
  <1>15. CASE AppendPayload
    <2>1. TypeOK'
      BY <1>15 DEF AppendPayload, TypeOK, ControlInv, BufferInv, TransferInv
    <2>2. ControlInv' /\ MutexInv'
      BY <1>15 DEF AppendPayload, TypeOK, ControlInv, MutexInv
    <2>3. TransferInv'
      BY <1>15 DEF AppendPayload, TypeOK, ControlInv, TransferInv, AllNull
    <2>4. BufferInv'
      <3>1. content'[outbuf] = seq /\ content'[holdbuf] = content[holdbuf]
        BY <1>15 DEF AppendPayload, TypeOK, BufferInv
      <3>2. ~(strmh = "closed" \/ ctlPc = "opened")
        BY <1>15 DEF AppendPayload, TypeOK, TransferInv, AllNull
      <3>3. evPc' \in {"flip", "eof"} => seq < MaxSeq
        BY <1>15 DEF AppendPayload
      <3>4. QED
        BY <1>15, <3>1, <3>2, <3>3 DEF AppendPayload, BufferInv
    <2>5. QED
      BY <2>1, <2>2, <2>3, <2>4
  <1>16. CASE SwapBuffers
    <2>1. TypeOK'
      <3>1. seq' \in 1 .. MaxSeq /\ hold_seq' \in 0 .. MaxSeq
        BY <1>16 DEF SwapBuffers, TypeOK, BufferInv
      <3>2. evPc' \in EvPcs /\ waiting' \in SUBSET {"ctl", "usr"}
        BY <1>16 DEF SwapBuffers
      <3>3. QED
        BY <1>16, <3>1, <3>2 DEF SwapBuffers, TypeOK
    <2>2. ControlInv' /\ MutexInv'
      BY <1>16 DEF SwapBuffers, TypeOK, ControlInv, MutexInv
    <2>3. TransferInv'
      BY <1>16 DEF SwapBuffers, TypeOK, ControlInv, TransferInv, AllNull
    <2>4. BufferInv'
      BY <1>16 DEF SwapBuffers, TypeOK, ControlInv, MutexInv, TransferInv,
         BufferInv
    <2>5. QED
      BY <2>1, <2>2, <2>3, <2>4
  <1>17. CASE EndPayload
    <2>1. TypeOK'
      BY <1>17 DEF EndPayload, TypeOK, ControlInv, BufferInv, TransferInv
    <2>2. ControlInv' /\ MutexInv'
      BY <1>17 DEF EndPayload, TypeOK, ControlInv, MutexInv
    <2>3. TransferInv'
      BY <1>17 DEF EndPayload, TypeOK, ControlInv, TransferInv, AllNull
    <2>4. BufferInv'
      BY <1>17 DEF EndPayload, TypeOK, ControlInv, MutexInv, TransferInv,
         BufferInv
    <2>5. QED
      BY <2>1, <2>2, <2>3, <2>4
  <1>18. CASE ReadRunning
    <2>1. TypeOK'
      BY <1>18 DEF ReadRunning, TypeOK, ControlInv, BufferInv, TransferInv
    <2>2. ControlInv' /\ MutexInv'
      BY <1>18 DEF ReadRunning, TypeOK, ControlInv, MutexInv
    <2>3. TransferInv'
      BY <1>18 DEF ReadRunning, TypeOK, ControlInv, TransferInv, AllNull
    <2>4. BufferInv'
      BY <1>18 DEF ReadRunning, TypeOK, ControlInv, MutexInv, TransferInv,
         BufferInv
    <2>5. QED
      BY <2>1, <2>2, <2>3, <2>4
  <1>19. CASE Resubmit
    <2>1. TypeOK'
      BY <1>19 DEF Resubmit, TypeOK, ControlInv, BufferInv, TransferInv
    <2>2. ControlInv' /\ MutexInv'
      BY <1>19 DEF Resubmit, TypeOK, ControlInv, MutexInv
    <2>3. TransferInv'
      BY <1>19 DEF Resubmit, TypeOK, ControlInv, TransferInv, AllNull
    <2>4. BufferInv'
      BY <1>19 DEF Resubmit, TypeOK, ControlInv, MutexInv, TransferInv,
         BufferInv
    <2>5. QED
      BY <2>1, <2>2, <2>3, <2>4
  <1>20. CASE ResubmitFails
    <2>1. TypeOK'
      BY <1>20 DEF ResubmitFails, TypeOK, ControlInv, BufferInv, TransferInv
    <2>2. ControlInv' /\ MutexInv'
      BY <1>20 DEF ResubmitFails, TypeOK, ControlInv, MutexInv
    <2>3. TransferInv'
      BY <1>20 DEF ResubmitFails, TypeOK, ControlInv, TransferInv, AllNull
    <2>4. BufferInv'
      BY <1>20 DEF ResubmitFails, TypeOK, ControlInv, MutexInv, TransferInv,
         BufferInv
    <2>5. QED
      BY <2>1, <2>2, <2>3, <2>4
  <1>21. CASE FreeTransfer
    <2>1. TypeOK'
      BY <1>21 DEF FreeTransfer, TypeOK, ControlInv, BufferInv, TransferInv
    <2>2. ControlInv' /\ MutexInv'
      BY <1>21 DEF FreeTransfer, TypeOK, ControlInv, MutexInv
    <2>3. TransferInv'
      BY <1>21 DEF FreeTransfer, TypeOK, ControlInv, TransferInv, AllNull
    <2>4. BufferInv'
      BY <1>21 DEF FreeTransfer, TypeOK, ControlInv, MutexInv, TransferInv,
         BufferInv
    <2>5. QED
      BY <2>1, <2>2, <2>3, <2>4
  <1>22. CASE UsrWait
    <2>1. TypeOK'
      BY <1>22 DEF UsrWait, UsrHasMutex, TypeOK, ControlInv, BufferInv,
         TransferInv
    <2>2. ControlInv' /\ MutexInv'
      BY <1>22 DEF UsrWait, UsrHasMutex, TypeOK, ControlInv, MutexInv
    <2>3. TransferInv'
      BY <1>22 DEF UsrWait, UsrHasMutex, TypeOK, ControlInv, TransferInv,
         AllNull
    <2>4. BufferInv'
      BY <1>22 DEF UsrWait, UsrHasMutex, TypeOK, ControlInv, MutexInv,
         TransferInv, BufferInv
    <2>5. QED
      BY <2>1, <2>2, <2>3, <2>4
  <1>23. CASE UsrExit
    <2>1. TypeOK'
      BY <1>23 DEF UsrExit, UsrHasMutex, TypeOK, ControlInv, BufferInv,
         TransferInv
    <2>2. ControlInv' /\ MutexInv'
      BY <1>23 DEF UsrExit, UsrHasMutex, TypeOK, ControlInv, MutexInv
    <2>3. TransferInv'
      BY <1>23 DEF UsrExit, UsrHasMutex, TypeOK, ControlInv, TransferInv,
         AllNull
    <2>4. BufferInv'
      BY <1>23 DEF UsrExit, UsrHasMutex, TypeOK, ControlInv, MutexInv,
         TransferInv, BufferInv
    <2>5. QED
      BY <2>1, <2>2, <2>3, <2>4
  <1>24. CASE UsrTake
    <2>1. TypeOK'
      BY <1>24 DEF UsrTake, UsrHasMutex, TypeOK, ControlInv, BufferInv,
         TransferInv
    <2>2. ControlInv' /\ MutexInv'
      BY <1>24 DEF UsrTake, UsrHasMutex, TypeOK, ControlInv, MutexInv
    <2>3. TransferInv'
      BY <1>24 DEF UsrTake, UsrHasMutex, TypeOK, ControlInv, TransferInv,
         AllNull
    <2>4. BufferInv'
      BY <1>24 DEF UsrTake, UsrHasMutex, TypeOK, ControlInv, MutexInv,
         TransferInv, BufferInv
    <2>5. QED
      BY <2>1, <2>2, <2>3, <2>4
  <1>25. CASE UsrPopulate
    <2>1. TypeOK'
      BY <1>25 DEF UsrPopulate, TypeOK, ControlInv, BufferInv, TransferInv
    <2>2. ControlInv' /\ MutexInv'
      BY <1>25 DEF UsrPopulate, TypeOK, ControlInv, MutexInv
    <2>3. TransferInv'
      BY <1>25 DEF UsrPopulate, TypeOK, ControlInv, TransferInv, AllNull
    <2>4. BufferInv'
      BY <1>25 DEF UsrPopulate, TypeOK, ControlInv, MutexInv, TransferInv,
         BufferInv
    <2>5. QED
      BY <2>1, <2>2, <2>3, <2>4
  <1>26. CASE UsrCallbackReturns
    <2>1. TypeOK'
      BY <1>26 DEF UsrCallbackReturns, TypeOK, ControlInv, BufferInv,
         TransferInv
    <2>2. ControlInv' /\ MutexInv'
      BY <1>26 DEF UsrCallbackReturns, TypeOK, ControlInv, MutexInv
    <2>3. TransferInv'
      BY <1>26 DEF UsrCallbackReturns, TypeOK, ControlInv, TransferInv, AllNull
    <2>4. BufferInv'
      BY <1>26 DEF UsrCallbackReturns, TypeOK, ControlInv, MutexInv,
         TransferInv, BufferInv
    <2>5. QED
      BY <2>1, <2>2, <2>3, <2>4
  <1>27. CASE SpuriousWakeup
    <2>1. TypeOK'
      BY <1>27 DEF SpuriousWakeup, TypeOK, ControlInv, BufferInv, TransferInv
    <2>2. ControlInv' /\ MutexInv'
      BY <1>27 DEF SpuriousWakeup, TypeOK, ControlInv, MutexInv
    <2>3. TransferInv'
      BY <1>27 DEF SpuriousWakeup, TypeOK, ControlInv, TransferInv, AllNull
    <2>4. BufferInv'
      BY <1>27 DEF SpuriousWakeup, TypeOK, ControlInv, MutexInv, TransferInv,
         BufferInv
    <2>5. QED
      BY <2>1, <2>2, <2>3, <2>4
  <1>28. ASSUME NEW t \in Slots, Complete(t) PROVE IInv'
    <2>1. TypeOK'
      BY <1>28 DEF Complete, TypeOK, ControlInv, BufferInv, TransferInv
    <2>2. ControlInv' /\ MutexInv'
      BY <1>28 DEF Complete, TypeOK, ControlInv, MutexInv
    <2>3. TransferInv'
      BY <1>28 DEF Complete, TypeOK, ControlInv, TransferInv, AllNull
    <2>4. BufferInv'
      BY <1>28 DEF Complete, TypeOK, ControlInv, MutexInv, TransferInv,
         BufferInv
    <2>5. QED
      BY <2>1, <2>2, <2>3, <2>4
  <1>29. CASE UNCHANGED vars
    BY <1>29 DEF vars, TypeOK, ControlInv, MutexInv, TransferInv, BufferInv,
                 AllNull
  <1>30. QED
    BY <1>1, <1>2, <1>3, <1>4, <1>5, <1>6, <1>7, <1>8, <1>9, <1>10, <1>11,
       <1>12, <1>13, <1>14, <1>15, <1>16, <1>17, <1>18, <1>19, <1>20, <1>21,
          <1>22, <1>23, <1>24, <1>25, <1>26, <1>27, <1>28, <1>29
    DEF Next, StartSteps, StopSteps, EvSteps, UsrSteps

-----------------------------------------------------------------------------
(* The invariant holds in every reachable state. *)
LEMMA IInvHolds == Spec => []IInv
  <1>1. QED
    BY InitIInv, NextIInv, PTL DEF Spec

\* Every variable of stream.c keeps a value of its type; in particular the
\* frame numbers stay in range although three threads move them.
THEOREM TypeCorrect == Spec => []TypeOK
  <1>1. IInv => TypeOK
    BY DEF IInv
  <1>2. QED
    BY <1>1, IInvHolds, PTL

\* uvc_stream_close never frees a handle that a transfer, the event thread or
\* the user thread can still reach, for any number of transfers.
THEOREM MemorySafe == Spec => []NoUseAfterFree
  <1>1. IInv => NoUseAfterFree
    <2> SUFFICES ASSUME IInv, strmh = "closed"
                 PROVE  /\ AllNull /\ evPc = "idle" /\ usrPc = "none"
                        /\ cb_mutex = "none" /\ waiting = {}
      BY DEF NoUseAfterFree
    <2>1. AllNull /\ usrPc = "none" /\ ctlPc = "idle"
      BY DEF IInv, TransferInv, ControlInv
    <2>2. evXfer \notin Slots
      BY <2>1 DEF IInv, TransferInv, AllNull
    <2>3. evPc = "idle"
      BY <2>2 DEF IInv, TypeOK, TransferInv, Slots, NoXfer
    <2>4. cb_mutex = "none" /\ waiting = {}
      BY <2>1 DEF IInv, TypeOK, MutexInv
    <2>5. QED
      BY <2>1, <2>3, <2>4
  <1>2. QED
    BY <1>1, IInvHolds, PTL

\* The application is never handed a mixture of two frames.
THEOREM FramesWhole == Spec => []FrameIsWhole
  <1>1. IInv => FrameIsWhole
    BY DEF IInv, BufferInv, FrameIsWhole
  <1>2. QED
    BY <1>1, IInvHolds, PTL

-----------------------------------------------------------------------------
(* UvcStream implements FrameSource. *)

LEMMA InitRefines == Init => Source!Init
  BY DEF Init, Source!Init, NoFrame

LEMMA StepRefines == IInv /\ [Next]_vars => [Source!Next]_(Source!vars)
  <1> SUFFICES ASSUME IInv, [Next]_vars
               PROVE  [Source!Next]_(Source!vars)
    OBVIOUS
  <1> USE DEF IInv, ctlVars, evVars, usrVars, bufVars
  <1>1. CASE OpenCtrl
    BY <1>1 DEF OpenCtrl, ControlInv, Source!vars
  <1>2. CASE StreamStart
    BY <1>2 DEF StreamStart, TypeOK, ControlInv, MutexInv, BufferInv, NoFrame,
       Source!Next, Source!Start, Source!vars
  <1>3. CASE StreamStartFails
    BY <1>3 DEF StreamStartFails, ControlInv, Source!vars
  <1>4. CASE Submit
    BY <1>4 DEF Submit, ControlInv, Source!vars
  <1>5. CASE SubmitFails
    BY <1>5 DEF SubmitFails, ControlInv, Source!vars
  <1>6. CASE StopBegin
    BY <1>6 DEF StopBegin, TypeOK, ControlInv, MutexInv, BufferInv, NoFrame,
       Source!Next, Source!Stop, Source!vars
  <1>7. CASE StopLock
    BY <1>7 DEF StopLock, ControlInv, Source!vars
  <1>8. CASE StopCancel
    BY <1>8 DEF StopCancel, ControlInv, Source!vars
  <1>9. CASE StopWait
    BY <1>9 DEF StopWait, ControlInv, Source!vars
  <1>10. CASE StopWake
    BY <1>10 DEF StopWake, ControlInv, Source!vars
  <1>11. CASE StopKick
    BY <1>11 DEF StopKick, ControlInv, Source!vars
  <1>12. CASE StopJoin
    BY <1>12 DEF StopJoin, ControlInv, Source!vars
  <1>13. CASE StreamClose
    BY <1>13 DEF StreamClose, TypeOK, ControlInv, MutexInv, BufferInv, NoFrame,
       Source!Next, Source!StopReturns, Source!vars
  <1>14. CASE FlipFid
    BY <1>14 DEF FlipFid, ControlInv, Source!vars
  <1>15. CASE AppendPayload
    BY <1>15 DEF AppendPayload, ControlInv, Source!vars
  <1>16. CASE SwapBuffers
    BY <1>16 DEF SwapBuffers, ControlInv, Source!vars
  <1>17. CASE EndPayload
    BY <1>17 DEF EndPayload, ControlInv, Source!vars
  <1>18. CASE ReadRunning
    BY <1>18 DEF ReadRunning, ControlInv, Source!vars
  <1>19. CASE Resubmit
    BY <1>19 DEF Resubmit, ControlInv, Source!vars
  <1>20. CASE ResubmitFails
    BY <1>20 DEF ResubmitFails, ControlInv, Source!vars
  <1>21. CASE FreeTransfer
    BY <1>21 DEF FreeTransfer, ControlInv, Source!vars
  <1>22. CASE UsrWait
    BY <1>22 DEF UsrWait, UsrHasMutex, ControlInv, Source!vars
  <1>23. CASE UsrExit
    BY <1>23 DEF UsrExit, UsrHasMutex, ControlInv, Source!vars
  <1>24. CASE UsrTake
    BY <1>24 DEF UsrTake, UsrHasMutex, ControlInv, Source!vars
  <1>25. CASE UsrPopulate
    BY <1>25 DEF UsrPopulate, TypeOK, ControlInv, MutexInv, BufferInv, NoFrame,
       Source!Next, Source!Call, Source!vars
  <1>26. CASE UsrCallbackReturns
    BY <1>26 DEF UsrCallbackReturns, TypeOK, ControlInv, MutexInv, BufferInv,
       NoFrame,
       Source!Next, Source!Return, Source!vars
  <1>27. CASE SpuriousWakeup
    BY <1>27 DEF SpuriousWakeup, ControlInv, Source!vars
  <1>28. ASSUME NEW t \in Slots, Complete(t)
         PROVE  [Source!Next]_(Source!vars)
    BY <1>28 DEF Complete, Source!vars
  <1>29. CASE UNCHANGED vars
    BY <1>29 DEF vars, Source!vars
  <1>30. QED
    BY <1>1, <1>2, <1>3, <1>4, <1>5, <1>6, <1>7, <1>8, <1>9, <1>10, <1>11,
       <1>12, <1>13, <1>14, <1>15, <1>16, <1>17, <1>18, <1>19, <1>20, <1>21,
          <1>22, <1>23, <1>24, <1>25, <1>26, <1>27, <1>28, <1>29
    DEF Next, StartSteps, StopSteps, EvSteps, UsrSteps

\* native-lib.cpp may rely on FrameSource for any stream of libuvc: frames in
\* order and whole, at most one late callback, none once the stop returned.
THEOREM Implements == Spec => ImplementsFrameSource
  <1>1. QED
    BY InitRefines, StepRefines, IInvHolds, PTL
    DEF Spec, ImplementsFrameSource, Source!Spec

=============================================================================
