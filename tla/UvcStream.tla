------------------------------ MODULE UvcStream ------------------------------
(****************************************************************************)
(* One video stream of libuvc (libuvc/src/stream.c), from                   *)
(* uvc_start_streaming to uvc_stop_streaming.  Three threads share it:      *)
(*                                                                          *)
(*   ctl  the thread that starts and stops the stream.  native-lib.cpp      *)
(*        serialises these calls with CameraContext.uvc_mutex, so there is  *)
(*        one such thread at a time;                                        *)
(*   ev   the thread that handles libusb events and runs                    *)
(*        _uvc_stream_callback for one transfer at a time;                  *)
(*   usr  the thread of _uvc_user_caller, which hands complete frames to    *)
(*        the callback of the application.                                  *)
(*                                                                          *)
(* cb_mutex and cb_cond synchronise them; `running' is read and written     *)
(* without the mutex, as in the code.  A critical section that does not     *)
(* span a wait or a loop is one action, enabled when the mutex is free.     *)
(*                                                                          *)
(* Abstracted: the payload bytes (a buffer holds the number of the frame    *)
(* whose bytes were written last), the choice of format and alternate       *)
(* setting, and metadata.                                                   *)
(****************************************************************************)
EXTENDS Naturals

CONSTANTS NumTransfers,   \* LIBUVC_NUM_TRANSFER_BUFS
          MaxSeq          \* bound: frames assembled in one streaming session

ASSUME NumTransfersAssumption == NumTransfers \in Nat \ {0}
ASSUME MaxSeqAssumption == MaxSeq \in Nat \ {0}

VARIABLES
  strmh,      \* is a stream handle in devh->streams?  "open" or "closed"
  running,    \* strmh->running
  transfers,  \* strmh->transfers[]: what libusb does with each of them
  cb_mutex,   \* the thread that holds strmh->cb_mutex across steps
  waiting,    \* the threads blocked in pthread_cond_wait(cb_cond)
  seq, hold_seq,      \* number of the frame being assembled, and presented
  got,                \* strmh->got_bytes # 0
  outbuf, holdbuf,    \* which of the two allocations each pointer names
  content,            \* the frame whose bytes each allocation holds
  ctlPc, slot,        \* control state of ctl, and its loop index
  evPc, evXfer,       \* control state of ev, and the transfer it handles
  usrPc, last_seq, frame  \* control state and locals of _uvc_user_caller

ctlVars == <<ctlPc, slot>>
evVars  == <<evPc, evXfer>>
usrVars == <<usrPc, last_seq, frame>>
bufVars == <<seq, hold_seq, got, outbuf, holdbuf, content>>
vars == <<strmh, running, transfers, cb_mutex, waiting, bufVars, ctlVars,
          evVars, usrVars>>

Slots  == 0 .. NumTransfers - 1
Bufs   == {"A", "B"}
NoXfer == NumTransfers
NoFrame == [sequence |-> 0, data |-> 0]

\* "null": the slot is empty; "ready": allocated, never submitted;
\* "flight": submitted; "cancel": in flight and cancelled;
\* "callback": completed, its callback has not returned.
XferStates == {"null", "ready", "flight", "cancel", "callback"}

CtlPcs == {"idle", "opened", "submit", "lock", "cancel", "check", "wait",
           "join", "close"}
EvPcs  == {"idle", "payload", "flip", "append", "eof", "resubmit", "submit",
           "free"}
UsrPcs == {"none", "lock", "wait", "copy", "callback", "done"}

TypeOK ==
  /\ strmh \in {"closed", "open"}
  /\ running \in BOOLEAN
  /\ transfers \in [Slots -> XferStates]
  /\ cb_mutex \in {"none", "ctl", "usr"}
  /\ waiting \in SUBSET {"ctl", "usr"}
  /\ seq \in 1 .. MaxSeq
  /\ hold_seq \in 0 .. MaxSeq
  /\ got \in BOOLEAN
  /\ outbuf \in Bufs /\ holdbuf \in Bufs
  /\ content \in [Bufs -> 0 .. MaxSeq]
  /\ ctlPc \in CtlPcs /\ slot \in 0 .. NumTransfers
  /\ evPc \in EvPcs /\ evXfer \in 0 .. NumTransfers
  /\ usrPc \in UsrPcs /\ last_seq \in 0 .. MaxSeq
  /\ frame \in [sequence : 0 .. MaxSeq, data : 0 .. MaxSeq]

Init ==
  /\ strmh = "closed"
  /\ running = FALSE
  /\ transfers = [t \in Slots |-> "null"]
  /\ cb_mutex = "none"
  /\ waiting = {}
  /\ seq = 1 /\ hold_seq = 0 /\ got = FALSE
  /\ outbuf = "A" /\ holdbuf = "B" /\ content = [b \in Bufs |-> 0]
  /\ ctlPc = "idle" /\ slot = 0
  /\ evPc = "idle" /\ evXfer = NoXfer
  /\ usrPc = "none" /\ last_seq = 0 /\ frame = NoFrame

AllNull == \A t \in Slots : transfers[t] = "null"

-----------------------------------------------------------------------------
(* ctl: uvc_start_streaming *)

\* A handle from calloc, with fresh buffers, is appended to devh->streams.
\* (With a handle already there the call returns UVC_ERROR_BUSY, unchanged.)
OpenCtrl ==
  /\ ctlPc = "idle" /\ strmh = "closed"
  /\ strmh' = "open"
  /\ ctlPc' = "opened"
  /\ UNCHANGED <<running, transfers, cb_mutex, waiting, bufVars, slot,
                 evVars, usrVars>>

\* `running' is set, the transfers are allocated, the user thread is created.
StreamStart ==
  /\ ctlPc = "opened"
  /\ running' = TRUE
  /\ seq' = 1
  /\ transfers' = [t \in Slots |-> "ready"]
  /\ usrPc' = "lock" /\ last_seq' = 0
  /\ ctlPc' = "submit" /\ slot' = 0
  /\ UNCHANGED <<strmh, cb_mutex, waiting, hold_seq, got, outbuf, holdbuf,
                 content, evVars, frame>>

\* No usable format or alternate setting: `running' is reset before any
\* transfer exists, and uvc_start_streaming closes the handle.
StreamStartFails ==
  /\ ctlPc = "opened"
  /\ ctlPc' = "close"
  /\ UNCHANGED <<strmh, running, transfers, cb_mutex, waiting, bufVars, slot,
                 evVars, usrVars>>

\* Mutant: the submit loop runs once too often.
SubmitOneMore ==
  /\ ctlPc = "submit"
  /\ transfers' = [t \in Slots \cup {slot} |->
                    IF t = slot THEN "flight" ELSE transfers[t]]
  /\ IF slot = NumTransfers
       THEN ctlPc' = "idle" /\ slot' = 0
       ELSE ctlPc' = "submit" /\ slot' = slot + 1
  /\ UNCHANGED <<strmh, running, cb_mutex, waiting, bufVars, evVars, usrVars>>

\* One iteration of the submit loop.  The slot is not shared before that.
Submit ==
  /\ ctlPc = "submit"
  /\ transfers' = [transfers EXCEPT ![slot] = "flight"]
  /\ IF slot + 1 = NumTransfers
       THEN ctlPc' = "idle" /\ slot' = 0
       ELSE ctlPc' = "submit" /\ slot' = slot + 1
  /\ UNCHANGED <<strmh, running, cb_mutex, waiting, bufVars, evVars, usrVars>>

\* libusb refuses a transfer: this one and all later ones are freed, the
\* earlier ones keep running, and the call still returns UVC_SUCCESS.
SubmitFails ==
  /\ ctlPc = "submit"
  /\ transfers' = [t \in Slots |-> IF t >= slot THEN "null" ELSE transfers[t]]
  /\ ctlPc' = "idle" /\ slot' = 0
  /\ UNCHANGED <<strmh, running, cb_mutex, waiting, bufVars, evVars, usrVars>>

-----------------------------------------------------------------------------
(* ctl: uvc_stop_streaming, uvc_stream_close, uvc_stream_stop *)

\* `running' is cleared before the mutex is taken.
StopBegin ==
  /\ ctlPc = "idle" /\ strmh = "open"
  /\ running' = FALSE
  /\ ctlPc' = "lock"
  /\ UNCHANGED <<strmh, transfers, cb_mutex, waiting, bufVars, slot, evVars,
                 usrVars>>

StopLock ==
  /\ ctlPc = "lock" /\ cb_mutex = "none"
  /\ cb_mutex' = "ctl"
  /\ ctlPc' = "cancel" /\ slot' = 0
  /\ UNCHANGED <<strmh, running, transfers, waiting, bufVars, evVars, usrVars>>

\* One iteration of the cancel loop.  libusb_cancel_transfer does nothing to
\* a transfer that is not in flight: its callback is running and will free it.
StopCancel ==
  /\ ctlPc = "cancel"
  /\ transfers' = [transfers EXCEPT ![slot] =
                     IF @ = "flight" THEN "cancel" ELSE @]
  /\ IF slot + 1 = NumTransfers
       THEN ctlPc' = "check" /\ slot' = 0
       ELSE ctlPc' = "cancel" /\ slot' = slot + 1
  /\ UNCHANGED <<strmh, running, cb_mutex, waiting, bufVars, evVars, usrVars>>

\* Some transfer is left: pthread_cond_wait releases the mutex and blocks.
StopWait ==
  /\ ctlPc = "check" /\ ~AllNull
  /\ waiting' = waiting \cup {"ctl"}
  /\ cb_mutex' = "none"
  /\ ctlPc' = "wait"
  /\ UNCHANGED <<strmh, running, transfers, bufVars, slot, evVars, usrVars>>

StopWake ==
  /\ ctlPc = "wait" /\ "ctl" \notin waiting /\ cb_mutex = "none"
  /\ cb_mutex' = "ctl"
  /\ ctlPc' = "check"
  /\ UNCHANGED <<strmh, running, transfers, waiting, bufVars, slot, evVars,
                 usrVars>>

\* Mutant: the stop goes on after one wakeup, without looking again.
StopKickEarly ==
  /\ ctlPc = "check"
  /\ waiting' = {}
  /\ cb_mutex' = "none"
  /\ ctlPc' = "join"
  /\ UNCHANGED <<strmh, running, transfers, bufVars, slot, evVars, usrVars>>

\* Mutant: the stop does not wake the user thread before it joins it.
StopKickSilent ==
  /\ ctlPc = "check" /\ AllNull
  /\ cb_mutex' = "none"
  /\ ctlPc' = "join"
  /\ UNCHANGED <<strmh, running, transfers, waiting, bufVars, slot, evVars,
                 usrVars>>

\* No transfer is left: kick the user thread awake and go and join it.
StopKick ==
  /\ ctlPc = "check" /\ AllNull
  /\ waiting' = {}
  /\ cb_mutex' = "none"
  /\ ctlPc' = "join"
  /\ UNCHANGED <<strmh, running, transfers, bufVars, slot, evVars, usrVars>>

StopJoin ==
  /\ ctlPc = "join" /\ usrPc = "done"
  /\ ctlPc' = "close"
  /\ UNCHANGED <<strmh, running, transfers, cb_mutex, waiting, bufVars, slot,
                 evVars, usrVars>>

\* The buffers, the mutex and the handle are freed.
StreamClose ==
  /\ ctlPc = "close"
  /\ strmh' = "closed"
  /\ seq' = 1 /\ hold_seq' = 0 /\ got' = FALSE
  /\ outbuf' = "A" /\ holdbuf' = "B" /\ content' = [b \in Bufs |-> 0]
  /\ usrPc' = "none" /\ last_seq' = 0 /\ frame' = NoFrame
  /\ ctlPc' = "idle"
  /\ UNCHANGED <<running, transfers, cb_mutex, waiting, slot, evVars>>

-----------------------------------------------------------------------------
(* ev: libusb reports a transfer, _uvc_stream_callback runs *)

\* A transfer in flight completes; libusb calls back for one at a time.  Its
\* status sorts it: data to process, a status that is only resubmitted (timed
\* out, stall, overflow), or one that frees it (cancelled, error, no device).
\* A cancelled transfer may still report that its data or timeout came first.
Complete(t) ==
  /\ evPc = "idle" /\ transfers[t] \in {"flight", "cancel"}
  /\ evPc' \in {"payload", "resubmit", "free"}
  /\ evXfer' = t
  /\ transfers' = [transfers EXCEPT ![t] = "callback"]
  /\ UNCHANGED <<strmh, running, cb_mutex, waiting, bufVars, ctlVars, usrVars>>

\* _uvc_process_payload: the frame ID flipped with data pending, so the last
\* frame is complete and is presented before this payload is appended.
FlipFid ==
  /\ evPc = "payload" /\ got /\ seq < MaxSeq
  /\ evPc' = "flip"
  /\ UNCHANGED <<strmh, running, transfers, cb_mutex, waiting, bufVars,
                 ctlVars, evXfer, usrVars>>

\* The payload is appended to outbuf, without the mutex; it may end the frame.
AppendPayload ==
  /\ evPc \in {"payload", "append"}
  /\ content' = [content EXCEPT ![outbuf] = seq]
  /\ got' = TRUE
  /\ evPc' \in {"payload"} \cup (IF seq < MaxSeq THEN {"eof"} ELSE {})
  /\ UNCHANGED <<strmh, running, transfers, cb_mutex, waiting, seq, hold_seq,
                 outbuf, holdbuf, ctlVars, evXfer, usrVars>>

\* Mutant: the frame is presented in the buffer it was assembled in.
SwapBuffersOneBuffer ==
  /\ evPc \in {"flip", "eof"} /\ cb_mutex = "none"
  /\ holdbuf' = outbuf
  /\ hold_seq' = seq
  /\ waiting' = {}
  /\ seq' = seq + 1 /\ got' = FALSE
  /\ evPc' = IF evPc = "flip" THEN "append" ELSE "payload"
  /\ UNCHANGED <<strmh, running, transfers, cb_mutex, outbuf, content, ctlVars,
                 evXfer, usrVars>>

\* Mutant: nobody is told of the new frame.
SwapBuffersSilent ==
  /\ evPc \in {"flip", "eof"} /\ cb_mutex = "none"
  /\ holdbuf' = outbuf /\ outbuf' = holdbuf
  /\ hold_seq' = seq
  /\ seq' = seq + 1 /\ got' = FALSE
  /\ evPc' = IF evPc = "flip" THEN "append" ELSE "payload"
  /\ UNCHANGED <<strmh, running, transfers, cb_mutex, waiting, content, ctlVars,
                 evXfer, usrVars>>

\* _uvc_swap_buffers, in its two places; the mutex covers the swap only, but
\* seq and got belong to this thread.
SwapBuffers ==
  /\ evPc \in {"flip", "eof"} /\ cb_mutex = "none"
  /\ holdbuf' = outbuf /\ outbuf' = holdbuf
  /\ hold_seq' = seq
  /\ waiting' = {}
  /\ seq' = seq + 1 /\ got' = FALSE
  /\ evPc' = IF evPc = "flip" THEN "append" ELSE "payload"
  /\ UNCHANGED <<strmh, running, transfers, cb_mutex, content, ctlVars,
                 evXfer, usrVars>>

\* The last packet of the transfer is processed (or ignored: empty, bogus,
\* error bit, bad packet status).  Their number is bounded by the transfer.
EndPayload ==
  /\ evPc \in {"payload", "append"}
  /\ evPc' = "resubmit"
  /\ UNCHANGED <<strmh, running, transfers, cb_mutex, waiting, bufVars,
                 ctlVars, evXfer, usrVars>>

\* `running' decides, without the mutex, whether to resubmit or to free.
ReadRunning ==
  /\ evPc = "resubmit"
  /\ evPc' = IF running THEN "submit" ELSE "free"
  /\ UNCHANGED <<strmh, running, transfers, cb_mutex, waiting, bufVars,
                 ctlVars, evXfer, usrVars>>

Resubmit ==
  /\ evPc = "submit"
  /\ transfers' = [transfers EXCEPT ![evXfer] = "flight"]
  /\ evPc' = "idle" /\ evXfer' = NoXfer
  /\ UNCHANGED <<strmh, running, cb_mutex, waiting, bufVars, ctlVars, usrVars>>

ResubmitFails ==
  /\ evPc = "submit"
  /\ evPc' = "free"
  /\ UNCHANGED <<strmh, running, transfers, cb_mutex, waiting, bufVars,
                 ctlVars, evXfer, usrVars>>

\* The transfer is freed and its slot cleared, and every waiter is woken.
FreeTransfer ==
  /\ evPc = "free" /\ cb_mutex = "none"
  /\ transfers' = [transfers EXCEPT ![evXfer] = "null"]
  /\ waiting' = {}
  /\ evPc' = "idle" /\ evXfer' = NoXfer
  /\ UNCHANGED <<strmh, running, cb_mutex, bufVars, ctlVars, usrVars>>

-----------------------------------------------------------------------------
(* usr: _uvc_user_caller *)

\* The mutex is (re)acquired and the loop condition evaluated under it.
UsrHasMutex == /\ usrPc = "lock" \/ (usrPc = "wait" /\ "usr" \notin waiting)
               /\ cb_mutex = "none"

UsrWait ==
  /\ UsrHasMutex /\ running /\ last_seq = hold_seq
  /\ waiting' = waiting \cup {"usr"}
  /\ usrPc' = "wait"
  /\ UNCHANGED <<strmh, running, transfers, cb_mutex, bufVars, ctlVars,
                 evVars, last_seq, frame>>

UsrExit ==
  /\ UsrHasMutex /\ ~running
  /\ usrPc' = "done"
  /\ UNCHANGED <<strmh, running, transfers, cb_mutex, waiting, bufVars,
                 ctlVars, evVars, last_seq, frame>>

\* Mutant: the mutex is released before the frame is populated.
UsrTakeUnlocked ==
  /\ UsrHasMutex /\ running /\ last_seq # hold_seq
  /\ last_seq' = hold_seq
  /\ usrPc' = "copy"
  /\ UNCHANGED <<strmh, running, transfers, cb_mutex, waiting, bufVars, ctlVars,
                 evVars, frame>>

UsrTake ==
  /\ UsrHasMutex /\ running /\ last_seq # hold_seq
  /\ last_seq' = hold_seq
  /\ cb_mutex' = "usr"
  /\ usrPc' = "copy"
  /\ UNCHANGED <<strmh, running, transfers, waiting, bufVars, ctlVars, evVars,
                 frame>>

\* _uvc_populate_frame, under the mutex.
UsrPopulate ==
  /\ usrPc = "copy"
  /\ frame' = [sequence |-> hold_seq, data |-> content[holdbuf]]
  /\ cb_mutex' = "none"
  /\ usrPc' = "callback"
  /\ UNCHANGED <<strmh, running, transfers, waiting, bufVars, ctlVars, evVars,
                 last_seq>>

\* The callback of the application returns.
UsrCallbackReturns ==
  /\ usrPc = "callback"
  /\ usrPc' = "lock"
  /\ UNCHANGED <<strmh, running, transfers, cb_mutex, waiting, bufVars,
                 ctlVars, evVars, last_seq, frame>>

\* POSIX allows pthread_cond_wait to return without a broadcast.
SpuriousWakeup ==
  /\ \E w \in waiting : waiting' = waiting \ {w}
  /\ UNCHANGED <<strmh, running, transfers, cb_mutex, bufVars, ctlVars, evVars,
                 usrVars>>

-----------------------------------------------------------------------------
StopSteps == \/ StopLock \/ StopCancel \/ StopWait \/ StopWake \/ StopKick
             \/ StopJoin \/ StreamClose
StartSteps == \/ OpenCtrl \/ StreamStart \/ StreamStartFails \/ Submit
              \/ SubmitFails
EvSteps  == \/ \E t \in Slots : Complete(t)
            \/ FlipFid \/ AppendPayload \/ SwapBuffers \/ EndPayload
            \/ ReadRunning \/ Resubmit \/ ResubmitFails \/ FreeTransfer
UsrSteps == \/ UsrWait \/ UsrExit \/ UsrTake \/ UsrPopulate
            \/ UsrCallbackReturns

Next == StartSteps \/ StopBegin \/ StopSteps \/ EvSteps \/ UsrSteps
        \/ SpuriousWakeup

Spec == Init /\ [][Next]_vars

\* The threads keep running and the callback returns (weak fairness).  A
\* thread that wants the mutex obtains it if it is free again and again, even
\* if spurious wakeups keep taking it in between (strong fairness).  Every
\* transfer in flight completes, at the latest by its timeout of 5 s, and the
\* event loop reaps all that completed (strong fairness for each of them).
\* Nothing obliges the application to start or to stop a stream.
Fairness ==
  /\ WF_vars(StopSteps) /\ SF_vars(StopLock) /\ SF_vars(StopWake)
  /\ WF_vars(UsrSteps) /\ SF_vars(UsrWait \/ UsrExit \/ UsrTake)
  /\ WF_vars(EndPayload) /\ WF_vars(ReadRunning)
  /\ WF_vars(Resubmit \/ ResubmitFails)
  /\ SF_vars(SwapBuffers) /\ SF_vars(FreeTransfer)
  /\ \A t \in Slots : SF_vars(Complete(t))

FairSpec == Spec /\ Fairness

-----------------------------------------------------------------------------
(* Properties *)

\* uvc_stream_close frees the handle, its buffers and its mutex: by then no
\* transfer may be left that calls back into it, no callback may be running,
\* and the user thread must be gone.
NoUseAfterFree ==
  strmh = "closed" =>
    /\ AllNull
    /\ evPc = "idle"
    /\ usrPc = "none"
    /\ cb_mutex = "none" /\ waiting = {}

\* The frame handed to the application is one frame: the bytes are those of
\* the frame its sequence number names, although the event thread goes on
\* assembling the next frame without the mutex.
FrameIsWhole == usrPc = "callback" => frame.data = frame.sequence

\* The stream keeps the promise the native layer builds on (FrameSource): in
\* particular the application never gets a frame twice nor an older one after
\* a newer one, at most one callback begins after `running' was cleared, and
\* uvc_stop_streaming does not return while the callback runs.
Source == INSTANCE FrameSource WITH
  phase <- IF usrPc = "none" THEN "stopped"
           ELSE IF running THEN "streaming"
           ELSE IF usrPc = "copy" THEN "stopping" ELSE "draining",
  busy <- (usrPc = "callback"),
  delivered <- frame.sequence

ImplementsFrameSource == Source!Spec

\* uvc_stream_stop returns: no wakeup is lost between `running = 0', the
\* cancellations, the callbacks that free transfers and the two waits.
StopReturns == ctlPc = "lock" ~> ctlPc = "idle"

\* A published frame, or a newer one, reaches the application unless the
\* stream is stopped first: the broadcast of _uvc_swap_buffers is not lost.
PublishedFrameArrives ==
  \A n \in 1 .. MaxSeq :
    (running /\ hold_seq = n) ~> (last_seq >= n \/ ~running)

=============================================================================
