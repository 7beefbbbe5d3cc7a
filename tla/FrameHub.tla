------------------------------ MODULE FrameHub ------------------------------
(****************************************************************************)
(* The path of a frame from the callback of libuvc to the HTTP clients and  *)
(* the preview, for one CameraSession: frame_callback (native-lib.cpp),     *)
(* onFrameReady, MjpegInputStream and the start and stop of the stream      *)
(* (UvcStreamingService.kt), and the preview listener (MainActivity.kt).    *)
(*                                                                          *)
(* The threads are the callback thread, one reader per client, the decoder  *)
(* of the preview, and the threads of startStreaming and stopStreaming.     *)
(* The stream below is what FrameSource promises of it.                     *)
(*                                                                          *)
(* A frame is a number.  The buffer and each snapshot hold the number of    *)
(* the frame their bytes come from; a size is the number of the frame it    *)
(* was published for.  Copies into and out of the buffer are made under     *)
(* buffer_mutex, so each of them is one step (CameraContext has the mutex). *)
(* Left out: recovery and release of the session (CameraContext).           *)
(****************************************************************************)
EXTENDS Naturals

CONSTANTS
  Readers,     \* HTTP clients
  StopThreads, \* threads of stopStreaming that may exist at once
  MaxFrames,   \* bound: frames copied into the buffer in a behaviour, and
               \* frames delivered in one streaming session
  MaxStarts    \* bound: calls of startUVC in a behaviour

Nobody == "nobody"

ASSUME HubAssumption == /\ MaxFrames \in Nat \ {0} /\ MaxStarts \in Nat \ {0}
                        /\ Nobody \notin Readers

VARIABLES
  phase, busy, delivered,  \* the stream (FrameSource)
  cb,          \* control state of the callback thread
  buffer,      \* session.buffer, shared with native code
  frameCount,  \* session.frameCount
  frameSize,   \* session.frameSize
  frameLock,   \* the reader that holds session.frameLock across steps
  waitSet,     \* readers blocked in frameLock.wait and not notified
  state,       \* session.state
  starter,     \* control state of the thread of startStreaming
  stopper,     \* control state of each thread of stopStreaming
  starts,      \* calls of startUVC so far
  rd,          \* MjpegInputStream of each client
  preview      \* session.isDecoding, and what the decoder was given

source == <<phase, busy, delivered>>
hub    == <<buffer, frameCount, frameSize>>
ctl    == <<state, starter, stopper, starts>>
vars == <<source, cb, hub, frameLock, waitSet, ctl, rd, preview>>

Source == INSTANCE FrameSource

Frames == 0 .. MaxFrames
Closed == [pc |-> "closed", last |-> 0, size |-> 0, data |-> 0]

\* last is lastReadFrameId + 1, so that the initial -1 is a natural number.
ReaderStates ==
  [pc : {"closed", "lock", "wait", "copy", "mark", "send"},
   last : 0 .. MaxFrames + 1, size : Frames, data : Frames]
PreviewStates == [busy : BOOLEAN, size : Frames, data : Frames]

TypeOK ==
  /\ phase \in {"stopped", "streaming", "stopping", "draining"}
  /\ busy \in BOOLEAN /\ delivered \in Nat
  /\ cb \in {"idle", "copy", "count", "publish", "preview", "return"}
  /\ buffer \in Frames /\ frameCount \in Frames /\ frameSize \in Frames
  /\ frameLock \in Readers \cup {Nobody}
  /\ waitSet \subseteq Readers
  /\ state \in {"IDLE", "STARTING", "STREAMING", "STOPPING"}
  /\ starter \in {"idle", "start", "stopOld", "await", "late", "lateStop"}
  /\ stopper \in [StopThreads -> {"idle", "called", "stop", "join"}]
  /\ starts \in 0 .. MaxStarts
  /\ rd \in [Readers -> ReaderStates]
  /\ preview \in PreviewStates
  /\ \A r \in Readers : frameLock = r <=> rd[r].pc \in {"copy", "mark"}
  /\ \A r \in waitSet : rd[r].pc = "wait"

Init ==
  /\ Source!Init
  /\ cb = "idle"
  /\ buffer = 0 /\ frameCount = 0 /\ frameSize = 0
  /\ frameLock = Nobody /\ waitSet = {}
  /\ state = "IDLE" /\ starter = "idle" /\ starts = 0
  /\ stopper = [p \in StopThreads |-> "idle"]
  /\ rd = [r \in Readers |-> Closed]
  /\ preview = [busy |-> FALSE, size |-> 0, data |-> 0]

-----------------------------------------------------------------------------
(* startStreaming *)

BeginStart ==
  /\ starter = "idle" /\ state = "IDLE" /\ starts < MaxStarts
  /\ state' = "STARTING" /\ starter' = "start" /\ starts' = starts + 1
  /\ UNCHANGED <<source, cb, hub, frameLock, waitSet, stopper, rd, preview>>

\* startUVC stops a stream that runs already, then starts its own.  Nobody
\* else may be inside a stop: uvc_mutex.
StartStopsOld ==
  /\ starter = "start" /\ Source!Stop
  /\ starter' = "stopOld"
  /\ UNCHANGED <<cb, hub, frameLock, waitSet, state, stopper, starts, rd,
                 preview>>

StartJoinsOld ==
  /\ starter = "stopOld" /\ Source!StopReturns
  /\ starter' = "start"
  /\ UNCHANGED <<cb, hub, frameLock, waitSet, state, stopper, starts, rd,
                 preview>>

StartUVC ==
  /\ starter = "start" /\ Source!Start
  /\ starter' = "await"
  /\ UNCHANGED <<cb, hub, frameLock, waitSet, state, stopper, starts, rd,
                 preview>>

\* Mutant: a failed start leaves the state as it is.
StartFailsSilently ==
  /\ starter = "start" /\ phase = "stopped"
  /\ starter' = "idle"
  /\ UNCHANGED <<source, cb, hub, frameLock, waitSet, state, stopper, starts,
                 rd, preview>>

\* The negotiation fails: no stream.
StartFails ==
  /\ starter = "start" /\ phase = "stopped"
  /\ state' = IF state = "STARTING" THEN "IDLE" ELSE state
  /\ starter' = "idle"
  /\ UNCHANGED <<source, cb, hub, frameLock, waitSet, stopper, starts, rd,
                 preview>>

\* awaitFirstFrame sees that frameCount is positive; it is never reset.
FirstFrame ==
  /\ starter = "await" /\ frameCount > 0
  /\ state' = IF state = "STARTING" THEN "STREAMING" ELSE state
  /\ starter' = "idle"
  /\ UNCHANGED <<source, cb, hub, frameLock, waitSet, stopper, starts, rd,
                 preview>>

\* awaitFirstFrame times out and stopUVC follows.  The stream is still there:
\* the activity stops only cameras it saw stream, and this one never did.
NoFirstFrame ==
  /\ starter = "await" /\ frameCount = 0
  /\ starter' = "late"
  /\ UNCHANGED <<source, cb, hub, frameLock, waitSet, state, stopper, starts,
                 rd, preview>>

LateStop ==
  /\ starter = "late" /\ Source!Stop
  /\ starter' = "lateStop"
  /\ UNCHANGED <<cb, hub, frameLock, waitSet, state, stopper, starts, rd,
                 preview>>

LateStopReturns ==
  /\ starter = "lateStop" /\ Source!StopReturns
  /\ state' = IF state = "STARTING" THEN "IDLE" ELSE state
  /\ starter' = "idle"
  /\ UNCHANGED <<cb, hub, frameLock, waitSet, stopper, starts, rd, preview>>

-----------------------------------------------------------------------------
(* stopStreaming *)

\* The activity calls it when it sees a camera stream; its thread looks again
\* when it comes to run, and also stops a start that is in progress by then.
CallStop(p) ==
  /\ stopper[p] = "idle" /\ state = "STREAMING"
  /\ stopper' = [stopper EXCEPT ![p] = "called"]
  /\ UNCHANGED <<source, cb, hub, frameLock, waitSet, state, starter, starts,
                 rd, preview>>

ShouldStop(p) ==
  /\ stopper[p] = "called"
  /\ IF state \in {"STREAMING", "STARTING"}
       THEN state' = "STOPPING" /\ stopper' = [stopper EXCEPT ![p] = "stop"]
       ELSE stopper' = [stopper EXCEPT ![p] = "idle"] /\ UNCHANGED state
  /\ UNCHANGED <<source, cb, hub, frameLock, waitSet, starter, starts, rd,
                 preview>>

StopUVC(p) ==
  /\ stopper[p] = "stop" /\ Source!Stop
  /\ stopper' = [stopper EXCEPT ![p] = "join"]
  /\ UNCHANGED <<cb, hub, frameLock, waitSet, state, starter, starts, rd,
                 preview>>

Stopped(p) ==
  /\ state' = IF state = "STOPPING" THEN "IDLE" ELSE state
  /\ stopper' = [stopper EXCEPT ![p] = "idle"]

StopReturns(p) ==
  /\ stopper[p] = "join" /\ Source!StopReturns
  /\ Stopped(p)
  /\ UNCHANGED <<cb, hub, frameLock, waitSet, starter, starts, rd, preview>>

\* stopUVC finds no stream.
StopNothing(p) ==
  /\ stopper[p] = "stop" /\ phase = "stopped"
  /\ Stopped(p)
  /\ UNCHANGED <<source, cb, hub, frameLock, waitSet, starter, starts, rd,
                 preview>>

-----------------------------------------------------------------------------
(* frame_callback and onFrameReady, on the callback thread *)

Callback ==
  /\ cb = "idle" /\ (delivered < MaxFrames \/ phase = "stopping")
  /\ delivered' = delivered + 1 /\ Source!Call
  /\ cb' = "copy"
  /\ UNCHANGED <<hub, frameLock, waitSet, ctl, rd, preview>>

\* An empty or oversized frame, or one that is not MJPEG, is dropped.
DropFrame ==
  /\ cb = "copy"
  /\ cb' = "return"
  /\ UNCHANGED <<source, hub, frameLock, waitSet, ctl, rd, preview>>

CopyFrame ==
  /\ cb = "copy" /\ buffer < MaxFrames
  /\ buffer' = buffer + 1
  /\ cb' = "count"
  /\ UNCHANGED <<source, frameCount, frameSize, frameLock, waitSet, ctl, rd,
                 preview>>

\* onFrameReady counts the frame before it takes frameLock.
CountFrame ==
  /\ cb = "count"
  /\ frameCount' = frameCount + 1
  /\ cb' = "publish"
  /\ UNCHANGED <<source, buffer, frameSize, frameLock, waitSet, ctl, rd,
                 preview>>

PublishSize ==
  /\ cb = "publish" /\ frameLock = Nobody
  /\ frameSize' = buffer
  /\ waitSet' = {}
  /\ cb' = "preview"
  /\ UNCHANGED <<source, buffer, frameCount, frameLock, ctl, rd, preview>>

\* Mutant: the listener copies while the decoder still reads.
PreviewAlways ==
  /\ cb = "preview"
  /\ preview' = [busy |-> TRUE, data |-> buffer,
                 size |-> IF preview.busy THEN preview.size ELSE frameSize]
  /\ cb' = "return"
  /\ UNCHANGED <<source, hub, frameLock, waitSet, ctl, rd>>

\* The listener of the activity copies the frame for the decoder, unless no
\* preview is shown or the decoder is still busy with the last one.
Preview ==
  /\ cb = "preview"
  /\ \/ /\ ~preview.busy
        /\ preview' = [busy |-> TRUE, size |-> frameSize, data |-> buffer]
     \/ UNCHANGED preview
  /\ cb' = "return"
  /\ UNCHANGED <<source, hub, frameLock, waitSet, ctl, rd>>

CallbackReturns ==
  /\ cb = "return" /\ Source!Return
  /\ cb' = "idle"
  /\ UNCHANGED <<hub, frameLock, waitSet, ctl, rd, preview>>

\* The decoder is done with the preview buffer.
Decoded ==
  /\ preview.busy
  /\ preview' = [preview EXCEPT !.busy = FALSE]
  /\ UNCHANGED <<source, cb, hub, frameLock, waitSet, ctl, rd>>

-----------------------------------------------------------------------------
(* serve and MjpegInputStream.read *)

Connect(r) ==
  /\ rd[r].pc = "closed" /\ state = "STREAMING"
  /\ rd' = [rd EXCEPT ![r] = [Closed EXCEPT !.pc = "lock"]]
  /\ UNCHANGED <<source, cb, hub, frameLock, waitSet, ctl, preview>>

\* The client has read the frame and wants the next one, or goes away.
Sent(r) ==
  /\ rd[r].pc = "send"
  /\ \/ rd' = [rd EXCEPT ![r].pc = "lock"]
     \/ rd' = [rd EXCEPT ![r] = Closed]
  /\ UNCHANGED <<source, cb, hub, frameLock, waitSet, ctl, preview>>

\* With frameLock held: is there a frame this client has not seen?
NewFrame(r) == frameCount + 1 > rd[r].last

\* Mutant: frameLock is released before the copy.
TakeSizeOnly(r) ==
  /\ NewFrame(r)
  /\ rd' = [rd EXCEPT ![r].pc = "copy", ![r].size = frameSize]
  /\ waitSet' = waitSet \ {r}
  /\ UNCHANGED frameLock

\* The size is read, and frameLock is kept for the copy.
TakeSize(r) ==
  /\ NewFrame(r)
  /\ rd' = [rd EXCEPT ![r].pc = "copy", ![r].size = frameSize]
  /\ frameLock' = r
  /\ waitSet' = waitSet \ {r}

\* Mutant: the reader sleeps with frameLock held.
SleepForFrame(r) ==
  /\ ~NewFrame(r)
  /\ rd' = [rd EXCEPT ![r].pc = "wait"]
  /\ waitSet' = waitSet \cup {r}
  /\ frameLock' = r

WaitForFrame(r) ==
  /\ ~NewFrame(r)
  /\ rd' = [rd EXCEPT ![r].pc = "wait"]
  /\ waitSet' = waitSet \cup {r}
  /\ UNCHANGED frameLock

EnterRead(r) ==
  /\ rd[r].pc = "lock" /\ frameLock = Nobody
  /\ TakeSize(r) \/ WaitForFrame(r)
  /\ UNCHANGED <<source, cb, hub, ctl, preview>>

\* Mutant: wait() without a timeout.
EndReadIfNotified(r) ==
  /\ rd[r].pc = "wait" /\ frameLock = Nobody /\ state # "STREAMING"
  /\ r \notin waitSet
  /\ rd' = [rd EXCEPT ![r] = Closed]
  /\ UNCHANGED <<source, cb, hub, frameLock, waitSet, ctl, preview>>

\* wait(500) returns, notified or not; if the stream stopped the read ends.
EndRead(r) ==
  /\ rd[r].pc = "wait" /\ frameLock = Nobody /\ state # "STREAMING"
  /\ rd' = [rd EXCEPT ![r] = Closed]
  /\ waitSet' = waitSet \ {r}
  /\ UNCHANGED <<source, cb, hub, frameLock, ctl, preview>>

WakeUp(r) ==
  /\ rd[r].pc = "wait" /\ frameLock = Nobody /\ state = "STREAMING"
  /\ TakeSize(r) \/ WaitForFrame(r)
  /\ UNCHANGED <<source, cb, hub, ctl, preview>>

CopySnapshot(r) ==
  /\ rd[r].pc = "copy"
  /\ rd' = [rd EXCEPT ![r].pc = "mark", ![r].data = buffer]
  /\ UNCHANGED <<source, cb, hub, frameLock, waitSet, ctl, preview>>

\* Mutant: one lastReadFrameId for all clients.
MarkReadForAll(r) ==
  /\ rd[r].pc = "mark"
  /\ rd' = [q \in Readers |->
              [rd[q] EXCEPT !.pc = IF q = r THEN "send" ELSE @,
                            !.last = frameCount + 1]]
  /\ frameLock' = Nobody
  /\ UNCHANGED <<source, cb, hub, waitSet, ctl, preview>>

\* lastReadFrameId is the count after the copy.
MarkRead(r) ==
  /\ rd[r].pc = "mark"
  /\ rd' = [rd EXCEPT ![r].pc = "send", ![r].last = frameCount + 1]
  /\ frameLock' = Nobody
  /\ UNCHANGED <<source, cb, hub, waitSet, ctl, preview>>
-----------------------------------------------------------------------------
StarterStep == \/ StartStopsOld \/ StartJoinsOld \/ StartUVC \/ StartFails
               \/ FirstFrame \/ NoFirstFrame \/ LateStop \/ LateStopReturns
StopperStep(p) == \/ ShouldStop(p) \/ StopUVC(p) \/ StopReturns(p)
                  \/ StopNothing(p)
CallbackStep == \/ DropFrame \/ CopyFrame \/ CountFrame \/ PublishSize
                \/ Preview \/ CallbackReturns
ReaderStep(r) == \/ EnterRead(r) \/ EndRead(r) \/ WakeUp(r)
                 \/ CopySnapshot(r) \/ MarkRead(r)

Next == \/ BeginStart \/ StarterStep
        \/ \E p \in StopThreads : CallStop(p) \/ StopperStep(p)
        \/ Callback \/ CallbackStep \/ Decoded
        \/ \E r \in Readers : Connect(r) \/ Sent(r) \/ ReaderStep(r)

Spec == Init /\ [][Next]_vars

\* Every thread of the service goes on.  A thread gets frameLock, and a call
\* uvc_mutex, if it is free again and again; wait(500) returns again and
\* again.  A callback that a stop must wait for does begin (FrameSource).
\* Nothing obliges a camera to send frames, nor a client to read.
Fairness ==
  /\ SF_vars(StarterStep) /\ \A p \in StopThreads : SF_vars(StopperStep(p))
  /\ SF_vars(CallbackStep) /\ WF_vars(phase = "stopping" /\ Callback)
  /\ \A r \in Readers : SF_vars(ReaderStep(r))

FairSpec == Spec /\ Fairness

-----------------------------------------------------------------------------
(* Properties *)

\* A snapshot is one frame: its bytes come from the frame whose size it has.
\* (A snapshot of size 0 has no bytes.)
NoTearing ==
  \A r \in Readers :
    rd[r].pc = "send" /\ rd[r].size # 0 => rd[r].data = rd[r].size

\* What tearing there is, is bounded: the bytes of a snapshot come from the
\* frame its size was published for, or from the next one.
TearsByOneFrame ==
  \A r \in Readers : rd[r].pc = "send" =>
    rd[r].data \in {rd[r].size, rd[r].size + 1}

\* The decoder gets whole frames, although previewBuffer is used again for
\* the next one and the listener runs without frameLock.
PreviewWhole == preview.busy => preview.data = preview.size

\* A client that asks for a frame when there is one it has not seen gets it,
\* whatever the other clients do, unless the stream is stopped.
NoStarvation ==
  \A r \in Readers :
    (rd[r].pc \in {"lock", "wait"} /\ NewFrame(r)) ~>
      (rd[r].pc = "send" \/ state # "STREAMING")

\* A client that waits for a frame is let go when the stream is stopped.
StoppedReaderReturns ==
  \A r \in Readers :
    (rd[r].pc = "wait" /\ state # "STREAMING") ~>
      (rd[r].pc # "wait" \/ state = "STREAMING")

\* No camera stays in a state of transition.
SessionSettles ==
  (state \in {"STARTING", "STOPPING"}) ~> (state \in {"IDLE", "STREAMING"})
=============================================================================
