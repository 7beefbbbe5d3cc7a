------------------------------ MODULE UvcDevice ------------------------------
(****************************************************************************)
(* One camera from open to close, as native-lib.cpp drives libuvc: device   *)
(* handle, references, claimed interfaces and kernel drivers (device.c),    *)
(* the negotiation of a mode, the choice of an alternate setting and the    *)
(* frames of the stream (stream.c, FrameAssembly).                          *)
(*                                                                          *)
(* Every request to the device may fail, and the device may be unplugged    *)
(* at any time.  startUVC holds uvc_mutex except for its two pauses, in     *)
(* which stopUVC, cleanup and another startUVC may run.  The threads of a   *)
(* stream are the subject of UvcStream: a stream stops in one step here.    *)
(****************************************************************************)
EXTENDS Integers, Sequences

CONSTANTS
  Cameras,   \* descriptors: the interfaces with a kernel driver, whether there is a status
             \* endpoint, the packet sizes of the alternate settings of the streaming
             \* interface, and the modes in the order of the descriptors
  Starters,  \* threads in startUVC
  Payloads,  \* answers for dwMaxPayloadTransferSize
  Limits,    \* answers for dwMaxVideoFrameSize
  MaxOpens,  \* bound: connections to the camera
  MaxStarts, \* bound: calls of startUVC
  MaxFrames, MaxSize

Mode == [mjpeg : BOOLEAN, known : BOOLEAN, rated : BOOLEAN, area : Nat, buf : Nat]

ASSUME DeviceAssumption ==
  /\ Payloads \subseteq Nat \ {0} /\ Limits \subseteq Nat
  /\ \A c \in Cameras : c.alts \in Seq(Nat) \ {<<>>} /\ c.modes \in Seq(Mode) \ {<<>>}
  /\ MaxOpens \in Nat /\ MaxStarts \in Nat /\ MaxFrames \in Nat /\ MaxSize \in Nat

VARIABLES
  device,    \* the descriptors of the camera
  gone,      \* it is unplugged
  driver,    \* interfaces bound to a kernel driver
  held,      \* interfaces the kernel has claimed for the connection
  alt,       \* the alternate setting of the streaming interface
  ctx,       \* where the context is: see CtxPcs
  dev,       \* uvc_device_t.ref and devh->claimed
  thr,       \* a thread in startUVC: its pc, the size it wants, the candidate it tries,
             \* whether it is its second round, and the control block it negotiated
  stream,    \* the stream handle: "none", "open" or "running"; its mode and control block
  opens, starts,
  stranded,  \* ghost: interfaces whose driver was detached for a claim that failed
  disturbed, \* ghost: a negotiation has released the interface of an open stream
  sizes, sent, eof, got, fid, published, seen, intact

Assembly == INSTANCE FrameAssembly WITH limit <- stream.size

frames == <<sizes, sent, eof, got, fid, published, seen, intact>>
bus    == <<device, gone>>
kernel == <<driver, held, alt, stranded>>
claims == <<kernel, dev>>
bounds == <<opens, starts>>
vars   == <<bus, claims, ctx, thr, stream, bounds, disturbed, frames>>

Control   == "control"
Streaming == "streaming"

Modes == DOMAIN device.modes

NoStream == [pc |-> "none", want |-> 0, cand |-> 0, payload |-> 0, size |-> 0]
NoThread == [pc |-> "idle", want |-> 0, again |-> FALSE, cand |-> 0, payload |-> 0, size |-> 0]
NoDev    == [ref |-> 0, claimed |-> {}]

Init ==
  /\ device \in Cameras /\ gone = FALSE
  /\ driver = device.drivers /\ held = {} /\ alt = 1 /\ stranded = {}
  /\ ctx = "new" /\ dev = NoDev
  /\ thr = [t \in Starters |-> NoThread]
  /\ stream = NoStream
  /\ opens = 0 /\ starts = 0 /\ disturbed = FALSE
  /\ Assembly!Init

(****************************************************************************)
(* uvc_claim_if: nothing to do, or the driver is detached and the interface *)
(* claimed, each of which may fail.                                         *)
(****************************************************************************)
Claimed(i) ==
  /\ ~gone \/ i \in dev.claimed
  /\ driver' = driver \ {i} /\ stranded' = stranded \ {i}
  /\ held' = held \cup {i}
  /\ dev' = [dev EXCEPT !.claimed = @ \cup {i}]
  /\ UNCHANGED alt

NotClaimed(i) ==
  /\ i \notin dev.claimed
  /\ \/ UNCHANGED <<driver, stranded>>
     \/ ~gone /\ driver' = driver \ {i} /\ stranded' = stranded \cup (driver \cap {i})
  /\ UNCHANGED <<held, alt, dev>>

\* uvc_release_if for the interfaces of S: the first alternate setting, the release,
\* the driver.  A device that is gone refuses all of it.
Returned(S) ==
  LET R == IF gone THEN {} ELSE S \cap dev.claimed IN
  /\ held' = held \ R
  /\ driver' = driver \cup (R \cap device.drivers)
  /\ alt' = IF Streaming \in R THEN 1 ELSE alt
  /\ UNCHANGED stranded

Released(S) ==
  /\ Returned(S)
  /\ dev' = [dev EXCEPT !.claimed = IF gone THEN @ ELSE @ \ S]

(****************************************************************************)
(* getDeviceSupportedFormats and uvc_open_internal: references, control     *)
(* interface, status transfer.  The context is in no map before it is open. *)
(****************************************************************************)
Open ==
  /\ ctx = "new" /\ opens < MaxOpens
  /\ opens' = opens + 1
  /\ ctx' = "info" /\ dev' = [NoDev EXCEPT !.ref = 2]
  /\ UNCHANGED <<bus, kernel, thr, stream, starts, disturbed, frames>>

GetInfo ==
  /\ ctx = "info" /\ ctx' = "claim"
  /\ UNCHANGED <<bus, claims, thr, stream, bounds, disturbed, frames>>

ClaimControl ==
  /\ ctx = "claim" /\ Claimed(Control)
  /\ ctx' = IF device.status THEN "status" ELSE "open"
  /\ UNCHANGED <<bus, thr, stream, bounds, disturbed, frames>>

SubmitStatus ==
  /\ ctx = "status" /\ ~gone /\ ctx' = "open"
  /\ UNCHANGED <<bus, claims, thr, stream, bounds, disturbed, frames>>

\* The failures, each with what uvc_open_internal undoes, and the cleanup of a context
\* that has no handle.  Handle and context have a reference each.
Unreferenced == dev' = [ref |-> dev.ref - 2, claimed |-> {}]

InfoFails ==
  /\ ctx = "info" /\ ctx' = "closed" /\ Unreferenced
  /\ UNCHANGED <<bus, kernel, thr, stream, bounds, disturbed, frames>>

ControlBusy ==
  /\ ctx = "claim" /\ ctx' = "failed" /\ NotClaimed(Control)
  /\ UNCHANGED <<bus, thr, stream, bounds, disturbed, frames>>

OpenFailed ==
  /\ ctx \in {"failed", "status"} /\ ctx' = "closed"
  /\ Returned({Control}) /\ Unreferenced
  /\ UNCHANGED <<bus, thr, stream, bounds, disturbed, frames>>

(****************************************************************************)
(* uvc_stop_streaming with uvc_stream_close.                                *)
(****************************************************************************)
NoStreamOpen == stream.pc = "none"

StreamEnded == stream' = NoStream /\ disturbed' = FALSE /\ Assembly!Reset

StopStreaming ==
  \/ NoStreamOpen /\ UNCHANGED <<claims, stream, disturbed, frames>>
  \/ ~NoStreamOpen /\ Released({Streaming}) /\ StreamEnded

(****************************************************************************)
(* startUVC: the old stream is stopped; a pause; the candidates, twice with *)
(* a pause in between; uvc_start_streaming.                                 *)
(****************************************************************************)
Pauses == {"settle", "retry"}
Locked == \E t \in Starters : thr[t].pc \notin Pauses \cup {"idle"}

\* The sizes getDeviceSupportedFormats lists; a frame without intervals is listed too.
Offered == {device.modes[m].area : m \in {n \in Modes : device.modes[n].mjpeg}}

Candidates(want) ==
  {m \in Modes : device.modes[m].mjpeg /\ device.modes[m].rated /\ device.modes[m].area = want}

BeginStart(t) ==
  /\ thr[t].pc = "idle" /\ ctx = "open" /\ ~Locked /\ starts < MaxStarts
  /\ starts' = starts + 1
  /\ \E want \in Offered : thr' = [thr EXCEPT ![t].pc = "settle", ![t].want = want]
  /\ StopStreaming
  /\ UNCHANGED <<bus, ctx, opens>>

GoOn(t, pc)   == thr' = [thr EXCEPT ![t].pc = pc]
Returns(t)    == thr' = [thr EXCEPT ![t] = NoThread]
RoundFails(t) == IF thr[t].again THEN Returns(t)
                 ELSE thr' = [thr EXCEPT ![t].pc = "retry", ![t].again = TRUE]

First(m, C) == \A n \in C : m <= n

\* The first candidate after c, or the end of the round.
NextCandidate(t, c) ==
  LET C == {m \in Candidates(thr[t].want) : m > c} IN
  IF C = {} THEN RoundFails(t)
  ELSE \E m \in C : First(m, C) /\ thr' = [thr EXCEPT ![t].pc = "claim", ![t].cand = m]

Negotiate(t) ==
  /\ thr[t].pc \in Pauses /\ ctx = "open" /\ ~Locked
  /\ NextCandidate(t, 0)
  /\ UNCHANGED <<bus, claims, ctx, stream, bounds, disturbed, frames>>

\* The result of the claim is ignored.
ClaimCandidate(t) ==
  /\ thr[t].pc = "claim" /\ GoOn(t, "probe")
  /\ Claimed(Streaming) \/ NotClaimed(Streaming)
  /\ UNCHANGED <<bus, ctx, stream, bounds, disturbed, frames>>

\* A camera may answer whether or not the interface is claimed; one that answers 0 gets
\* the size of the descriptor.
Probe(t) ==
  /\ thr[t].pc = "probe" /\ ~gone
  /\ \E payload \in Payloads, size \in Limits :
       thr' = [thr EXCEPT ![t].pc = "open", ![t].payload = payload,
                 ![t].size = IF size = 0 THEN device.modes[thr[t].cand].buf ELSE size]
  /\ UNCHANGED <<bus, claims, ctx, stream, bounds, disturbed, frames>>

\* No answer, or another mode: the interface is released, of a running stream too.
ProbeFails(t) ==
  /\ thr[t].pc = "probe"
  /\ Released({Streaming})
  /\ NextCandidate(t, thr[t].cand)
  /\ disturbed' = (disturbed \/ ~NoStreamOpen)
  /\ UNCHANGED <<bus, ctx, stream, bounds, frames>>

(****************************************************************************)
(* uvc_stream_open_ctrl: the interface, unless it has been claimed for the  *)
(* probe, and the commit.  It fails when a stream is open, when the claim   *)
(* fails, and when the commit fails; the claim is not taken back.           *)
(****************************************************************************)
OpenCtrl(t) ==
  /\ thr[t].pc = "open" /\ NoStreamOpen /\ ~gone
  /\ Claimed(Streaming)
  /\ stream' = [pc |-> "open", want |-> thr[t].want, cand |-> thr[t].cand,
                payload |-> thr[t].payload, size |-> thr[t].size]
  /\ GoOn(t, "start")
  /\ UNCHANGED <<bus, ctx, bounds, disturbed, frames>>

OpenCtrlFails(t) ==
  /\ thr[t].pc = "open" /\ Returns(t)
  /\ \/ ~NoStreamOpen /\ UNCHANGED claims
     \/ NoStreamOpen /\ (Claimed(Streaming) \/ NotClaimed(Streaming))
  /\ UNCHANGED <<bus, ctx, stream, bounds, disturbed, frames>>

(****************************************************************************)
(* uvc_stream_start: a known format and, for several alternate settings,    *)
(* the first with packets that are large enough.                            *)
(****************************************************************************)
\* Mutant: off by one.
AlmostFits(i, payload) == device.alts[i] + 1 >= payload

Fits(i, payload) == device.alts[i] >= payload

Fitting == {i \in DOMAIN device.alts : Fits(i, stream.payload)}
Iso     == Len(device.alts) > 1

StreamStart(t) ==
  /\ thr[t].pc = "start" /\ Returns(t)
  /\ device.modes[stream.cand].known
  /\ \/ Iso /\ ~gone /\ \E i \in Fitting : First(i, Fitting) /\ alt' = i
     \/ ~Iso /\ UNCHANGED alt
  /\ stream' = [stream EXCEPT !.pc = "running"]
  /\ UNCHANGED <<bus, driver, held, stranded, dev, ctx, bounds, disturbed, frames>>

\* The format is unknown, no setting fits, or the device refuses it: uvc_stream_close.
StreamStartFails(t) ==
  /\ thr[t].pc = "start" /\ Returns(t)
  /\ Iso \/ ~device.modes[stream.cand].known
  /\ Released({Streaming}) /\ StreamEnded
  /\ UNCHANGED <<bus, ctx, bounds>>

(****************************************************************************)
(* stopUVC; cleanup: the stream, the interfaces that are left, uvc_close    *)
(* with the control interface, and the two references.  Threads in a pause  *)
(* of startUVC will find no handle, and return.                             *)
(****************************************************************************)
StopUVC ==
  /\ ctx = "open" /\ ~Locked /\ ~NoStreamOpen
  /\ StopStreaming
  /\ UNCHANGED <<bus, ctx, thr, bounds>>

\* Mutant: release_claimed_stream_interfaces is not called.
OnlyOfStream == IF NoStreamOpen THEN {} ELSE {Streaming}

ToRelease == dev.claimed \ {Control}

Cleanup ==
  /\ ctx = "open" /\ ~Locked /\ ctx' = "closed"
  /\ Returned(ToRelease \cup {Control}) /\ Unreferenced
  /\ StreamEnded
  /\ thr' = [t \in Starters |-> NoThread]
  /\ UNCHANGED <<bus, bounds>>

\* The connection is closed, and the device may be opened again.
CloseConnection ==
  /\ ctx = "closed" /\ ctx' = "new"
  /\ held' = {} /\ dev' = NoDev
  /\ UNCHANGED <<bus, driver, alt, stranded, thr, stream, bounds, disturbed, frames>>

Unplug ==
  /\ ~gone /\ gone' = TRUE
  /\ UNCHANGED <<device, claims, ctx, thr, stream, bounds, disturbed, frames>>

\* Payloads arrive while the stream runs on an interface that is claimed.
Stream ==
  /\ stream.pc = "running" /\ ~gone /\ Streaming \in held
  /\ Assembly!Next
  /\ UNCHANGED <<bus, claims, ctx, thr, stream, bounds, disturbed>>

Start(t) ==
  \/ BeginStart(t) \/ Negotiate(t) \/ ClaimCandidate(t) \/ Probe(t) \/ ProbeFails(t)
  \/ OpenCtrl(t) \/ OpenCtrlFails(t) \/ StreamStart(t) \/ StreamStartFails(t)

Next ==
  \/ Open \/ GetInfo \/ InfoFails \/ ClaimControl \/ ControlBusy \/ SubmitStatus \/ OpenFailed
  \/ \E t \in Starters : Start(t)
  \/ StopUVC \/ Cleanup \/ CloseConnection \/ Unplug \/ Stream

Spec == Init /\ [][Next]_vars

(****************************************************************************)
(* Properties                                                               *)
(****************************************************************************)
CtxPcs == {"new", "info", "claim", "status", "failed", "open", "closed"}
ThrPcs == {"idle", "settle", "retry", "claim", "probe", "open", "start"}
Ifs    == {Control, Streaming}

\* The variables have their types; what is assembled fits into the buffers of the size
\* that was negotiated for the stream.  (uvc_stream_open_ctrl, _uvc_process_payload)
TypeOK ==
  /\ device \in Cameras /\ gone \in BOOLEAN
  /\ driver \subseteq device.drivers /\ held \subseteq Ifs /\ stranded \subseteq Ifs
  /\ alt \in DOMAIN device.alts
  /\ ctx \in CtxPcs /\ dev.ref \in 0 .. 2 /\ dev.claimed \subseteq Ifs
  /\ \A t \in Starters : thr[t].pc \in ThrPcs /\ thr[t].cand \in Modes \cup {0}
  /\ stream.pc \in {"none", "open", "running"}
  /\ opens <= MaxOpens /\ starts <= MaxStarts
  /\ Assembly!TypeOK

\* A stream that runs has its interface, an alternate setting with packets as large as the
\* camera's payloads, and an MJPEG mode of the size startUVC was asked for -- unless a
\* second startUVC has released the interface.
\* (negotiate_mjpeg_stream_ctrl, uvc_stream_open_ctrl, uvc_stream_start)
StreamIsServed ==
  stream.pc = "running" /\ ~gone /\ ~disturbed =>
    /\ Streaming \in held
    /\ Iso => device.alts[alt] >= stream.payload
    /\ stream.cand \in Candidates(stream.want)

\* The interfaces the library believes to have claimed are those the kernel holds, and
\* those alone are without their driver, but for drivers detached for a claim that failed;
\* a closed context leaves nothing: no interface, no reference, no alternate setting.
\* (uvc_claim_if, uvc_release_if, uvc_open_internal, cleanup)
NothingLeftBehind ==
  ~gone =>
    /\ driver = device.drivers \ (held \cup stranded)
    /\ dev.claimed = held
    /\ alt # 1 => Streaming \in held
    /\ ctx = "closed" => held = {} /\ dev.ref = 0 /\ NoStreamOpen
    /\ ctx = "open" => dev.ref = 2 /\ Control \in held

\* Frames are published in order, once, and whole: FrameAssembly, in streams that come
\* and go.  (_uvc_process_payload, uvc_stream_start)
FramesIntact == Assembly!FramesIntact
=============================================================================
