---------------------------- MODULE FrameAssembly ----------------------------
(****************************************************************************)
(* _uvc_process_payload and _uvc_swap_buffers of stream.c, with byte        *)
(* counts: how payloads become frames, next to a camera that sends them.    *)
(* A byte is known by its frame and its place in it, <<frame, n>>.          *)
(*                                                                          *)
(* Time stamps, metadata, the header formats of iSight cameras and headers  *)
(* of less than two bytes, which UVC does not know, are left out.  The two  *)
(* buffers and their users are the subject of UvcStream.                    *)
(****************************************************************************)
EXTENDS Integers, Sequences, FiniteSets

CONSTANTS
  MaxFrames, \* bound: frames the camera sends
  MaxSize    \* bound: bytes of a frame

VARIABLES
  limit,     \* cur_ctrl.dwMaxVideoFrameSize, the size of both buffers
  sizes,     \* the sizes of the frames the camera has begun to send
  sent,      \* the bytes of the last one it has sent
  eof,       \* the last one is over
  got,       \* outbuf up to got_bytes
  fid,       \* the frame ID bit of the last header
  published, \* the frames handed to _uvc_user_caller, in order
  seen,      \* ghost: frames of which a payload got through
  intact     \* ghost: no payload got lost, no frame is larger than the buffer

source   == <<sizes, sent, eof>>
assembly == <<source, got, fid, published, seen, intact>>

Frame == Len(sizes)
Size  == IF sizes = <<>> THEN 0 ELSE sizes[Frame]

\* The buffers of a stream that uvc_stream_start has begun.
Init ==
  /\ sizes = <<>> /\ sent = 0 /\ eof = FALSE
  /\ got = <<>> /\ fid = 0 /\ published = <<>>
  /\ seen = {} /\ intact = TRUE

Reset ==
  /\ sizes' = <<>> /\ sent' = 0 /\ eof' = FALSE
  /\ got' = <<>> /\ fid' = 0 /\ published' = <<>>
  /\ seen' = {} /\ intact' = TRUE

(****************************************************************************)
(* The camera: a frame in payloads of any size, with or without an EOF on   *)
(* the last one or on a header that follows it.                             *)
(****************************************************************************)
NextFrame(size) ==
  /\ sent = Size /\ Frame < MaxFrames
  /\ sizes' = Append(sizes, size) /\ sent' = 0 /\ eof' = FALSE
  /\ intact' = (intact /\ size <= limit)
  /\ UNCHANGED <<got, fid, published, seen>>

\* A payload of n bytes; the last one of a frame may say so.
Send(n, last) ==
  /\ Frame > 0 /\ ~eof
  /\ n <= Size - sent /\ (last => sent + n = Size)
  /\ n > 0 \/ last \/ sent = 0
  /\ sent' = sent + n /\ eof' = last
  /\ UNCHANGED sizes

Bytes(n) == [i \in 1 .. n |-> <<Frame, sent + i>>]

(****************************************************************************)
(* _uvc_process_payload.  A frame ends when the frame ID bit has flipped,   *)
(* with the EOF bit of a payload that has data, and when the buffer is full.*)
(****************************************************************************)
FrameId == Frame % 2

\* Mutant: the frame ID bit is not looked at.
IgnoredFlip == FALSE

Flipped == fid # FrameId /\ got # <<>>

\* Mutant: the payload is not cut.
Uncut(bytes, room) == bytes

Cut(bytes, room) ==
  IF Len(bytes) > room THEN SubSeq(bytes, 1, room) ELSE bytes

Payload(n, last) ==
  LET before == IF Flipped THEN <<>> ELSE got
      after  == before \o Cut(Bytes(n), limit - Len(before))
      swap   == n > 0 /\ (last \/ Len(after) = limit)
      ended  == IF Flipped THEN Append(published, got) ELSE published IN
  /\ Send(n, last)
  /\ fid' = FrameId
  /\ published' = IF swap THEN Append(ended, after) ELSE ended
  /\ got' = IF swap THEN <<>> ELSE after
  /\ seen' = seen \cup {Frame}
  /\ UNCHANGED intact

\* Lost on the bus, or ignored: empty, bogus or marked as an error.
PayloadLost(n, last) ==
  /\ Send(n, last)
  /\ intact' = FALSE
  /\ UNCHANGED <<got, fid, published, seen>>

Next ==
  \/ \E size \in 1 .. MaxSize : NextFrame(size)
  \/ \E n \in 0 .. MaxSize, last \in BOOLEAN : Payload(n, last) \/ PayloadLost(n, last)

(****************************************************************************)
(* Properties                                                               *)
(****************************************************************************)
Byte == (1 .. MaxFrames) \X (1 .. MaxSize)

\* The variables have their types; what is assembled fits into outbuf and what is
\* published was in it.  (_uvc_process_payload)
TypeOK ==
  /\ limit \in Nat
  /\ sizes \in Seq(1 .. MaxSize) /\ Frame <= MaxFrames /\ sent \in 0 .. Size /\ eof \in BOOLEAN
  /\ got \in Seq(Byte) /\ Len(got) <= limit
  /\ fid \in {0, 1}
  /\ published \in Seq(Seq(Byte)) /\ \A i \in DOMAIN published : Len(published[i]) <= limit
  /\ seen \subseteq 1 .. MaxFrames /\ intact \in BOOLEAN

Earlier(b, c) == b[1] < c[1] \/ (b[1] = c[1] /\ b[2] < c[2])

\* The bytes of a frame are in order, and come after those of the frames before.
InOrder ==
  /\ \A i \in DOMAIN published : \A m, n \in DOMAIN published[i] :
       m < n => Earlier(published[i][m], published[i][n])
  /\ \A i, j \in DOMAIN published : i < j =>
       \A m \in DOMAIN published[i], n \in DOMAIN published[j] :
         Earlier(published[i][m], published[j][n])

\* A published frame joins bytes of two frames of the camera only if there is another one
\* between them, and every frame in between with the other frame ID bit got lost as a whole.
JoinedAfterLoss ==
  \A i \in DOMAIN published : \A m, n \in DOMAIN published[i] :
    LET j == published[i][m][1]
        k == published[i][n][1] IN
    j < k => j + 1 < k /\ \A f \in seen \cap (j .. k) : f % 2 = j % 2

\* Without losses, and with frames that fit, the frames published are those of the
\* camera, each once and whole, and the last one but one is there as soon as the
\* last one has begun to arrive.
Whole(i) == published[i] = [n \in 1 .. sizes[i] |-> <<i, n>>]

WholeWithoutLoss ==
  intact => /\ Len(published) <= Frame /\ \A i \in DOMAIN published : Whole(i)
            /\ Len(published) >= IF Frame \in seen THEN Frame - 1 ELSE Frame - 2

\* (_uvc_process_payload, _uvc_swap_buffers)
FramesIntact == InOrder /\ JoinedAfterLoss /\ WholeWithoutLoss
=============================================================================
