----------------------------- MODULE FrameSource -----------------------------
(****************************************************************************)
(* What libuvc promises to the code that starts and stops a stream with a   *)
(* callback: uvc_start_streaming and uvc_stop_streaming as native-lib.cpp   *)
(* relies on them.  UvcStream implements this specification; CameraContext  *)
(* and FrameHub only use what it states:                                    *)
(*                                                                          *)
(*   - the callback is never run by two threads at once;                    *)
(*   - frames arrive in the order of their numbers, none twice;             *)
(*   - once a stop has begun, at most one more callback begins;             *)
(*   - when the stop returns, no callback is running, and none will begin   *)
(*     before the next start.                                               *)
(****************************************************************************)
EXTENDS Naturals

VARIABLES
  phase,      \* "stopped", "streaming", or inside a stop: "stopping" while
              \* one more callback may begin, "draining" when none may
  busy,       \* the callback is running
  delivered   \* number of the last frame handed to the callback, 0 for none

vars == <<phase, busy, delivered>>

Init == phase = "stopped" /\ busy = FALSE /\ delivered = 0

Start == /\ phase = "stopped"
         /\ phase' = "streaming"
         /\ UNCHANGED <<busy, delivered>>

Call == /\ phase \in {"streaming", "stopping"} /\ ~busy
        /\ busy' = TRUE
        /\ delivered' \in Nat /\ delivered' > delivered
        /\ phase' = IF phase = "stopping" THEN "draining" ELSE phase

Return == /\ busy
          /\ busy' = FALSE
          /\ UNCHANGED <<phase, delivered>>

Stop == /\ phase = "streaming"
        /\ phase' \in {"stopping", "draining"}
        /\ UNCHANGED <<busy, delivered>>

StopReturns == /\ phase = "draining" /\ ~busy
               /\ phase' = "stopped"
               /\ delivered' = 0
               /\ UNCHANGED busy

Next == Start \/ Call \/ Return \/ Stop \/ StopReturns

Spec == Init /\ [][Next]_vars
=============================================================================
