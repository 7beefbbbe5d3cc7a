----------------------------- MODULE MCUvcDevice -----------------------------
EXTENDS UvcDevice, TLC

ModeOf(mjpeg, known, rated, area, buf) ==
  [mjpeg |-> mjpeg, known |-> known, rated |-> rated, area |-> area, buf |-> buf]

\* An isochronous camera with a driver on each interface, a mode that is not MJPEG and an
\* MJPEG one the library does not know; a bulk camera with a status endpoint and a mode
\* without intervals.
IsoCamera ==
  [drivers |-> {Control, Streaming}, status |-> FALSE, alts |-> <<0, 1, 3>>,
   modes |-> <<ModeOf(FALSE, TRUE, TRUE, 1, 2), ModeOf(TRUE, FALSE, TRUE, 1, 2), ModeOf(TRUE, TRUE, TRUE, 1, 2)>>]

BulkCamera ==
  [drivers |-> {Streaming}, status |-> TRUE, alts |-> <<4>>,
   modes |-> <<ModeOf(TRUE, TRUE, TRUE, 1, 2), ModeOf(TRUE, TRUE, FALSE, 2, 2)>>]

CamerasDef == {IsoCamera, BulkCamera}
Symmetry   == Permutations(Starters)
=============================================================================
