--------------------------- MODULE MCCameraContext ---------------------------
(* Finite instance of CameraContext; the threads are interchangeable. *)
EXTENDS CameraContext, TLC

CONSTANTS t1, t2, t3
TwoThreads   == {t1, t2}
ThreeThreads == {t1, t2, t3}
ThreadSymmetry == Permutations(Threads)
=============================================================================
