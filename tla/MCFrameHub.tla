----------------------------- MODULE MCFrameHub -----------------------------
(* Finite instance of FrameHub. *)
EXTENDS FrameHub, TLC

CONSTANTS r1, r2, p1, p2
TwoReaders == {r1, r2}
TwoStops   == {p1, p2}
OneStop    == {p1}
Symmetry == Permutations(Readers) \cup Permutations(StopThreads)
=============================================================================
