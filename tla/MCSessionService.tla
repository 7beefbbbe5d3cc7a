------------------------- MODULE MCSessionService -------------------------
(* Finite instance of SessionService. *)
EXTENDS SessionService, TLC

CONSTANTS d1, f1, f2, t1, t2
OneDevice  == {d1}
TwoFds     == {f1, f2}
TwoWorkers == {t1, t2}
Symmetry == Permutations(Fds) \cup Permutations(Workers)
=============================================================================
