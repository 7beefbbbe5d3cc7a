----------------------------- MODULE MCUvcStream -----------------------------
(* Finite instance of UvcStream: NumTransfers and MaxSeq come from the .cfg. *)
EXTENDS UvcStream
=============================================================================
