--------------------------- MODULE MCUsbTransfers ---------------------------
(* Finite instance of UsbTransfers: a stream transfer of two URBs, and a      *)
(* second one or a control transfer of one URB.                               *)
EXTENDS UsbTransfers

Two      == {"first", "second"}
KindsOf  == [x \in Transfers |-> IF x = "first" THEN {"bulk", "iso"} ELSE {"bulk", "control"}]
TwoOrOne == [x \in Transfers |-> IF x = "first" THEN 2 ELSE 1]
=============================================================================
