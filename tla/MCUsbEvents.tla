----------------------------- MODULE MCUsbEvents -----------------------------
(* Finite instance of UsbEvents. *)
EXTENDS UsbEvents

CONSTANTS e, s1, c1, c2
OneSync  == {s1}
OneOther == {c2}
=============================================================================
