---------------------------- MODULE MCReceiptChain ----------------------------
(* Instances of ReceiptChain. *)
EXTENDS ReceiptChain

CONSTANTS k1, k2, k3, k4

FourChecks == {k1, k2, k3, k4}
ThreeSigned == {k1, k2, k3}
=============================================================================
