---------------------------- MODULE MCSubscriptions ----------------------------
(* Instances of Subscriptions. *)
EXTENDS Subscriptions

CONSTANTS c1, c2, q1, q2

TwoCodes == {c1, c2}
TwoRequests == {q1, q2}
Halted == {"halted"}
===============================================================================
