---------------------------- MODULE MCEmailOutbox ----------------------------
(* Instances of EmailOutbox.  The sets of a run that are empty switch the   *)
(* corresponding party off.                                                 *)
EXTENDS EmailOutbox

CONSTANTS f1, f2, w1, w2, r1, r2

NoOps == {}
OneFlush == {f1}
TwoFlushes == {f1, f2}
NoWorkers == {}
NoRequests == {}
TwoWorkers == {w1, w2}
OneRequest == {r1}
TwoRequests == {r1, r2}
AllOps == {"cancel", "mark_sent", "mark_failed", "dead_letter"}
Symmetry == Permutations(Flushers) \cup Permutations(Workers) \cup Permutations(Requests)
=============================================================================
