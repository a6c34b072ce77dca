--------------------------- MODULE MCCompoundInsight ---------------------------
(* Instances of CompoundInsight. *)
EXTENDS CompoundInsight

CONSTANTS k1, k2

TwoPatterns == {k1, k2}
===============================================================================
