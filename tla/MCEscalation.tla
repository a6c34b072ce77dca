------------------------------ MODULE MCEscalation ------------------------------
(* Instances of Escalation. *)
EXTENDS Escalation

CONSTANTS daily, manual

TwoEvaluators == {daily, manual}
TwoPolicies == <<"sla_breach", "time_in_state">>
===============================================================================
