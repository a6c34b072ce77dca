------------------------------- MODULE IssueView -------------------------------
(***************************************************************************)
(* What the rest of the system may rely on about an issue: a breach is     *)
(* reported only after a deadline and never taken back, and a deleted      *)
(* issue no longer moves.  IssueCase implements it, Escalation uses it.    *)
(***************************************************************************)
EXTENDS Naturals

CONSTANTS
  FirstDue,   \* the earlier of the two deadlines
  LastHour    \* bound: hours

VARIABLES hour, unresolved, breached, deleted

viewVars == <<hour, unresolved, breached, deleted>>

ViewInit == hour = 0 /\ unresolved = TRUE /\ breached = FALSE /\ deleted = FALSE

PassTime ==
  /\ hour < LastHour /\ hour' = hour + 1
  /\ UNCHANGED <<unresolved, breached, deleted>>

(* Resolved, or moved back by a delivery that acted on an old status.      *)
Move ==
  /\ ~deleted /\ unresolved' = ~unresolved
  /\ UNCHANGED <<hour, breached, deleted>>

Breach ==
  /\ hour > FirstDue /\ ~breached /\ breached' = TRUE
  /\ UNCHANGED <<hour, unresolved, deleted>>

Retire ==
  /\ ~deleted /\ deleted' = TRUE
  /\ UNCHANGED <<hour, unresolved, breached>>

ViewNext == PassTime \/ Move \/ Breach \/ Retire

ViewSpec == ViewInit /\ [][ViewNext]_viewVars
===============================================================================
