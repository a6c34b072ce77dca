------------------------------ MODULE QuorumVote ------------------------------
(***************************************************************************)
(* What dual control promises of a governed override, whatever calls       *)
(* overlap: a request has one requester for good; nobody votes on the own  *)
(* request or twice; the vote is over with the first rejection or with the *)
(* last approval required; and only a request whose vote ended in favour   *)
(* takes effect.                                                           *)
(***************************************************************************)
EXTENDS Integers, FiniteSets

CONSTANTS Users, Overrides, Required, None

VARIABLES
  by,         \* by[o]: who requested o
  favour,     \* favour[o]: who approved o
  against,    \* against[o]: who rejected o
  effects     \* effects[o]: times o took effect

vars == <<by, favour, against, effects>>

Init ==
  /\ by = [o \in Overrides |-> None]
  /\ favour = [o \in Overrides |-> {}]
  /\ against = [o \in Overrides |-> {}]
  /\ effects = [o \in Overrides |-> 0]

Propose(o, u) ==
  /\ by[o] = None
  /\ by' = [by EXCEPT ![o] = u]
  /\ UNCHANGED <<favour, against, effects>>

Open(o) == by[o] # None /\ against[o] = {} /\ Cardinality(favour[o]) < Required

MayVote(o, u) == Open(o) /\ u # by[o] /\ u \notin favour[o]

Approve(o, u) ==
  /\ MayVote(o, u)
  /\ favour' = [favour EXCEPT ![o] = @ \cup {u}]
  /\ UNCHANGED <<by, against, effects>>

Reject(o, u) ==
  /\ MayVote(o, u)
  /\ against' = [against EXCEPT ![o] = {u}]
  /\ UNCHANGED <<by, favour, effects>>

TakeEffect(o) ==
  /\ against[o] = {} /\ Cardinality(favour[o]) = Required
  /\ effects' = [effects EXCEPT ![o] = @ + 1]
  /\ UNCHANGED <<by, favour, against>>

Next ==
  \E o \in Overrides :
    \/ \E u \in Users : Propose(o, u) \/ Approve(o, u) \/ Reject(o, u)
    \/ TakeEffect(o)

Spec == Init /\ [][Next]_vars
=============================================================================
