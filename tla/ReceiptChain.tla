----------------------------- MODULE ReceiptChain -----------------------------
(***************************************************************************)
(* The hash chain of signed guardrail decisions of one AI system.  A check *)
(* selects the last receipt FOR UPDATE, evaluates the action, inserts the  *)
(* next receipt and commits.  The database picks the row before it waits   *)
(* for the lock, does not look for a newer one afterwards, and locks       *)
(* nothing when the chain is empty; a unique constraint covers the         *)
(* positions.  A receipt's hash is its identity.                           *)
(***************************************************************************)
EXTENDS Integers, FiniteSets

CONSTANTS
  Checks,   \* calls of check_action
  Signed,   \* those with a signing key, where OPA is configured
  None      \* no receipt

ASSUME ChecksAssumption == Signed \subseteq Checks /\ None \notin Checks

VARIABLES
  receipts,   \* ai_guardrail_receipts of this system
  tail,       \* tail[c]: the receipt check c selected
  stage       \* stage[c]: how far check c has come

vars == <<receipts, tail, stage>>

Receipt == [id : Checks, pos : Nat, prev : Checks \cup {None}]

Stages == {"new", "waiting", "locked", "inserted", "recorded", "unsigned", "rejected", "conflict"}

TypeOK ==
  /\ receipts \subseteq Receipt
  /\ tail \in [Checks -> Receipt \cup {None}]
  /\ stage \in [Checks -> Stages]

Init ==
  /\ receipts = {}
  /\ tail = [c \in Checks |-> None]
  /\ stage = [c \in Checks |-> "new"]

(* A transaction that has locked its tail and not ended yet. *)
Open(c) == stage[c] \in {"locked", "inserted"}

Enter(c, s) == stage' = [stage EXCEPT ![c] = s]

(* ORDER BY chain_position DESC LIMIT 1 *)
Last == IF receipts = {} THEN {None} ELSE {r \in receipts : \A q \in receipts : q.pos <= r.pos}

Select(c) ==
  /\ stage[c] = "new"
  /\ \E r \in Last : tail' = [tail EXCEPT ![c] = r]
  /\ Enter(c, "waiting")
  /\ UNCHANGED receipts

(* FOR UPDATE *)
Lock(c) ==
  /\ stage[c] = "waiting"
  /\ tail[c] # None => \A d \in Checks : Open(d) => tail[d] # tail[c]
  /\ Enter(c, "locked")
  /\ UNCHANGED <<receipts, tail>>

Position(c) == IF tail[c] = None THEN 0 ELSE tail[c].pos + 1

PreviousHash(c) == IF tail[c] = None THEN None ELSE tail[c].id

(* Mutant: no unique constraint. *)
TakenNever(c) == FALSE

(* The unique constraint: a committed row of this position is a conflict,  *)
(* an uncommitted one is waited for.                                       *)
Taken(c) == \E r \in receipts : r.pos = Position(c)

Free(c) == \A d \in Checks : stage[d] = "inserted" => Position(d) # Position(c)

(* Mutant: the insert first takes a lock on the whole chain. *)
InsertAlone(c) ==
  /\ c \in Signed
  /\ stage[c] = "locked"
  /\ \A d \in Checks \ {c} : ~Open(d)
  /\ Enter(c, IF Taken(c) THEN "conflict" ELSE "inserted")
  /\ UNCHANGED <<receipts, tail>>

(* With a signing key the decision is recorded and chained. *)
Insert(c) ==
  /\ c \in Signed
  /\ stage[c] = "locked"
  /\ IF Taken(c) THEN Enter(c, "conflict") ELSE Free(c) /\ Enter(c, "inserted")
  /\ UNCHANGED <<receipts, tail>>

(* Without one it is recorded only. *)
FinishUnsigned(c) ==
  /\ c \notin Signed
  /\ stage[c] = "locked"
  /\ Enter(c, "unsigned")
  /\ UNCHANGED <<receipts, tail>>

(* A refused payload, an exception or a kill: everything is rolled back. *)
Reject(c) ==
  /\ Open(c)
  /\ Enter(c, "rejected")
  /\ UNCHANGED <<receipts, tail>>

Commit(c) ==
  /\ stage[c] = "inserted"
  /\ receipts' = receipts \cup {[id |-> c, pos |-> Position(c), prev |-> PreviousHash(c)]}
  /\ Enter(c, "recorded")
  /\ UNCHANGED tail

Step(c) == Select(c) \/ Lock(c) \/ Insert(c) \/ FinishUnsigned(c) \/ Commit(c)

Next == \E c \in Checks : Step(c) \/ Reject(c)

Spec == Init /\ [][Next]_vars

(* A call that has begun runs on; nothing makes it fail. *)
FairSpec == Spec /\ \A c \in Checks : WF_vars(stage[c] # "new" /\ Step(c))

-----------------------------------------------------------------------------
(* Properties. *)

(* verify_receipt_chain passes at every moment: one receipt per position,  *)
(* each naming the hash of the one before it.                              *)
Unforked == \A r, q \in receipts : r.pos = q.pos => r = q

Linked ==
  \A r \in receipts :
    \/ r.pos = 0 /\ r.prev = None
    \/ \E q \in receipts : q.pos + 1 = r.pos /\ q.id = r.prev

ChainVerifies == Unforked /\ Linked

(* Receipts are only appended, each after the one nothing follows yet. *)
Log == INSTANCE ReceiptLog WITH links <- {[id |-> r.id, prev |-> r.prev] : r \in receipts}

AppendsOnly == Log!Spec

(* Every check that began is answered: no cycle of waiting.  A check that  *)
(* waits on the unique constraint waits for a transaction that does not    *)
(* wait.                                                                   *)
ChecksAnswered == \A c \in Checks : (stage[c] = "waiting") ~> (stage[c] # "waiting" /\ ~Open(c))
=============================================================================
