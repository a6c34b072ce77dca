-------------------------- MODULE ReceiptChain_proofs --------------------------
(***************************************************************************)
(* The chain verifies, and is an append-only log, for every number of      *)
(* concurrent checks, signed or not.                                       *)
(***************************************************************************)
EXTENDS ReceiptChain, TLAPS

(* A tail, however old, is a receipt of the chain. *)
TailsReal == \A c \in Checks : tail[c] \in receipts \cup {None}

(* What the unique constraint has granted stays granted. *)
InsertedFree ==
  \A c \in Checks : stage[c] = "inserted" => \A r \in receipts : r.pos # Position(c)

InsertedApart ==
  \A c, d \in Checks :
    (stage[c] = "inserted" /\ stage[d] = "inserted" /\ c # d) => Position(c) # Position(d)

(* A check leaves one receipt, when it ends. *)
OneEach ==
  /\ \A r \in receipts : stage[r.id] = "recorded"
  /\ \A r, q \in receipts : r.id = q.id => r = q

Rooted == receipts # {} => \E r \in receipts : r.pos = 0

IInv ==
  /\ TypeOK /\ Unforked /\ Linked /\ TailsReal /\ InsertedFree /\ InsertedApart
  /\ OneEach /\ Rooted

-----------------------------------------------------------------------------
(* Positions are numbers, and the first follows no receipt. *)
LEMMA PositionTyped ==
  ASSUME TypeOK, NEW c \in Checks
  PROVE  /\ Position(c) \in Nat
         /\ PreviousHash(c) \in Checks \cup {None}
BY DEF TypeOK, Receipt, Position, PreviousHash

(* Steps that leave the receipts and the tails alone, and move no check    *)
(* into or out of the two stages the invariant speaks of.                  *)
LEMMA StageStep ==
  ASSUME IInv, NEW c \in Checks, NEW s \in Stages \ {"inserted", "recorded"},
         stage[c] # "recorded", Enter(c, s), UNCHANGED <<receipts, tail>>
  PROVE  IInv'
<1>1. \A d \in Checks : stage'[d] = IF d = c THEN s ELSE stage[d]
  BY DEF IInv, TypeOK, Enter
<1>2. TypeOK'
  BY DEF IInv, TypeOK, Enter
<1>3. Unforked' /\ Linked' /\ TailsReal' /\ Rooted'
  BY DEF IInv, Unforked, Linked, TailsReal, Rooted
<1>4. \A d \in Checks : Position(d)' = Position(d)
  BY DEF Position
<1>5. InsertedFree' /\ InsertedApart'
  BY <1>1, <1>4 DEF IInv, InsertedFree, InsertedApart
<1>6. OneEach'
  BY <1>1 DEF IInv, OneEach, TypeOK, Receipt
<1> QED
  BY <1>2, <1>3, <1>5, <1>6 DEF IInv

(* A new check takes its tail from the table. *)
LEMMA SelectStep ==
  ASSUME IInv, NEW c \in Checks, Select(c)
  PROVE  IInv'
<1>1. PICK t \in receipts \cup {None} : tail' = [tail EXCEPT ![c] = t]
  BY DEF Select, Last
<1>2. /\ \A d \in Checks : stage'[d] = IF d = c THEN "waiting" ELSE stage[d]
      /\ stage[c] = "new" /\ receipts' = receipts
  BY DEF IInv, TypeOK, Select, Enter
<1>3. TypeOK'
  BY <1>1 DEF IInv, TypeOK, Select, Enter, Stages
<1>4. Unforked' /\ Linked' /\ Rooted'
  BY <1>2 DEF IInv, Unforked, Linked, Rooted
<1>5. TailsReal'
  BY <1>1, <1>2 DEF IInv, TypeOK, TailsReal
<1>6. \A d \in Checks : d # c => Position(d)' = Position(d)
  BY <1>1 DEF IInv, TypeOK, Position
<1>7. InsertedFree' /\ InsertedApart'
  BY <1>2, <1>6 DEF IInv, InsertedFree, InsertedApart
<1>8. OneEach'
  BY <1>2 DEF IInv, OneEach, TypeOK, Receipt
<1> QED
  BY <1>3, <1>4, <1>5, <1>7, <1>8 DEF IInv

(* The unique constraint grants a position nobody has. *)
LEMMA InsertStep ==
  ASSUME IInv, NEW c \in Checks, stage[c] = "locked", ~Taken(c), Free(c),
         Enter(c, "inserted"), UNCHANGED <<receipts, tail>>
  PROVE  IInv'
<1>1. \A d \in Checks : stage'[d] = IF d = c THEN "inserted" ELSE stage[d]
  BY DEF IInv, TypeOK, Enter
<1>2. TypeOK'
  BY DEF IInv, TypeOK, Enter, Stages
<1>3. Unforked' /\ Linked' /\ TailsReal' /\ Rooted'
  BY DEF IInv, Unforked, Linked, TailsReal, Rooted
<1>4. \A d \in Checks : Position(d)' = Position(d)
  BY DEF Position
<1>5. InsertedFree'
  BY <1>1, <1>4 DEF IInv, InsertedFree, Taken
<1>6. InsertedApart'
  BY <1>1, <1>4 DEF IInv, InsertedApart, Free
<1>7. OneEach'
  BY <1>1 DEF IInv, OneEach, TypeOK, Receipt
<1> QED
  BY <1>2, <1>3, <1>5, <1>6, <1>7 DEF IInv

-----------------------------------------------------------------------------
(* The receipt that a commit adds. *)
New(c) == [id |-> c, pos |-> Position(c), prev |-> PreviousHash(c)]

(* A commit adds the receipt of its position. *)
LEMMA CommitStep ==
  ASSUME IInv, NEW c \in Checks, Commit(c)
  PROVE  IInv'
<1>1. /\ \A d \in Checks : stage'[d] = IF d = c THEN "recorded" ELSE stage[d]
      /\ stage[c] = "inserted" /\ tail' = tail
      /\ receipts' = receipts \cup {New(c)}
  BY DEF IInv, TypeOK, Commit, Enter, New
<1>2. New(c) \in Receipt
  BY PositionTyped DEF IInv, New, Receipt
<1>3. \A r \in receipts : r \in Receipt /\ r.id # c /\ r.pos # Position(c)
  BY <1>1 DEF IInv, TypeOK, OneEach, InsertedFree, Receipt
<1>4. TypeOK'
  BY <1>1, <1>2 DEF IInv, TypeOK, Commit, Enter, Stages
<1>5. Unforked'
  BY <1>1, <1>3 DEF IInv, Unforked, New
<1>6. Linked'
  <2>1. CASE tail[c] = None
    <3>1. New(c).pos = 0 /\ New(c).prev = None
      BY <2>1 DEF New, Position, PreviousHash
    <3> QED
      BY <1>1, <3>1 DEF IInv, Linked
  <2>2. CASE tail[c] # None
    <3>1. tail[c] \in receipts /\ tail[c].pos + 1 = New(c).pos /\ tail[c].id = New(c).prev
      BY <2>2 DEF IInv, TailsReal, New, Position, PreviousHash
    <3> QED
      BY <1>1, <3>1 DEF IInv, Linked
  <2> QED
    BY <2>1, <2>2
<1>7. TailsReal'
  BY <1>1 DEF IInv, TailsReal
<1>8. \A d \in Checks : Position(d)' = Position(d)
  BY <1>1 DEF Position
<1>9. InsertedFree'
  BY <1>1, <1>8 DEF IInv, InsertedFree, InsertedApart, New
<1>10. InsertedApart'
  BY <1>1, <1>8 DEF IInv, InsertedApart
<1>11. OneEach'
  BY <1>1, <1>3 DEF IInv, OneEach, New, Receipt
<1>12. Rooted'
  <2>1. CASE receipts = {}
    <3>1. New(c).pos = 0
      BY <2>1 DEF IInv, TailsReal, New, Position
    <3> QED
      BY <1>1, <3>1 DEF Rooted
  <2>2. CASE receipts # {}
    BY <1>1, <2>2 DEF IInv, Rooted
  <2> QED
    BY <2>1, <2>2
<1> QED
  BY <1>4, <1>5, <1>6, <1>7, <1>9, <1>10, <1>11, <1>12 DEF IInv

-----------------------------------------------------------------------------
(* The invariant is inductive. *)
LEMMA Initial == Init => IInv
BY DEF Init, IInv, TypeOK, Stages, Receipt, Unforked, Linked, TailsReal, InsertedFree,
       InsertedApart, OneEach, Rooted

LEMMA Inductive == IInv /\ [Next]_vars => IInv'
<1> SUFFICES ASSUME IInv, [Next]_vars PROVE IInv'
  OBVIOUS
<1>1. CASE UNCHANGED vars
  BY <1>1 DEF vars, IInv, TypeOK, Unforked, Linked, TailsReal, InsertedFree, InsertedApart,
              OneEach, Rooted, Position
<1>2. ASSUME NEW c \in Checks, Select(c) PROVE IInv'
  BY <1>2, SelectStep
<1>3. ASSUME NEW c \in Checks, Lock(c) PROVE IInv'
  BY <1>3, StageStep DEF Lock, Stages
<1>4. ASSUME NEW c \in Checks, Insert(c) PROVE IInv'
  <2>1. CASE Taken(c)
    BY <1>4, <2>1, StageStep DEF Insert, Stages
  <2>2. CASE ~Taken(c)
    BY <1>4, <2>2, InsertStep DEF Insert
  <2> QED
    BY <2>1, <2>2
<1>5. ASSUME NEW c \in Checks, FinishUnsigned(c) PROVE IInv'
  BY <1>5, StageStep DEF FinishUnsigned, Stages
<1>6. ASSUME NEW c \in Checks, Reject(c) PROVE IInv'
  BY <1>6, StageStep DEF Reject, Stages, Open
<1>7. ASSUME NEW c \in Checks, Commit(c) PROVE IInv'
  BY <1>7, CommitStep
<1> QED
  BY <1>1, <1>2, <1>3, <1>4, <1>5, <1>6, <1>7 DEF Next, Step

-----------------------------------------------------------------------------
(* Theorems. *)

(* Receipts, tails and stages keep their types. *)
THEOREM TypeCorrect == Spec => []TypeOK
<1>1. IInv => TypeOK
  BY DEF IInv
<1> QED
  BY <1>1, Initial, Inductive, PTL DEF Spec

(* verify_receipt_chain passes at every moment: no position is used twice, *)
(* and every receipt names the one before it.                              *)
THEOREM ChainSound == Spec => []ChainVerifies
<1>1. IInv => ChainVerifies
  BY DEF IInv, ChainVerifies
<1> QED
  BY <1>1, Initial, Inductive, PTL DEF Spec

(* A link of the log for every receipt. *)
LinksOf(R) == {[id |-> r.id, prev |-> r.prev] : r \in R}

(* A commit appends to the log. *)
LEMMA CommitAppends ==
  ASSUME IInv, NEW c \in Checks, Commit(c)
  PROVE  Log!Append(c, PreviousHash(c))
<1>1. stage[c] = "inserted" /\ receipts' = receipts \cup {New(c)}
  BY DEF Commit, New
<1>2. \A r \in receipts : r \in Receipt /\ r.id # c /\ r.pos # Position(c)
  BY <1>1 DEF IInv, TypeOK, OneEach, InsertedFree, Receipt
<1>3. LinksOf(receipts') = LinksOf(receipts) \cup {[id |-> c, prev |-> PreviousHash(c)]}
  <2>1. ASSUME NEW R, NEW n
        PROVE  LinksOf(R \cup {n}) = LinksOf(R) \cup {[id |-> n.id, prev |-> n.prev]}
    BY DEF LinksOf
  <2>2. New(c).id = c /\ New(c).prev = PreviousHash(c)
    BY DEF New
  <2> QED
    BY <1>1, <2>1, <2>2
<1>4. \A l \in LinksOf(receipts) : l.id # c
  BY <1>2 DEF LinksOf
<1>5. CASE tail[c] = None
  <2>1. Position(c) = 0 /\ PreviousHash(c) = None
    BY <1>5 DEF Position, PreviousHash
  <2>2. receipts = {}
    BY <1>2, <2>1 DEF IInv, Rooted
  <2>3. LinksOf(receipts) = {}
    BY <2>2 DEF LinksOf
  <2> QED
    BY <1>3, <2>1, <2>3 DEF Log!Append, Log!IsHead, LinksOf
<1>6. CASE tail[c] # None
  <2>1. /\ tail[c] \in receipts /\ Position(c) = tail[c].pos + 1
        /\ PreviousHash(c) = tail[c].id /\ PreviousHash(c) # None
    BY <1>2, <1>6, ChecksAssumption DEF IInv, TailsReal, Position, PreviousHash, Receipt
  <2>2. \E l \in LinksOf(receipts) : l.id = PreviousHash(c)
    <3>1. [id |-> tail[c].id, prev |-> tail[c].prev] \in LinksOf(receipts)
      BY <2>1 DEF LinksOf
    <3> QED
      BY <2>1, <3>1
  <2>3. ASSUME NEW r \in receipts, r.prev = PreviousHash(c) PROVE FALSE
    <3>1. PICK q \in receipts : q.pos + 1 = r.pos /\ q.id = r.prev
      BY <2>1, <2>3 DEF IInv, Linked
    <3>2. q = tail[c]
      BY <2>1, <2>3, <3>1 DEF IInv, OneEach
    <3> QED
      BY <1>2, <2>1, <3>1, <3>2
  <2>4. \A l \in LinksOf(receipts) : l.prev # PreviousHash(c)
    BY <2>3 DEF LinksOf
  <2> QED
    BY <1>3, <1>4, <2>1, <2>2, <2>4 DEF Log!Append, Log!IsHead, LinksOf
<1> QED
  BY <1>5, <1>6

(* The chain is an append-only log: whatever its checks do, a receipt      *)
(* stays, and only the last one gets a successor.                          *)
THEOREM Refinement == Spec => AppendsOnly
<1>1. Init => Log!Init
  BY DEF Init, Log!Init
<1>2. IInv /\ [Next]_vars => [Log!Next]_(LinksOf(receipts))
  <2> SUFFICES ASSUME IInv, [Next]_vars PROVE [Log!Next]_(LinksOf(receipts))
    OBVIOUS
  <2>1. CASE receipts' = receipts
    BY <2>1 DEF LinksOf
  <2>2. ASSUME NEW c \in Checks, Commit(c) PROVE Log!Next
    <3>1. PreviousHash(c) \in Checks \cup {None}
      BY PositionTyped DEF IInv
    <3>2. Log!Append(c, PreviousHash(c))
      BY <2>2, CommitAppends
    <3> QED
      BY <3>1, <3>2 DEF Log!Next, Log!Append
  <2> QED
    BY <2>1, <2>2 DEF Next, Step, Select, Lock, Insert, FinishUnsigned, Reject, vars
<1>3. IInv /\ [Next]_vars => [Log!Next]_({[id |-> r.id, prev |-> r.prev] : r \in receipts})
  BY <1>2 DEF LinksOf
<1> QED
  BY <1>1, <1>3, Initial, Inductive, PTL DEF Spec, AppendsOnly, Log!Spec
=============================================================================
