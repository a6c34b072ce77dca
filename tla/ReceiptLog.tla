------------------------------ MODULE ReceiptLog ------------------------------
(***************************************************************************)
(* What the chain of guardrail receipts promises: receipts are never       *)
(* removed, and each new one follows the one receipt that nothing follows  *)
(* yet.  A link names a receipt and its predecessor.                       *)
(***************************************************************************)
CONSTANTS Checks, None

VARIABLE links   \* [id, prev] of every receipt

Init == links = {}

IsHead(p) ==
  /\ p = None => links = {}
  /\ p # None => \E l \in links : l.id = p
  /\ \A l \in links : l.prev # p

Append(c, p) ==
  /\ \A l \in links : l.id # c
  /\ IsHead(p)
  /\ links' = links \cup {[id |-> c, prev |-> p]}

Next == \E c \in Checks, p \in Checks \cup {None} : Append(c, p)

Spec == Init /\ [][Next]_links
=============================================================================
