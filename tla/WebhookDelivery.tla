--------------------------- MODULE WebhookDelivery ---------------------------
(***************************************************************************)
(* Outbound webhooks.  An event becomes one pending row per subscribed     *)
(* endpoint.  The drain job delivers a batch of pending rows in one        *)
(* transaction, one HTTP attempt each; an operator may deliver any row by  *)
(* hand, with several attempts in the call.  Neither locks what it reads:  *)
(* the first UPDATE of a row locks it until the transaction ends, and a    *)
(* transaction keeps working on the values it read.                        *)
(***************************************************************************)
EXTENDS Integers, Sequences, SequencesExt, FiniteSets

CONSTANTS
  Endpoints,     \* webhook_endpoints rows
  Drains,        \* executions of the drain job that may overlap
  Callers,       \* operator calls that may be in progress at once
  MaxAttempts,   \* MAX_DELIVERY_ATTEMPTS
  InCall,        \* HTTP attempts of one operator call
  Batch,         \* batch_limit: rows one drain attempts
  Scan,          \* batch_limit * 5: rows one drain looks at
  MaxRows,       \* bound: deliveries emitted
  MaxCalls,      \* bound: operator calls
  MaxRollbacks   \* bound: transactions lost after their requests were sent

ASSUME LimitsAssumption ==
  /\ MaxAttempts \in Nat \ {0} /\ InCall \in Nat \ {0}
  /\ Batch \in Nat \ {0} /\ Scan \in Nat /\ Scan >= Batch
  /\ MaxRows \in Nat /\ MaxCalls \in Nat /\ MaxRollbacks \in Nat

ASSUME ProcessesAssumption == Drains \cap Callers = {}
ASSUME EndpointsAssumption == IsFiniteSet(Endpoints)

VARIABLES
  endpoint,   \* endpoint[e]: is_active and deleted_at
  row,        \* webhook_deliveries, oldest first
  cool,       \* rows whose retry backoff has passed
  tx,         \* tx[p]: the transaction of drain or call p
  posts,      \* posts[d]: requests sent for row d
  accepted,   \* rows whose receiver answered with success
  refused,    \* rows that met a deleted endpoint or a URL that is not public
  calls,      \* operator calls made
  rollbacks   \* transactions rolled back

vars == <<endpoint, row, cool, tx, posts, accepted, refused, calls, rollbacks>>
data == <<endpoint, row, cool>>
sent == <<posts, accepted>>

Processes == Drains \cup Callers
Rows == DOMAIN row

(* todo: the rows still to deliver, as read; left: attempts left for the   *)
(* oldest; writes: the rows updated so far, with the status they were read *)
(* in.                                                                     *)
NoTx == [pc |-> "idle", todo |-> {}, left |-> 0, writes |-> [d \in {} |-> {}]]

Status == {"pending", "delivered", "failed"}
Row == [endpoint : Endpoints, status : Status, attempts : Nat]
Read == [id : Nat, endpoint : Endpoints, status : Status, attempts : Nat]
Write == [seen : Status, status : Status, attempts : Nat]

TypeOK ==
  /\ endpoint \in [Endpoints -> {"active", "inactive", "deleted"}]
  /\ row \in Seq(Row) /\ Len(row) <= MaxRows
  /\ cool \subseteq Rows /\ accepted \subseteq Rows /\ refused \subseteq Rows
  /\ posts \in [1..MaxRows -> Nat] /\ calls \in 0..MaxCalls /\ rollbacks \in 0..MaxRollbacks
  /\ DOMAIN tx = Processes
  /\ \A p \in Processes :
       /\ tx[p].pc \in {"idle", "next", "post"} /\ tx[p].left \in 0..InCall
       /\ \A r \in tx[p].todo : r \in Read /\ r.id \in Rows
       /\ DOMAIN tx[p].writes \subseteq Rows
       /\ \A d \in DOMAIN tx[p].writes : tx[p].writes[d] \in Write

Init ==
  /\ endpoint = [e \in Endpoints |-> "active"]
  /\ row = <<>> /\ cool = {}
  /\ tx = [p \in Processes |-> NoTx]
  /\ posts = [d \in 1..MaxRows |-> 0]
  /\ accepted = {} /\ refused = {} /\ calls = 0 /\ rollbacks = 0

-----------------------------------------------------------------------------
(* Endpoints and events.                                                   *)

SetActive(e, from, to) ==
  /\ endpoint[e] = from
  /\ endpoint' = [endpoint EXCEPT ![e] = to]
  /\ UNCHANGED <<row, cool, tx, posts, accepted, refused, calls, rollbacks>>

Deactivate(e) == SetActive(e, "active", "inactive")
Reactivate(e) == SetActive(e, "inactive", "active")
Delete(e)     == SetActive(e, "inactive", "deleted")

(* One pending row per active endpoint subscribed to the event. *)
Emit(subscribed) ==
  /\ Len(row) + Cardinality(subscribed) <= MaxRows
  /\ \A e \in subscribed : endpoint[e] = "active"
  /\ \E new \in SetToSeqs(subscribed) :
       row' = row \o [i \in DOMAIN new |-> [endpoint |-> new[i], status |-> "pending", attempts |-> 0]]
  /\ cool' = cool \cup (Rows' \ Rows)
  /\ UNCHANGED <<endpoint, tx, posts, accepted, refused, calls, rollbacks>>

Elapse(d) ==
  /\ d \in Rows \ cool
  /\ cool' = cool \cup {d}
  /\ UNCHANGED <<endpoint, row, tx, posts, accepted, refused, calls, rollbacks>>

-----------------------------------------------------------------------------
(* One delivery.                                                           *)

Loaded(d) == [id |-> d, endpoint |-> row[d].endpoint, status |-> row[d].status, attempts |-> row[d].attempts]

(* Rows are delivered in the order of created_at. *)
Oldest(p, r) == \A s \in tx[p].todo : r.id <= s.id

LockedByOther(p, d) == \E q \in Processes \ {p} : d \in DOMAIN tx[q].writes

Tries(p) == IF p \in Drains THEN 1 ELSE InCall

(* Mutants: the attempts of one call exhaust a row; a failed row stays     *)
(* pending.                                                                *)
ExhaustedInCall(attempts) == attempts >= InCall
ExhaustedNever(attempts) == FALSE

Exhausted(attempts) == attempts >= MaxAttempts

Set(p, r, status, attempts) ==
  [d \in DOMAIN tx[p].writes \cup {r.id} |->
     IF d = r.id THEN [seen |-> r.status, status |-> status, attempts |-> attempts] ELSE tx[p].writes[d]]

Done(p, r, writes) ==
  tx' = [tx EXCEPT ![p] = [pc |-> "next", todo |-> tx[p].todo \ {r}, left |-> 0, writes |-> writes]]

(* The endpoint is gone or its URL is refused: the row fails at once. *)
Refuse(p, r) ==
  /\ tx[p].pc = "next" /\ ~LockedByOther(p, r.id)
  /\ Done(p, r, Set(p, r, "failed", r.attempts + 1))
  /\ refused' = refused \cup {r.id}
  /\ UNCHANGED <<data, sent, calls, rollbacks>>

Begun(p, r, attempts) ==
  /\ tx[p].pc = "next" /\ ~LockedByOther(p, r.id)
  /\ endpoint[r.endpoint] # "deleted"
  /\ tx' = [tx EXCEPT ![p] = [pc |-> "post", todo |-> tx[p].todo, left |-> Tries(p),
                              writes |-> Set(p, r, r.status, attempts)]]
  /\ UNCHANGED <<data, sent, refused, calls, rollbacks>>

(* Mutant: the attempt is not counted. *)
AttemptUncounted(p, r) == Begun(p, r, r.attempts)

(* The attempt is counted and written before the request is sent. *)
Attempt(p, r) == Begun(p, r, r.attempts + 1)

Post(p, r, ok) ==
  LET attempts == tx[p].writes[r.id].attempts
  IN /\ tx[p].pc = "post"
     /\ posts' = [posts EXCEPT ![r.id] = @ + 1]
     /\ accepted' = IF ok THEN accepted \cup {r.id} ELSE accepted
     /\ \/ ok /\ Done(p, r, Set(p, r, "delivered", attempts))
        \/ /\ ~ok /\ tx[p].left > 1
           /\ tx' = [tx EXCEPT ![p] = [pc |-> "post", todo |-> tx[p].todo, left |-> tx[p].left - 1,
                                       writes |-> Set(p, r, r.status, attempts + 1)]]
        \/ /\ ~ok /\ tx[p].left = 1
           /\ Done(p, r, Set(p, r, IF Exhausted(attempts) THEN "failed" ELSE "pending", attempts))
     /\ UNCHANGED <<data, refused, calls, rollbacks>>

-----------------------------------------------------------------------------
(* The two transactions around it.                                         *)

Begin(p, rows) ==
  /\ tx[p].pc = "idle"
  /\ tx' = [tx EXCEPT ![p] = [NoTx EXCEPT !.pc = "next", !.todo = {Loaded(d) : d \in rows}]]

First(n, ids) == {d \in ids : Cardinality({e \in ids : e < d}) < n}

Candidates == First(Scan, {d \in Rows : row[d].status = "pending" /\ row[d].attempts < MaxAttempts})

Limited(candidates) == First(Batch, candidates \cap cool)

DrainStart(p) ==
  /\ p \in Drains
  /\ Limited(Candidates) # {}
  /\ Begin(p, Limited(Candidates))
  /\ UNCHANGED <<data, sent, refused, calls, rollbacks>>

CallStart(p, d) ==
  /\ p \in Callers /\ calls < MaxCalls
  /\ Begin(p, {d})
  /\ calls' = calls + 1
  /\ UNCHANGED <<data, sent, refused, rollbacks>>

(* Only a status that differs from the one read is written. *)
Stored(d, w) ==
  [row[d] EXCEPT !.attempts = w.attempts, !.status = IF w.status = w.seen THEN @ ELSE w.status]

(* A drain that has used up its time budget stops after the row it is on. *)
Commit(p) ==
  /\ tx[p].pc = "next"
  /\ tx[p].todo = {} \/ (p \in Drains /\ DOMAIN tx[p].writes # {})
  /\ row' = [d \in Rows |-> IF d \in DOMAIN tx[p].writes THEN Stored(d, tx[p].writes[d]) ELSE row[d]]
  /\ cool' = cool \ DOMAIN tx[p].writes
  /\ tx' = [tx EXCEPT ![p] = NoTx]
  /\ UNCHANGED <<endpoint, sent, refused, calls, rollbacks>>

(* An exception or a kill: the requests were sent, their record is lost. *)
Rollback(p) ==
  /\ tx[p].pc # "idle" /\ rollbacks < MaxRollbacks
  /\ rollbacks' = rollbacks + 1
  /\ tx' = [tx EXCEPT ![p] = NoTx]
  /\ UNCHANGED <<data, sent, refused, calls>>

-----------------------------------------------------------------------------
Deliver(p) ==
  \/ \E r \in tx[p].todo :
       Oldest(p, r) /\ (Refuse(p, r) \/ Attempt(p, r) \/ \E ok \in BOOLEAN : Post(p, r, ok))
  \/ Commit(p)

Next ==
  \/ \E e \in Endpoints : Deactivate(e) \/ Reactivate(e) \/ Delete(e)
  \/ \E subscribed \in SUBSET Endpoints \ {{}} : Emit(subscribed)
  \/ \E d \in Rows : Elapse(d)
  \/ \E p \in Drains : DrainStart(p)
  \/ \E p \in Callers, d \in Rows : CallStart(p, d)
  \/ \E p \in Processes : Deliver(p) \/ Rollback(p)

Spec == Init /\ [][Next]_vars

(* The job fires every two minutes, time passes, and a transaction that    *)
(* has begun runs on.                                                      *)
Fairness ==
  /\ \A p \in Drains : WF_vars(DrainStart(p))
  /\ \A p \in Processes : WF_vars(Deliver(p))
  /\ \A d \in 1..MaxRows : WF_vars(d \in Rows /\ Elapse(d))

FairSpec == Spec /\ Fairness

-----------------------------------------------------------------------------
(* Properties. *)

(* A row reads delivered only if its receiver accepted it. *)
DeliveredWasAccepted == \A d \in Rows : row[d].status = "delivered" => d \in accepted

(* An event is given up only after all its attempts were really made,      *)
(* unless its endpoint was deleted or its URL refused: lost updates make   *)
(* attempts too small, never too large.                                    *)
NoEarlyDeath == \A d \in Rows : row[d].status = "failed" => posts[d] >= MaxAttempts \/ d \in refused

(* A receiver gets at most MAX_DELIVERY_ATTEMPTS requests for a delivery,  *)
(* unless operators or lost transactions pay for more; this is where only  *)
(* one drain runs at a time.  A call makes                                 *)
(* InCall requests of its own and may write back a count from before the   *)
(* drain's, so that the row gets its attempts anew; a drain that rolls     *)
(* back after its request has not counted it.                              *)
CallCost == IF InCall > MaxAttempts THEN InCall ELSE MaxAttempts

AttemptsBounded == \A d \in Rows : posts[d] <= MaxAttempts + CallCost * calls + rollbacks

(* Transactions wait for the rows others have updated, but never all of    *)
(* them: drains that overlap each other and operators' calls do not        *)
(* deadlock, because every one updates its rows oldest first.              *)
Waits(p) == tx[p].pc = "next" /\ \E r \in tx[p].todo : Oldest(p, r) /\ LockedByOther(p, r.id)

NoDeadlock ==
  (\E p \in Processes : tx[p].pc # "idle") => \E p \in Processes : tx[p].pc # "idle" /\ ~Waits(p)

(* Every pending delivery is eventually delivered or given up. *)
PendingSettles ==
  \A d \in 1..MaxRows :
    (d \in Rows /\ row[d].status = "pending") ~> (d \in Rows /\ row[d].status # "pending")
=============================================================================
