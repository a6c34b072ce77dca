-------------------------- MODULE Subscriptions_proofs --------------------------
(***************************************************************************)
(* Codes, trials, warnings and the events of the payment processor, for    *)
(* every number of sessions, codes, subscriptions and events.              *)
(***************************************************************************)
EXTENDS Subscriptions, FiniteSetTheorems, TLAPS

(* A code is spent with the trial it buys. *)
Bought == IsFiniteSet(spent) /\ CodesBuyTrials

(* An event has been handled exactly when it has a row. *)
HandledRows == \A e \in Events : applied[e] = IF Inserted(e) THEN 1 ELSE 0

(* The subscription ids that are stored and reported have been created. *)
Created ==
  /\ org.sub = subs
  /\ acked \subseteq Sent
  /\ \A p \in Processes : Doing(p, "event") => tx[p].arg \in Sent
  /\ \A e \in Sent : sent[e].sub \in 1..subs

(* What a session read of the trial's end is at most one stage old.  A     *)
(* trial may have been started meanwhile.                                  *)
Recent(read, now) ==
  \/ read = now
  \/ read \in DOMAIN Later /\ Later[read] = now
  \/ read = "none" /\ now = "open"

RecentReads == \A p \in Processes : tx[p] # Idle => Recent(Seen(p).ends, org.ends)

IInv ==
  /\ TypeOK /\ Bought /\ HandledRows /\ Created /\ IgnoredWasReplaced
  /\ DowngradedOnce /\ WarnedOnce /\ RecentReads

Args(kind) == CASE kind = "redeem" -> Codes [] kind = "event" -> Events [] OTHER -> {0}

-----------------------------------------------------------------------------
(* What a step may be, the refusals gathered in one case. *)
LEMMA StepCases ==
  ASSUME Next
  PROVE  \/ \E p \in Processes, kind \in Kinds : \E arg \in Args(kind) :
              Begin(p, kind, arg) /\ (kind = "event" => arg \in Sent)
         \/ \E p \in Processes : Reject(p) \/ Lose(p)
         \/ \E p \in Requests : Redeem(p) \/ Gate(p) \/ Subscribe(p) \/ Cancel(p) \/ RecordEvent(p)
         \/ \E p \in Requests, e \in Events : Ignore(p, e)
         \/ SweepTrials
         \/ Elapse
         \/ \E s \in 1..MaxSubs : Pay(s)
         \/ \E s \in 1..MaxSubs, type \in Types : Bill(s, type)
<1>1. ASSUME NEW p \in Requests, Ask(p)
      PROVE  \E kind \in Kinds \ {"event"} : \E arg \in Args(kind) : Begin(p, kind, arg)
  BY <1>1 DEF Ask, Kinds, Args
<1>2. ASSUME NEW p \in Requests, NEW e \in Events, Deliver(p, e)
      PROVE  \E kind \in Kinds : \E arg \in Args(kind) : Begin(p, kind, arg) /\ arg \in Sent
  BY <1>2 DEF Deliver, Kinds, Args
<1>3. ASSUME SweepDay
      PROVE  \E kind \in Kinds \ {"event"} : \E arg \in Args(kind) : Begin(Sweep, kind, arg)
  BY <1>3 DEF SweepDay, Kinds, Args
<1>4. ASSUME NEW p \in Requests, Finish(p)
      PROVE  Reject(p) \/ Redeem(p) \/ Gate(p) \/ Subscribe(p) \/ Cancel(p) \/ RecordEvent(p)
  BY <1>4 DEF Finish, RedeemRefused, Refused, Conflict
<1>5. Sweep \in Processes /\ Requests \subseteq Processes
  BY DEF Processes
<1> QED
  BY <1>1, <1>2, <1>3, <1>4, <1>5 DEF Next

(* What a session that is not idle holds. *)
LEMMA Open ==
  ASSUME TypeOK, NEW p \in Processes, tx[p] # Idle
  PROVE  /\ tx[p].kind \in Kinds
         /\ tx[p].kind = "redeem" => tx[p].arg \in Codes
         /\ tx[p].kind = "event" => tx[p].arg \in Events
         /\ Seen(p) \in Row
BY DEF TypeOK, Transaction, Kinds, Seen

(* A commit writes the columns it changed. *)
LEMMA WriteRow ==
  ASSUME TypeOK, NEW p \in Processes, tx[p] # Idle, NEW new \in Row, Write(p, new)
  PROVE  /\ org' \in Org
         /\ org'.sub = org.sub
         /\ org'.plan = Merge(Seen(p).plan, new.plan, org.plan)
         /\ org'.ends = Merge(Seen(p).ends, new.ends, org.ends)
BY Open DEF TypeOK, Write, Merge, Row, Org

(* What the tables of stages and of event types hold. *)
LEMMA Tables ==
  /\ \A e \in DOMAIN Later : Later[e] \in Ends
  /\ \A type \in DOMAIN EventStatus : EventStatus[type] \in Statuses
BY DEF Later, Ends, EventStatus, Statuses

(* What the handler of an event writes. *)
LEMMA EffectRow ==
  ASSUME TypeOK, NEW p \in Processes, tx[p] # Idle, NEW failed \in BOOLEAN, Effect(p, failed)
  PROVE  /\ org' \in Org
         /\ org'.sub = org.sub
         /\ org'.plan \in {"paid", org.plan}
         /\ org'.ends = org.ends
<1> DEFINE type == sent[tx[p].arg].type
           status == IF type \in DOMAIN EventStatus THEN EventStatus[type] ELSE Seen(p).status
           plan == IF type = "activated" /\ ~failed THEN "paid" ELSE Seen(p).plan
           new == [Seen(p) EXCEPT !.status = status, !.plan = plan]
<1>1. Seen(p) \in Row
  BY Open
<1>2. status \in Statuses /\ plan \in Plans
  BY <1>1, Tables DEF Row, Plans
<1>3. /\ new \in Row /\ new.plan = plan /\ new.ends = Seen(p).ends
  BY <1>1, <1>2 DEF Row
<1>4. Write(p, new)
  BY DEF Effect
<1> HIDE DEF new
<1>5. QED
  BY <1>3, <1>4, WriteRow DEF Merge

(* What a downgrade writes. *)
LEMMA DowngradeRow ==
  ASSUME TypeOK, NEW p \in Processes, tx[p] # Idle, Downgrade(p)
  PROVE  \/ /\ Seen(p).plan = "trial" /\ Seen(p).ends = "past" /\ org.plan = "trial"
            /\ org' = [org EXCEPT !.plan = "free", !.status = "active"]
            /\ downgrades' = downgrades + 1
         \/ UNCHANGED <<org, downgrades>>
BY DEF Downgrade, Expired, StillTrial

(* What a redemption writes. *)
LEMMA RedeemRow ==
  ASSUME TypeOK, NEW p \in Requests, Redeem(p)
  PROVE  /\ org' \in Org /\ org'.sub = org.sub
         /\ org'.plan = "trial" /\ org'.ends = "open"
         /\ Seen(p).plan = "free"
         /\ trials' = trials + 1
         /\ tx[p].arg \notin spent /\ spent' = spent \cup {tx[p].arg}
<1> DEFINE new == [Seen(p) EXCEPT !.plan = "trial", !.status = "active", !.ends = "open"]
<1>1. p \in Processes /\ tx[p] # Idle /\ Seen(p) \in Row
  BY Open DEF Processes, Redeem, Doing
<1>2. new \in Row /\ new.plan = "trial" /\ new.ends = "open"
  BY <1>1 DEF Row, Plans, Statuses, Ends
<1>3. Write(p, new) /\ trials' = trials + 1
  BY DEF Redeem, StartTrial
<1>4. /\ Seen(p).plan = "free" /\ Seen(p).ends = "none"
      /\ tx[p].arg \notin spent /\ spent' = spent \cup {tx[p].arg}
  BY DEF Redeem, Eligible, Claimable
<1> HIDE DEF new
<1> QED
  BY <1>1, <1>2, <1>3, <1>4, WriteRow DEF Merge

(* What a cancellation writes. *)
LEMMA CancelRow ==
  ASSUME TypeOK, NEW p \in Requests, Cancel(p)
  PROVE  org' \in Org /\ org'.sub = org.sub /\ org'.plan = org.plan /\ org'.ends = org.ends
<1> DEFINE new == [Seen(p) EXCEPT !.status = "cancelled"]
<1>1. p \in Processes /\ tx[p] # Idle /\ Seen(p) \in Row
  BY Open DEF Processes, Cancel, Doing
<1>2. new \in Row /\ new.plan = Seen(p).plan /\ new.ends = Seen(p).ends
  BY <1>1 DEF Row, Statuses
<1>3. Write(p, new) \/ UNCHANGED org
  BY DEF Cancel
<1> HIDE DEF new
<1> QED
  BY <1>1, <1>2, <1>3, WriteRow DEF Merge, TypeOK

-----------------------------------------------------------------------------
LEMMA TypeStep ==
  ASSUME TypeOK, [Next]_vars
  PROVE  TypeOK'
<1> USE BoundsAssumption
<1>1. CASE UNCHANGED vars
  BY <1>1 DEF vars, TypeOK
<1>2. ASSUME NEW p \in Processes, NEW kind \in Kinds, NEW arg \in Args(kind), Begin(p, kind, arg)
      PROVE  TypeOK'
  <2>1. [kind |-> kind, arg |-> arg, seen |-> Read(org)] \in Transaction
    BY <1>2 DEF TypeOK, Transaction, Args, Read, Org, Row
  <2>2. tx' \in [Processes -> Transaction \cup {Idle}]
    BY <1>2, <2>1 DEF TypeOK, Begin
  <2>3. asks' \in 0..MaxAsks
    BY <1>2 DEF TypeOK, Begin
  <2> QED
    BY <1>2, <2>2, <2>3 DEF TypeOK, Begin, delivery, history
<1>3. ASSUME NEW p \in Processes, Reject(p) \/ Lose(p)
      PROVE  TypeOK'
  <2>1. losses' \in 0..MaxLosses
    BY <1>3 DEF TypeOK, Reject, Lose
  <2> QED
    BY <1>3, <2>1 DEF TypeOK, Reject, Lose, End, processor, delivery, history
<1>4. ASSUME NEW p \in Requests, Redeem(p)
      PROVE  TypeOK'
  <2>1. tx[p].arg \in Codes
    BY <1>4, Open DEF Redeem, Doing, Processes
  <2>2. org' \in Org /\ trials' = trials + 1 /\ spent' = spent \cup {tx[p].arg}
    BY <1>4, RedeemRow
  <2>3. tx' \in [Processes -> Transaction \cup {Idle}]
    BY <1>4 DEF TypeOK, Redeem, End
  <2> QED
    BY <1>4, <2>1, <2>2, <2>3 DEF TypeOK, Redeem, processor, delivery
<1>5. ASSUME NEW p \in Processes, tx[p] # Idle, Downgrade(p)
      PROVE  org' \in Org /\ downgrades' \in Nat
  <2>1. CASE org' = [org EXCEPT !.plan = "free", !.status = "active"] /\ downgrades' = downgrades + 1
    <3>1. org \in [plan : Plans, status : Statuses, ends : Ends, sub : 0..MaxSubs]
      BY DEF TypeOK, Org
    <3>2. "free" \in Plans /\ "active" \in Statuses
      BY DEF Plans, Statuses
    <3>3. org' \in Org
      BY <2>1, <3>1, <3>2 DEF Org
    <3> QED
      BY <2>1, <3>3 DEF TypeOK
  <2>2. CASE UNCHANGED <<org, downgrades>>
    BY <2>2 DEF TypeOK
  <2> QED
    BY <1>5, <2>1, <2>2, DowngradeRow
<1>6. ASSUME NEW p \in Requests, Gate(p)
      PROVE  TypeOK'
  BY <1>5, <1>6 DEF TypeOK, Gate, Doing, Processes, End, processor, delivery
<1>7. ASSUME NEW p \in Requests, Subscribe(p)
      PROVE  TypeOK'
  <2>1. subs' \in 0..MaxSubs /\ subs + 1 \in 0..MaxSubs /\ paid \subseteq 1..subs'
    BY <1>7 DEF TypeOK, Subscribe
  <2>2. org' \in Org
    BY <1>7, <2>1 DEF TypeOK, Subscribe, StoreSubscription, Org
  <2> QED
    BY <1>7, <2>1, <2>2 DEF TypeOK, Subscribe, End, delivery, history
<1>8. ASSUME NEW p \in Requests, Cancel(p)
      PROVE  TypeOK'
  BY <1>8, CancelRow DEF TypeOK, Cancel, End, processor, delivery, history
<1>9. ASSUME NEW p \in Requests, RecordEvent(p)
      PROVE  TypeOK'
  <2>1. PICK failed \in BOOLEAN :
          /\ Effect(p, failed)
          /\ recorded' = [recorded EXCEPT ![tx[p].arg] = IF failed THEN "failed" ELSE "processed"]
    BY <1>9 DEF RecordEvent
  <2>2. tx[p] # Idle /\ tx[p].arg \in Events /\ p \in Processes
    BY <1>9, Open DEF RecordEvent, Doing, Processes
  <2>3. recorded' \in [Events -> {"no", "processed", "failed"}] /\ applied' \in [Events -> Nat]
    BY <1>9, <2>1, <2>2 DEF TypeOK, RecordEvent
  <2>4. acked' \subseteq Events /\ losses' \in 0..MaxLosses
    BY <1>9, <2>2 DEF TypeOK, RecordEvent, Acknowledge
  <2> QED
    BY <1>9, <2>1, <2>2, <2>3, <2>4, EffectRow DEF TypeOK, RecordEvent, End, processor, history
<1>10. ASSUME NEW p \in Requests, NEW e \in Events, Ignore(p, e)
       PROVE  TypeOK'
  <2>1. acked' \subseteq Events /\ losses' \in 0..MaxLosses
    BY <1>10 DEF TypeOK, Ignore, Acknowledge
  <2> QED
    BY <1>10, <2>1 DEF TypeOK, Ignore, processor, history
<1>11. ASSUME SweepTrials
       PROVE  TypeOK'
  BY <1>5, <1>11 DEF TypeOK, SweepTrials, Warn, Doing, Processes, End, processor, delivery
<1>12. ASSUME Elapse
       PROVE  TypeOK'
  BY <1>12, Tables DEF TypeOK, Elapse, Org, processor, delivery, history
<1>13. ASSUME NEW s \in 1..MaxSubs, NEW type \in Types \cup {"activated"}, Report(s, type)
       PROVE  /\ sent' \in Seq([sub : 1..MaxSubs, type : Types \cup {"activated"}])
              /\ Len(sent') <= MaxEvents
  BY <1>13 DEF TypeOK, Report
<1>14. ASSUME NEW s \in 1..MaxSubs, Pay(s)
       PROVE  TypeOK'
  BY <1>13, <1>14 DEF TypeOK, Pay, Report, delivery, history
<1>15. ASSUME NEW s \in 1..MaxSubs, NEW type \in Types, Bill(s, type)
       PROVE  TypeOK'
  BY <1>13, <1>15 DEF TypeOK, Bill, Report, delivery, history
<1> QED
  BY <1>1, <1>2, <1>3, <1>4, <1>6, <1>7, <1>8, <1>9, <1>10, <1>11, <1>12, <1>14, <1>15, StepCases

-----------------------------------------------------------------------------
(* Who changes what the properties speak of. *)
LEMMA Ledger ==
  ASSUME TypeOK, [Next]_vars
  PROVE  \/ UNCHANGED <<spent, trials>>
         \/ \E p \in Requests : Redeem(p)
BY StepCases DEF vars, Begin, Reject, Lose, Gate, Subscribe, Cancel, RecordEvent, Ignore,
   SweepTrials, Elapse, Pay, Bill, Report, history

LEMMA Warnings ==
  ASSUME TypeOK, [Next]_vars
  PROVE  UNCHANGED warned \/ SweepTrials
BY StepCases DEF vars, Begin, Reject, Lose, Redeem, Gate, Subscribe, Cancel, RecordEvent, Ignore,
   Elapse, Pay, Bill, Report, history

LEMMA Rows ==
  ASSUME TypeOK, [Next]_vars
  PROVE  UNCHANGED <<recorded, applied>> \/ \E p \in Requests : RecordEvent(p)
BY StepCases DEF vars, Begin, Reject, Lose, Redeem, Gate, Subscribe, Cancel, Ignore,
   SweepTrials, Elapse, Pay, Bill, Report, delivery

LEMMA BoughtStep ==
  ASSUME TypeOK, Bought, [Next]_vars
  PROVE  Bought'
<1>1. CASE UNCHANGED <<spent, trials>>
  BY <1>1 DEF Bought, CodesBuyTrials
<1>2. ASSUME NEW p \in Requests, Redeem(p)
      PROVE  Bought'
  BY <1>2, RedeemRow, FS_AddElement DEF Bought, CodesBuyTrials
<1> QED
  BY <1>1, <1>2, Ledger

LEMMA WarnedStep ==
  ASSUME TypeOK, WarnedOnce, [Next]_vars
  PROVE  WarnedOnce'
BY Warnings DEF TypeOK, WarnedOnce, SweepTrials, Warn

LEMMA HandledStep ==
  ASSUME TypeOK, HandledRows, [Next]_vars
  PROVE  HandledRows'
<1>1. CASE UNCHANGED <<recorded, applied>>
  BY <1>1 DEF HandledRows, Inserted
<1>2. ASSUME NEW p \in Requests, RecordEvent(p)
      PROVE  HandledRows'
  <2>1. PICK status \in {"processed", "failed"} : recorded' = [recorded EXCEPT ![tx[p].arg] = status]
    BY <1>2 DEF RecordEvent
  <2>2. applied' = [applied EXCEPT ![tx[p].arg] = @ + 1] /\ recorded[tx[p].arg] = "no"
    BY <1>2 DEF RecordEvent, Insertable, Inserted
  <2> QED
    BY <2>1, <2>2 DEF TypeOK, HandledRows, Inserted
<1> QED
  BY <1>1, <1>2, Rows

(* Every trial that is counted as ended has left the plan, and only a new  *)
(* trial brings the plan back. *)
LEMMA DowngradedStep ==
  ASSUME TypeOK, DowngradedOnce, [Next]_vars
  PROVE  DowngradedOnce'
<1>1. CASE UNCHANGED <<org, trials, downgrades>>
  BY <1>1 DEF DowngradedOnce
<1>2. ASSUME NEW p \in Processes, tx[p] # Idle, Downgrade(p), UNCHANGED trials
      PROVE  DowngradedOnce'
  <2>1. CASE UNCHANGED <<org, downgrades>>
    BY <1>2, <2>1 DEF DowngradedOnce
  <2>2. CASE org' = [org EXCEPT !.plan = "free", !.status = "active"] /\ org.plan = "trial"
             /\ downgrades' = downgrades + 1
    <3>1. org'.plan = "free"
      BY <2>2 DEF TypeOK, Org
    <3> QED
      BY <1>2, <2>2, <3>1 DEF TypeOK, DowngradedOnce
  <2> QED
    BY <1>2, <2>1, <2>2, DowngradeRow
<1>3. ASSUME NEW p \in Requests, Redeem(p)
      PROVE  DowngradedOnce'
  BY <1>3, RedeemRow DEF TypeOK, DowngradedOnce, Redeem
<1>4. ASSUME NEW p \in Requests, RecordEvent(p)
      PROVE  DowngradedOnce'
  <2>1. tx[p] # Idle /\ p \in Processes
    BY <1>4 DEF RecordEvent, Doing, Processes
  <2>2. org'.plan \in {"paid", org.plan} /\ UNCHANGED <<trials, downgrades>>
    BY <1>4, <2>1, EffectRow DEF RecordEvent, history
  <2> QED
    BY <2>2 DEF TypeOK, DowngradedOnce
<1>5. ASSUME org'.plan = org.plan, UNCHANGED <<trials, downgrades>>
      PROVE  DowngradedOnce'
  BY <1>5 DEF DowngradedOnce
<1>6. ASSUME NEW p \in Requests, Cancel(p)
      PROVE  DowngradedOnce'
  BY <1>5, <1>6, CancelRow DEF Cancel, history
<1>7. ASSUME NEW p \in Requests, Subscribe(p)
      PROVE  DowngradedOnce'
  BY <1>5, <1>7 DEF Subscribe, StoreSubscription, history, TypeOK, Org
<1>8. CASE Elapse
  BY <1>5, <1>8 DEF Elapse, history, TypeOK, Org
<1>9. CASE SweepTrials
  BY <1>2, <1>9 DEF SweepTrials, Doing, Processes
<1>10. ASSUME NEW p \in Requests, Gate(p)
       PROVE  DowngradedOnce'
  BY <1>2, <1>10 DEF Gate, Doing, Processes
<1> QED
  BY <1>1, <1>3, <1>4, <1>6, <1>7, <1>8, <1>9, <1>10, StepCases
     DEF vars, Begin, Reject, Lose, Ignore, Pay, Bill, Report, history

LEMMA CreatedStep ==
  ASSUME TypeOK, Created, IgnoredWasReplaced, [Next]_vars
  PROVE  Created' /\ IgnoredWasReplaced'
<1> DEFINE Good == Created' /\ IgnoredWasReplaced'
<1>1. ASSUME org'.sub = org.sub, UNCHANGED <<subs, sent, acked, recorded>>,
             \A p \in Processes : Doing(p, "event")' => Doing(p, "event") /\ tx'[p] = tx[p]
      PROVE  Good
  BY <1>1 DEF Created, IgnoredWasReplaced, Sent
<1>2. ASSUME NEW p \in Processes, End(p)
      PROVE  \A q \in Processes : Doing(q, "event")' => Doing(q, "event") /\ tx'[q] = tx[q]
  BY <1>2 DEF TypeOK, End, Doing, Idle
<1>3. ASSUME NEW p \in Processes, tx[p] # Idle, Downgrade(p)
      PROVE  org'.sub = org.sub
  BY <1>3, DowngradeRow DEF TypeOK, Org
<1>4. CASE UNCHANGED vars
  BY <1>4 DEF vars, Created, IgnoredWasReplaced, Sent, Doing
<1>5. ASSUME NEW p \in Processes, NEW kind \in Kinds, NEW arg \in Args(kind), Begin(p, kind, arg),
             kind = "event" => arg \in Sent
      PROVE  Good
  <2>1. \A q \in Processes : Doing(q, "event")' => tx'[q].arg \in Sent
    BY <1>5 DEF TypeOK, Begin, Doing, Created
  <2> QED
    BY <1>5, <2>1 DEF Begin, delivery, Created, IgnoredWasReplaced, Sent
<1>6. ASSUME NEW p \in Processes, Reject(p) \/ Lose(p)
      PROVE  Good
  BY <1>1, <1>2, <1>6 DEF Reject, Lose, processor, delivery
<1>7. ASSUME NEW p \in Requests, Redeem(p)
      PROVE  Good
  BY <1>1, <1>2, <1>7, RedeemRow DEF Redeem, processor, delivery, Processes
<1>8. ASSUME NEW p \in Requests, Gate(p)
      PROVE  Good
  BY <1>1, <1>2, <1>3, <1>8 DEF Gate, Doing, processor, delivery, Processes
<1>9. ASSUME NEW p \in Requests, Subscribe(p)
      PROVE  Good
  <2>1. org'.sub = subs' /\ subs' = subs + 1 /\ UNCHANGED <<sent, acked, recorded>>
    BY <1>9 DEF Subscribe, StoreSubscription, delivery, TypeOK, Org
  <2>2. \A q \in Processes : Doing(q, "event")' => Doing(q, "event") /\ tx'[q] = tx[q]
    BY <1>2, <1>9 DEF Subscribe, Processes
  <2> QED
    BY <2>1, <2>2 DEF TypeOK, Created, IgnoredWasReplaced, Sent
<1>10. ASSUME NEW p \in Requests, Cancel(p)
       PROVE  Good
  BY <1>1, <1>2, <1>10, CancelRow DEF Cancel, processor, delivery, Processes
<1>11. ASSUME NEW p \in Requests, RecordEvent(p)
       PROVE  Good
  <2>1. p \in Processes /\ tx[p] # Idle /\ tx[p].arg \in Sent /\ tx[p].arg \in Events
    BY <1>11, Open DEF RecordEvent, Doing, Created, Processes
  <2>2. org'.sub = org.sub /\ UNCHANGED <<subs, sent>>
    BY <1>11, <2>1, EffectRow DEF RecordEvent, processor
  <2>3. acked' \subseteq acked \cup {tx[p].arg}
    BY <1>11 DEF RecordEvent, Acknowledge
  <2>4. PICK status \in {"processed", "failed"} : recorded' = [recorded EXCEPT ![tx[p].arg] = status]
    BY <1>11 DEF RecordEvent
  <2>5. \A q \in Processes : Doing(q, "event")' => Doing(q, "event") /\ tx'[q] = tx[q]
    BY <1>2, <1>11, <2>1 DEF RecordEvent
  <2> QED
    BY <2>1, <2>2, <2>3, <2>4, <2>5 DEF TypeOK, Created, IgnoredWasReplaced, Sent
<1>12. ASSUME NEW p \in Requests, NEW e \in Events, Ignore(p, e)
       PROVE  Good
  <2>1. acked' \subseteq acked \cup {e} /\ e \in Sent
    BY <1>12 DEF Ignore, Acknowledge
  <2>2. UNCHANGED <<org, tx, subs, sent, recorded>>
    BY <1>12 DEF Ignore, processor
  <2>3. recorded[e] # "no" \/ sent[e].sub < org.sub
    BY <1>12, <2>1 DEF Ignore, Known, Inserted, Created, TypeOK
  <2> QED
    BY <2>1, <2>2, <2>3 DEF Created, IgnoredWasReplaced, Sent, Doing
<1>13. CASE SweepTrials
  BY <1>1, <1>2, <1>3, <1>13 DEF SweepTrials, Doing, processor, delivery, Processes
<1>14. CASE Elapse
  BY <1>1, <1>14 DEF Elapse, processor, delivery, Doing, TypeOK, Org
<1>15. ASSUME NEW s \in 1..subs, NEW type \in Types \cup {"activated"}, Report(s, type)
       PROVE  Good
  <2>1. /\ Sent' = Sent \cup {Len(sent) + 1} /\ Len(sent) + 1 \notin Sent
        /\ \A e \in Sent : sent'[e] = sent[e]
        /\ sent'[Len(sent) + 1].sub = s
    BY <1>15 DEF TypeOK, Report, Sent
  <2>2. UNCHANGED <<org, tx, subs, acked, recorded>>
    BY <1>15 DEF Report, delivery
  <2> QED
    BY <2>1, <2>2 DEF Created, IgnoredWasReplaced, Doing
<1>16. ASSUME NEW s \in 1..MaxSubs, Pay(s) \/ \E type \in Types : Bill(s, type)
       PROVE  Good
  BY <1>15, <1>16 DEF TypeOK, Pay, Bill
<1> QED
  BY <1>4, <1>5, <1>6, <1>7, <1>8, <1>9, <1>10, <1>11, <1>12, <1>13, <1>14, <1>16, StepCases

(* What a session has read of the trial's end stays within a stage: the    *)
(* stages are longer than a transaction. *)
LEMMA RecentStep ==
  ASSUME TypeOK, RecentReads, [Next]_vars
  PROVE  RecentReads'
<1>1. ASSUME org'.ends = org.ends,
             \A p \in Processes : tx'[p] # Idle => tx'[p] = tx[p] \/ tx'[p].seen.ends = org.ends
      PROVE  RecentReads'
  BY <1>1 DEF RecentReads, Seen, Recent
<1>2. ASSUME NEW p \in Processes, End(p)
      PROVE  \A q \in Processes : tx'[q] # Idle => tx'[q] = tx[q]
  BY <1>2 DEF TypeOK, End
<1>3. ASSUME NEW p \in Processes, tx[p] # Idle, Downgrade(p)
      PROVE  org'.ends = org.ends
  BY <1>3, DowngradeRow DEF TypeOK, Org
<1>4. CASE UNCHANGED <<org, tx>>
  BY <1>4 DEF RecentReads, Seen
<1>5. ASSUME NEW p \in Processes, NEW kind \in Kinds, NEW arg \in Args(kind), Begin(p, kind, arg)
      PROVE  RecentReads'
  <2>1. \A q \in Processes : tx'[q] = tx[q] \/ tx'[q].seen.ends = org.ends
    BY <1>5 DEF TypeOK, Begin, Read
  <2> QED
    BY <1>1, <1>5, <2>1 DEF Begin
<1>6. ASSUME NEW p \in Processes, Reject(p) \/ Lose(p)
      PROVE  RecentReads'
  BY <1>1, <1>2, <1>6 DEF Reject, Lose
<1>7. ASSUME NEW p \in Requests, Redeem(p)
      PROVE  RecentReads'
  <2>1. p \in Processes /\ tx[p] # Idle /\ Seen(p).ends = "none" /\ org'.ends = "open"
    BY <1>7, RedeemRow DEF Redeem, Doing, Eligible, Processes
  <2>2. org.ends \in {"none", "open"}
    BY <2>1 DEF RecentReads, Recent, Later
  <2>3. \A q \in Processes : tx[q] # Idle => Recent(Seen(q).ends, "open")
    BY <2>2 DEF RecentReads, Recent, Later
  <2> QED
    BY <1>2, <1>7, <2>1, <2>3 DEF Redeem, RecentReads, Seen
<1>8. ASSUME NEW p \in Requests, Gate(p)
      PROVE  RecentReads'
  BY <1>1, <1>2, <1>3, <1>8 DEF Gate, Doing, Processes
<1>9. ASSUME NEW p \in Requests, Subscribe(p)
      PROVE  RecentReads'
  <2>1. org'.ends = org.ends
    BY <1>9 DEF Subscribe, StoreSubscription, TypeOK, Org
  <2> QED
    BY <1>1, <1>2, <1>9, <2>1 DEF Subscribe, Processes
<1>10. ASSUME NEW p \in Requests, Cancel(p)
       PROVE  RecentReads'
  BY <1>1, <1>2, <1>10, CancelRow DEF Cancel, Processes
<1>11. ASSUME NEW p \in Requests, RecordEvent(p)
       PROVE  RecentReads'
  <2>1. p \in Processes /\ tx[p] # Idle /\ End(p)
    BY <1>11 DEF RecordEvent, Doing, Processes
  <2>2. org'.ends = org.ends
    BY <1>11, <2>1, EffectRow DEF RecordEvent
  <2> QED
    BY <1>1, <1>2, <2>1, <2>2
<1>12. CASE SweepTrials
  BY <1>1, <1>2, <1>3, <1>12 DEF SweepTrials, Doing, Processes
<1>13. CASE Elapse
  <2>1. org.ends \in DOMAIN Later /\ org'.ends = Later[org.ends] /\ UNCHANGED tx
    BY <1>13 DEF Elapse, TypeOK, Org
  <2>2. \A p \in Processes : tx[p] # Idle => Seen(p).ends = org.ends
    BY <1>13 DEF Elapse
  <2> QED
    BY <2>1, <2>2 DEF RecentReads, Recent, Seen
<1> QED
  BY <1>4, <1>5, <1>6, <1>7, <1>8, <1>9, <1>10, <1>11, <1>12, <1>13, StepCases
     DEF vars, Ignore, Pay, Bill, Report

-----------------------------------------------------------------------------
LEMMA InitIInv ==
  ASSUME Init
  PROVE  IInv
<1> USE BoundsAssumption
<1>1. TypeOK
  BY DEF Init, TypeOK, Org, Plans, Statuses, Ends
<1>2. Bought
  BY FS_EmptySet DEF Init, Bought, CodesBuyTrials
<1>3. HandledRows /\ DowngradedOnce /\ WarnedOnce /\ RecentReads
  BY DEF Init, HandledRows, Inserted, DowngradedOnce, WarnedOnce, RecentReads
<1>4. Created /\ IgnoredWasReplaced
  BY DEF Init, Created, IgnoredWasReplaced, Sent, Doing
<1> QED
  BY <1>1, <1>2, <1>3, <1>4 DEF IInv

(* The invariant that carries all of this module's theorems. *)
THEOREM Invariance == Spec => []IInv
<1>1. IInv /\ [Next]_vars => IInv'
  BY TypeStep, BoughtStep, HandledStep, CreatedStep, DowngradedStep, WarnedStep, RecentStep DEF IInv
<1> QED
  BY InitIInv, <1>1, PTL DEF Spec

(* The row, the sessions and the tables keep their types. *)
THEOREM Typed == Spec => []TypeOK
<1>1. IInv => TypeOK
  BY DEF IInv
<1> QED
  BY <1>1, Invariance, PTL

(* Codes are spent one for one on trials, whatever overlaps. *)
THEOREM CodesSpentOnTrials == Spec => []CodesBuyTrials
<1>1. IInv => CodesBuyTrials
  BY DEF IInv, Bought
<1> QED
  BY <1>1, Invariance, PTL

(* A trial is ended, and audited, at most once. *)
THEOREM EachTrialEndsOnce == Spec => []DowngradedOnce
<1>1. IInv => DowngradedOnce
  BY DEF IInv
<1> QED
  BY <1>1, Invariance, PTL

(* A processor event takes effect at most once. *)
THEOREM EachEventAppliedOnce == Spec => []AppliedOnce
<1>1. IInv => AppliedOnce
  BY DEF IInv, HandledRows, AppliedOnce
<1> QED
  BY <1>1, Invariance, PTL

(* Only events of replaced subscriptions are acknowledged without a row. *)
THEOREM OnlyReplacedIgnored == Spec => []IgnoredWasReplaced
<1>1. IInv => IgnoredWasReplaced
  BY DEF IInv
<1> QED
  BY <1>1, Invariance, PTL

(* Each warning of the end of a trial is queued at most once. *)
THEOREM EachWarningOnce == Spec => []WarnedOnce
<1>1. IInv => WarnedOnce
  BY DEF IInv
<1> QED
  BY <1>1, Invariance, PTL

(* No step that ends a trial ends one that still runs. *)
LEMMA LateStep ==
  ASSUME IInv, [Next]_vars, org.plan = "trial", org'.plan = "free"
  PROVE  org.ends = "past"
<1>1. TypeOK /\ RecentReads
  BY DEF IInv
<1>2. ASSUME NEW p \in Processes, tx[p] # Idle, Downgrade(p)
      PROVE  org.ends = "past"
  BY <1>1, <1>2, DowngradeRow DEF RecentReads, Recent, Later
<1>3. ASSUME NEW p \in Requests
      PROVE  ~Redeem(p) /\ ~Cancel(p)
  BY <1>1, RedeemRow, CancelRow
<1>4. ASSUME NEW p \in Requests, RecordEvent(p)
      PROVE  FALSE
  BY <1>1, <1>4, EffectRow DEF RecordEvent, Doing, Processes
<1>5. ASSUME NEW p \in Requests, Subscribe(p)
      PROVE  FALSE
  BY <1>1, <1>5 DEF Subscribe, StoreSubscription, TypeOK, Org
<1>6. CASE Elapse
  BY <1>1, <1>6 DEF Elapse, TypeOK, Org
<1> QED
  BY <1>1, <1>2, <1>3, <1>4, <1>5, <1>6, StepCases
     DEF vars, Begin, Reject, Lose, Ignore, Pay, Bill, Report, Gate, SweepTrials, Doing, Processes

(* A trial that still runs is never downgraded. *)
THEOREM TrialsRunToTheEnd == Spec => NoEarlyDowngrade
<1>1. IInv /\ [Next]_vars => [org.plan = "trial" /\ org'.plan = "free" => org.ends = "past"]_vars
  BY LateStep
<1> QED
  BY <1>1, Invariance, PTL DEF Spec, NoEarlyDowngrade

(* Only a redemption that read the Free plan takes a paid plan away. *)
LEMMA PaidStep ==
  ASSUME IInv, [Next]_vars, org.plan = "paid", org'.plan # "paid"
  PROVE  org'.plan = "trial" /\ \E p \in Requests : Doing(p, "redeem") /\ Seen(p).plan = "free"
<1>1. TypeOK
  BY DEF IInv
<1>2. ASSUME NEW p \in Processes, tx[p] # Idle, Downgrade(p)
      PROVE  FALSE
  BY <1>1, <1>2, DowngradeRow
<1>3. ASSUME NEW p \in Requests, Cancel(p)
      PROVE  FALSE
  BY <1>1, <1>3, CancelRow
<1>4. ASSUME NEW p \in Requests, RecordEvent(p)
      PROVE  FALSE
  BY <1>1, <1>4, EffectRow DEF RecordEvent, Doing, Processes
<1>5. ASSUME NEW p \in Requests, Subscribe(p)
      PROVE  FALSE
  BY <1>1, <1>5 DEF Subscribe, StoreSubscription, TypeOK, Org
<1>6. CASE Elapse
  BY <1>1, <1>6 DEF Elapse, TypeOK, Org
<1>7. ASSUME NEW p \in Requests, Redeem(p)
      PROVE  org'.plan = "trial" /\ Doing(p, "redeem") /\ Seen(p).plan = "free"
  BY <1>1, <1>7, RedeemRow DEF Redeem
<1> QED
  BY <1>1, <1>2, <1>3, <1>4, <1>5, <1>6, <1>7, StepCases
     DEF vars, Begin, Reject, Lose, Ignore, Pay, Bill, Report, Gate, SweepTrials, Doing, Processes

(* A downgrade never takes a paid plan. *)
THEOREM PaidPlansKept == Spec => PaidKept
<1>1. IInv /\ [Next]_vars =>
        [org.plan = "paid" /\ org'.plan # "paid" =>
           org'.plan = "trial" /\ \E p \in Requests : Doing(p, "redeem") /\ Seen(p).plan = "free"]_vars
  BY PaidStep
<1> QED
  BY <1>1, Invariance, PTL DEF Spec, PaidKept
=============================================================================
