----------------------------- MODULE Subscriptions -----------------------------
(***************************************************************************)
(* The plan of one organization: trial codes, the end of a trial (in the   *)
(* request gate and in the daily sweep), subscriptions at the payment      *)
(* processor and the events it sends back.                                 *)
(*                                                                         *)
(* A transaction reads the organization when it begins and works on that   *)
(* object to its end: selecting the row again FOR UPDATE waits for other   *)
(* writers but does not refresh an object the session already holds.       *)
(* Commits write the columns that differ from what was read, so a          *)
(* transaction is two actions: Begin, and the action that finishes it      *)
(* while it holds the row lock.                                            *)
(***************************************************************************)
EXTENDS Integers, Sequences, FiniteSets

CONSTANTS
  Codes,       \* trial codes
  Requests,    \* sessions serving HTTP requests and processor events
  Sweep,       \* the session of the daily trial lifecycle job
  Types,       \* what the processor reports of a paid subscription
  MaxSubs,     \* bound: subscriptions created
  MaxEvents,   \* bound: events the processor sends
  MaxAsks,     \* bound: requests to redeem, subscribe or cancel
  MaxLosses    \* bound: transactions or answers lost

ASSUME BoundsAssumption == MaxSubs \in Nat /\ MaxEvents \in Nat /\ MaxAsks \in Nat /\ MaxLosses \in Nat
ASSUME SweepAssumption == Sweep \notin Requests

VARIABLES
  org,         \* the organizations row
  spent,       \* codes with redeemed_at set
  tx,          \* tx[p]: what session p is doing and the row as it read it
  subs,        \* subscriptions created; their ids are 1..subs
  paid,        \* subscriptions the customer has paid for
  sent,        \* events of the processor, in the order they arose
  recorded,    \* recorded[e]: billing_events row of event e
  acked,       \* events the processor will not deliver again
  asks, losses,
  trials,      \* trials started
  downgrades,  \* audit rows subscription.trial_expired_downgraded
  applied,     \* applied[e]: committed runs of the handler of e
  warned       \* warned[s]: warnings of stage s in the outbox

vars == <<org, spent, tx, subs, paid, sent, recorded, acked, asks, losses,
          trials, downgrades, applied, warned>>
processor == <<subs, paid, sent, asks>>
delivery == <<recorded, acked, applied>>
history == <<trials, downgrades, warned>>

Processes == Requests \cup {Sweep}
Events == 1..MaxEvents
Sent == DOMAIN sent
Stages == {"t3", "t1"}

(* trial_ends_at is kept as the time left: none, more than three days, at  *)
(* most three, at most one, over.                                          *)
Plans == {"free", "trial", "paid"}
Statuses == {"active", "past_due", "paused", "cancelled", "expired"}
Ends == {"none", "open", "t3", "t1", "past"}
Row == [plan : Plans, status : Statuses, ends : Ends]
Org == [plan : Plans, status : Statuses, ends : Ends, sub : 0..MaxSubs]

(* The status an event sets; payment.*, invoice.* and refund.* only leave  *)
(* an audit row.                                                           *)
EventStatus ==
  [activated |-> "active", charged |-> "active", resumed |-> "active",
   halted |-> "past_due", pending |-> "past_due", paused |-> "paused",
   cancelled |-> "cancelled", completed |-> "expired"]

ASSUME TypesAssumption == Types \subseteq (DOMAIN EventStatus \cup {"payment"})

Idle == [kind |-> "idle"]
Kinds == {"redeem", "gate", "event", "subscribe", "cancel", "sweep"}
Transaction ==
  [kind : {"redeem"}, arg : Codes, seen : Row] \cup [kind : {"event"}, arg : Events, seen : Row]
    \cup [kind : Kinds \ {"redeem", "event"}, arg : {0}, seen : Row]

TypeOK ==
  /\ org \in Org /\ spent \subseteq Codes
  /\ tx \in [Processes -> Transaction \cup {Idle}]
  /\ subs \in 0..MaxSubs /\ paid \subseteq 1..subs
  /\ sent \in Seq([sub : 1..MaxSubs, type : Types \cup {"activated"}]) /\ Len(sent) <= MaxEvents
  /\ recorded \in [Events -> {"no", "processed", "failed"}] /\ acked \subseteq Events
  /\ asks \in 0..MaxAsks /\ losses \in 0..MaxLosses
  /\ trials \in Nat /\ downgrades \in Nat
  /\ applied \in [Events -> Nat] /\ warned \in [Stages -> Nat]

(* start_free at registration. *)
Init ==
  /\ org = [plan |-> "free", status |-> "active", ends |-> "none", sub |-> 0]
  /\ spent = {} /\ tx = [p \in Processes |-> Idle]
  /\ subs = 0 /\ paid = {} /\ sent = <<>>
  /\ recorded = [e \in Events |-> "no"] /\ acked = {} /\ asks = 0 /\ losses = 0
  /\ trials = 0 /\ downgrades = 0
  /\ applied = [e \in Events |-> 0] /\ warned = [s \in Stages |-> 0]

-----------------------------------------------------------------------------
(* Sessions.                                                               *)

(* The columns a later step depends on; a new subscription id always       *)
(* differs from the stored one.                                            *)
Read(o) == [plan |-> o.plan, status |-> o.status, ends |-> o.ends]

Begin(p, kind, arg) ==
  /\ tx[p] = Idle
  /\ tx' = [tx EXCEPT ![p] = [kind |-> kind, arg |-> arg, seen |-> Read(org)]]
  /\ asks' = asks + (IF kind \in {"redeem", "subscribe", "cancel"} THEN 1 ELSE 0) /\ asks' <= MaxAsks
  /\ UNCHANGED <<org, spent, losses, subs, paid, sent>>
  /\ UNCHANGED delivery /\ UNCHANGED history

Doing(p, kind) == tx[p] # Idle /\ tx[p].kind = kind
Seen(p) == tx[p].seen
End(p) == tx' = [tx EXCEPT ![p] = Idle]

(* The UPDATE of a commit: the columns whose value differs from the one    *)
(* that was read.                                                          *)
Merge(read, new, now) == IF new = read THEN now ELSE new

Write(p, new) ==
  org' = [org EXCEPT !.plan = Merge(Seen(p).plan, new.plan, @),
                     !.status = Merge(Seen(p).status, new.status, @),
                     !.ends = Merge(Seen(p).ends, new.ends, @)]

(* A rejected request, a rolled back transaction or a killed worker leaves *)
(* nothing behind.                                                         *)
Reject(p) ==
  /\ End(p)
  /\ UNCHANGED <<org, spent, losses>> /\ UNCHANGED processor
  /\ UNCHANGED delivery /\ UNCHANGED history

Lose(p) ==
  /\ tx[p] # Idle /\ losses < MaxLosses
  /\ End(p) /\ losses' = losses + 1
  /\ UNCHANGED <<org, spent>> /\ UNCHANGED processor
  /\ UNCHANGED delivery /\ UNCHANGED history

-----------------------------------------------------------------------------
(* Trials.                                                                 *)

Eligible(o) == o.plan = "free" /\ o.ends = "none"

(* Mutant: the claim does not ask for redeemed_at IS NULL.                 *)
ClaimAny(c) == TRUE

Claimable(c) == c \notin spent

StartTrial(p) ==
  /\ Write(p, [Seen(p) EXCEPT !.plan = "trial", !.status = "active", !.ends = "open"])
  /\ trials' = trials + 1

Redeem(p) ==
  /\ Doing(p, "redeem") /\ Eligible(Seen(p)) /\ Claimable(tx[p].arg)
  /\ spent' = spent \cup {tx[p].arg}
  /\ StartTrial(p) /\ End(p)
  /\ UNCHANGED <<losses, downgrades, warned>> /\ UNCHANGED processor /\ UNCHANGED delivery

(* code_already_used *)
RedeemRefused(p) ==
  /\ Doing(p, "redeem") /\ tx[p].arg \in spent
  /\ Reject(p)

(* Mutants: the expiry is not looked at; a halted trial is not looked at;   *)
(* the UPDATE is unconditional.                                            *)
ExpiredAny(seen) == seen.plan = "trial"
ExpiredActive(seen) == seen.plan = "trial" /\ seen.ends = "past" /\ seen.status = "active"
StillTrialUnchecked(o) == TRUE

Expired(seen) == seen.plan = "trial" /\ seen.ends = "past"
StillTrial(o) == o.plan = "trial"

(* UPDATE ... WHERE subscription_plan = 'trial', audited when a row was    *)
(* updated, committed on its own.                                          *)
Downgrade(p) ==
  IF Expired(Seen(p)) /\ StillTrial(org)
  THEN /\ org' = [org EXCEPT !.plan = "free", !.status = "active"]
       /\ downgrades' = downgrades + 1
  ELSE UNCHANGED <<org, downgrades>>

Gate(p) ==
  /\ Doing(p, "gate") /\ Downgrade(p) /\ End(p)
  /\ UNCHANGED <<spent, losses, trials, warned>> /\ UNCHANGED processor /\ UNCHANGED delivery

WarningDue(seen, s) ==
  /\ seen.plan = "trial"
  /\ seen.ends \in (IF s = "t3" THEN {"t3", "t1"} ELSE {"t1"})

Warn(p) ==
  warned' = [s \in Stages |-> IF WarningDue(Seen(p), s) /\ warned[s] = 0 THEN 1 ELSE warned[s]]

SweepTrials ==
  /\ Doing(Sweep, "sweep") /\ Warn(Sweep) /\ Downgrade(Sweep) /\ End(Sweep)
  /\ UNCHANGED <<spent, losses, trials>> /\ UNCHANGED processor /\ UNCHANGED delivery

(* Time left of a trial.  No transaction is open for longer than the       *)
(* shortest stage, one day.                                                *)
Later == [open |-> "t3", t3 |-> "t1", t1 |-> "past"]

Elapse ==
  /\ org.ends \in DOMAIN Later
  /\ \A p \in Processes : tx[p] # Idle => Seen(p).ends = org.ends
  /\ org' = [org EXCEPT !.ends = Later[org.ends]]
  /\ UNCHANGED <<spent, losses, tx>> /\ UNCHANGED processor
  /\ UNCHANGED delivery /\ UNCHANGED history

-----------------------------------------------------------------------------
(* Subscriptions.                                                          *)

AlreadyActive(o) == o.status = "active" /\ o.sub # 0 /\ o.plan = "paid"

StoreSubscription == org' = [org EXCEPT !.sub = subs + 1]

(* initiate_subscription: the processor creates it, its id replaces the    *)
(* stored one and the customer gets the payment link.                      *)
Subscribe(p) ==
  /\ Doing(p, "subscribe") /\ subs < MaxSubs
  /\ StoreSubscription /\ subs' = subs + 1 /\ End(p)
  /\ UNCHANGED <<spent, asks, losses, paid, sent>> /\ UNCHANGED delivery /\ UNCHANGED history

(* The call to the processor failed.                                       *)
Refused(p) ==
  /\ Doing(p, "subscribe") \/ Doing(p, "cancel")
  /\ Reject(p)

Cancellable(o) == o.sub # 0 /\ o.status # "cancelled"

(* At the end of the cycle only the processor acts, and reports it.        *)
Cancel(p) ==
  /\ Doing(p, "cancel")
  /\ \/ Write(p, [Seen(p) EXCEPT !.status = "cancelled"])
     \/ UNCHANGED org
  /\ End(p)
  /\ UNCHANGED <<spent, losses>> /\ UNCHANGED processor /\ UNCHANGED delivery /\ UNCHANGED history

(* The customer pays for a subscription; the processor reports it and what *)
(* becomes of it later.                                                    *)
Report(s, type) ==
  /\ Len(sent) < MaxEvents
  /\ sent' = Append(sent, [sub |-> s, type |-> type])
  /\ UNCHANGED <<org, spent, asks, losses, tx, subs>> /\ UNCHANGED delivery /\ UNCHANGED history

Pay(s) == s \in (1..subs) \ paid /\ paid' = paid \cup {s} /\ Report(s, "activated")
Bill(s, type) == s \in paid /\ UNCHANGED paid /\ Report(s, type)

-----------------------------------------------------------------------------
(* Events of the processor (WebhookHandlerService.handle).  They may       *)
(* arrive in any order, be delivered twice at once, and come again when    *)
(* the answer was lost.                                                    *)

Inserted(e) == recorded[e] # "no"

(* Mutant: the events seen before are not searched.                        *)
UnknownAlways(e) == FALSE

Known(e) == Inserted(e)

(* Mutant: no unique constraint on razorpay_event_id.                      *)
NoConflict(e) == TRUE

Insertable(e) == ~Inserted(e)

(* The handler: a failure after its first assignment keeps that one.       *)
Effect(p, failed) ==
  LET type == sent[tx[p].arg].type
      status == IF type \in DOMAIN EventStatus THEN EventStatus[type] ELSE Seen(p).status
      plan == IF type = "activated" /\ ~failed THEN "paid" ELSE Seen(p).plan
  IN  Write(p, [Seen(p) EXCEPT !.status = status, !.plan = plan])

(* The answer reaches the processor, or it does not.                       *)
Acknowledge(e) ==
  \/ acked' = acked \cup {e} /\ UNCHANGED losses
  \/ losses < MaxLosses /\ losses' = losses + 1 /\ UNCHANGED acked

(* already_processed, or org_not_found: answered with success at once.     *)
Ignore(p, e) ==
  /\ tx[p] = Idle /\ e \in Sent \ acked
  /\ Known(e) \/ org.sub # sent[e].sub
  /\ Acknowledge(e)
  /\ UNCHANGED <<org, spent, tx, recorded, applied>> /\ UNCHANGED processor /\ UNCHANGED history

Deliver(p, e) ==
  /\ e \in Sent \ acked /\ ~Known(e) /\ org.sub = sent[e].sub
  /\ Begin(p, "event", e)

RecordEvent(p) ==
  LET e == tx[p].arg IN
  /\ Doing(p, "event") /\ Insertable(e)
  /\ \E failed \in {f \in BOOLEAN : f => sent[e].type \in {"activated", "charged"}} :
       /\ Effect(p, failed)
       /\ recorded' = [recorded EXCEPT ![e] = IF failed THEN "failed" ELSE "processed"]
  /\ applied' = [applied EXCEPT ![e] = @ + 1]
  /\ Acknowledge(e) /\ End(p)
  /\ UNCHANGED spent /\ UNCHANGED processor /\ UNCHANGED history

(* The other delivery of the event committed first: IntegrityError, an     *)
(* error answer, and the processor delivers again.                         *)
Conflict(p) ==
  /\ Doing(p, "event") /\ Inserted(tx[p].arg)
  /\ Reject(p)

-----------------------------------------------------------------------------
(* Requests that are refused on what they read change nothing, and neither *)
(* does a gate or a sweep that finds nothing to do: they are left out.     *)
Ask(p) ==
  \/ Eligible(org) /\ \E c \in Codes : Begin(p, "redeem", c)
  \/ Expired(org) /\ Begin(p, "gate", 0)
  \/ ~AlreadyActive(org) /\ subs < MaxSubs /\ Begin(p, "subscribe", 0)
  \/ Cancellable(org) /\ Begin(p, "cancel", 0)

SweepDay ==
  /\ Expired(org) \/ \E s \in Stages : WarningDue(org, s)
  /\ Begin(Sweep, "sweep", 0)

Finish(p) ==
  \/ Redeem(p) \/ RedeemRefused(p) \/ Gate(p)
  \/ Subscribe(p) \/ Refused(p) \/ Cancel(p)
  \/ RecordEvent(p) \/ Conflict(p)

Next ==
  \/ \E p \in Requests :
       \/ Ask(p) \/ Finish(p) \/ Lose(p)
       \/ \E e \in Events : Ignore(p, e) \/ Deliver(p, e)
  \/ SweepDay \/ SweepTrials \/ Lose(Sweep)
  \/ Elapse
  \/ \E s \in 1..MaxSubs : Pay(s) \/ \E type \in Types : Bill(s, type)

Spec == Init /\ [][Next]_vars

(* Sessions end, the sweep runs every day, and the processor keeps         *)
(* repeating what is not acknowledged, whatever else the server is doing.  *)
FairSpec ==
  /\ Spec
  /\ \A p \in Requests : WF_vars(Finish(p))
  /\ WF_vars(SweepDay) /\ WF_vars(SweepTrials)
  /\ SF_vars(\E p \in Requests, e \in Events : Ignore(p, e) \/ Deliver(p, e))

-----------------------------------------------------------------------------
(* Properties.                                                             *)

(* Every spent code bought a trial: a code is claimed in the transaction   *)
(* that starts the trial, and never by an organization that is refused,    *)
(* however many redemptions overlap.                                       *)
CodesBuyTrials == Cardinality(spent) = trials

(* Gate and sweep together end each trial once: one audit row per trial    *)
(* that ended, although both decide on a row they read before.             *)
DowngradedOnce == downgrades + (IF org.plan = "trial" THEN 1 ELSE 0) <= trials

(* The handler of an event takes effect at most once, whether its          *)
(* deliveries overlap, its answer was lost or it failed halfway.           *)
AppliedOnce == \A e \in Events : applied[e] <= 1

(* An event acknowledged without a row belongs to a subscription whose id  *)
(* a later subscribe replaced: nothing else is answered org_not_found.     *)
IgnoredWasReplaced == \A e \in acked \cap Sent : recorded[e] = "no" => sent[e].sub < org.sub

(* Each warning is queued once, although the sweep runs on every day of    *)
(* its window and may be lost and repeated.                                *)
WarnedOnce == \A s \in Stages : warned[s] <= 1

(* Only the end of the trial takes it away: no gate and no sweep downgrades *)
(* a trial that still runs, although the UPDATE looks at the plan alone.    *)
NoEarlyDowngrade ==
  [][org.plan = "trial" /\ org'.plan = "free" => org.ends = "past"]_vars

(* A paid plan is never lost to a downgrade decided while the payment was   *)
(* arriving; only a redemption that read the Free plan before overwrites it.*)
PaidKept ==
  [][org.plan = "paid" /\ org'.plan # "paid" =>
       org'.plan = "trial" /\ \E p \in Requests : Doing(p, "redeem") /\ Seen(p).plan = "free"]_vars

(* A trial that is over ends, also when nobody sends a request.            *)
TrialEnds == []<>~(org.plan = "trial" /\ org.ends = "past")

(* The processor gets an answer for every event, in spite of conflicts     *)
(* between deliveries and of lost answers.                                 *)
EventsAnswered == []<>(Sent \subseteq acked)
===============================================================================
