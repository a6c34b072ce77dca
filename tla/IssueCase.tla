------------------------------- MODULE IssueCase -------------------------------
(***************************************************************************)
(* One issue with its status, its transition log and its two SLA clocks    *)
(* (response and resolution).  Users move it along the graph through the   *)
(* API, an external tracker (Jira, Linear) moves it by webhook deliveries, *)
(* and breach checks run from the hourly job, a manual request and the     *)
(* compliance bot.                                                         *)
(*                                                                         *)
(* A transition selects the row FOR UPDATE.  An inbound delivery has the   *)
(* issue in its session by then, and the locked select does not refresh    *)
(* it: the delivery decides on the status it loaded first.  The SLA row is *)
(* read without a lock; each transaction updates the columns it changed.   *)
(***************************************************************************)
EXTENDS Integers, Sequences, FiniteSets

CONSTANTS
  Users, Deliveries,   \* request handlers: API, inbound webhooks
  Events,              \* external events, named by the status they map to
  Checkers,            \* callers of check_sla_breaches
  ResponseDue, ResolutionDue,  \* hours after creation
  RequireRca,          \* OrgIssueSettings.require_rca_before_close
  MaxClock,            \* bound: hours
  MaxFaults            \* bound: transactions rolled back

Status == {"open", "investigating", "mitigating", "resolved", "closed"}
ALLOWED_TRANSITIONS ==
  [open |-> "investigating", investigating |-> "mitigating",
   mitigating |-> "resolved", resolved |-> "closed", closed |-> "none"]

ASSUME PartiesAssumption == Users \cap Deliveries = {} /\ Events \subseteq Status
ASSUME HoursAssumption ==
  /\ ResponseDue \in Nat /\ ResolutionDue \in Nat /\ MaxClock \in Nat /\ MaxFaults \in Nat
  /\ RequireRca \in BOOLEAN /\ IsFiniteSet(Checkers)

VARIABLES
  clock,     \* hours since the issue was created
  issue,     \* issues row
  rca,       \* a root_cause_analyses row exists
  history,   \* issue_transitions, in commit order
  sla,       \* issue_sla_tracking: sla["response"], sla["resolution"]
  notices,   \* notices[c]: breach emails queued for clock c
  recorded,  \* external events with an ExternalSyncEvent
  tx,        \* transactions of users and deliveries
  check,     \* breach checks
  faults,
  stale      \* transitions of deliveries whose issue had changed meanwhile

vars == <<clock, issue, rca, history, sla, notices, recorded, tx, check, faults, stale>>

Clocks == {"response", "resolution"}
Due(c) == IF c = "response" THEN ResponseDue ELSE ResolutionDue
Null == -1
Requests == Users \cup Deliveries

IdleTx == [pc |-> "idle", seen |-> "open", to |-> "open", marks |-> {}]
IdleCheck == [pc |-> "idle", now |-> 0, flagged |-> {}]

Transaction ==
  [pc : {"idle", "deleting", "loaded", "locked"}, seen : Status, to : Status, marks : SUBSET Clocks]
Check == [pc : {"idle", "response", "resolution"}, now : 0..MaxClock, flagged : SUBSET Clocks]

TypeOK ==
  /\ clock \in 0..MaxClock
  /\ issue \in [status : Status, deleted : BOOLEAN]
  /\ rca \in BOOLEAN
  /\ history \in Seq([from : Status, to : Status])
  /\ sla \in [Clocks -> [met : {Null} \cup (0..MaxClock), breached : BOOLEAN]]
  /\ notices \in [Clocks -> Nat]
  /\ recorded \subseteq Events
  /\ tx \in [Requests -> Transaction] /\ check \in [Checkers -> Check]
  /\ \A d \in Deliveries : tx[d].pc # "idle" => tx[d].to \in Events
  /\ faults \in 0..MaxFaults /\ stale \in Nat

(* create_issue, with its tracking in the same transaction.                *)
Init ==
  /\ clock = 0
  /\ issue = [status |-> "open", deleted |-> FALSE]
  /\ rca = FALSE /\ history = <<>>
  /\ sla = [c \in Clocks |-> [met |-> Null, breached |-> FALSE]]
  /\ notices = [c \in Clocks |-> 0]
  /\ recorded = {}
  /\ tx = [p \in Requests |-> IdleTx] /\ check = [k \in Checkers |-> IdleCheck]
  /\ faults = 0 /\ stale = 0

Elapse ==
  /\ clock < MaxClock /\ clock' = clock + 1
  /\ UNCHANGED <<issue, rca, history, sla, notices, recorded, tx, check, faults, stale>>

-----------------------------------------------------------------------------
(* Transitions.                                                            *)

Held == \E p \in Requests : tx[p].pc = "locked"
Goto(p, to) == tx' = [tx EXCEPT ![p] = to]

(* mark_response_met and mark_resolution_met, on the tracking row as read. *)
Marks(from, to) ==
  {c \in Clocks :
     /\ \/ c = "response" /\ from = "open" /\ to = "investigating"
        \/ c = "resolution" /\ to = "resolved"
     /\ ~sla[c].breached /\ sla[c].met = Null}

Lock(p, from, to) ==
  /\ ~Held
  /\ Goto(p, [pc |-> "locked", seen |-> from, to |-> to, marks |-> Marks(from, to)])
  /\ UNCHANGED <<clock, issue, rca, history, sla, notices, recorded, check, faults, stale>>

(* Mutants: the row is not locked; a closed issue is not refused.          *)
TransitionUnlocked(u) ==
  /\ tx[u].pc = "idle" /\ ~issue.deleted /\ issue.status # "closed"
  /\ LET to == ALLOWED_TRANSITIONS[issue.status] IN
     /\ to = "closed" /\ RequireRca => rca
     /\ Goto(u, [pc |-> "locked", seen |-> issue.status, to |-> to, marks |-> Marks(issue.status, to)])
  /\ UNCHANGED <<clock, issue, rca, history, sla, notices, recorded, check, faults, stale>>

(* transition_issue for a user; refused requests change nothing.           *)
Transition(u) ==
  /\ tx[u].pc = "idle" /\ ~issue.deleted
  /\ issue.status # "closed"
  /\ LET to == ALLOWED_TRANSITIONS[issue.status] IN
     /\ to = "closed" /\ RequireRca => rca
     /\ Lock(u, issue.status, to)

(* Its flushes and the commit.  A delivery records its event with it, or   *)
(* finds it recorded by an overlapping delivery and commits all the same.  *)
Commit(p) ==
  /\ tx[p].pc = "locked"
  /\ issue' = [issue EXCEPT !.status = tx[p].to]
  /\ history' = Append(history, [from |-> tx[p].seen, to |-> tx[p].to])
  /\ sla' = [c \in Clocks |-> IF c \in tx[p].marks THEN [sla[c] EXCEPT !.met = clock] ELSE sla[c]]
  /\ recorded' = IF p \in Deliveries THEN recorded \cup {tx[p].to} ELSE recorded
  /\ stale' = IF p \in Deliveries /\ tx[p].seen # issue.status THEN stale + 1 ELSE stale
  /\ Goto(p, IdleTx)
  /\ UNCHANGED <<clock, rca, notices, check, faults>>

(* create_rca; the second of two overlapping calls gets a 409.             *)
CreateRca ==
  /\ ~rca /\ ~issue.deleted /\ issue.status \in {"resolved", "closed"}
  /\ rca' = TRUE
  /\ UNCHANGED <<clock, issue, history, sla, notices, recorded, tx, check, faults, stale>>

(* soft_delete_issue: the check reads the row without locking it.          *)
DeleteStart(u) ==
  /\ tx[u].pc = "idle" /\ ~issue.deleted /\ issue.status = "open"
  /\ Goto(u, [IdleTx EXCEPT !.pc = "deleting"])
  /\ UNCHANGED <<clock, issue, rca, history, sla, notices, recorded, check, faults, stale>>

Delete(u) ==
  /\ tx[u].pc = "deleting" /\ ~Held
  /\ issue' = [issue EXCEPT !.deleted = TRUE]
  /\ Goto(u, IdleTx)
  /\ UNCHANGED <<clock, rca, history, sla, notices, recorded, check, faults, stale>>

-----------------------------------------------------------------------------
(* Inbound synchronisation.                                                *)

(* _process_inbound_common: an event that is not recorded yet; the linked  *)
(* issue is loaded.                                                        *)
Deliver(d, e) ==
  /\ tx[d].pc = "idle" /\ e \notin recorded /\ ~issue.deleted
  /\ Goto(d, [pc |-> "loaded", seen |-> issue.status, to |-> e, marks |-> {}])
  /\ UNCHANGED <<clock, issue, rca, history, sla, notices, recorded, check, faults, stale>>

(* The status is the one the issue was loaded with: only the event.        *)
RecordOnly(d) ==
  /\ tx[d].pc = "loaded" /\ tx[d].to = tx[d].seen
  /\ recorded' = recorded \cup {tx[d].to}
  /\ Goto(d, IdleTx)
  /\ UNCHANGED <<clock, issue, rca, history, sla, notices, check, faults, stale>>

(* The graph allows the mapped status after the one it was loaded with;    *)
(* closing needs a resolution note, which a delivery does not carry.       *)
Acceptable(d) ==
  ALLOWED_TRANSITIONS[tx[d].seen] = tx[d].to /\ tx[d].to # "closed" /\ ~issue.deleted

(* _apply_inbound_issue_status: transition_issue on the loaded copy.       *)
Apply(d) ==
  /\ tx[d].pc = "loaded" /\ tx[d].to # tx[d].seen /\ Acceptable(d)
  /\ Lock(d, tx[d].seen, tx[d].to)

(* 404 or 422: nothing is kept, not even the event; the tracker retries.   *)
Refuse(d) ==
  /\ tx[d].pc = "loaded" /\ tx[d].to # tx[d].seen /\ ~Held /\ ~Acceptable(d)
  /\ Goto(d, IdleTx)
  /\ UNCHANGED <<clock, issue, rca, history, sla, notices, recorded, check, faults, stale>>

-----------------------------------------------------------------------------
(* check_sla_breaches: two selects, then one flush and the commit.         *)

Watched(c) == IF c = "response" THEN {"open"} ELSE {"open", "investigating", "mitigating"}

(* Mutants: the hour of the deadline counts; breached rows are selected    *)
(* again; the filters on the row and on the status are dropped.            *)
OverdueEarly(c, now) ==
  /\ Due(c) <= now /\ ~sla[c].breached /\ sla[c].met = Null
  /\ issue.status \in Watched(c) /\ ~issue.deleted
OverdueAgain(c, now) ==
  /\ Due(c) < now /\ sla[c].met = Null
  /\ issue.status \in Watched(c) /\ ~issue.deleted
OverdueMet(c, now) ==
  Due(c) < now /\ ~sla[c].breached /\ ~issue.deleted

Overdue(c, now) ==
  /\ Due(c) < now /\ ~sla[c].breached /\ sla[c].met = Null
  /\ issue.status \in Watched(c) /\ ~issue.deleted

CheckStart(k) ==
  /\ check[k].pc = "idle"
  /\ check' = [check EXCEPT ![k] =
       [pc |-> "response", now |-> clock,
        flagged |-> IF Overdue("response", clock) THEN {"response"} ELSE {}]]
  /\ UNCHANGED <<clock, issue, rca, history, sla, notices, recorded, tx, faults, stale>>

(* Mutant: the second select replaces the first one's rows.                *)
CheckResolutionReplaces(k) ==
  /\ check[k].pc = "response"
  /\ check' = [check EXCEPT ![k].pc = "resolution",
                 ![k].flagged = IF Overdue("resolution", check[k].now) THEN {"resolution"} ELSE {}]
  /\ UNCHANGED <<clock, issue, rca, history, sla, notices, recorded, tx, faults, stale>>

CheckResolution(k) ==
  /\ check[k].pc = "response"
  /\ check' = [check EXCEPT ![k].pc = "resolution",
                 ![k].flagged = IF Overdue("resolution", check[k].now) THEN @ \cup {"resolution"} ELSE @]
  /\ UNCHANGED <<clock, issue, rca, history, sla, notices, recorded, tx, faults, stale>>

CheckCommit(k) ==
  /\ check[k].pc = "resolution"
  /\ sla' = [c \in Clocks |-> IF c \in check[k].flagged THEN [sla[c] EXCEPT !.breached = TRUE] ELSE sla[c]]
  /\ notices' = [c \in Clocks |-> IF c \in check[k].flagged THEN notices[c] + 1 ELSE notices[c]]
  /\ check' = [check EXCEPT ![k] = IdleCheck]
  /\ UNCHANGED <<clock, issue, rca, history, recorded, tx, faults, stale>>

-----------------------------------------------------------------------------
(* A transaction fails or its process dies before the commit.              *)
Rollback ==
  /\ faults < MaxFaults /\ faults' = faults + 1
  /\ \/ \E p \in Requests : tx[p].pc # "idle" /\ Goto(p, IdleTx) /\ UNCHANGED check
     \/ \E k \in Checkers : /\ check[k].pc # "idle"
                            /\ check' = [check EXCEPT ![k] = IdleCheck] /\ UNCHANGED tx
  /\ UNCHANGED <<clock, issue, rca, history, sla, notices, recorded, stale>>

Checking(k) == CheckStart(k) \/ CheckResolution(k) \/ CheckCommit(k)

Next ==
  \/ Elapse \/ CreateRca \/ Rollback
  \/ \E u \in Users : Transition(u) \/ DeleteStart(u) \/ Delete(u)
  \/ \E d \in Deliveries : (\E e \in Events : Deliver(d, e)) \/ RecordOnly(d) \/ Apply(d) \/ Refuse(d)
  \/ \E p \in Requests : Commit(p)
  \/ \E k \in Checkers : Checking(k)

Spec == Init /\ [][Next]_vars

(* The checks run every hour.                                              *)
FairSpec == Spec /\ \A k \in Checkers : WF_vars(Checking(k))

-----------------------------------------------------------------------------
(* Properties.                                                             *)

Done == {"resolved", "closed"}

(* Each transition starts where the one before it ended: two requests for  *)
(* the same step never both apply.                                         *)
HistoryChains ==
  /\ \A i \in 1..Len(history) - 1 : history[i + 1].from = history[i].to
  /\ history # <<>> => history[Len(history)].to = issue.status

(* Without a delivery that decided on an old status, the log chains, and   *)
(* the resolution clock stops only with the issue resolved.                *)
SerialWithoutStale ==
  stale = 0 => HistoryChains /\ (sla["resolution"].met # Null => issue.status \in Done)

(* What was done within its hours is never reported as a breach, whatever  *)
(* a check read before or after.                                           *)
OnTimeNotBreached ==
  \A c \in Clocks : sla[c].breached => sla[c].met = Null \/ sla[c].met > Due(c)

(* A breach is reported at most once by each check that overlaps the first *)
(* report, and a breach is never silent.                                   *)
NotifiedPerChecker ==
  \A c \in Clocks :
    /\ notices[c] <= Cardinality(Checkers)
    /\ sla[c].breached <=> notices[c] > 0

(* A resolved issue has settled its resolution clock, one way or other,    *)
(* and an issue that has left open its response clock.                     *)
ClocksSettle ==
  /\ issue.status \in Done => sla["resolution"].breached \/ sla["resolution"].met # Null
  /\ issue.status # "open" => sla["response"].breached \/ sla["response"].met # Null

(* The issue keeps what escalation policies rely on (IssueView).           *)
View == INSTANCE IssueView WITH
  hour <- clock,
  LastHour <- MaxClock,
  FirstDue <- IF ResponseDue < ResolutionDue THEN ResponseDue ELSE ResolutionDue,
  unresolved <- issue.status \notin Done,
  breached <- \E c \in Clocks : sla[c].breached,
  deleted <- issue.deleted
ImplementsView == View!ViewSpec

(* An overdue clock is reported, or stops being overdue.                   *)
BreachReported == \A c \in Clocks : Overdue(c, clock) ~> ~Overdue(c, clock)
===============================================================================
