----------------------------- MODULE EmailOutbox -----------------------------
(***************************************************************************)
(* The email_outbox table and the three parties that write it: the flush   *)
(* job (EmailOutboxFlushService.flush, one database transaction per batch, *)
(* rows claimed FOR UPDATE SKIP LOCKED), external workers that lease rows  *)
(* over REST (EmailWorkerService), and the operators' REST handlers, which *)
(* load a row without a lock and write the columns they changed.           *)
(*                                                                         *)
(* Time is abstract: next_attempt_at and scheduled_at are one flag "due",  *)
(* lock_expires_at is a lease that is live until it expires, and the 24 h  *)
(* window of the send cap is an epoch.                                     *)
(***************************************************************************)
EXTENDS Integers, Sequences, FiniteSets, TLC

CONSTANTS
  MaxMsgs,     \* bound: emails queued
  Flushers,    \* flush runs that may overlap (one per process)
  Workers,     \* external worker ids
  Requests,    \* REST requests that may be in progress at once
  Ops,         \* the operator handlers in use
  Batch,       \* rows per flush (50)
  MaxAttempts, \* max_attempts of a row, and the flush's hard limit
  DailyLimit,  \* OrgEmailConfig.daily_send_limit
  MaxFaults,   \* bound: flush runs that roll back
  MaxExpiries, \* bound: leases that expire
  MaxOps       \* bound: operator requests

ASSUME OutboxAssumption ==
  /\ MaxMsgs \in Nat /\ Batch \in Nat \ {0} /\ MaxAttempts \in Nat \ {0} /\ DailyLimit \in Nat \ {0}
  /\ MaxFaults \in Nat /\ MaxExpiries \in Nat /\ MaxOps \in Nat
ASSUME OpsAssumption == Ops \subseteq {"cancel", "mark_sent", "mark_failed", "dead_letter"}

None == "none"

ASSUME PartiesAssumption ==
  IsFiniteSet(Flushers) /\ IsFiniteSet(Workers) /\ IsFiniteSet(Requests) /\ None \notin Workers

VARIABLES
  outbox,      \* the committed rows, in created_at order
  quota,       \* the committed OrgEmailConfig counter: [count, epoch]
  batch,       \* batch[f]: claimed rows f has not processed yet
  draft,       \* draft[f]: the rows f holds locked, as its session has them
  view,        \* view[f]: f's last quota check and its uncommitted count
  job,         \* job[w][m]: what w knows of a row it claimed
  req,         \* req[r]: the request in progress
  epoch,       \* current quota window
  delivered,   \* delivered[m]: copies of m a provider accepted
  tries,       \* tries[m]: attempts to hand m to a provider
  spent,       \* flush deliveries in the current window
  faults, expiries, ops   \* bounded counters

vars == <<outbox, quota, batch, draft, view, job, req, epoch, delivered, tries, spent,
          faults, expiries, ops>>

Msgs == 1..MaxMsgs
Ids == 1..Len(outbox)

Statuses == {"draft", "pending", "processing", "sent", "failed", "cancelled", "skipped", "dead_letter"}
Settled == {"sent", "cancelled", "skipped", "dead_letter"}

Row == [status : Statuses, due : BOOLEAN, lease : {"none", "live", "expired"},
        owner : Workers \cup {None}, attempts : Nat, retries : Nat]

Counter == [count : Nat, epoch : {0, 1}]
View == [verdict : {"none", "allowed", "over"}, dirty : BOOLEAN, val : Counter]
NoView == [verdict |-> "none", dirty |-> FALSE, val |-> [count |-> 0, epoch |-> 0]]
NoReq == [op |-> None]

Request == [op : Ops \cup {"complete", "fail"}, msg : Msgs, loaded : Row, wanted : Row]

TypeOK ==
  /\ outbox \in Seq(Row) /\ Len(outbox) <= MaxMsgs
  /\ quota \in Counter /\ epoch \in {0, 1}
  /\ batch \in [Flushers -> Seq(Msgs)] /\ view \in [Flushers -> View]
  /\ DOMAIN draft = Flushers
  /\ \A f \in Flushers : DOMAIN draft[f] \subseteq Ids /\ draft[f] \in [DOMAIN draft[f] -> Row]
  /\ job \in [Workers -> [Msgs -> {"none", "claimed", "delivered", "undelivered"}]]
  /\ req \in [Requests -> Request \cup {NoReq}]
  /\ delivered \in [Msgs -> Nat] /\ tries \in [Msgs -> Nat] /\ spent \in Nat
  /\ faults \in Nat /\ expiries \in Nat /\ ops \in Nat

Init ==
  /\ outbox = << >>
  /\ quota = [count |-> 0, epoch |-> 1]
  /\ batch = [f \in Flushers |-> << >>]
  /\ draft = [f \in Flushers |-> << >>]
  /\ view = [f \in Flushers |-> NoView]
  /\ job = [w \in Workers |-> [m \in Msgs |-> "none"]]
  /\ req = [r \in Requests |-> NoReq]
  /\ epoch = 0
  /\ delivered = [m \in Msgs |-> 0]
  /\ tries = [m \in Msgs |-> 0]
  /\ spent = 0
  /\ faults = 0 /\ expiries = 0 /\ ops = 0

(* Rows locked by a flush transaction: other writers wait for its end. *)
RowLocked(m) == \E f \in Flushers : m \in DOMAIN draft[f]

SendState == <<delivered, tries>>
FlushState == <<batch, draft, view, quota, spent, faults>>
Rest == <<job, expiries>>
RestState == <<req, ops>>

-----------------------------------------------------------------------------
(* Queueing (EmailService.queue_email) and the passage of time.            *)

(* "skipped": the recipient is a system account or muted the notification. *)
Queue(status, due) ==
  /\ Len(outbox) < MaxMsgs
  /\ outbox' = Append(outbox, [status |-> status, due |-> due, lease |-> "none", owner |-> None,
                               attempts |-> 0, retries |-> 0])
  /\ UNCHANGED <<SendState, FlushState, Rest, RestState, epoch>>

(* next_attempt_at or scheduled_at is reached. *)
Elapse(m) ==
  /\ m \in Ids /\ ~outbox[m].due
  /\ outbox' = [outbox EXCEPT ![m].due = TRUE]
  /\ UNCHANGED <<SendState, FlushState, Rest, RestState, epoch>>

(* lock_expires_at is reached. *)
ExpireLease(m) ==
  /\ m \in Ids /\ outbox[m].lease = "live"
  /\ expiries < MaxExpiries
  /\ expiries' = expiries + 1
  /\ outbox' = [outbox EXCEPT ![m].lease = "expired"]
  /\ UNCHANGED <<SendState, FlushState, RestState, job, epoch>>

(* sent_today_reset_at is reached.  A window opens with its first send and *)
(* lasts 24 h, so no flush sees more than one of them close.               *)
CloseWindow ==
  /\ quota.epoch = epoch
  /\ \A f \in Flushers : view[f] = NoView \/ view[f].val.epoch = epoch
  /\ epoch' = 1 - epoch
  /\ spent' = 0
  /\ UNCHANGED <<SendState, outbox, quota, batch, draft, view, faults, Rest, RestState>>

-----------------------------------------------------------------------------
(* The flush job.                                                          *)

Waiting(m) == outbox[m].status \in {"pending", "failed"} /\ outbox[m].due

(* Mutant: the SELECT without FOR UPDATE SKIP LOCKED. *)
ClaimableUnlocked(m) == Waiting(m) /\ outbox[m].lease # "live"

Claimable(m) == Waiting(m) /\ outbox[m].lease # "live" /\ ~RowLocked(m)

(* The first n members of a set of rows, oldest first. *)
Rank(m, ids) == Cardinality({k \in ids : k < m})
Oldest(ids, n) ==
  LET firsts == {m \in ids : Rank(m, ids) < n}
  IN  [i \in 1..Cardinality(firsts) |-> CHOOSE m \in firsts : Rank(m, ids) = i - 1]

(* One run starts: claim_statement locks its rows for the transaction. *)
FlushStart(f) ==
  LET mine == Oldest({m \in Ids : Claimable(m)}, Batch)
  IN /\ draft[f] = << >>
     /\ mine # << >>
     /\ batch' = [batch EXCEPT ![f] = mine]
     /\ draft' = [draft EXCEPT ![f] = [m \in {mine[k] : k \in DOMAIN mine} |-> outbox[m]]]
     /\ UNCHANGED <<SendState, outbox, view, quota, spent, faults, Rest, RestState, epoch>>

(* The counter a flush reads: its own uncommitted count, or the committed. *)
Seen(f) == IF view[f].dirty THEN view[f].val ELSE quota

(* Mutants: one too many; a window that never rolls over. *)
AllowedAtLimit(c) == c.epoch # epoch \/ c.count <= DailyLimit
AllowedForever(c) == c.count < DailyLimit

Allowed(c) == c.epoch # epoch \/ c.count < DailyLimit

(* record_sent: one UPDATE that rolls the window over and counts.  It      *)
(* waits for a transaction that holds the counter's row.                   *)
Bump(c) == IF c.epoch # epoch THEN [count |-> 1, epoch |-> epoch] ELSE [c EXCEPT !.count = @ + 1]

RecordSent(f) ==
  /\ \A g \in Flushers \ {f} : ~view[g].dirty
  /\ view' = [view EXCEPT ![f] = [verdict |-> "none", dirty |-> TRUE, val |-> Bump(Seen(f))]]

Checked(f) == view' = [view EXCEPT ![f].verdict = "none"]

(* Mutant: one attempt too many. *)
ExhaustedLate(row) == row.retries > MaxAttempts \/ row.attempts > MaxAttempts

Exhausted(row) == row.retries >= MaxAttempts \/ row.attempts >= MaxAttempts

(* The next row of f's batch becomes `row` in f's session. *)
Process(f, row) ==
  /\ batch[f] # << >>
  /\ draft' = [draft EXCEPT ![f][Head(batch[f])] = row]
  /\ batch' = [batch EXCEPT ![f] = Tail(@)]
  /\ UNCHANGED <<outbox, quota, faults, Rest, RestState, epoch>>

Current(f) == outbox[Head(batch[f])]

(* The recipient muted the notification since it was queued. *)
Suppress(f) ==
  /\ batch[f] # << >> /\ view[f].verdict = "none"
  /\ Process(f, [Current(f) EXCEPT !.status = "skipped", !.due = TRUE])
  /\ UNCHANGED <<SendState, view, spent>>

(* Out of attempts: marked failed, and still due. *)
GiveUp(f) ==
  /\ batch[f] # << >> /\ Exhausted(Current(f))
  /\ Process(f, [Current(f) EXCEPT !.status = "failed"])
  /\ UNCHANGED <<SendState, view, spent>>

(* check_quota, before the send and not repeated after it. *)
CheckQuota(f) ==
  /\ batch[f] # << >> /\ view[f].verdict = "none" /\ ~Exhausted(Current(f))
  /\ view' = [view EXCEPT ![f].verdict = IF Allowed(Seen(f)) THEN "allowed" ELSE "over", ![f].val = Seen(f)]
  /\ UNCHANGED <<SendState, outbox, batch, draft, quota, spent, faults, Rest, RestState, epoch>>

(* Over the cap: deferred to the next window. *)
Defer(f) ==
  /\ view[f].verdict = "over"
  /\ Checked(f)
  /\ Process(f, [Current(f) EXCEPT !.status = "pending", !.due = FALSE, !.lease = "none", !.owner = None])
  /\ UNCHANGED <<SendState, spent>>

Attempted(row) == [row EXCEPT !.attempts = @ + 1, !.lease = "none", !.owner = None]

SendOk(f) ==
  /\ view[f].verdict = "allowed"
  /\ RecordSent(f)
  /\ Process(f, [Attempted(Current(f)) EXCEPT !.status = "sent", !.due = TRUE])
  /\ delivered' = [delivered EXCEPT ![Head(batch[f])] = @ + 1]
  /\ tries' = [tries EXCEPT ![Head(batch[f])] = @ + 1]
  /\ spent' = spent + 1

SendFail(f) ==
  LET row == [Attempted(Current(f)) EXCEPT !.retries = @ + 1]
      last == row.retries >= MaxAttempts
  IN /\ view[f].verdict = "allowed"
     /\ Checked(f)
     /\ Process(f, [row EXCEPT !.status = IF last THEN "failed" ELSE "pending", !.due = last])
     /\ tries' = [tries EXCEPT ![Head(batch[f])] = @ + 1]
     /\ UNCHANGED <<delivered, spent>>

(* The job commits the whole batch and its counter. *)
FlushCommit(f) ==
  /\ batch[f] = << >> /\ draft[f] # << >>
  /\ outbox' = [m \in Ids |-> IF m \in DOMAIN draft[f] THEN draft[f][m] ELSE outbox[m]]
  /\ quota' = IF view[f].dirty THEN view[f].val ELSE quota
  /\ draft' = [draft EXCEPT ![f] = << >>]
  /\ view' = [view EXCEPT ![f] = NoView]
  /\ UNCHANGED <<SendState, batch, spent, faults, Rest, RestState, epoch>>

(* The process dies, or anything but a ClientError is raised: the batch is *)
(* rolled back, the emails it sent stay sent.                              *)
FlushAbort(f) ==
  /\ draft[f] # << >>
  /\ faults < MaxFaults
  /\ faults' = faults + 1
  /\ batch' = [batch EXCEPT ![f] = << >>]
  /\ draft' = [draft EXCEPT ![f] = << >>]
  /\ view' = [view EXCEPT ![f] = NoView]
  /\ UNCHANGED <<SendState, outbox, quota, spent, Rest, RestState, epoch>>

-----------------------------------------------------------------------------
(* External workers.                                                       *)

(* Mutant: the claim without FOR UPDATE. *)
WorkerClaimUnlocked(w, n) ==
  LET won == Oldest({m \in Ids : Waiting(m)}, n)
      mine == {won[k] : k \in DOMAIN won}
  IN /\ mine # {}
     /\ outbox' = [m \in Ids |-> IF m \in mine
                     THEN [outbox[m] EXCEPT !.status = "processing", !.lease = "live", !.owner = w]
                     ELSE outbox[m]]
     /\ job' = [job EXCEPT ![w] = [m \in Msgs |-> IF m \in mine THEN "claimed" ELSE @[m]]]
     /\ UNCHANGED <<SendState, FlushState, RestState, expiries, epoch>>

(* claim_pending_emails: FOR UPDATE, so a row a flush holds is waited for. *)
WorkerClaim(w, n) ==
  LET won == Oldest({m \in Ids : Waiting(m)}, n)
      mine == {won[k] : k \in DOMAIN won}
  IN /\ mine # {} /\ \A m \in mine : ~RowLocked(m)
     /\ outbox' = [m \in Ids |-> IF m \in mine
                     THEN [outbox[m] EXCEPT !.status = "processing", !.lease = "live", !.owner = w]
                     ELSE outbox[m]]
     /\ job' = [job EXCEPT ![w] = [m \in Msgs |-> IF m \in mine THEN "claimed" ELSE @[m]]]
     /\ UNCHANGED <<SendState, FlushState, RestState, expiries, epoch>>

(* The worker hands the email to its own provider. *)
WorkerSend(w, m, ok) ==
  /\ job[w][m] = "claimed"
  /\ job' = [job EXCEPT ![w][m] = IF ok THEN "delivered" ELSE "undelivered"]
  /\ tries' = [tries EXCEPT ![m] = @ + 1]
  /\ delivered' = [delivered EXCEPT ![m] = IF ok THEN @ + 1 ELSE @]
  /\ UNCHANGED <<outbox, FlushState, RestState, expiries, epoch>>

Unleased(row) == [row EXCEPT !.lease = "none", !.owner = None]

DeadLetter(row) == [Unleased(row) EXCEPT !.status = "dead_letter", !.due = TRUE]

(* Mutant: an expired lease counts as done. *)
ReleaseAsSent(row) == [Unleased(row) EXCEPT !.status = "sent"]

(* release_expired_locks. *)
Release(row) ==
  IF row.attempts >= MaxAttempts THEN DeadLetter(row)
  ELSE [Unleased(row) EXCEPT !.status = "failed", !.due = TRUE]

ReleaseExpired ==
  LET stale == {m \in Ids : outbox[m].status = "processing" /\ outbox[m].lease = "expired"}
  IN /\ stale # {}
     /\ outbox' = [m \in Ids |-> IF m \in stale THEN Release(outbox[m]) ELSE outbox[m]]
     /\ UNCHANGED <<SendState, FlushState, Rest, RestState, epoch>>

-----------------------------------------------------------------------------
(* REST handlers that load a row, change it and commit: the row they       *)
(* checked is the one they loaded, and only the columns whose value        *)
(* changed are written.                                                    *)

(* _require_processing_lock. *)
LeasedBy(row, w) == row.status = "processing" /\ row.owner = w

Completed(row) == [Unleased(row) EXCEPT !.status = "sent"]

FailedByWorker(row) ==
  LET counted == [row EXCEPT !.attempts = @ + 1]
  IN  IF counted.attempts >= MaxAttempts THEN DeadLetter(counted)
      ELSE [Unleased(counted) EXCEPT !.status = "failed", !.due = FALSE]

(* What each operator handler accepts, and the row it wants. *)
Accepts(op, row) ==
  \/ op \in {"mark_sent", "mark_failed"}
  \/ op = "cancel" /\ row.status \in {"draft", "pending", "failed"}
  \/ op = "dead_letter" /\ row.status \notin {"sent", "cancelled"}

Wanted(op, row) ==
  CASE op = "cancel"      -> [row EXCEPT !.status = "cancelled"]
    [] op = "mark_sent"   -> [row EXCEPT !.status = "sent"]
    [] op = "mark_failed" -> [row EXCEPT !.status = "failed", !.attempts = @ + 1]
    [] op = "dead_letter" -> DeadLetter(row)

Load(r, op, m, wanted) ==
  /\ req[r] = NoReq
  /\ req' = [req EXCEPT ![r] = [op |-> op, msg |-> m, loaded |-> outbox[m], wanted |-> wanted]]
  /\ UNCHANGED <<SendState, FlushState, outbox, expiries, epoch>>

OperatorLoad(r, op, m) ==
  /\ m \in Ids /\ Accepts(op, outbox[m])
  /\ ops < MaxOps /\ ops' = ops + 1
  /\ Load(r, op, m, Wanted(op, outbox[m]))
  /\ UNCHANGED job

(* complete_email and fail_email; a report that is refused is dropped. *)
WorkerReport(r, w, m) ==
  /\ job[w][m] \in {"delivered", "undelivered"}
  /\ job' = [job EXCEPT ![w][m] = "none"]
  /\ UNCHANGED ops
  /\ \/ /\ LeasedBy(outbox[m], w) /\ job[w][m] = "delivered"
        /\ Load(r, "complete", m, Completed(outbox[m]))
     \/ /\ LeasedBy(outbox[m], w) /\ job[w][m] = "undelivered"
        /\ Load(r, "fail", m, FailedByWorker(outbox[m]))
     \/ /\ ~LeasedBy(outbox[m], w)
        /\ UNCHANGED <<SendState, FlushState, outbox, req, expiries, epoch>>

(* The UPDATE of the changed columns, over whatever the row holds now. *)
Overlay(row, loaded, wanted) ==
  [c \in DOMAIN row |-> IF wanted[c] # loaded[c] THEN wanted[c] ELSE row[c]]

Commit(r) ==
  /\ req[r] # NoReq
  /\ ~RowLocked(req[r].msg)
  /\ outbox' = [outbox EXCEPT ![req[r].msg] = Overlay(@, req[r].loaded, req[r].wanted)]
  /\ req' = [req EXCEPT ![r] = NoReq]
  /\ UNCHANGED <<SendState, FlushState, Rest, ops, epoch>>

-----------------------------------------------------------------------------
FlushStep(f) ==
  \/ FlushStart(f) \/ Suppress(f) \/ GiveUp(f) \/ CheckQuota(f) \/ Defer(f) \/ SendOk(f) \/ SendFail(f)
  \/ FlushCommit(f)

Next ==
  \/ \E status \in {"draft", "pending", "skipped"}, due \in BOOLEAN : Queue(status, due)
  \/ \E m \in Msgs : Elapse(m) \/ ExpireLease(m)
  \/ CloseWindow
  \/ \E f \in Flushers : FlushStep(f) \/ FlushAbort(f)
  \/ \E w \in Workers, n \in 1..MaxMsgs : WorkerClaim(w, n)
  \/ \E w \in Workers, m \in Msgs, ok \in BOOLEAN : WorkerSend(w, m, ok)
  \/ ReleaseExpired
  \/ \E r \in Requests, op \in Ops, m \in Msgs : OperatorLoad(r, op, m)
  \/ \E r \in Requests, w \in Workers, m \in Msgs : WorkerReport(r, w, m)
  \/ \E r \in Requests : Commit(r)

(* The job runs every five minutes, the clock moves on, and a request that *)
(* loaded its row commits.  Workers and operators promise nothing.         *)
Fairness ==
  /\ \A f \in Flushers : WF_vars(FlushStep(f))
  /\ \A m \in Msgs : WF_vars(Elapse(m))
  /\ \A r \in Requests : WF_vars(Commit(r))
  /\ WF_vars(CloseWindow)

Spec == Init /\ [][Next]_vars
FairSpec == Spec /\ Fairness

-----------------------------------------------------------------------------
(* Properties. *)

(* An operator that marks an email failed opens it again. *)
Reopened == IF "mark_failed" \in Ops THEN ops ELSE 0

(* A recipient gets one copy of an email.  Every further copy is paid for  *)
(* by a flush that rolled back after sending, by a lease that expired or   *)
(* by an operator who marked the email failed.                             *)
DeliveredOnce == \A m \in Msgs : delivered[m] <= 1 + faults + expiries + Reopened

(* A row that says sent was sent, unless an operator says so. *)
SentWasDelivered ==
  "mark_sent" \notin Ops => \A m \in Ids : outbox[m].status = "sent" => delivered[m] > 0

(* Attempts stop: the flush and the workers together try an email at most  *)
(* once more than max_attempts, since a worker may claim a row the flush   *)
(* gave up on.  A rollback costs one more; an expired lease starts over,   *)
(* since a late report writes back the attempt_count it loaded, and so     *)
(* does an operator who marks the email failed.                            *)
AttemptsBounded ==
  \A m \in Msgs : tries[m] <= (MaxAttempts + 1) * (1 + expiries + Reopened) + faults

(* An email is nobody's twice: while no lease has expired and no operator  *)
(* has interfered, at most one worker works on it, that worker owns its    *)
(* row, and no flush holds it.                                             *)
LeaseExclusive ==
  expiries = 0 /\ ops = 0 =>
    \A m \in Ids, w \in Workers : job[w][m] # "none" =>
      /\ outbox[m].status = "processing" /\ outbox[m].owner = w /\ ~RowLocked(m)
      /\ \A u \in Workers \ {w} : job[u][m] = "none"

(* A settled email is opened again only by a request that goes by an old   *)
(* row: an operator marks it failed, or a worker reports a failed attempt  *)
(* after its lease expired or an operator had interfered.  No flush, claim *)
(* or release of leases opens one.                                         *)
SettledStays ==
  [][\A m \in Ids : outbox[m].status \in Settled /\ outbox'[m].status \notin Settled =>
       \E r \in Requests :
         /\ Commit(r) /\ req[r].msg = m
         /\ \/ req[r].op = "mark_failed"
            \/ req[r].op = "fail" /\ expiries + ops > 0]_vars

(* The send cap: the window's deliveries exceed the limit only by what     *)
(* rolled-back runs sent, and by one for every run that overlaps another,  *)
(* which may have been allowed its send before the other's were counted.   *)
CapHolds == spent <= DailyLimit + (Cardinality(Flushers) - 1) + Batch * faults

(* A pending email does not stay pending for ever: it is sent, given up    *)
(* on, suppressed or deferred to a window that comes.                      *)
PendingDrains ==
  \A m \in Msgs : (m \in Ids /\ outbox[m].status = "pending")
                    ~> (m \in Ids /\ outbox[m].status # "pending")

(* An email held back by the cap drains after the window resets. *)
OverCapDrains ==
  \A m \in Msgs :
    (m \in Ids /\ outbox[m].status = "pending" /\ ~outbox[m].due /\ ~Allowed(quota))
      ~> (m \in Ids /\ outbox[m].status # "pending")
=============================================================================
