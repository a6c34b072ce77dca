-------------------------- MODULE GovernanceOverride --------------------------
(***************************************************************************)
(* Governed overrides of an export job's locks: a request needs a quorum   *)
(* of approvals by people other than the requester, and is then executed   *)
(* once against the export.  Reviews hold the request's row lock from the  *)
(* read to the commit; cancel, expire and execute, and the export's own    *)
(* handlers, read without a lock and write the columns they changed.       *)
(***************************************************************************)
EXTENDS Integers, FiniteSets

CONSTANTS
  Users,       \* people who may request and review
  Overrides,   \* override request ids
  Handlers,    \* REST calls that may be in progress at once
  Required,    \* required_approvals
  Actions,     \* the requested actions in use
  ExportOps,   \* the export's own handlers in use
  None         \* nobody

AllActions == {"archive", "remove_hold", "adjust", "adjust_malformed", "revoke"}

ASSUME UsersFinite == IsFiniteSet(Users)
ASSUME HandlersFinite == IsFiniteSet(Handlers)
ASSUME RequiredAssumption == Required \in Nat /\ Required >= 2
ASSUME ActionsAssumption == Actions \subseteq AllActions
ASSUME NoneAssumption == None \notin Users

VARIABLES
  request,   \* request[o]: the governance_override_requests row
  review,    \* review[o][u]: u's governance_override_approvals row
  lapsed,    \* the overrides whose expires_at has passed
  export,    \* the export_jobs row, one flag per column the actions touch
  call,      \* call[h]: what handler h has read and will write
  effects    \* effects[o]: executions of o that committed

vars == <<request, review, lapsed, export, call, effects>>

Statuses == {"none", "pending", "approved", "rejected", "executed", "cancelled", "expired"}

Request == [status : Statuses, count : Nat, action : AllActions \cup {"none"}, by : Users \cup {None}]

(* attested: the export's attestation is active.  locked and retained: its *)
(* lock and its retention window are still running.                        *)
Columns == {"hold", "archived", "locked", "retained", "attested"}

Call == [op : {"none", "review", "load", "write"}, on : SUBSET Overrides, status : Statuses,
         count : Nat, by : Users \cup {None}, decision : {"none", "approved", "rejected"},
         set : SUBSET Columns, clear : SUBSET Columns]

NoCall == [op |-> "none", on |-> {}, status |-> "none", count |-> 0, by |-> None,
           decision |-> "none", set |-> {}, clear |-> {}]

TypeOK ==
  /\ request \in [Overrides -> Request]
  /\ review \in [Overrides -> [Users -> {"none", "approved", "rejected"}]]
  /\ lapsed \subseteq Overrides
  /\ export \in [Columns -> BOOLEAN]
  /\ call \in [Handlers -> Call]
  /\ effects \in [Overrides -> Nat]

Init ==
  /\ request = [o \in Overrides |-> [status |-> "none", count |-> 0, action |-> "none", by |-> None]]
  /\ review = [o \in Overrides |-> [u \in Users |-> "none"]]
  /\ lapsed = {}
  /\ export = [c \in Columns |-> c \in {"locked", "retained", "attested"}]
  /\ call = [h \in Handlers |-> NoCall]
  /\ effects = [o \in Overrides |-> 0]

Idle(h) == call[h] = NoCall

Start(h, c) == Idle(h) /\ call' = [call EXCEPT ![h] = c]

(* A review holds the row lock of its request until it commits. *)
Locked(o) == \E h \in Handlers : call[h].op = "review" /\ o \in call[h].on

-----------------------------------------------------------------------------
(* Requests and reviews.                                                   *)

Create(o, action, by) ==
  /\ request[o].status = "none"
  /\ request' = [request EXCEPT ![o] = [status |-> "pending", count |-> 0, action |-> action, by |-> by]]
  /\ UNCHANGED <<review, lapsed, export, call, effects>>

(* expires_at passes. *)
Lapse(o) ==
  /\ o \notin lapsed
  /\ lapsed' = lapsed \cup {o}
  /\ UNCHANGED <<request, review, export, call, effects>>

MayReview(o, u) ==
  /\ request[o].status = "pending" /\ o \notin lapsed
  /\ request[o].by # u
  /\ review[o][u] = "none"

(* Mutant: the review reads without FOR UPDATE. *)
RowFreeUnlocked(o) == request[o].status # "none"

RowFree(o) == ~Locked(o)

Quorum(count) == count >= Required

Approve(h, o, u) ==
  LET count == request[o].count + 1
  IN /\ RowFree(o) /\ MayReview(o, u)
     /\ Start(h, [NoCall EXCEPT !.op = "review", !.on = {o}, !.count = count, !.by = u,
                    !.decision = "approved", !.status = IF Quorum(count) THEN "approved" ELSE "pending"])
     /\ UNCHANGED <<request, review, lapsed, export, effects>>

Reject(h, o, u) ==
  /\ RowFree(o) /\ MayReview(o, u)
  /\ Start(h, [NoCall EXCEPT !.op = "review", !.on = {o}, !.count = request[o].count, !.by = u,
                 !.decision = "rejected", !.status = "rejected"])
  /\ UNCHANGED <<request, review, lapsed, export, effects>>

CommitReview(h) ==
  /\ call[h].op = "review"
  /\ request' = [o \in Overrides |->
                   IF o \in call[h].on
                   THEN [request[o] EXCEPT !.count = call[h].count, !.status = call[h].status]
                   ELSE request[o]]
  /\ review' = [o \in Overrides |->
                  IF o \in call[h].on THEN [review[o] EXCEPT ![call[h].by] = call[h].decision] ELSE review[o]]
  /\ call' = [call EXCEPT ![h] = NoCall]
  /\ UNCHANGED <<lapsed, export, effects>>

-----------------------------------------------------------------------------
(* Handlers that read the request without a lock.                          *)

Cancel(h, o) ==
  /\ request[o].status \in {"pending", "approved"}
  /\ Start(h, [NoCall EXCEPT !.op = "write", !.on = {o}, !.status = "cancelled"])
  /\ UNCHANGED <<request, review, lapsed, export, effects>>

ExpirePending(h) ==
  LET stale == {o \in Overrides : request[o].status = "pending" /\ o \in lapsed}
  IN /\ stale # {}
     /\ Start(h, [NoCall EXCEPT !.op = "write", !.on = stale, !.status = "expired"])
     /\ UNCHANGED <<request, review, lapsed, export, effects>>

(* Mutant: execute refuses only what is closed. *)
ExecutableUnlessClosed(o) ==
  request[o].status \in {"pending", "approved", "rejected"} /\ o \notin lapsed

(* Mutant: an override that was executed may be executed again. *)
ExecutableAgain(o) == request[o].status \in {"approved", "executed"} /\ o \notin lapsed

Executable(o) == request[o].status = "approved" /\ o \notin lapsed

Execute(h, o) ==
  /\ Executable(o)
  /\ Start(h, [NoCall EXCEPT !.op = "load", !.on = {o}, !.status = "executed"])
  /\ UNCHANGED <<request, review, lapsed, export, effects>>

(* The flags an action sets and clears, and when it fails. *)
Sets(action) == IF action = "archive" THEN {"archived"} ELSE {}

Clears(action) ==
  CASE action = "archive"          -> {}
    [] action = "remove_hold"      -> {"hold"}
    [] action = "adjust"           -> {"locked", "retained"}
    [] action = "adjust_malformed" -> {"locked"}
    [] OTHER                       -> {"attested"}

(* A malformed retention date fails after locked_until is assigned; the    *)
(* other failures come before any assignment.                              *)
Refused(action) ==
  \/ action = "archive" /\ export["hold"]
  \/ action = "revoke" /\ ~export["attested"]

Fails(action) == Refused(action) \/ action = "adjust_malformed"

(* The columns whose value changes are the ones an UPDATE writes. *)
Writes(h, set, clear) ==
  [call[h] EXCEPT !.op = "write", !.set = {c \in set : ~export[c]}, !.clear = {c \in clear : export[c]}]

(* The action reads the export.  A failure is caught by the router, which  *)
(* commits what was assigned before it and leaves the request approved.    *)
ReadExport(h) ==
  /\ call[h].op = "load"
  /\ \E o \in call[h].on :
       LET action == request[o].action
           done == IF Refused(action) THEN Writes(h, {}, {}) ELSE Writes(h, Sets(action), Clears(action))
       IN call' = [call EXCEPT ![h] =
                     IF Fails(action) THEN [done EXCEPT !.on = {}, !.status = "none"] ELSE done]
  /\ UNCHANGED <<request, review, lapsed, export, effects>>

-----------------------------------------------------------------------------
(* The export's own handlers: legal hold, archiving, retention policy.     *)

ExportCall(h, set, clear) ==
  /\ Idle(h)
  /\ call' = [call EXCEPT ![h] = Writes(h, set, clear)]
  /\ UNCHANGED <<request, review, lapsed, export, effects>>

SetHold(h) == "hold" \in ExportOps /\ ExportCall(h, {"hold"}, {})

ClearHold(h) == "release" \in ExportOps /\ ExportCall(h, {}, {"hold"})

ArchiveJob(h) ==
  /\ "archive" \in ExportOps
  /\ ~export["archived"] /\ ~export["hold"] /\ ~export["locked"]
  /\ ExportCall(h, {"archived"}, {})

(* Mutant: a policy without a default hold lifts one. *)
ApplyPolicyOverwrites(h, flags) ==
  "retain" \in ExportOps /\ ExportCall(h, flags, {"hold", "locked", "retained"} \ flags)

(* The policy's days set or end the lock and the window; its default may   *)
(* set a hold, never lift one.                                             *)
ApplyPolicy(h, flags) ==
  "retain" \in ExportOps /\ ExportCall(h, flags, {"locked", "retained"} \ flags)

(* locked_until and retention_until pass. *)
Elapse(c) ==
  /\ export[c]
  /\ export' = [export EXCEPT ![c] = FALSE]
  /\ UNCHANGED <<request, review, lapsed, call, effects>>

(* The UPDATEs of a handler and its commit; they wait for a review's lock. *)
CommitWrite(h) ==
  /\ call[h].op = "write"
  /\ \A o \in call[h].on : ~Locked(o)
  /\ request' = [o \in Overrides |->
                   IF o \in call[h].on THEN [request[o] EXCEPT !.status = call[h].status] ELSE request[o]]
  /\ export' = [c \in Columns |-> (export[c] \/ c \in call[h].set) /\ c \notin call[h].clear]
  /\ effects' = [o \in Overrides |->
                   IF o \in call[h].on /\ call[h].status = "executed" THEN effects[o] + 1 ELSE effects[o]]
  /\ call' = [call EXCEPT ![h] = NoCall]
  /\ UNCHANGED <<review, lapsed>>

-----------------------------------------------------------------------------
Next ==
  \/ \E o \in Overrides, action \in Actions, u \in Users : Create(o, action, u)
  \/ \E o \in Overrides : Lapse(o)
  \/ \E h \in Handlers, o \in Overrides, u \in Users : Approve(h, o, u) \/ Reject(h, o, u)
  \/ \E h \in Handlers : CommitReview(h)
  \/ \E h \in Handlers, o \in Overrides : Cancel(h, o) \/ Execute(h, o)
  \/ \E h \in Handlers : ExpirePending(h) \/ ReadExport(h) \/ CommitWrite(h)
  \/ \E h \in Handlers : SetHold(h) \/ ClearHold(h) \/ ArchiveJob(h)
  \/ \E h \in Handlers, flags \in SUBSET {"hold", "locked", "retained"} : ApplyPolicy(h, flags)
  \/ \E c \in {"locked", "retained"} : Elapse(c)

Spec == Init /\ [][Next]_vars

-----------------------------------------------------------------------------
(* Properties. *)

Approvers(o) == {u \in Users : review[o][u] = "approved"}

(* The request, its reviews and its executions go as dual control promises *)
(* (QuorumVote): however reviews, cancellations, expiries and executions   *)
(* overlap, a vote is never lost, repeated or cast after the decision, and *)
(* only an override that its vote passed takes effect.                     *)
Rejecters(o) == {u \in Users : review[o][u] = "rejected"}

Vote == INSTANCE QuorumVote WITH
          by <- [o \in Overrides |-> request[o].by],
          favour <- [o \in Overrides |-> Approvers(o)],
          against <- [o \in Overrides |-> Rejecters(o)]

ImplementsVote == Vote!Spec

(* No override takes effect before a quorum of distinct people other than  *)
(* its requester approved it.                                              *)
QuorumBeforeEffect ==
  \A o \in Overrides :
    effects[o] > 0 => Cardinality(Approvers(o)) >= Required /\ request[o].by \notin Approvers(o)

(* No approval is lost or counted twice. *)
ApprovalsCounted == \A o \in Overrides : request[o].count = Cardinality(Approvers(o))

(* One rejection is final: a rejected override never takes effect, however *)
(* cancellations and expiries overwrite its status.                        *)
RejectionFinal ==
  \A o \in Overrides : (\E u \in Users : review[o][u] = "rejected") => effects[o] = 0

(* A legal hold is lifted by the hold handler, or by a removal override    *)
(* that reached its quorum; nothing lifts one in passing.                  *)
HoldRemovedByQuorum ==
  [][(export["hold"] /\ ~export'["hold"])
       => \E h \in Handlers :
            /\ call[h].clear = {"hold"} /\ call[h].set = {} /\ call'[h] = NoCall
            /\ \A o \in call[h].on :
                 request[o].action = "remove_hold" /\ Cardinality(Approvers(o)) >= Required]_vars

(* An approval is used once, except by calls that overlap: execute loads   *)
(* the request without a lock, so a call in progress when the first effect *)
(* commits may repeat it, and no call that begins later does.              *)
ExecutedByOverlap == \A o \in Overrides : effects[o] <= Cardinality(Handlers)
=============================================================================
