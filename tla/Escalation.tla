------------------------------- MODULE Escalation -------------------------------
(***************************************************************************)
(* Escalation policies over an issue (IssueView).  evaluate_policies is    *)
(* called by the daily job and by a manual request.  It takes its time     *)
(* once, lists the active policies, then locks them one after the other in *)
(* order of creation and keeps the locks until it commits.  A policy whose *)
(* condition the issue meets queues one email and one EscalationEvent,     *)
(* unless it has an event of the last 24 hours.                            *)
(***************************************************************************)
EXTENDS IssueView, Integers, Sequences, SequencesExt

CONSTANTS
  Policies,     \* condition types of the policies, oldest policy first
  Evaluators,   \* callers of evaluate_policies
  Window,       \* the 24 hours of _is_idempotent_skip
  StateHours    \* hours of a time_in_state policy

VARIABLES
  updated,   \* issue.updated_at
  policy,    \* policy[p]: its row
  ev,        \* evaluations
  fired      \* fired[p]: escalated_at of its events, in commit order

PolicySet == ToSet(Policies)

ASSUME PoliciesAssumption ==
  /\ Policies \in Seq({"sla_breach", "time_in_state", "severity_threshold"})
  /\ IsInjective(Policies)
ASSUME WindowAssumption ==
  /\ FirstDue \in Nat /\ LastHour \in Nat
  /\ Window \in Nat /\ StateHours \in Nat \ {0}

policyVars == <<viewVars, updated, policy, ev, fired>>

IdleEv == [pc |-> "idle", now |-> 0, todo |-> {}, locked |-> {}, wrote |-> {}]

PolicyTypeOK ==
  /\ hour \in 0..LastHour /\ updated \in 0..LastHour
  /\ unresolved \in BOOLEAN /\ breached \in BOOLEAN /\ deleted \in BOOLEAN
  /\ policy \in [PolicySet -> {"active", "inactive"}]
  /\ ev \in [Evaluators -> [pc : {"idle", "running"}, now : 0..LastHour, todo : SUBSET PolicySet,
                            locked : SUBSET PolicySet, wrote : SUBSET PolicySet]]
  /\ fired \in [PolicySet -> Seq(0..LastHour)]
  /\ \A e \in Evaluators : ev[e].wrote \subseteq ev[e].locked

PolicyInit ==
  /\ ViewInit /\ updated = 0
  /\ policy = [p \in PolicySet |-> "active"]
  /\ ev = [e \in Evaluators |-> IdleEv]
  /\ fired = [p \in PolicySet |-> <<>>]

(* A write of the issue's row sets its updated_at.                         *)
IssueStep ==
  /\ ViewNext
  /\ updated' = IF <<unresolved, deleted>>' # <<unresolved, deleted>> THEN hour ELSE updated
  /\ UNCHANGED <<policy, ev, fired>>

(* update_issue, assign_issue and the transitions between open statuses.   *)
Touch ==
  /\ ~deleted /\ updated # hour /\ updated' = hour
  /\ UNCHANGED <<viewVars, policy, ev, fired>>

-----------------------------------------------------------------------------
(* Administration of the policies; the write waits for an evaluation.  A   *)
(* deleted policy is one that stays inactive.                              *)

Free(p) == \A e \in Evaluators : p \notin ev[e].locked

SetPolicy(p, from, to) ==
  /\ policy[p] = from /\ Free(p)
  /\ policy' = [policy EXCEPT ![p] = to]
  /\ UNCHANGED <<viewVars, updated, ev, fired>>

Administer(p) ==
  SetPolicy(p, "active", "inactive") \/ SetPolicy(p, "inactive", "active")

-----------------------------------------------------------------------------
(* evaluate_policies.                                                      *)

EvalStep(e, to) == ev' = [ev EXCEPT ![e] = to]

ActivePolicies == {p \in PolicySet : policy[p] = "active"}

Start(e) ==
  /\ ev[e].pc = "idle" /\ ActivePolicies # {}
  /\ EvalStep(e, [IdleEv EXCEPT !.pc = "running", !.now = hour, !.todo = ActivePolicies])
  /\ UNCHANGED <<viewVars, updated, policy, fired>>

(* Mutant: no order.                                                       *)
AnyOf(p, S) == p \in S

(* The list is ordered by created_at.                                      *)
Oldest(p, S) == p \in S /\ \A i, j \in DOMAIN Policies : Policies[j] = p /\ i < j => Policies[i] \notin S

(* _issue_candidates_for_policy; it reads the time again.                  *)
Candidate(p) ==
  /\ ~deleted /\ unresolved
  /\ CASE p = "sla_breach" -> breached
       [] p = "time_in_state" -> updated < hour - StateHours
       [] p = "severity_threshold" -> hour > 1

(* _is_idempotent_skip *)
Recent(p, now) == \E t \in ToSet(fired[p]) : t >= now - Window

Fires(p, now) == policy[p] = "active" /\ Candidate(p) /\ ~Recent(p, now)

(* Mutants: FOR UPDATE is dropped; the policy is not checked again.        *)
EvaluateUnlocked(e, p) ==
  /\ Oldest(p, ev[e].todo)
  /\ EvalStep(e, [ev[e] EXCEPT !.todo = @ \ {p}, !.wrote = IF Fires(p, ev[e].now) THEN @ \cup {p} ELSE @])
  /\ UNCHANGED <<viewVars, updated, policy, fired>>
EvaluateUnchecked(e, p) ==
  /\ Oldest(p, ev[e].todo) /\ Free(p)
  /\ EvalStep(e, [ev[e] EXCEPT !.todo = @ \ {p}, !.locked = @ \cup {p},
       !.wrote = IF Candidate(p) /\ ~Recent(p, ev[e].now) THEN @ \cup {p} ELSE @])
  /\ UNCHANGED <<viewVars, updated, policy, fired>>

(* The next policy: wait for its lock, look again whether it is active.    *)
Evaluate(e, p) ==
  /\ Oldest(p, ev[e].todo) /\ Free(p)
  /\ EvalStep(e, [ev[e] EXCEPT !.todo = @ \ {p}, !.locked = @ \cup {p},
       !.wrote = IF Fires(p, ev[e].now) THEN @ \cup {p} ELSE @])
  /\ UNCHANGED <<viewVars, updated, policy, fired>>

(* The commit.  An evaluation that fails leaves nothing and frees its      *)
(* locks, as one with nothing to write does.                               *)
Finish(e) ==
  /\ ev[e].pc = "running" /\ ev[e].todo = {}
  /\ fired' = [p \in PolicySet |-> IF p \in ev[e].wrote THEN Append(fired[p], ev[e].now) ELSE fired[p]]
  /\ EvalStep(e, IdleEv)
  /\ UNCHANGED <<viewVars, updated, policy>>

Evaluation(e) == Start(e) \/ (\E p \in PolicySet : Evaluate(e, p)) \/ Finish(e)

PolicyNext ==
  \/ IssueStep \/ Touch
  \/ \E p \in PolicySet : Administer(p)
  \/ \E e \in Evaluators : Evaluation(e)

PolicySpec == PolicyInit /\ [][PolicyNext]_policyVars

(* The job runs every day; the lock of a policy goes to the evaluation     *)
(* that has waited longest (hence SF).                                     *)
FairPolicySpec == PolicySpec /\ \A e \in Evaluators : SF_policyVars(Evaluation(e))

-----------------------------------------------------------------------------
(* Properties.                                                             *)

(* Two escalations of one policy for the issue are more than the window    *)
(* apart, whichever evaluations made them and whenever they started.       *)
SpacedEscalations ==
  \A p \in PolicySet : \A i, j \in 1..Len(fired[p]) :
    i < j => fired[p][j] > fired[p][i] + Window

(* A policy that has been deactivated or deleted does not escalate, not    *)
(* even from an evaluation that had listed it before.                      *)
OnlyActiveFires == [][\A p \in PolicySet : fired'[p] # fired[p] => policy[p] = "active"]_policyVars

(* Evaluations wait for each other's locks, but never all of them: while   *)
(* evaluations run, one of them finds its next policy free or is done.     *)
Waits(e) == \E p \in PolicySet : Oldest(p, ev[e].todo) /\ ~Free(p)

NoDeadlock ==
  (\E e \in Evaluators : ev[e].pc = "running")
    => \E e \in Evaluators : ev[e].pc = "running" /\ ~Waits(e)

(* An issue that meets the condition of the youngest policy, with no       *)
(* recent event, does not stay so: evaluations that overlap do not block   *)
(* each other on the policies before it.                                   *)
Pending(p) == hour = LastHour /\ Fires(p, hour)
PendingEscalates == Pending(Last(Policies)) ~> ~Pending(Last(Policies))
===============================================================================
