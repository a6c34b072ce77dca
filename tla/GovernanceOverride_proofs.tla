----------------------- MODULE GovernanceOverride_proofs -----------------------
(***************************************************************************)
(* No override takes effect without its quorum, none is executed by a call *)
(* that begins after its first effect, and no legal hold is lifted without *)
(* a quorum or the hold handler, for every number of users, overrides and  *)
(* concurrent calls; and the handlers implement the vote of QuorumVote.    *)
(***************************************************************************)
EXTENDS GovernanceOverride, FiniteSetTheorems, TLAPS

-----------------------------------------------------------------------------
(* The inductive invariant.                                                *)

Rejected(o) == \E u \in Users : review[o][u] = "rejected"

(* What the row's status says about its reviews. *)
StatusTrue ==
  \A o \in Overrides :
    /\ request[o].status = "none" => \A u \in Users : review[o][u] = "none"
    /\ request[o].status \in {"none", "pending", "approved", "executed"} => ~Rejected(o)
    /\ request[o].status \in {"approved", "executed"} => request[o].count >= Required

(* A request that is past its reviews with a quorum and no rejection. *)
Passed(o) ==
  /\ request[o].status \notin {"none", "pending"}
  /\ request[o].count >= Required
  /\ ~Rejected(o)

NotOwn == \A o \in Overrides : request[o].by \notin Approvers(o)

(* A review in progress has the only lock, and read a row that still holds. *)
ReviewValid(h) ==
  \E o \in Overrides :
    /\ call[h].on = {o}
    /\ request[o].status = "pending"
    /\ call[h].by \in Users /\ call[h].by # request[o].by /\ review[o][call[h].by] = "none"
    /\ \/ /\ call[h].decision = "approved" /\ call[h].count = request[o].count + 1
          /\ call[h].status = IF Quorum(call[h].count) THEN "approved" ELSE "pending"
       \/ /\ call[h].decision = "rejected" /\ call[h].count = request[o].count
          /\ call[h].status = "rejected"

ReviewsValid == \A h \in Handlers : call[h].op = "review" => ReviewValid(h)

OneLock ==
  \A g, h \in Handlers :
    (call[g].op = "review" /\ call[h].op = "review" /\ call[g].on \cap call[h].on # {}) => g = h

(* A write in progress moves existing requests, and executes passed ones. *)
WritesValid ==
  \A h \in Handlers : call[h].op \in {"load", "write"} =>
    \A o \in call[h].on :
      /\ call[h].status \in {"cancelled", "expired", "executed"}
      /\ request[o].status # "none"
      /\ call[h].status = "executed" => Passed(o)

EffectsPassed == \A o \in Overrides : effects[o] > 0 => Passed(o)

IInv ==
  /\ TypeOK /\ ApprovalsCounted /\ StatusTrue /\ NotOwn /\ ReviewsValid /\ OneLock
  /\ WritesValid /\ EffectsPassed

-----------------------------------------------------------------------------
(* Lemmas.                                                                 *)

(* Approvals are finite sets of people, and a new one adds one. *)
LEMMA ApproversFinite ==
  ASSUME NEW o \in Overrides
  PROVE  IsFiniteSet(Approvers(o)) /\ Cardinality(Approvers(o)) \in Nat
<1>1. Approvers(o) \subseteq Users
  BY DEF Approvers
<1>2. IsFiniteSet(Approvers(o))
  BY <1>1, UsersFinite, FS_Subset
<1> QED
  BY <1>2, FS_CardinalityType

(* The types of a call in progress. *)
LEMMA CallTyped ==
  ASSUME TypeOK, NEW h \in Handlers
  PROVE  /\ call[h] \in Call /\ call[h].on \subseteq Overrides /\ call[h].count \in Nat
         /\ call[h].by \in Users \cup {None} /\ call[h].status \in Statuses
         /\ call[h].decision \in {"none", "approved", "rejected"}
         /\ call[h].set \subseteq Columns /\ call[h].clear \subseteq Columns
BY DEF TypeOK, Call

(* The types of a request. *)
LEMMA RequestTyped ==
  ASSUME TypeOK, NEW o \in Overrides
  PROVE  /\ request[o] \in Request /\ request[o].status \in Statuses /\ request[o].count \in Nat
         /\ request[o].by \in Users \cup {None} /\ review[o] \in [Users -> {"none", "approved", "rejected"}]
         /\ effects[o] \in Nat
BY DEF TypeOK, Request

(* A row with a new status. *)
LEMMA StatusSet ==
  ASSUME NEW r \in Request, NEW s \in Statuses
  PROVE  [r EXCEPT !.status = s] \in Request
BY DEF Request

(* What a call that begins has recorded. *)
LEMMA CallMade ==
  ASSUME TypeOK, NEW h \in Handlers, NEW c, Start(h, c)
  PROVE  /\ call' = [call EXCEPT ![h] = c] /\ call'[h] = c
         /\ \A g \in Handlers : g # h => call'[g] = call[g]
BY DEF TypeOK, Start

LEMMA ReviewCall ==
  ASSUME TypeOK, NEW h \in Handlers, NEW o \in Overrides, NEW u \in Users, Approve(h, o, u) \/ Reject(h, o, u)
  PROVE  /\ call' = [call EXCEPT ![h] = call'[h]] /\ call'[h].op = "review" /\ effects' = effects
         /\ \A g \in Handlers : g # h => call'[g] = call[g]
<1>1. CASE Approve(h, o, u)
  <2> DEFINE n == request[o].count + 1
             c == [NoCall EXCEPT !.op = "review", !.on = {o}, !.count = n, !.by = u, !.decision = "approved",
                                 !.status = IF Quorum(n) THEN "approved" ELSE "pending"]
  <2>1. Start(h, c) /\ effects' = effects
    BY <1>1 DEF Approve
  <2>2. c.op = "review"
    BY DEF NoCall
  <2> HIDE DEF c
  <2> QED
    BY <2>1, <2>2, CallMade
<1>2. CASE Reject(h, o, u)
  <2> DEFINE c == [NoCall EXCEPT !.op = "review", !.on = {o}, !.count = request[o].count, !.by = u,
                                 !.decision = "rejected", !.status = "rejected"]
  <2>1. Start(h, c) /\ effects' = effects
    BY <1>2 DEF Reject
  <2>2. c.op = "review"
    BY DEF NoCall
  <2> HIDE DEF c
  <2> QED
    BY <2>1, <2>2, CallMade
<1> QED
  BY <1>1, <1>2

LEMMA ClosingCall ==
  ASSUME TypeOK, NEW h \in Handlers, NEW o \in Overrides, Cancel(h, o) \/ Execute(h, o)
  PROVE  call'[h].on = {o} /\ \A g \in Handlers : g # h => call'[g] = call[g]
<1>1. CASE Cancel(h, o)
  <2> DEFINE c == [NoCall EXCEPT !.op = "write", !.on = {o}, !.status = "cancelled"]
  <2>1. Start(h, c)
    BY <1>1 DEF Cancel
  <2>2. c.on = {o}
    BY DEF NoCall
  <2> HIDE DEF c
  <2> QED
    BY <2>1, <2>2, CallMade
<1>2. CASE Execute(h, o)
  <2> DEFINE c == [NoCall EXCEPT !.op = "load", !.on = {o}, !.status = "executed"]
  <2>1. Start(h, c)
    BY <1>2 DEF Execute
  <2>2. c.on = {o}
    BY DEF NoCall
  <2> HIDE DEF c
  <2> QED
    BY <2>1, <2>2, CallMade
<1> QED
  BY <1>1, <1>2

(* A handler that only records what it read keeps the invariant when what  *)
(* it recorded is valid. *)
LEMMA CallStep ==
  ASSUME IInv, NEW h \in Handlers, NEW c \in Call,
         call' = [call EXCEPT ![h] = c],
         UNCHANGED <<request, review, lapsed, export, effects>>,
         c.op = "review" => ReviewValid(h)',
         c.op = "review" => \A g \in Handlers : call[g].op = "review" => call[g].on \cap c.on = {},
         c.op \in {"load", "write"} =>
           \A o \in c.on :
             /\ c.status \in {"cancelled", "expired", "executed"}
             /\ request[o].status # "none"
             /\ c.status = "executed" => Passed(o)
  PROVE  IInv'
<1>1. call'[h] = c /\ \A g \in Handlers : g # h => call'[g] = call[g]
  BY DEF IInv, TypeOK
<1>2. TypeOK'
  BY DEF IInv, TypeOK
<1>3. ApprovalsCounted' /\ StatusTrue' /\ NotOwn' /\ EffectsPassed'
  BY DEF IInv, ApprovalsCounted, StatusTrue, NotOwn, EffectsPassed, Approvers, Rejected, Passed
<1>4. ReviewsValid'
  <2> SUFFICES ASSUME NEW g \in Handlers, call'[g].op = "review"
               PROVE  ReviewValid(g)'
    BY DEF ReviewsValid
  <2>1. CASE g = h
    BY <2>1, <1>1
  <2>2. CASE g # h
    BY <2>2, <1>1 DEF IInv, ReviewsValid, ReviewValid
  <2> QED
    BY <2>1, <2>2
<1>5. OneLock'
  <2> SUFFICES ASSUME NEW f \in Handlers, NEW g \in Handlers, call'[f].op = "review", call'[g].op = "review",
                      call'[f].on \cap call'[g].on # {}
               PROVE  f = g
    BY DEF OneLock
  <2>1. CASE f # h /\ g # h
    BY <2>1, <1>1 DEF IInv, OneLock
  <2>2. CASE f = h /\ g # h
    BY <2>2, <1>1
  <2>3. CASE f # h /\ g = h
    BY <2>3, <1>1
  <2> QED
    BY <2>1, <2>2, <2>3
<1>6. WritesValid'
  <2> SUFFICES ASSUME NEW g \in Handlers, call'[g].op \in {"load", "write"}, NEW o \in call'[g].on
               PROVE  /\ call'[g].status \in {"cancelled", "expired", "executed"}
                      /\ request'[o].status # "none"
                      /\ call'[g].status = "executed" => Passed(o)'
    BY DEF WritesValid
  <2>1. Passed(o)' <=> Passed(o)
    BY DEF Passed, Rejected
  <2>2. CASE g = h
    BY <2>1, <2>2, <1>1
  <2>3. CASE g # h
    BY <2>1, <2>3, <1>1 DEF IInv, WritesValid
  <2> QED
    BY <2>2, <2>3
<1> QED
  BY <1>2, <1>3, <1>4, <1>5, <1>6 DEF IInv

(* Nothing in the invariant but its types depends on time or the export. *)
LEMMA TimeStep ==
  ASSUME IInv, UNCHANGED <<request, review, call, effects>>, TypeOK'
  PROVE  IInv'
BY DEF IInv, ApprovalsCounted, StatusTrue, NotOwn, ReviewsValid, ReviewValid, OneLock, WritesValid,
       EffectsPassed, Approvers, Rejected, Passed, Quorum

(* The new record of a call is a call. *)
LEMMA NoCallTyped == NoCall \in Call
BY DEF NoCall, Call, Statuses

-----------------------------------------------------------------------------
(* The invariant holds initially and is kept by every action.              *)

LEMMA InitInv == Init => IInv
<1> SUFFICES ASSUME Init PROVE IInv
  OBVIOUS
<1>1. TypeOK
  BY NoCallTyped DEF Init, TypeOK, Request, Statuses
<1>2. ApprovalsCounted
  <2> SUFFICES ASSUME NEW o \in Overrides PROVE request[o].count = Cardinality(Approvers(o))
    BY DEF ApprovalsCounted
  <2>1. Approvers(o) = {}
    BY DEF Init, Approvers
  <2> QED
    BY <2>1, FS_EmptySet DEF Init
<1>3. StatusTrue /\ NotOwn /\ EffectsPassed
  BY DEF Init, StatusTrue, Rejected, NotOwn, Approvers, EffectsPassed
<1>4. ReviewsValid /\ OneLock /\ WritesValid
  BY DEF Init, ReviewsValid, OneLock, WritesValid, NoCall
<1> QED
  BY <1>1, <1>2, <1>3, <1>4 DEF IInv

LEMMA CreateInv ==
  ASSUME IInv, NEW o \in Overrides, NEW action \in Actions, NEW by \in Users, Create(o, action, by)
  PROVE  IInv'
<1>1. /\ request'[o] = [status |-> "pending", count |-> 0, action |-> action, by |-> by]
      /\ \A p \in Overrides : p # o => request'[p] = request[p]
  BY DEF Create, IInv, TypeOK
<1>2. request[o].status = "none" /\ \A u \in Users : review[o][u] = "none"
  BY DEF Create, IInv, StatusTrue
<1>3. Approvers(o) = {}
  BY <1>2 DEF Approvers
<1>4. TypeOK'
  BY ActionsAssumption DEF Create, IInv, TypeOK, Request, Statuses
<1>5. ApprovalsCounted' /\ NotOwn'
  <2>1. \A p \in Overrides : Approvers(p)' = Approvers(p)
    BY DEF Create, Approvers
  <2>2. request'[o].count = Cardinality(Approvers(o)) /\ request'[o].by \notin Approvers(o)
    BY <1>1, <1>3, FS_EmptySet
  <2>3. \A p \in Overrides : p # o => /\ request'[p].count = Cardinality(Approvers(p))
                                     /\ request'[p].by \notin Approvers(p)
    BY <1>1 DEF IInv, ApprovalsCounted, NotOwn
  <2> QED
    BY <2>1, <2>2, <2>3 DEF ApprovalsCounted, NotOwn
<1>6. StatusTrue'
  BY <1>1, <1>2 DEF Create, IInv, StatusTrue, Rejected
<1>7. ReviewsValid'
  <2> SUFFICES ASSUME NEW h \in Handlers, call[h].op = "review" PROVE ReviewValid(h)'
    BY DEF ReviewsValid, Create
  <2>1. PICK p \in Overrides : call[h].on = {p} /\ request[p].status = "pending"
    BY DEF IInv, ReviewsValid, ReviewValid
  <2>2. p # o
    BY <2>1, <1>2
  <2> QED
    BY <2>1, <2>2, <1>1 DEF IInv, ReviewsValid, ReviewValid, Create, Quorum
<1>8. OneLock'
  BY DEF IInv, OneLock, Create
<1>9. \A p \in Overrides : Passed(p) => Passed(p)'
  BY <1>1, <1>2 DEF Passed, Rejected, Create
<1>10. WritesValid'
  BY <1>1, <1>9, CallTyped DEF IInv, WritesValid, Create
<1>11. EffectsPassed'
  BY <1>9 DEF IInv, EffectsPassed, Create
<1> QED
  BY <1>4, <1>5, <1>6, <1>7, <1>8, <1>10, <1>11 DEF IInv

(* A review that starts has its row to itself and read it as it is. *)
LEMMA ReviewStartInv ==
  ASSUME IInv, NEW h \in Handlers, NEW o \in Overrides, NEW u \in Users,
         Approve(h, o, u) \/ Reject(h, o, u)
  PROVE  IInv'
<1> DEFINE c == call'[h]
           n == request[o].count + 1
           Approved == [op |-> "review", on |-> {o}, status |-> IF Quorum(n) THEN "approved" ELSE "pending",
                        count |-> n, by |-> u, decision |-> "approved", set |-> {}, clear |-> {}]
           Denied == [op |-> "review", on |-> {o}, status |-> "rejected", count |-> request[o].count,
                      by |-> u, decision |-> "rejected", set |-> {}, clear |-> {}]
<1>0. c = Approved \/ c = Denied
  <2>1. CASE Approve(h, o, u)
    BY <2>1 DEF Approve, Start, IInv, TypeOK, NoCall
  <2>2. CASE Reject(h, o, u)
    BY <2>2 DEF Reject, Start, IInv, TypeOK, NoCall
  <2> QED
    BY <2>1, <2>2
<1>1. call[h] = NoCall /\ call' = [call EXCEPT ![h] = c] /\ RowFree(o) /\ MayReview(o, u)
  BY DEF Approve, Reject, Start, Idle, IInv, TypeOK
<1>2. UNCHANGED <<request, review, lapsed, export, effects>>
  BY DEF Approve, Reject
<1>3. /\ c.op = "review" /\ c.on = {o} /\ c.by = u
      /\ \/ /\ c.decision = "approved" /\ c.count = request[o].count + 1
            /\ c.status = IF Quorum(c.count) THEN "approved" ELSE "pending"
         \/ /\ c.decision = "rejected" /\ c.count = request[o].count
            /\ c.status = "rejected"
  BY <1>0 DEF Approved, Denied
<1>4. c \in Call
  <2>1. request[o].count \in Nat
    BY RequestTyped DEF IInv
  <2>2. Approved \in Call
    BY <2>1 DEF Approved, Call, Statuses
  <2>3. Denied \in Call
    BY <2>1 DEF Denied, Call, Statuses
  <2> QED
    BY <1>0, <2>2, <2>3
<1>5. ReviewValid(h)'
  BY <1>1, <1>2, <1>3 DEF ReviewValid, MayReview, Quorum
<1>6. \A g \in Handlers : call[g].op = "review" => call[g].on \cap c.on = {}
  BY <1>1, <1>3 DEF RowFree, Locked
<1> HIDE DEF c
<1> QED
  BY <1>1, <1>2, <1>3, <1>4, <1>5, <1>6, CallStep

(* Cancel, expire and execute start on requests they read as open. *)
LEMMA WriteStartInv ==
  ASSUME IInv, NEW h \in Handlers,
         \/ \E o \in Overrides : Cancel(h, o) \/ Execute(h, o)
         \/ ExpirePending(h)
  PROVE  IInv'
<1> DEFINE c == call'[h]
<1>1. call' = [call EXCEPT ![h] = c] /\ UNCHANGED <<request, review, lapsed, export, effects>>
  BY DEF Cancel, Execute, ExpirePending, Start, IInv, TypeOK
<1> DEFINE New(op, on, status) == [op |-> op, on |-> on, status |-> status, count |-> 0, by |-> None,
                                   decision |-> "none", set |-> {}, clear |-> {}]
<1>a. ASSUME NEW o \in Overrides, Cancel(h, o)
      PROVE  c = New("write", {o}, "cancelled") /\ request[o].status # "none"
  BY <1>a DEF Cancel, Start, IInv, TypeOK, NoCall
<1>b. ASSUME NEW o \in Overrides, Execute(h, o)
      PROVE  c = New("load", {o}, "executed") /\ request[o].status = "approved"
  BY <1>b DEF Execute, Executable, Start, IInv, TypeOK, NoCall
<1>c. ASSUME ExpirePending(h)
      PROVE  \E stale \in SUBSET Overrides :
               c = New("write", stale, "expired") /\ \A o \in stale : request[o].status = "pending"
  <2> DEFINE stale == {o \in Overrides : request[o].status = "pending" /\ o \in lapsed}
  <2>1. c = New("write", stale, "expired")
    BY <1>c DEF ExpirePending, Start, IInv, TypeOK, NoCall
  <2>2. stale \in SUBSET Overrides /\ \A o \in stale : request[o].status = "pending"
    OBVIOUS
  <2> HIDE DEF stale, c, New
  <2> QED
    BY <2>1, <2>2
<1>2. /\ c.op \in {"load", "write"} /\ c.on \subseteq Overrides
      /\ c.status \in {"cancelled", "expired", "executed"}
      /\ \A o \in c.on :
           /\ request[o].status # "none"
           /\ c.status = "executed" => request[o].status = "approved"
  <2>1. CASE \E o \in Overrides : Cancel(h, o)
    <3>1. PICK o \in Overrides : Cancel(h, o)
      BY <2>1
    <3>2. c = New("write", {o}, "cancelled") /\ request[o].status # "none"
      BY <3>1, <1>a
    <3> HIDE DEF c
    <3> QED
      BY <3>2
  <2>2. CASE \E o \in Overrides : Execute(h, o)
    <3>1. PICK o \in Overrides : Execute(h, o)
      BY <2>2
    <3>2. c = New("load", {o}, "executed") /\ request[o].status = "approved"
      BY <3>1, <1>b
    <3> HIDE DEF c
    <3> QED
      BY <3>2
  <2>3. CASE ExpirePending(h)
    <3>1. PICK stale \in SUBSET Overrides :
            c = New("write", stale, "expired") /\ \A o \in stale : request[o].status = "pending"
      BY <2>3, <1>c
    <3> QED
      BY <3>1
  <2> QED
    BY <2>1, <2>2, <2>3
<1>3. c \in Call
  <2>1. \A op \in {"load", "write"}, on \in SUBSET Overrides, status \in {"cancelled", "expired", "executed"} :
          New(op, on, status) \in Call
    BY DEF Call, Statuses
  <2>2. \E op \in {"load", "write"}, on \in SUBSET Overrides, status \in {"cancelled", "expired", "executed"} :
          c = New(op, on, status)
    <3>1. CASE \E o \in Overrides : Cancel(h, o)
      BY <3>1, <1>a
    <3>2. CASE \E o \in Overrides : Execute(h, o)
      BY <3>2, <1>b
    <3>3. CASE ExpirePending(h)
      BY <3>3, <1>c
    <3> QED
      BY <3>1, <3>2, <3>3
  <2> HIDE DEF c, New
  <2> QED
    BY <2>1, <2>2
<1>4. \A o \in c.on : c.status = "executed" => Passed(o)
  BY <1>2 DEF IInv, StatusTrue, Passed
<1> HIDE DEF c
<1> QED
  BY <1>1, <1>2, <1>3, <1>4, CallStep

LEMMA ReadExportInv ==
  ASSUME IInv, NEW h \in Handlers, ReadExport(h)
  PROVE  IInv'
<1> DEFINE c == call'[h]
<1>1. call' = [call EXCEPT ![h] = c] /\ UNCHANGED <<request, review, lapsed, export, effects>>
  BY DEF ReadExport, IInv, TypeOK
<1>2. /\ c.op = "write"
      /\ c.on = {} \/ (c.on = call[h].on /\ c.status = call[h].status)
  BY CallTyped DEF ReadExport, Writes, IInv, TypeOK, Call
<1>3. c \in Call
  <2>1. PICK o \in call[h].on :
          c = IF Fails(request[o].action)
              THEN [(IF Refused(request[o].action) THEN Writes(h, {}, {})
                     ELSE Writes(h, Sets(request[o].action), Clears(request[o].action)))
                     EXCEPT !.on = {}, !.status = "none"]
              ELSE (IF Refused(request[o].action) THEN Writes(h, {}, {})
                    ELSE Writes(h, Sets(request[o].action), Clears(request[o].action)))
    BY DEF ReadExport, IInv, TypeOK
  <2>2. Sets(request[o].action) \subseteq Columns /\ Clears(request[o].action) \subseteq Columns
    BY DEF Sets, Clears, Columns
  <2>3. /\ Writes(h, {}, {}) \in Call
        /\ Writes(h, Sets(request[o].action), Clears(request[o].action)) \in Call
    BY <2>2, CallTyped DEF Writes, IInv, Call
  <2>4. \E d \in Call : c = d \/ c = [d EXCEPT !.on = {}, !.status = "none"]
    BY <2>1, <2>3
  <2>5. \A d \in Call : [d EXCEPT !.on = {}, !.status = "none"] \in Call
    BY DEF Call, Statuses
  <2> QED
    BY <2>4, <2>5
<1>4. \A o \in c.on :
        /\ c.status \in {"cancelled", "expired", "executed"}
        /\ request[o].status # "none"
        /\ c.status = "executed" => Passed(o)
  BY <1>2 DEF ReadExport, IInv, WritesValid
<1> HIDE DEF c
<1> QED
  BY <1>1, <1>2, <1>3, <1>4, CallStep

LEMMA ExportCallInv ==
  ASSUME IInv, NEW h \in Handlers, NEW set \in SUBSET Columns, NEW clear \in SUBSET Columns,
         ExportCall(h, set, clear)
  PROVE  IInv'
<1> DEFINE c == Writes(h, set, clear)
<1>1. call' = [call EXCEPT ![h] = c] /\ UNCHANGED <<request, review, lapsed, export, effects>>
  BY DEF ExportCall
<1>2. c \in Call /\ c.op = "write" /\ c.on = {}
  <2> DEFINE S == {f \in set : ~export[f]}
             T == {f \in clear : export[f]}
  <2>0. c = [call[h] EXCEPT !.op = "write", !.set = S, !.clear = T] /\ S \subseteq Columns /\ T \subseteq Columns
    BY DEF Writes
  <2> HIDE DEF c, S, T
  <2>1. call[h] \in Call /\ call[h].on = {}
    BY NoCallTyped DEF ExportCall, Idle, NoCall
  <2>2. c.op = "write" /\ c.on = {}
    BY <2>0, <2>1 DEF Call
  <2>3. c \in Call
    BY <2>0, <2>1 DEF Call
  <2> QED
    BY <2>2, <2>3
<1> HIDE DEF c
<1> QED
  BY <1>1, <1>2, CallStep

(* A review commits: its row was pending, so nothing that already passed   *)
(* or is being executed is touched.                                        *)
LEMMA CommitReviewInv ==
  ASSUME IInv, NEW h \in Handlers, CommitReview(h)
  PROVE  IInv'
<1>1. PICK o \in Overrides :
        /\ call[h].on = {o}
        /\ request[o].status = "pending"
        /\ call[h].by \in Users /\ call[h].by # request[o].by /\ review[o][call[h].by] = "none"
        /\ \/ /\ call[h].decision = "approved" /\ call[h].count = request[o].count + 1
              /\ call[h].status = IF Quorum(call[h].count) THEN "approved" ELSE "pending"
           \/ /\ call[h].decision = "rejected" /\ call[h].count = request[o].count
              /\ call[h].status = "rejected"
  BY DEF CommitReview, IInv, ReviewsValid, ReviewValid
<1> DEFINE u == call[h].by
<1>2. /\ request'[o] = [request[o] EXCEPT !.count = call[h].count, !.status = call[h].status]
      /\ review'[o] = [review[o] EXCEPT ![u] = call[h].decision]
      /\ \A p \in Overrides : p # o => request'[p] = request[p] /\ review'[p] = review[p]
      /\ call' = [call EXCEPT ![h] = NoCall]
      /\ UNCHANGED <<lapsed, export, effects>>
  BY <1>1 DEF CommitReview
<1>3. /\ request'[o].count = call[h].count /\ request'[o].status = call[h].status
      /\ request'[o].by = request[o].by
  BY <1>2, RequestTyped DEF IInv, Request
<1>4. /\ review'[o][u] = call[h].decision
      /\ \A v \in Users : v # u => review'[o][v] = review[o][v]
  BY <1>1, <1>2, RequestTyped DEF IInv
<1>5. call'[h].op = "none" /\ \A g \in Handlers : g # h => call'[g] = call[g]
  BY <1>2 DEF IInv, TypeOK, NoCall
<1>6. TypeOK'
  <2>1. request' \in [Overrides -> Request]
    <3>1. request' = [p \in Overrides |-> request'[p]]
      BY DEF CommitReview
    <3>2. request'[o] \in Request
      <4> DEFINE q == request[o]
                 n == call[h].count
                 s == call[h].status
      <4>1. n \in Nat /\ s \in Statuses /\ q \in Request
        BY CallTyped, RequestTyped DEF IInv
      <4>2. request'[o] = [q EXCEPT !.count = n, !.status = s]
        BY <1>2
      <4> HIDE DEF q, n, s
      <4> QED
        BY <4>1, <4>2 DEF Request
    <3>3. \A p \in Overrides : request'[p] \in Request
      BY <1>2, <3>2, RequestTyped DEF IInv
    <3> QED
      BY <3>1, <3>3
  <2>2. review' \in [Overrides -> [Users -> {"none", "approved", "rejected"}]]
    BY CallTyped DEF CommitReview, IInv, TypeOK
  <2> QED
    BY <1>2, <2>1, <2>2, NoCallTyped DEF IInv, TypeOK
<1>7. ApprovalsCounted'
  <2> SUFFICES ASSUME NEW p \in Overrides PROVE request'[p].count = Cardinality(Approvers(p)')
    BY DEF ApprovalsCounted
  <2>1. CASE p # o
    <3>1. Approvers(p)' = Approvers(p)
      BY <2>1, <1>2 DEF Approvers
    <3> QED
      BY <2>1, <3>1, <1>2 DEF IInv, ApprovalsCounted
  <2>2. CASE p = o /\ call[h].decision = "approved"
    <3>1. Approvers(o)' = Approvers(o) \cup {u} /\ u \notin Approvers(o)
      BY <1>1, <1>4, <2>2 DEF Approvers
    <3>2. Cardinality(Approvers(o) \cup {u}) = Cardinality(Approvers(o)) + 1
      BY <3>1, ApproversFinite, FS_AddElement
    <3> QED
      BY <1>1, <1>3, <2>2, <3>1, <3>2 DEF IInv, ApprovalsCounted
  <2>3. CASE p = o /\ call[h].decision = "rejected"
    <3>1. Approvers(o)' = Approvers(o)
      BY <1>1, <1>4, <2>3 DEF Approvers
    <3> QED
      BY <1>1, <1>3, <2>3, <3>1 DEF IInv, ApprovalsCounted
  <2> QED
    BY <1>1, <2>1, <2>2, <2>3
<1>8. StatusTrue'
  <2> SUFFICES ASSUME NEW p \in Overrides
               PROVE  /\ request'[p].status = "none" => \A v \in Users : review'[p][v] = "none"
                      /\ request'[p].status \in {"none", "pending", "approved", "executed"} => ~Rejected(p)'
                      /\ request'[p].status \in {"approved", "executed"} => request'[p].count >= Required
    BY DEF StatusTrue
  <2>1. CASE p # o
    BY <2>1, <1>2 DEF IInv, StatusTrue, Rejected
  <2>2. CASE p = o
    <3>1. ~Rejected(o)
      BY <1>1 DEF IInv, StatusTrue
    <3>2. call[h].decision = "approved" => ~Rejected(o)'
      BY <3>1, <1>4 DEF Rejected
    <3> QED
      BY <2>2, <3>2, <1>1, <1>3 DEF Quorum
  <2> QED
    BY <2>1, <2>2
<1>9. NotOwn'
  <2> SUFFICES ASSUME NEW p \in Overrides PROVE request'[p].by \notin Approvers(p)'
    BY DEF NotOwn
  <2>1. CASE p # o
    BY <2>1, <1>2 DEF IInv, NotOwn, Approvers
  <2>2. CASE p = o
    <3>1. Approvers(o)' \subseteq Approvers(o) \cup {u}
      BY <1>4 DEF Approvers
    <3> QED
      BY <2>2, <3>1, <1>1, <1>3 DEF IInv, NotOwn
  <2> QED
    BY <2>1, <2>2
<1>10. OneLock'
  BY <1>5 DEF IInv, OneLock
<1>11. ReviewsValid'
  <2> SUFFICES ASSUME NEW g \in Handlers, call'[g].op = "review" PROVE ReviewValid(g)'
    BY DEF ReviewsValid
  <2>1. g # h /\ call'[g] = call[g] /\ call[g].op = "review"
    BY <1>5
  <2>2. ReviewValid(g)
    BY <2>1 DEF IInv, ReviewsValid
  <2>3. o \notin call[g].on
    BY <1>1, <2>1 DEF IInv, OneLock, CommitReview
  <2> QED
    BY <2>1, <2>2, <2>3, <1>2 DEF ReviewValid, Quorum
<1>12. \A p \in Overrides : Passed(p) => Passed(p)'
  <2> SUFFICES ASSUME NEW p \in Overrides, Passed(p) PROVE Passed(p)'
    OBVIOUS
  <2>1. p # o
    BY <1>1 DEF Passed
  <2> QED
    BY <2>1, <1>2 DEF Passed, Rejected
<1>13. WritesValid'
  <2> SUFFICES ASSUME NEW g \in Handlers, call'[g].op \in {"load", "write"}, NEW p \in call'[g].on
               PROVE  /\ call'[g].status \in {"cancelled", "expired", "executed"}
                      /\ request'[p].status # "none"
                      /\ call'[g].status = "executed" => Passed(p)'
    BY DEF WritesValid
  <2>1. g # h /\ call'[g] = call[g] /\ p \in Overrides
    BY <1>5, CallTyped DEF IInv
  <2>2. /\ call[g].status \in {"cancelled", "expired", "executed"}
        /\ request[p].status # "none"
        /\ call[g].status = "executed" => Passed(p)
    BY <2>1 DEF IInv, WritesValid
  <2>3. request'[p].status # "none"
    BY <2>1, <2>2, <1>1, <1>2, <1>3
  <2> QED
    BY <2>1, <2>2, <2>3, <1>12
<1>14. EffectsPassed'
  BY <1>2, <1>12 DEF IInv, EffectsPassed
<1> QED
  BY <1>6, <1>7, <1>8, <1>9, <1>10, <1>11, <1>13, <1>14 DEF IInv

(* A write commits: it closes requests nobody is reviewing. *)
LEMMA CommitWriteInv ==
  ASSUME IInv, NEW h \in Handlers, CommitWrite(h)
  PROVE  IInv'
<1>1. \A p \in Overrides :
        /\ p \in call[h].on =>
             /\ request'[p] = [request[p] EXCEPT !.status = call[h].status]
             /\ ~Locked(p)
        /\ p \notin call[h].on => request'[p] = request[p]
  BY DEF CommitWrite
<1>2. UNCHANGED <<review, lapsed>> /\ call' = [call EXCEPT ![h] = NoCall]
  BY DEF CommitWrite
<1>3. \A p \in Overrides : request'[p].count = request[p].count /\ request'[p].by = request[p].by
  BY <1>1, RequestTyped DEF IInv, Request
<1>4. \A p \in call[h].on :
        /\ p \in Overrides /\ request'[p].status = call[h].status
        /\ call[h].status \in {"cancelled", "expired", "executed"}
        /\ request[p].status # "none"
        /\ call[h].status = "executed" => Passed(p)
  BY <1>1, CallTyped, RequestTyped DEF IInv, Request, WritesValid, CommitWrite
<1>5. call'[h].op = "none" /\ \A g \in Handlers : g # h => call'[g] = call[g]
  BY <1>2 DEF IInv, TypeOK, NoCall
<1>6. TypeOK'
  <2>1. request' \in [Overrides -> Request]
    <3>1. request' = [p \in Overrides |-> request'[p]]
      BY DEF CommitWrite
    <3>2. \A p \in Overrides : request'[p] \in Request
      <4>1. call[h].status \in Statuses /\ \A p \in Overrides : request[p] \in Request
        BY CallTyped, RequestTyped DEF IInv
      <4>2. \A p \in Overrides : \/ request'[p] = [request[p] EXCEPT !.status = call[h].status]
                                 \/ request'[p] = request[p]
        BY <1>1
      <4>3. \A q \in Request : [q EXCEPT !.status = call[h].status] \in Request
        BY <4>1, StatusSet
      <4> QED
        BY <4>1, <4>2, <4>3
    <3> QED
      BY <3>1, <3>2
  <2>2. export' \in [Columns -> BOOLEAN]
    BY DEF CommitWrite
  <2>3. effects' \in [Overrides -> Nat]
    BY DEF CommitWrite, IInv, TypeOK
  <2> QED
    BY <1>2, <2>1, <2>2, <2>3, NoCallTyped DEF IInv, TypeOK
<1>7. ApprovalsCounted' /\ NotOwn'
  BY <1>2, <1>3 DEF IInv, ApprovalsCounted, NotOwn, Approvers
<1>8. StatusTrue'
  <2> SUFFICES ASSUME NEW p \in Overrides
               PROVE  /\ request'[p].status = "none" => \A v \in Users : review'[p][v] = "none"
                      /\ request'[p].status \in {"none", "pending", "approved", "executed"} => ~Rejected(p)'
                      /\ request'[p].status \in {"approved", "executed"} => request'[p].count >= Required
    BY DEF StatusTrue
  <2>1. CASE p \in call[h].on
    BY <2>1, <1>2, <1>3, <1>4 DEF Passed, Rejected
  <2>2. CASE p \notin call[h].on
    BY <2>2, <1>1, <1>2 DEF IInv, StatusTrue, Rejected
  <2> QED
    BY <2>1, <2>2
<1>9. OneLock'
  BY <1>5 DEF IInv, OneLock
<1>10. ReviewsValid'
  <2> SUFFICES ASSUME NEW g \in Handlers, call'[g].op = "review" PROVE ReviewValid(g)'
    BY DEF ReviewsValid
  <2>1. g # h /\ call'[g] = call[g] /\ call[g].op = "review"
    BY <1>5
  <2>2. ReviewValid(g)
    BY <2>1 DEF IInv, ReviewsValid
  <2>3. \A p \in call[g].on : p \in Overrides => request'[p] = request[p]
    BY <2>1, <1>1 DEF Locked
  <2> QED
    BY <2>1, <2>2, <2>3, <1>2 DEF ReviewValid, Quorum
<1>11. \A p \in Overrides : Passed(p) => Passed(p)'
  <2> SUFFICES ASSUME NEW p \in Overrides, Passed(p) PROVE Passed(p)'
    OBVIOUS
  <2>1. CASE p \in call[h].on
    BY <2>1, <1>2, <1>3, <1>4 DEF Passed, Rejected
  <2>2. CASE p \notin call[h].on
    BY <2>2, <1>1, <1>2 DEF Passed, Rejected
  <2> QED
    BY <2>1, <2>2
<1>12. WritesValid'
  <2> SUFFICES ASSUME NEW g \in Handlers, call'[g].op \in {"load", "write"}, NEW p \in call'[g].on
               PROVE  /\ call'[g].status \in {"cancelled", "expired", "executed"}
                      /\ request'[p].status # "none"
                      /\ call'[g].status = "executed" => Passed(p)'
    BY DEF WritesValid
  <2>1. g # h /\ call'[g] = call[g] /\ p \in Overrides
    BY <1>5, CallTyped DEF IInv
  <2>2. /\ call[g].status \in {"cancelled", "expired", "executed"}
        /\ request[p].status # "none"
        /\ call[g].status = "executed" => Passed(p)
    BY <2>1 DEF IInv, WritesValid
  <2>3. request'[p].status # "none"
    BY <2>1, <2>2, <1>1, <1>4
  <2> QED
    BY <2>1, <2>2, <2>3, <1>11
<1>13. EffectsPassed'
  <2> SUFFICES ASSUME NEW p \in Overrides, effects'[p] > 0 PROVE Passed(p)
    BY <1>11 DEF EffectsPassed
  <2>1. CASE p \in call[h].on /\ call[h].status = "executed"
    BY <2>1, <1>4
  <2>2. CASE ~(p \in call[h].on /\ call[h].status = "executed")
    BY <2>2 DEF CommitWrite, IInv, EffectsPassed
  <2> QED
    BY <2>1, <2>2
<1> QED
  BY <1>6, <1>7, <1>8, <1>9, <1>10, <1>12, <1>13 DEF IInv

LEMMA StepInv == IInv /\ [Next]_vars => IInv'
<1> SUFFICES ASSUME IInv, [Next]_vars PROVE IInv'
  OBVIOUS
<1>1. CASE \E o \in Overrides, action \in Actions, u \in Users : Create(o, action, u)
  BY <1>1, CreateInv
<1>2. CASE \E o \in Overrides : Lapse(o)
  BY <1>2, TimeStep DEF Lapse, IInv, TypeOK
<1>3. CASE \E h \in Handlers, o \in Overrides, u \in Users : Approve(h, o, u) \/ Reject(h, o, u)
  BY <1>3, ReviewStartInv
<1>4. CASE \E h \in Handlers : CommitReview(h)
  BY <1>4, CommitReviewInv
<1>5. CASE \E h \in Handlers, o \in Overrides : Cancel(h, o) \/ Execute(h, o)
  BY <1>5, WriteStartInv
<1>6. CASE \E h \in Handlers : ExpirePending(h) \/ ReadExport(h) \/ CommitWrite(h)
  BY <1>6, WriteStartInv, ReadExportInv, CommitWriteInv
<1>7. CASE \E h \in Handlers : SetHold(h) \/ ClearHold(h) \/ ArchiveJob(h)
  BY <1>7, ExportCallInv DEF SetHold, ClearHold, ArchiveJob, Columns
<1>8. CASE \E h \in Handlers, flags \in SUBSET {"hold", "locked", "retained"} : ApplyPolicy(h, flags)
  BY <1>8, ExportCallInv DEF ApplyPolicy, Columns
<1>9. CASE \E c \in {"locked", "retained"} : Elapse(c)
  BY <1>9, TimeStep DEF Elapse, IInv, TypeOK, Columns
<1>10. CASE UNCHANGED vars
  BY <1>10, TimeStep DEF vars, IInv, TypeOK
<1> QED
  BY <1>1, <1>2, <1>3, <1>4, <1>5, <1>6, <1>7, <1>8, <1>9, <1>10 DEF Next

-----------------------------------------------------------------------------
(* The theorems.                                                           *)

(* The inductive invariant holds in every reachable state of the override  *)
(* workflow (approve, reject, cancel, expire_pending, execute).            *)
THEOREM Invariance == Spec => []IInv
BY InitInv, StepInv, PTL DEF Spec

(* Rows, reviews and calls in progress keep their types. *)
THEOREM TypeCorrect == Spec => []TypeOK
<1>1. IInv => TypeOK
  BY DEF IInv
<1> QED
  BY <1>1, Invariance, PTL

(* No approval is lost to a concurrent reviewer (get_request_for_update).  *)
THEOREM NoLostApproval == Spec => []ApprovalsCounted
<1>1. IInv => ApprovalsCounted
  BY DEF IInv
<1> QED
  BY <1>1, Invariance, PTL

(* Dual control: execute never takes effect before a quorum of distinct    *)
(* people other than the requester approved, whatever cancellations,       *)
(* expiries and executions run beside the reviews.                         *)
THEOREM DualControl == Spec => []QuorumBeforeEffect
<1>1. IInv => QuorumBeforeEffect
  BY DEF IInv, EffectsPassed, Passed, ApprovalsCounted, NotOwn, QuorumBeforeEffect
<1> QED
  BY <1>1, Invariance, PTL

(* A rejected override never takes effect. *)
THEOREM RejectedNeverRuns == Spec => []RejectionFinal
<1>1. IInv => RejectionFinal
  <2> SUFFICES ASSUME IInv, NEW o \in Overrides, Rejected(o) PROVE effects[o] = 0
    BY DEF RejectionFinal, Rejected
  <2>1. ~(effects[o] > 0) /\ effects[o] \in Nat
    BY RequestTyped DEF IInv, EffectsPassed, Passed
  <2> QED
    BY <2>1
<1> QED
  BY <1>1, Invariance, PTL

-----------------------------------------------------------------------------
(* Repeated effects.                                                       *)

(* The calls that will execute o when they commit. *)
Executing(o) ==
  {h \in Handlers : call[h].op \in {"load", "write"} /\ call[h].status = "executed" /\ o \in call[h].on}

(* After an effect the request is closed, so that no call joins these.     *)
ClosedByEffect == \A o \in Overrides : effects[o] > 0 => request[o].status # "approved"

OverlapBound ==
  \A o \in Overrides : effects[o] + Cardinality(Executing(o)) <= Cardinality(Handlers)

LEMMA ExecutingFinite ==
  ASSUME NEW S \in SUBSET Handlers
  PROVE  /\ IsFiniteSet(S) /\ Cardinality(S) \in Nat /\ Cardinality(Handlers) \in Nat
         /\ Cardinality(S) <= Cardinality(Handlers)
BY HandlersFinite, FS_Subset, FS_CardinalityType

(* A step without a new effect or a new execution. *)
LEMMA FewerExecuting ==
  ASSUME IInv, OverlapBound, effects' = effects,
         \A o \in Overrides : Executing(o)' \subseteq Executing(o)
  PROVE  OverlapBound'
<1> SUFFICES ASSUME NEW o \in Overrides
             PROVE  effects[o] + Cardinality(Executing(o)') <= Cardinality(Handlers)
  BY DEF OverlapBound
<1>1. Executing(o) \in SUBSET Handlers /\ Executing(o)' \subseteq Executing(o)
  BY DEF Executing
<1>2. Cardinality(Executing(o)') <= Cardinality(Executing(o))
  BY <1>1, ExecutingFinite, FS_Subset
<1>3. Cardinality(Executing(o)') \in Nat /\ Cardinality(Executing(o)) \in Nat
  BY <1>1, ExecutingFinite
<1>4. effects[o] \in Nat /\ effects[o] + Cardinality(Executing(o)) <= Cardinality(Handlers)
  BY RequestTyped DEF IInv, OverlapBound
<1>5. Cardinality(Handlers) \in Nat
  BY <1>1, ExecutingFinite
<1> QED
  BY <1>2, <1>3, <1>4, <1>5

(* Execute starts on an approved request, which had no effect yet. *)
LEMMA ExecuteOverlap ==
  ASSUME IInv, OverlapBound, ClosedByEffect, NEW h \in Handlers, NEW o \in Overrides, Execute(h, o)
  PROVE  OverlapBound'
<1>1. /\ \A g \in Handlers : g # h => call'[g] = call[g]
      /\ call'[h].on = {o}
  BY DEF Execute, Start, IInv, TypeOK, NoCall
<1>2. effects' = effects /\ request[o].status = "approved"
  BY DEF Execute, Executable
<1>3. effects[o] = 0
  BY <1>2, RequestTyped DEF IInv, ClosedByEffect
<1> SUFFICES ASSUME NEW p \in Overrides
             PROVE  effects[p] + Cardinality(Executing(p)') <= Cardinality(Handlers)
  BY <1>2 DEF OverlapBound
<1>4. Executing(p)' \in SUBSET Handlers
  BY DEF Executing
<1>5. CASE p = o
  BY <1>3, <1>4, <1>5, ExecutingFinite
<1>6. CASE p # o
  <2>1. Executing(p)' \subseteq Executing(p) /\ Executing(p) \in SUBSET Handlers
    BY <1>1, <1>6 DEF Executing
  <2>2. Cardinality(Executing(p)') <= Cardinality(Executing(p))
    BY <2>1, ExecutingFinite, FS_Subset
  <2>3. effects[p] \in Nat /\ effects[p] + Cardinality(Executing(p)) <= Cardinality(Handlers)
    BY RequestTyped DEF IInv, OverlapBound
  <2>4. /\ Cardinality(Executing(p)') \in Nat /\ Cardinality(Executing(p)) \in Nat
        /\ Cardinality(Handlers) \in Nat
    BY <1>4, <2>1, ExecutingFinite
  <2> QED
    BY <2>2, <2>3, <2>4
<1> QED
  BY <1>5, <1>6

(* A commit turns one execution in progress into an effect. *)
LEMMA CommitOverlap ==
  ASSUME IInv, OverlapBound, NEW h \in Handlers, CommitWrite(h)
  PROVE  OverlapBound'
<1>1. call'[h] = NoCall /\ \A g \in Handlers : g # h => call'[g] = call[g]
  BY DEF CommitWrite, IInv, TypeOK
<1> SUFFICES ASSUME NEW o \in Overrides
             PROVE  effects'[o] + Cardinality(Executing(o)') <= Cardinality(Handlers)
  BY DEF OverlapBound
<1>2. Executing(o)' = Executing(o) \ {h} /\ Executing(o) \in SUBSET Handlers
  BY <1>1 DEF Executing, NoCall
<1>3. IF h \in Executing(o) THEN effects'[o] = effects[o] + 1 ELSE effects'[o] = effects[o]
  BY DEF CommitWrite, Executing
<1>4. Cardinality(Executing(o)') =
        IF h \in Executing(o) THEN Cardinality(Executing(o)) - 1 ELSE Cardinality(Executing(o))
  BY <1>2, ExecutingFinite, FS_RemoveElement
<1>5. /\ effects[o] \in Nat /\ effects[o] + Cardinality(Executing(o)) <= Cardinality(Handlers)
      /\ Cardinality(Executing(o)) \in Nat /\ Cardinality(Handlers) \in Nat
  BY <1>2, ExecutingFinite, RequestTyped DEF IInv, OverlapBound
<1> QED
  BY <1>3, <1>4, <1>5

(* An effect closes its request, and nothing reopens a closed one. *)
LEMMA ClosedStep ==
  ASSUME IInv, IInv', ClosedByEffect, [Next]_vars
  PROVE  ClosedByEffect'
<1>1. CASE \E h \in Handlers : CommitReview(h)
  <2>1. PICK h \in Handlers : CommitReview(h)
    BY <1>1
  <2>a. ReviewValid(h)
    BY <2>1 DEF CommitReview, IInv, ReviewsValid
  <2>2. PICK o \in Overrides : call[h].on = {o} /\ request[o].status = "pending"
    BY <2>a DEF ReviewValid
  <2>3. ~(effects[o] > 0)
    BY <2>2 DEF IInv, EffectsPassed, Passed
  <2>4. effects' = effects /\ \A p \in Overrides : p # o => request'[p] = request[p]
    BY <2>1, <2>2 DEF CommitReview
  <2> QED
    BY <2>3, <2>4 DEF ClosedByEffect
<1>2. CASE \E h \in Handlers : CommitWrite(h)
  <2>1. PICK h \in Handlers : CommitWrite(h)
    BY <1>2
  <2>2. \A o \in Overrides :
           IF o \in call[h].on
           THEN request'[o] = [request[o] EXCEPT !.status = call[h].status]
           ELSE request'[o] = request[o] /\ effects'[o] = effects[o]
    BY <2>1 DEF CommitWrite
  <2>3. \A o \in call[h].on : call[h].status # "approved"
    BY <2>1 DEF CommitWrite, IInv, WritesValid
  <2>4. \A o \in Overrides : request[o] \in Request
    BY RequestTyped DEF IInv
  <2>5. \A o \in Overrides : o \in call[h].on => request'[o].status # "approved"
    BY <2>2, <2>3, <2>4 DEF Request
  <2> QED
    BY <2>2, <2>5 DEF ClosedByEffect
<1>3. CASE \E o \in Overrides, action \in Actions, u \in Users : Create(o, action, u)
  <2>1. PICK o \in Overrides : /\ request'[o].status = "pending"
                               /\ \A p \in Overrides : p # o => request'[p] = request[p]
    BY <1>3 DEF Create, IInv, TypeOK
  <2> QED
    BY <1>3, <2>1 DEF Create, ClosedByEffect
<1>4. CASE UNCHANGED <<request, effects>>
  BY <1>4 DEF ClosedByEffect
<1> QED
  BY <1>1, <1>2, <1>3, <1>4 DEF Next, vars, Lapse, Approve, Reject, Cancel, Execute, ExpirePending,
     ReadExport, SetHold, ClearHold, ArchiveJob, ApplyPolicy, ExportCall, Elapse

LEMMA OverlapStep ==
  ASSUME IInv, OverlapBound, ClosedByEffect, [Next]_vars
  PROVE  OverlapBound'
<1>1. CASE \E h \in Handlers, o \in Overrides : Execute(h, o)
  BY <1>1, ExecuteOverlap
<1>2. CASE \E h \in Handlers : CommitWrite(h)
  BY <1>2, CommitOverlap
<1>3. ASSUME NEW h \in Handlers, NEW c, call' = [call EXCEPT ![h] = c], effects' = effects,
             c.op \in {"load", "write"} /\ c.status = "executed" =>
               c.on \subseteq call[h].on /\ call[h].op \in {"load", "write"} /\ call[h].status = "executed"
      PROVE  OverlapBound'
  <2>1. call'[h] = c /\ \A g \in Handlers : g # h => call'[g] = call[g]
    BY <1>3 DEF IInv, TypeOK
  <2>2. \A o \in Overrides : Executing(o)' \subseteq Executing(o)
    BY <1>3, <2>1 DEF Executing
  <2> QED
    BY <1>3, <2>2, FewerExecuting
<1>4. CASE \E h \in Handlers, o \in Overrides, u \in Users : Approve(h, o, u) \/ Reject(h, o, u)
  <2>1. PICK h \in Handlers, o \in Overrides, u \in Users : Approve(h, o, u) \/ Reject(h, o, u)
    BY <1>4
  <2>2. /\ call' = [call EXCEPT ![h] = call'[h]] /\ effects' = effects
        /\ call'[h].op = "review"
    BY <2>1, ReviewCall DEF IInv
  <2> QED
    BY <1>3, <2>2
<1>5. CASE \E h \in Handlers : CommitReview(h)
  BY <1>3, <1>5 DEF CommitReview, NoCall
<1>6. CASE \E h \in Handlers : (\E o \in Overrides : Cancel(h, o)) \/ ExpirePending(h)
  <2>1. PICK h \in Handlers : (\E o \in Overrides : Cancel(h, o)) \/ ExpirePending(h)
    BY <1>6
  <2>2. /\ call' = [call EXCEPT ![h] = call'[h]] /\ effects' = effects
        /\ call'[h].status # "executed"
    BY <2>1 DEF Cancel, ExpirePending, Start, NoCall, IInv, TypeOK
  <2> QED
    BY <1>3, <2>2
<1>7. CASE \E h \in Handlers : ReadExport(h)
  <2>1. PICK h \in Handlers : ReadExport(h)
    BY <1>7
  <2>2. /\ call' = [call EXCEPT ![h] = call'[h]] /\ effects' = effects
        /\ call'[h].on = {} \/ (call'[h].on = call[h].on /\ call'[h].status = call[h].status)
    BY <2>1, CallTyped DEF ReadExport, Writes, IInv, TypeOK, Call
  <2>3. CASE call'[h].on = {}
    <3>1. \A g \in Handlers : g # h => call'[g] = call[g]
      BY <2>2 DEF IInv, TypeOK
    <3>2. \A o \in Overrides : Executing(o)' \subseteq Executing(o)
      BY <2>3, <3>1 DEF Executing
    <3> QED
      BY <2>2, <3>2, FewerExecuting
  <2>4. CASE call'[h].on = call[h].on /\ call'[h].status = call[h].status
    BY <1>3, <2>1, <2>2, <2>4 DEF ReadExport
  <2> QED
    BY <2>2, <2>3, <2>4
<1>8. ASSUME NEW h \in Handlers, NEW set, NEW clear, ExportCall(h, set, clear)
      PROVE  OverlapBound'
  <2> DEFINE c == Writes(h, set, clear)
  <2>1. call' = [call EXCEPT ![h] = c] /\ effects' = effects /\ c.status = "none"
    BY <1>8 DEF ExportCall, Idle, NoCall, Writes
  <2> HIDE DEF c
  <2> QED
    BY <1>3, <2>1
<1>9. CASE \E h \in Handlers : SetHold(h) \/ ClearHold(h) \/ ArchiveJob(h)
  BY <1>8, <1>9 DEF SetHold, ClearHold, ArchiveJob
<1>10. CASE \E h \in Handlers, flags \in SUBSET {"hold", "locked", "retained"} : ApplyPolicy(h, flags)
  BY <1>8, <1>10 DEF ApplyPolicy
<1>11. CASE UNCHANGED <<call, effects>>
  BY <1>11, FewerExecuting DEF Executing
<1> QED
  BY <1>1, <1>2, <1>4, <1>5, <1>6, <1>7, <1>9, <1>10, <1>11 DEF Next, vars, Create, Lapse, Elapse

(* execute: an approval is used at most once by each of the calls that     *)
(* overlap, and by none that begins after its first effect committed.      *)
THEOREM RepeatsOverlap == Spec => []ExecutedByOverlap
<1>1. Init => ClosedByEffect /\ OverlapBound
  <2> SUFFICES ASSUME Init PROVE ClosedByEffect /\ OverlapBound
    OBVIOUS
  <2>1. \A o \in Overrides : effects[o] = 0 /\ Executing(o) = {}
    BY DEF Init, Executing, NoCall
  <2>2. Cardinality({}) = 0 /\ Cardinality(Handlers) \in Nat
    BY FS_EmptySet, HandlersFinite, FS_CardinalityType
  <2> QED
    BY <2>1, <2>2 DEF ClosedByEffect, OverlapBound
<1>2. IInv /\ IInv' /\ ClosedByEffect /\ OverlapBound /\ [Next]_vars
        => ClosedByEffect' /\ OverlapBound'
  BY ClosedStep, OverlapStep
<1>3. IInv /\ OverlapBound => ExecutedByOverlap
  <2> SUFFICES ASSUME IInv, OverlapBound, NEW o \in Overrides
               PROVE  effects[o] <= Cardinality(Handlers)
    BY DEF ExecutedByOverlap
  <2>1. Executing(o) \in SUBSET Handlers
    BY DEF Executing
  <2>2. effects[o] \in Nat /\ Cardinality(Executing(o)) \in Nat /\ Cardinality(Handlers) \in Nat
    BY <2>1, ExecutingFinite, RequestTyped DEF IInv
  <2> QED
    BY <2>2 DEF OverlapBound
<1> QED
  BY Invariance, <1>1, <1>2, <1>3, PTL DEF Spec

-----------------------------------------------------------------------------
(* Legal holds.                                                            *)

(* An execution that has not read the export is of one request, and a call *)
(* that will lift a hold changes nothing else and, when it is an execution,*)
(* is one of a removal.                                                    *)
HoldInv ==
  \A h \in Handlers :
    /\ call[h].op = "load" => call[h].status = "executed" /\ \E o \in Overrides : call[h].on = {o}
    /\ "hold" \in call[h].clear =>
         /\ call[h].op = "write" /\ call[h].clear = {"hold"} /\ call[h].set = {}
         /\ \A o \in call[h].on : call[h].status = "executed" /\ request[o].action = "remove_hold"

(* The actions of requests that exist do not change. *)
LEMMA ActionsFixed ==
  ASSUME IInv, [Next]_vars, NEW o \in Overrides, request[o].status # "none"
  PROVE  request'[o].action = request[o].action
<1>1. request[o] \in Request
  BY RequestTyped DEF IInv
<1>2. CASE \E h \in Handlers : CommitReview(h) \/ CommitWrite(h)
  <2>1. PICK h \in Handlers : CommitReview(h) \/ CommitWrite(h)
    BY <1>2
  <2>2. \/ request'[o] = request[o]
        \/ request'[o] = [request[o] EXCEPT !.status = call[h].status]
        \/ request'[o] = [request[o] EXCEPT !.count = call[h].count, !.status = call[h].status]
    BY <2>1 DEF CommitReview, CommitWrite
  <2> QED
    BY <1>1, <2>2 DEF Request
<1>3. CASE \E p \in Overrides, action \in Actions, u \in Users : Create(p, action, u)
  BY <1>3 DEF Create, IInv, TypeOK
<1>4. CASE UNCHANGED request
  BY <1>4
<1> QED
  BY <1>2, <1>3, <1>4 DEF Next, vars, Lapse, Approve, Reject, Cancel, Execute, ExpirePending,
     ReadExport, SetHold, ClearHold, ArchiveJob, ApplyPolicy, ExportCall, Elapse

(* A step that gives one call a new record keeps HoldInv when that record  *)
(* satisfies it.                                                           *)
LEMMA CallHold ==
  ASSUME IInv, HoldInv, [Next]_vars, NEW h \in Handlers, NEW c,
         call' = [call EXCEPT ![h] = c],
         c.op = "load" => c.status = "executed" /\ \E o \in Overrides : c.on = {o},
         "hold" \in c.clear =>
           /\ c.op = "write" /\ c.clear = {"hold"} /\ c.set = {}
           /\ \A o \in c.on : /\ o \in Overrides /\ request[o].status # "none"
                              /\ c.status = "executed" /\ request[o].action = "remove_hold"
  PROVE  HoldInv'
<1>1. call'[h] = c /\ \A g \in Handlers : g # h => call'[g] = call[g]
  BY DEF IInv, TypeOK
<1>2. \A o \in c.on : "hold" \in c.clear => request'[o].action = "remove_hold"
  BY ActionsFixed
<1>3. ASSUME NEW g \in Handlers, NEW o \in call[g].on, "hold" \in call[g].clear
      PROVE  request'[o].action = "remove_hold"
  <2>1. call[g].op = "write" /\ request[o].action = "remove_hold"
    BY <1>3 DEF HoldInv
  <2>2. o \in Overrides /\ request[o].status # "none"
    BY <1>3, <2>1, CallTyped DEF IInv, WritesValid
  <2> QED
    BY <2>1, <2>2, ActionsFixed
<1> SUFFICES ASSUME NEW g \in Handlers
    PROVE  /\ call'[g].op = "load" => call'[g].status = "executed" /\ \E o \in Overrides : call'[g].on = {o}
           /\ "hold" \in call'[g].clear =>
                /\ call'[g].op = "write" /\ call'[g].clear = {"hold"} /\ call'[g].set = {}
                /\ \A o \in call'[g].on : call'[g].status = "executed" /\ request'[o].action = "remove_hold"
  BY DEF HoldInv
<1>4. CASE g = h
  BY <1>1, <1>2, <1>4
<1>5. CASE g # h
  BY <1>1, <1>3, <1>5 DEF HoldInv
<1> QED
  BY <1>4, <1>5

(* An action reads the export: only a removal clears the hold.             *)
LEMMA ReadExportHold ==
  ASSUME IInv, HoldInv, NEW h \in Handlers, ReadExport(h)
  PROVE  HoldInv'
<1>1. call[h] \in Call /\ call[h].op = "load" /\ call[h].status = "executed"
  BY CallTyped DEF ReadExport, IInv, HoldInv
<1>2. PICK o \in Overrides : call[h].on = {o}
  BY <1>1 DEF HoldInv
<1> DEFINE a == request[o].action
           d == IF Refused(a) THEN Writes(h, {}, {}) ELSE Writes(h, Sets(a), Clears(a))
           c == IF Fails(a) THEN [d EXCEPT !.on = {}, !.status = "none"] ELSE d
<1>3. call' = [call EXCEPT ![h] = c]
  BY <1>2 DEF ReadExport
<1>4. request[o].status # "none"
  BY <1>1, <1>2 DEF IInv, WritesValid
<1>5. /\ d.op = "write" /\ d.on = {o} /\ d.status = "executed" /\ d.clear \subseteq Clears(a)
      /\ d.set \subseteq Sets(a)
  BY <1>1, <1>2 DEF Writes, Call
<1>6. d \in Call
  <2>1. Sets(a) \subseteq Columns /\ Clears(a) \subseteq Columns
    BY DEF Sets, Clears, Columns
  <2> QED
    BY <1>1, <2>1 DEF Writes, Call
<1> HIDE DEF d
<1>7. c.op = "write" /\ c.clear = d.clear /\ c.set = d.set /\ (c.on = {} \/ (c.on = {o} /\ c.status = "executed"))
  BY <1>5, <1>6 DEF Call
<1>8. "hold" \in Clears(a) => a = "remove_hold" /\ Clears(a) = {"hold"} /\ Sets(a) = {}
  BY DEF Clears, Sets
<1> HIDE DEF c
<1>9. "hold" \in c.clear =>
           /\ c.op = "write" /\ c.clear = {"hold"} /\ c.set = {}
           /\ \A p \in c.on : /\ p \in Overrides /\ request[p].status # "none"
                              /\ c.status = "executed" /\ request[p].action = "remove_hold"
  <2>1. SUFFICES ASSUME "hold" \in c.clear
                 PROVE  /\ c.op = "write" /\ c.clear = {"hold"} /\ c.set = {}
                        /\ \A p \in c.on : /\ p \in Overrides /\ request[p].status # "none"
                                           /\ c.status = "executed" /\ request[p].action = "remove_hold"
    OBVIOUS
  <2>2. a = "remove_hold" /\ Clears(a) = {"hold"} /\ Sets(a) = {}
    BY <1>5, <1>7, <1>8, <2>1
  <2> QED
    BY <1>4, <1>5, <1>7, <2>1, <2>2
<1>10. [Next]_vars
  BY DEF Next
<1> QED
  BY <1>3, <1>7, <1>9, <1>10, CallHold

LEMMA ExportCallHold ==
  ASSUME IInv, HoldInv, [Next]_vars, NEW h \in Handlers, NEW set, NEW clear, ExportCall(h, set, clear),
         "hold" \notin clear \/ (clear = {"hold"} /\ set = {})
  PROVE  HoldInv'
<1> DEFINE c == Writes(h, set, clear)
<1>1. call' = [call EXCEPT ![h] = c]
  BY DEF ExportCall
<1>2. c.op = "write" /\ c.on = {} /\ c.clear \subseteq clear /\ c.set \subseteq set
  BY DEF Writes, ExportCall, Idle, NoCall
<1> HIDE DEF c
<1> QED
  BY <1>1, <1>2, CallHold

LEMMA HoldStep ==
  ASSUME IInv, HoldInv, [Next]_vars
  PROVE  HoldInv'
<1>1. CASE \E h \in Handlers : ReadExport(h)
  BY <1>1, ReadExportHold
<1>2. CASE \E h \in Handlers : SetHold(h) \/ ClearHold(h) \/ ArchiveJob(h)
  BY <1>2, ExportCallHold DEF SetHold, ClearHold, ArchiveJob
<1>3. CASE \E h \in Handlers, flags \in SUBSET {"hold", "locked", "retained"} : ApplyPolicy(h, flags)
  BY <1>3, ExportCallHold DEF ApplyPolicy
<1>4. CASE \E h \in Handlers : CommitReview(h) \/ CommitWrite(h)
  BY <1>4, CallHold DEF CommitReview, CommitWrite, NoCall
<1>5. ASSUME NEW h \in Handlers, call' = [call EXCEPT ![h] = call'[h]], call'[h].clear = {},
             call'[h].op = "load" => call'[h].status = "executed" /\ \E o \in Overrides : call'[h].on = {o}
      PROVE  HoldInv'
  BY <1>5, CallHold
<1>6. CASE \E h \in Handlers, o \in Overrides, u \in Users : Approve(h, o, u) \/ Reject(h, o, u)
  <2>1. PICK h \in Handlers, o \in Overrides, u \in Users : Approve(h, o, u) \/ Reject(h, o, u)
    BY <1>6
  <2>2. call'[h].clear = {} /\ call'[h].op = "review"
    <3>1. CASE Approve(h, o, u)
      <4> DEFINE n == request[o].count + 1
                 Approved == [op |-> "review", on |-> {o}, status |-> IF Quorum(n) THEN "approved" ELSE "pending",
                              count |-> n, by |-> u, decision |-> "approved", set |-> {}, clear |-> {}]
      <4>1. call'[h] = Approved
        BY <3>1 DEF Approve, Start, NoCall, IInv, TypeOK
      <4> QED
        BY <4>1
    <3>2. CASE Reject(h, o, u)
      <4> DEFINE Denied == [op |-> "review", on |-> {o}, status |-> "rejected", count |-> request[o].count,
                            by |-> u, decision |-> "rejected", set |-> {}, clear |-> {}]
      <4>1. call'[h] = Denied
        BY <3>2 DEF Reject, Start, NoCall, IInv, TypeOK
      <4> QED
        BY <4>1
    <3> QED
      BY <2>1, <3>1, <3>2
  <2>3. call' = [call EXCEPT ![h] = call'[h]]
    BY <2>1 DEF Approve, Reject, Start, IInv, TypeOK
  <2> QED
    BY <1>5, <2>2, <2>3
<1>7. CASE \E h \in Handlers : (\E o \in Overrides : Cancel(h, o)) \/ ExpirePending(h)
  <2>1. PICK h \in Handlers : (\E o \in Overrides : Cancel(h, o)) \/ ExpirePending(h)
    BY <1>7
  <2> DEFINE New(on, status) == [op |-> "write", on |-> on, status |-> status, count |-> 0, by |-> None,
                                 decision |-> "none", set |-> {}, clear |-> {}]
  <2>2. ASSUME NEW o \in Overrides, Cancel(h, o)
        PROVE  call'[h].clear = {} /\ call'[h].op = "write"
    <3>1. call'[h] = New({o}, "cancelled")
      BY <2>2 DEF Cancel, Start, NoCall, IInv, TypeOK
    <3> QED
      BY <3>1
  <2>3. ASSUME ExpirePending(h)
        PROVE  call'[h].clear = {} /\ call'[h].op = "write"
    <3> DEFINE stale == {o \in Overrides : request[o].status = "pending" /\ o \in lapsed}
    <3>1. call'[h] = New(stale, "expired")
      BY <2>3 DEF ExpirePending, Start, NoCall, IInv, TypeOK
    <3> QED
      BY <3>1
  <2>4. call' = [call EXCEPT ![h] = call'[h]]
    BY <2>1 DEF Cancel, ExpirePending, Start, IInv, TypeOK
  <2> QED
    BY <1>5, <2>1, <2>2, <2>3, <2>4
<1>8. CASE \E h \in Handlers, o \in Overrides : Execute(h, o)
  <2>1. PICK h \in Handlers, o \in Overrides : Execute(h, o)
    BY <1>8
  <2>2. /\ call' = [call EXCEPT ![h] = call'[h]] /\ call'[h].clear = {}
        /\ call'[h].status = "executed" /\ call'[h].on = {o}
    BY <2>1 DEF Execute, Start, NoCall, IInv, TypeOK
  <2> QED
    BY <1>5, <2>2
<1>9. CASE UNCHANGED call
  <2>1. ASSUME NEW h \in Handlers, NEW o \in call[h].on, "hold" \in call[h].clear
        PROVE  request'[o].action = "remove_hold"
    <3>1. call[h].op = "write" /\ request[o].action = "remove_hold"
      BY <2>1 DEF HoldInv
    <3>2. o \in Overrides /\ request[o].status # "none"
      BY <2>1, <3>1, CallTyped DEF IInv, WritesValid
    <3> QED
      BY <3>1, <3>2, ActionsFixed
  <2> QED
    BY <1>9, <2>1 DEF HoldInv
<1> QED
  BY <1>1, <1>2, <1>3, <1>4, <1>6, <1>7, <1>8, <1>9 DEF Next, vars, Create, Lapse, Elapse

(* A legal hold is lifted by the hold handler alone, or by the execution   *)
(* of a removal override that a quorum of distinct people approved.        *)
THEOREM HoldsGuarded == Spec => HoldRemovedByQuorum
<1> DEFINE Lifted == (export["hold"] /\ ~export'["hold"])
                       => \E h \in Handlers :
                            /\ call[h].clear = {"hold"} /\ call[h].set = {} /\ call'[h] = NoCall
                            /\ \A o \in call[h].on :
                                 request[o].action = "remove_hold" /\ Cardinality(Approvers(o)) >= Required
<1>1. Init => HoldInv
  BY DEF Init, HoldInv, NoCall
<1>2. IInv /\ HoldInv /\ [Next]_vars => HoldInv'
  BY HoldStep
<1>3. IInv /\ HoldInv /\ [Next]_vars => [Lifted]_vars
  <2> SUFFICES ASSUME IInv, HoldInv, Next, export["hold"], ~export'["hold"] PROVE Lifted
    BY DEF vars
  <2>1. PICK h \in Handlers : CommitWrite(h)
    BY DEF Next, Create, Lapse, Approve, Reject, CommitReview, Cancel, Execute, ExpirePending,
       ReadExport, SetHold, ClearHold, ArchiveJob, ApplyPolicy, ExportCall, Elapse, IInv, TypeOK, Columns
  <2>2. "hold" \in call[h].clear /\ call'[h] = NoCall
    BY <2>1 DEF CommitWrite, IInv, TypeOK, Columns
  <2>3. /\ call[h].op = "write" /\ call[h].clear = {"hold"} /\ call[h].set = {}
        /\ \A o \in call[h].on : call[h].status = "executed" /\ request[o].action = "remove_hold"
    BY <2>2 DEF HoldInv
  <2>4. ASSUME NEW o \in call[h].on
        PROVE  request[o].action = "remove_hold" /\ Cardinality(Approvers(o)) >= Required
    <3>1. o \in Overrides /\ Passed(o)
      BY <2>3, <2>4, CallTyped DEF IInv, WritesValid
    <3> QED
      BY <2>3, <2>4, <3>1 DEF Passed, IInv, ApprovalsCounted
  <2> QED
    BY <2>2, <2>3, <2>4
<1> QED
  BY Invariance, <1>1, <1>2, <1>3, PTL DEF Spec, HoldRemovedByQuorum

-----------------------------------------------------------------------------
(* The vote.                                                               *)

(* A request keeps its requester, and its vote ends with the last approval *)
(* required. *)
Ballots ==
  \A o \in Overrides :
    /\ request[o].status = "none" <=> request[o].by = None
    /\ request[o].count <= Required
    /\ request[o].status = "pending" => request[o].count < Required

(* An execution is of one request. *)
SingleRuns ==
  \A h \in Handlers : call[h].op \in {"load", "write"} /\ call[h].status = "executed" =>
    \E o \in Overrides : call[h].on = {o}

(* The steps that write requests, reviews or effects. *)
LEMMA RowWriters ==
  ASSUME [Next]_vars
  PROVE  \/ \E o \in Overrides, action \in Actions, u \in Users : Create(o, action, u)
         \/ \E h \in Handlers : CommitReview(h) \/ CommitWrite(h)
         \/ UNCHANGED <<request, review, effects>>
BY DEF Next, vars, Lapse, Approve, Reject, Cancel, Execute, ExpirePending,
       ReadExport, SetHold, ClearHold, ArchiveJob, ApplyPolicy, ExportCall, Elapse

(* What the commit of a review does to the one request it holds. *)
LEMMA ReviewWrites ==
  ASSUME IInv, NEW h \in Handlers, CommitReview(h)
  PROVE  \E o \in Overrides, u \in Users :
           /\ request[o].status = "pending" /\ u # request[o].by /\ review[o][u] = "none"
           /\ request' = [request EXCEPT ![o] = [@ EXCEPT !.count = call[h].count, !.status = call[h].status]]
           /\ review' = [review EXCEPT ![o] = [@ EXCEPT ![u] = call[h].decision]]
           /\ \/ /\ call[h].decision = "approved" /\ call[h].count = request[o].count + 1
                 /\ call[h].status = IF Quorum(call[h].count) THEN "approved" ELSE "pending"
              \/ /\ call[h].decision = "rejected" /\ call[h].count = request[o].count
                 /\ call[h].status = "rejected"
<1>1. call[h].op = "review"
  BY DEF CommitReview
<1>2. PICK o \in Overrides :
        /\ call[h].on = {o} /\ request[o].status = "pending"
        /\ call[h].by \in Users /\ call[h].by # request[o].by /\ review[o][call[h].by] = "none"
        /\ \/ /\ call[h].decision = "approved" /\ call[h].count = request[o].count + 1
              /\ call[h].status = IF Quorum(call[h].count) THEN "approved" ELSE "pending"
           \/ /\ call[h].decision = "rejected" /\ call[h].count = request[o].count
              /\ call[h].status = "rejected"
  BY <1>1 DEF IInv, ReviewsValid, ReviewValid
<1>3. request' = [request EXCEPT ![o] = [@ EXCEPT !.count = call[h].count, !.status = call[h].status]]
  BY <1>2 DEF CommitReview, IInv, TypeOK
<1>4. review' = [review EXCEPT ![o] = [@ EXCEPT ![call[h].by] = call[h].decision]]
  BY <1>2 DEF CommitReview, IInv, TypeOK
<1> QED
  BY <1>2, <1>3, <1>4

LEMMA BallotsStep ==
  ASSUME IInv, Ballots, [Next]_vars
  PROVE  Ballots'
<1>1. ASSUME NEW o \in Overrides, NEW action \in Actions, NEW u \in Users, Create(o, action, u)
      PROVE  Ballots'
  <2>1. /\ request'[o] = [status |-> "pending", count |-> 0, action |-> action, by |-> u]
        /\ \A p \in Overrides : p # o => request'[p] = request[p]
    BY <1>1 DEF Create, IInv, TypeOK
  <2> QED
    BY <2>1, NoneAssumption, RequiredAssumption DEF Ballots
<1>2. ASSUME NEW h \in Handlers, CommitReview(h)
      PROVE  Ballots'
  <2>1. PICK o \in Overrides :
          /\ request[o].status = "pending"
          /\ request' = [request EXCEPT ![o] = [@ EXCEPT !.count = call[h].count, !.status = call[h].status]]
          /\ \/ /\ call[h].count = request[o].count + 1
                /\ call[h].status = IF Quorum(call[h].count) THEN "approved" ELSE "pending"
             \/ call[h].count = request[o].count /\ call[h].status = "rejected"
    BY <1>2, ReviewWrites
  <2>2. request[o] \in Request /\ request[o].count \in Nat
    BY RequestTyped DEF IInv
  <2>3. /\ request'[o].by = request[o].by /\ request'[o].count = call[h].count
        /\ request'[o].status = call[h].status
        /\ \A p \in Overrides : p # o => request'[p] = request[p]
    BY <2>1, <2>2 DEF IInv, TypeOK, Request
  <2>4. request[o].by # None /\ request[o].count < Required
    BY <2>1 DEF Ballots
  <2>5. /\ call[h].status # "none" /\ call[h].count <= Required
        /\ call[h].status = "pending" => call[h].count < Required
    BY <2>1, <2>2, <2>4, RequiredAssumption DEF Quorum
  <2> QED
    BY <2>3, <2>4, <2>5 DEF Ballots
<1>3. ASSUME NEW h \in Handlers, CommitWrite(h)
      PROVE  Ballots'
  <2>1. ASSUME NEW o \in Overrides
        PROVE  /\ request'[o].by = request[o].by /\ request'[o].count = request[o].count
               /\ \/ request'[o].status = request[o].status
                  \/ request[o].status # "none" /\ request'[o].status \notin {"none", "pending"}
    <3>1. request[o] \in Request
      BY RequestTyped DEF IInv
    <3>2. CASE o \in call[h].on
      <4>1. request'[o] = [request[o] EXCEPT !.status = call[h].status]
        BY <1>3, <3>2 DEF CommitWrite
      <4>2. call[h].status \in {"cancelled", "expired", "executed"} /\ request[o].status # "none"
        BY <1>3, <3>2 DEF CommitWrite, IInv, WritesValid
      <4> QED
        BY <3>1, <4>1, <4>2 DEF Request
    <3>3. CASE o \notin call[h].on
      BY <1>3, <3>3 DEF CommitWrite
    <3> QED
      BY <3>2, <3>3
  <2> QED
    BY <2>1 DEF Ballots
<1>4. CASE UNCHANGED <<request, review, effects>>
  BY <1>4 DEF Ballots
<1> QED
  BY <1>1, <1>2, <1>3, <1>4, RowWriters

(* Only execute begins an execution, and it is of one request. *)
LEMMA SingleRunsStep ==
  ASSUME IInv, HoldInv, SingleRuns, [Next]_vars
  PROVE  SingleRuns'
<1>1. ASSUME NEW h \in Handlers, \A g \in Handlers : g # h => call'[g] = call[g],
             call'[h].op \in {"load", "write"} /\ call'[h].status = "executed" =>
               \E o \in Overrides : call'[h].on = {o}
      PROVE  SingleRuns'
  BY <1>1 DEF SingleRuns
<1>2. CASE \E h \in Handlers, o \in Overrides, u \in Users : Approve(h, o, u) \/ Reject(h, o, u)
  <2>1. PICK h \in Handlers, o \in Overrides, u \in Users : Approve(h, o, u) \/ Reject(h, o, u)
    BY <1>2
  <2>2. call'[h].op = "review" /\ \A g \in Handlers : g # h => call'[g] = call[g]
    BY <2>1, ReviewCall DEF IInv
  <2> QED
    BY <1>1, <2>2
<1>3. CASE \E h \in Handlers, o \in Overrides : Cancel(h, o) \/ Execute(h, o)
  <2>1. PICK h \in Handlers, o \in Overrides : Cancel(h, o) \/ Execute(h, o)
    BY <1>3
  <2>2. call'[h].on = {o} /\ \A g \in Handlers : g # h => call'[g] = call[g]
    BY <2>1, ClosingCall DEF IInv
  <2> QED
    BY <1>1, <2>2
<1>4. CASE \E h \in Handlers : ExpirePending(h)
  <2>1. PICK h \in Handlers : ExpirePending(h)
    BY <1>4
  <2>2. call'[h].status = "expired" /\ \A g \in Handlers : g # h => call'[g] = call[g]
    BY <2>1 DEF ExpirePending, Start, NoCall, IInv, TypeOK
  <2> QED
    BY <1>1, <2>2
<1>5. CASE \E h \in Handlers : ReadExport(h)
  <2>1. PICK h \in Handlers : ReadExport(h)
    BY <1>5
  <2>2. /\ call'[h].status = "none" \/ call'[h].on = call[h].on
        /\ \A g \in Handlers : g # h => call'[g] = call[g]
    BY <2>1, CallTyped DEF ReadExport, Writes, IInv, TypeOK, Call
  <2>3. \E o \in Overrides : call[h].on = {o}
    BY <2>1 DEF ReadExport, HoldInv
  <2> QED
    BY <1>1, <2>2, <2>3
<1>6. ASSUME NEW h \in Handlers, NEW set, NEW clear, ExportCall(h, set, clear)
      PROVE  SingleRuns'
  <2>1. call'[h].status = "none" /\ \A g \in Handlers : g # h => call'[g] = call[g]
    BY <1>6 DEF ExportCall, Idle, NoCall, Writes, IInv, TypeOK
  <2> QED
    BY <1>1, <2>1
<1>7. CASE \E h \in Handlers : SetHold(h) \/ ClearHold(h) \/ ArchiveJob(h)
  BY <1>6, <1>7 DEF SetHold, ClearHold, ArchiveJob
<1>8. CASE \E h \in Handlers, flags \in SUBSET {"hold", "locked", "retained"} : ApplyPolicy(h, flags)
  BY <1>6, <1>8 DEF ApplyPolicy
<1>9. CASE \E h \in Handlers : CommitReview(h) \/ CommitWrite(h)
  <2>1. PICK h \in Handlers : CommitReview(h) \/ CommitWrite(h)
    BY <1>9
  <2>2. call' = [call EXCEPT ![h] = NoCall]
    BY <2>1 DEF CommitReview, CommitWrite
  <2>3. call'[h].status = "none" /\ \A g \in Handlers : g # h => call'[g] = call[g]
    BY <2>2 DEF NoCall, IInv, TypeOK
  <2> QED
    BY <1>1, <2>3
<1>10. CASE UNCHANGED call
  BY <1>10 DEF SingleRuns
<1> QED
  BY <1>2, <1>3, <1>4, <1>5, <1>7, <1>8, <1>9, <1>10 DEF Next, vars, Create, Lapse, Elapse

(* The instance counts as this module does. *)
LEMMA SameCount == \A S : Vote!Cardinality(S) = Cardinality(S)
BY DEF Vote!Cardinality, Cardinality

(* A person opens the vote. *)
LEMMA CreateVote ==
  ASSUME IInv, Ballots, NEW o \in Overrides, NEW action \in Actions, NEW u \in Users, Create(o, action, u)
  PROVE  Vote!Next
<1>1. request[o].by = None
  BY DEF Create, Ballots
<1>2. [p \in Overrides |-> request'[p].by] = [[p \in Overrides |-> request[p].by] EXCEPT ![o] = u]
  BY DEF Create, IInv, TypeOK
<1>3. UNCHANGED <<review, effects>>
  BY DEF Create
<1>4. Vote!Propose(o, u)
  BY <1>1, <1>2, <1>3 DEF Vote!Propose, Approvers, Rejecters
<1> QED
  BY <1>4 DEF Vote!Next

(* A committed review is one vote, cast while the vote was open. *)
LEMMA ReviewVote ==
  ASSUME IInv, Ballots, NEW h \in Handlers, CommitReview(h)
  PROVE  Vote!Next
<1>1. PICK o \in Overrides, u \in Users :
        /\ request[o].status = "pending" /\ u # request[o].by /\ review[o][u] = "none"
        /\ request' = [request EXCEPT ![o] = [@ EXCEPT !.count = call[h].count, !.status = call[h].status]]
        /\ review' = [review EXCEPT ![o] = [@ EXCEPT ![u] = call[h].decision]]
        /\ \/ /\ call[h].decision = "approved" /\ call[h].count = request[o].count + 1
              /\ call[h].status = IF Quorum(call[h].count) THEN "approved" ELSE "pending"
           \/ /\ call[h].decision = "rejected" /\ call[h].count = request[o].count
              /\ call[h].status = "rejected"
  BY ReviewWrites
<1>2. [p \in Overrides |-> request'[p].by] = [p \in Overrides |-> request[p].by]
  <2>1. \A p \in Overrides : request[p] \in Request
    BY RequestTyped DEF IInv
  <2> QED
    BY <1>1, <2>1 DEF IInv, TypeOK, Request
<1>3. effects' = effects
  BY DEF CommitReview
<1>4. /\ \A p \in Overrides : p # o => review'[p] = review[p]
      /\ review'[o][u] = call[h].decision
      /\ \A v \in Users : v # u => review'[o][v] = review[o][v]
  BY <1>1 DEF IInv, TypeOK
<1>5. Rejecters(o) = {}
  BY <1>1 DEF IInv, StatusTrue, Rejected, Rejecters
<1>6. Vote!MayVote(o, u)
  <2>1. request[o].by # None /\ Cardinality(Approvers(o)) < Required
    BY <1>1 DEF Ballots, IInv, ApprovalsCounted
  <2>2. u \notin Approvers(o)
    BY <1>1 DEF Approvers
  <2>3. /\ [p \in Overrides |-> Approvers(p)][o] = Approvers(o)
        /\ [p \in Overrides |-> Rejecters(p)][o] = {}
    BY <1>5
  <2> QED
    BY <1>1, <2>1, <2>2, <2>3, SameCount DEF Vote!MayVote, Vote!Open
<1>7. CASE call[h].decision = "approved"
  <2>1. Approvers(o)' = Approvers(o) \cup {u} /\ Rejecters(o)' = Rejecters(o)
    BY <1>1, <1>4, <1>7 DEF Approvers, Rejecters
  <2>2. \A p \in Overrides : p # o => Approvers(p)' = Approvers(p) /\ Rejecters(p)' = Rejecters(p)
    BY <1>4 DEF Approvers, Rejecters
  <2>3. Vote!Approve(o, u)
    BY <1>2, <1>3, <1>6, <2>1, <2>2 DEF Vote!Approve
  <2> QED
    BY <2>3 DEF Vote!Next
<1>8. CASE call[h].decision = "rejected"
  <2>1. Approvers(o)' = Approvers(o) /\ Rejecters(o)' = {u}
    BY <1>1, <1>4, <1>5, <1>8 DEF Approvers, Rejecters
  <2>2. \A p \in Overrides : p # o => Approvers(p)' = Approvers(p) /\ Rejecters(p)' = Rejecters(p)
    BY <1>4 DEF Approvers, Rejecters
  <2>3. Vote!Reject(o, u)
    BY <1>2, <1>3, <1>6, <2>1, <2>2 DEF Vote!Reject
  <2> QED
    BY <2>3 DEF Vote!Next
<1> QED
  BY <1>1, <1>7, <1>8

(* A committed write is the effect of one request that passed, or none. *)
LEMMA WriteVote ==
  ASSUME IInv, Ballots, SingleRuns, NEW h \in Handlers, CommitWrite(h)
  PROVE  Vote!Next \/ UNCHANGED Vote!vars
<1>1. [p \in Overrides |-> request'[p].by] = [p \in Overrides |-> request[p].by]
  <2>1. \A p \in Overrides : request[p] \in Request
    BY RequestTyped DEF IInv
  <2>2. \A p \in Overrides : request'[p].by = request[p].by
    BY <2>1 DEF CommitWrite, Request
  <2> QED
    BY <2>2
<1>2. \A p \in Overrides : Approvers(p)' = Approvers(p) /\ Rejecters(p)' = Rejecters(p)
  BY DEF CommitWrite, Approvers, Rejecters
<1>3. CASE call[h].status = "executed"
  <2>1. PICK o \in Overrides : call[h].on = {o}
    BY <1>3 DEF CommitWrite, SingleRuns
  <2>2. effects' = [effects EXCEPT ![o] = @ + 1]
    BY <1>3, <2>1 DEF CommitWrite, IInv, TypeOK
  <2>3. Passed(o)
    BY <1>3, <2>1 DEF CommitWrite, IInv, WritesValid
  <2>4. Rejecters(o) = {} /\ Cardinality(Approvers(o)) = Required
    <3>1. request[o].count \in Nat /\ request[o].count <= Required /\ request[o].count >= Required
      BY <2>3, RequestTyped DEF IInv, Ballots, Passed
    <3>2. request[o].count = Required
      BY <3>1, RequiredAssumption
    <3> QED
      BY <2>3, <3>2 DEF Passed, Rejected, Rejecters, IInv, ApprovalsCounted
  <2>5. /\ [p \in Overrides |-> Approvers(p)][o] = Approvers(o)
        /\ [p \in Overrides |-> Rejecters(p)][o] = {}
    BY <2>4
  <2>6. Vote!TakeEffect(o)
    BY <1>1, <1>2, <2>2, <2>4, <2>5, SameCount DEF Vote!TakeEffect
  <2> QED
    BY <2>6 DEF Vote!Next
<1>4. CASE call[h].status # "executed"
  <2>1. effects' = effects
    BY <1>4 DEF CommitWrite, IInv, TypeOK
  <2> QED
    BY <1>1, <1>2, <2>1 DEF Vote!vars
<1> QED
  BY <1>3, <1>4

(* Requests, reviews and executions go as dual control promises, whatever  *)
(* calls overlap: for any users, overrides, handlers and quorum.           *)
THEOREM OverridesImplementVote == Spec => ImplementsVote
<1>1. Init => HoldInv /\ Ballots /\ SingleRuns
  BY RequiredAssumption DEF Init, HoldInv, Ballots, SingleRuns, NoCall
<1>2. IInv /\ HoldInv /\ Ballots /\ SingleRuns /\ [Next]_vars => HoldInv' /\ Ballots' /\ SingleRuns'
  BY HoldStep, BallotsStep, SingleRunsStep
<1>3. Init => Vote!Init
  <2>1. ASSUME Init, NEW o \in Overrides
        PROVE  request[o].by = None /\ Approvers(o) = {} /\ Rejecters(o) = {}
    BY <2>1 DEF Init, Approvers, Rejecters
  <2> QED
    BY <2>1 DEF Init, Vote!Init
<1>4. IInv /\ Ballots /\ SingleRuns /\ [Next]_vars => [Vote!Next]_Vote!vars
  <2>1. CASE UNCHANGED <<request, review, effects>>
    BY <2>1 DEF Vote!vars, Approvers, Rejecters
  <2> QED
    BY <2>1, CreateVote, ReviewVote, WriteVote, RowWriters
<1> QED
  BY Invariance, <1>1, <1>2, <1>3, <1>4, PTL DEF Spec, ImplementsVote, Vote!Spec
=============================================================================
