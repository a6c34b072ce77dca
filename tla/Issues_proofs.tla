------------------------------ MODULE Issues_proofs ------------------------------
(***************************************************************************)
(* The clocks, the notices and the transition log of an issue, for every   *)
(* number of users, deliveries and overlapping checks; the view of it that *)
(* escalation policies rely on; what the policies' evaluations do over     *)
(* that view, for every number of policies and overlapping evaluations;    *)
(* and that they do the same over the issue itself.                        *)
(***************************************************************************)
EXTENDS IssueCase, Escalation, FiniteSetTheorems, WellFoundedInduction, TLAPS

(* One transition at a time, of an issue that is not deleted, decided on a *)
(* status that for a user is the present one. *)
LockHeld(p) ==
  tx[p].pc = "locked" =>
    /\ ~issue.deleted
    /\ tx[p].seen # "closed" /\ tx[p].to = ALLOWED_TRANSITIONS[tx[p].seen]
    /\ p \in Users => tx[p].seen = issue.status
    /\ "resolution" \in tx[p].marks => tx[p].to = "resolved"

Locks ==
  /\ \A p, q \in Requests : tx[p].pc = "locked" /\ tx[q].pc = "locked" => p = q
  /\ \A p \in Requests : LockHeld(p)

(* A clock that has stopped or was reported stays so; what a transaction   *)
(* has read of the issue tells which have. *)
Settled(c) == sla[c].breached \/ sla[c].met # Null

Settles(p) ==
  /\ tx[p].pc = "loaded" =>
       /\ tx[p].seen # "open" => Settled("response")
       /\ tx[p].seen \in Done => Settled("resolution")
  /\ tx[p].pc = "locked" =>
       /\ "response" \in tx[p].marks \/ Settled("response")
       /\ tx[p].to \in Done => "resolution" \in tx[p].marks \/ Settled("resolution")

Settling == ClocksSettle /\ \A p \in Requests : Settles(p)

(* What a check has flagged was overdue, and stays late. *)
Late ==
  /\ OnTimeNotBreached
  /\ \A c \in Clocks : sla[c].breached => clock > Due(c)
  /\ \A k \in Checkers :
       /\ check[k].now <= clock
       /\ \A c \in check[k].flagged :
            clock > Due(c) /\ (sla[c].met = Null \/ sla[c].met > Due(c))

(* Every notice used up a check that had flagged the clock before it was   *)
(* reported. *)
Flagging(c) == {k \in Checkers : c \in check[k].flagged}

Noticed ==
  /\ \A k \in Checkers : check[k].pc = "idle" => check[k].flagged = {}
  /\ \A c \in Clocks :
       /\ sla[c].breached <=> notices[c] > 0
       /\ notices[c] + Cardinality(Flagging(c)) <= Cardinality(Checkers)

IInv == TypeOK /\ Locks /\ Settling /\ Late /\ Noticed /\ SerialWithoutStale

-----------------------------------------------------------------------------
(* The graph of the transitions. *)
LEMMA Graph ==
  /\ \A s \in Status \ {"closed"} :
       /\ ALLOWED_TRANSITIONS[s] \in Status \ {"open"}
       /\ s = "open" <=> ALLOWED_TRANSITIONS[s] = "investigating"
       /\ ALLOWED_TRANSITIONS[s] \in Done => ALLOWED_TRANSITIONS[s] = "resolved" \/ s \in Done
       /\ s \in Done => ALLOWED_TRANSITIONS[s] = "closed"
  /\ ALLOWED_TRANSITIONS["closed"] \notin Status
BY DEF ALLOWED_TRANSITIONS, Status, Done

(* Deadlines are numbers. *)
LEMMA DueTyped == \A c \in Clocks : Due(c) \in Nat
BY HoursAssumption DEF Due

(* What a step may be: the row is locked, a locked transition ends, or the *)
(* row stays as it is. *)
Locking(p) ==
  \/ p \in Users /\ Transition(p)
  \/ p \in Deliveries /\ Apply(p)

(* Steps of a request that takes no lock. *)
Unlocked(p) ==
  \/ p \in Users /\ DeleteStart(p)
  \/ p \in Deliveries /\ (RecordOnly(p) \/ Refuse(p))

LEMMA StepCases ==
  ASSUME [Next]_vars
  PROVE  \/ UNCHANGED vars
         \/ Elapse \/ CreateRca \/ Rollback
         \/ \E p \in Requests : Locking(p) \/ Commit(p) \/ Unlocked(p)
         \/ \E d \in Deliveries, e \in Events : Deliver(d, e)
         \/ \E u \in Users : Delete(u)
         \/ \E k \in Checkers : CheckStart(k) \/ CheckResolution(k) \/ CheckCommit(k)
BY DEF Next, Requests, Locking, Unlocked, Checking

(* A lock is taken for a step of the graph. *)
LEMMA LockTaken ==
  ASSUME TypeOK, NEW p \in Requests, Locking(p)
  PROVE  \E from \in Status \ {"closed"} :
           /\ Lock(p, from, ALLOWED_TRANSITIONS[from])
           /\ ~issue.deleted
           /\ p \in Users => from = issue.status
           /\ p \notin Users => /\ tx[p].pc = "loaded" /\ from = tx[p].seen
                               /\ ALLOWED_TRANSITIONS[from] = tx[p].to
<1>1. CASE p \in Users /\ Transition(p)
  BY <1>1 DEF TypeOK, Transition
<1>2. CASE p \in Deliveries /\ Apply(p)
  <2>1. tx[p].seen \in Status /\ tx[p].to \in Status
    BY DEF TypeOK, Transaction
  <2>2. tx[p].to = ALLOWED_TRANSITIONS[tx[p].seen] /\ tx[p].seen # "closed"
    BY <1>2, <2>1, Graph DEF Apply, Acceptable
  <2> QED
    BY <1>2, <2>1, <2>2, PartiesAssumption DEF Apply, Acceptable
<1> QED
  BY <1>1, <1>2 DEF Locking

(* The marks are clocks. *)
LEMMA MarksTyped == ASSUME NEW from, NEW to PROVE Marks(from, to) \subseteq Clocks
BY DEF Marks

-----------------------------------------------------------------------------
(* What a lock and a commit leave in the transactions. *)
LEMMA LockTx ==
  ASSUME TypeOK, NEW p \in Requests, NEW from \in Status, NEW to \in Status, Lock(p, from, to)
  PROVE  /\ tx' = [tx EXCEPT ![p] = [pc |-> "locked", seen |-> from, to |-> to, marks |-> Marks(from, to)]]
         /\ tx' \in [Requests -> Transaction]
BY MarksTyped DEF TypeOK, Lock, Goto, Transaction

(* Nothing in progress is a type of work. *)
LEMMA IdleTyped ==
  /\ IdleTx \in Transaction
  /\ IdleCheck \in Check
BY HoursAssumption DEF IdleTx, IdleCheck, Transaction, Check, Status

(* The deliveries work on events. *)
Delivering == \A d \in Deliveries : tx[d].pc # "idle" => tx[d].to \in Events

LEMMA GotoTyped ==
  ASSUME TypeOK, NEW p \in Requests, NEW to \in Transaction, Goto(p, to),
         p \in Deliveries /\ to.pc # "idle" => to.to \in Events
  PROVE  tx' \in [Requests -> Transaction] /\ Delivering'
BY PartiesAssumption DEF TypeOK, Goto, Delivering, Requests

LEMMA TypeStep ==
  ASSUME TypeOK, [Next]_vars
  PROVE  TypeOK'
<1> USE HoursAssumption, IdleTyped DEF Delivering
<1>1. CASE UNCHANGED vars
  BY <1>1 DEF vars, TypeOK
<1>2. CASE Elapse
  BY <1>2 DEF TypeOK, Elapse
<1>3. CASE CreateRca
  BY <1>3 DEF TypeOK, CreateRca
<1>4. ASSUME NEW p \in Requests, Goto(p, IdleTx)
      PROVE  tx' \in [Requests -> Transaction] /\ Delivering'
  BY <1>4, GotoTyped DEF IdleTx
<1>5. CASE Rollback
  <2>1. faults' \in 0..MaxFaults
    BY <1>5 DEF TypeOK, Rollback
  <2>2. tx' \in [Requests -> Transaction] /\ Delivering'
    BY <1>4, <1>5 DEF TypeOK, Rollback
  <2>3. check' \in [Checkers -> Check]
    BY <1>5 DEF TypeOK, Rollback
  <2> QED
    BY <1>5, <2>1, <2>2, <2>3 DEF TypeOK, Rollback
<1>6. ASSUME NEW p \in Requests, Locking(p)
      PROVE  TypeOK'
  <2>1. PICK from \in Status \ {"closed"} :
          /\ Lock(p, from, ALLOWED_TRANSITIONS[from])
          /\ p \notin Users => tx[p].pc = "loaded" /\ ALLOWED_TRANSITIONS[from] = tx[p].to
    BY <1>6, LockTaken
  <2>2. tx' \in [Requests -> Transaction]
    BY <2>1, Graph, LockTx
  <2>3. /\ tx'[p].to = ALLOWED_TRANSITIONS[from]
        /\ \A q \in Requests \ {p} : tx'[q] = tx[q]
    BY <2>1, Graph, LockTx DEF TypeOK
  <2>4. p \in Deliveries => p \notin Users /\ tx[p].to \in Events
    BY <2>1, PartiesAssumption DEF TypeOK
  <2>5. Delivering'
    BY <2>1, <2>3, <2>4 DEF TypeOK, Requests
  <2> QED
    BY <2>1, <2>2, <2>5 DEF TypeOK, Lock
<1>7. ASSUME NEW p \in Requests, Commit(p)
      PROVE  TypeOK'
  <2>1. tx[p].seen \in Status /\ tx[p].to \in Status /\ tx[p].marks \subseteq Clocks
    BY DEF TypeOK, Transaction
  <2>2. issue' \in [status : Status, deleted : BOOLEAN]
    BY <1>7, <2>1 DEF TypeOK, Commit
  <2>3. history' \in Seq([from : Status, to : Status])
    BY <1>7, <2>1 DEF TypeOK, Commit
  <2>4. sla' \in [Clocks -> [met : {Null} \cup (0..MaxClock), breached : BOOLEAN]]
    BY <1>7 DEF TypeOK, Commit
  <2>5. recorded' \subseteq Events
    BY <1>7 DEF TypeOK, Commit
  <2>6. stale' \in Nat
    BY <1>7 DEF TypeOK, Commit
  <2> QED
    BY <1>4, <1>7, <2>2, <2>3, <2>4, <2>5, <2>6 DEF TypeOK, Commit
<1>8. ASSUME NEW u \in Users, DeleteStart(u)
      PROVE  TypeOK'
  <2>1. [IdleTx EXCEPT !.pc = "deleting"] \in Transaction
    BY DEF Transaction
  <2>2. tx' \in [Requests -> Transaction] /\ Delivering'
    BY <1>8, <2>1, GotoTyped, PartiesAssumption DEF DeleteStart, Requests
  <2> QED
    BY <1>8, <2>2 DEF TypeOK, DeleteStart
<1>9. ASSUME NEW d \in Deliveries, RecordOnly(d)
      PROVE  TypeOK'
  BY <1>4, <1>9 DEF TypeOK, RecordOnly, Requests
<1>10. ASSUME NEW d \in Deliveries, Refuse(d)
       PROVE  TypeOK'
  BY <1>4, <1>10 DEF TypeOK, Refuse, Requests
<1>11. ASSUME NEW d \in Deliveries, NEW e \in Events, Deliver(d, e)
       PROVE  TypeOK'
  <2>1. [pc |-> "loaded", seen |-> issue.status, to |-> e, marks |-> {}] \in Transaction
    BY PartiesAssumption DEF TypeOK, Transaction
  <2>2. tx' \in [Requests -> Transaction] /\ Delivering'
    BY <1>11, <2>1, GotoTyped DEF Deliver, Requests
  <2> QED
    BY <1>11, <2>2 DEF TypeOK, Deliver
<1>12. ASSUME NEW u \in Users, Delete(u)
       PROVE  TypeOK'
  <2>1. issue' \in [status : Status, deleted : BOOLEAN]
    BY <1>12 DEF TypeOK, Delete
  <2> QED
    BY <1>4, <1>12, <2>1 DEF TypeOK, Delete, Requests
<1>13. ASSUME NEW k \in Checkers, CheckStart(k)
       PROVE  TypeOK'
  <2>1. check' \in [Checkers -> Check]
    BY <1>13 DEF TypeOK, CheckStart, Clocks, Check
  <2> QED
    BY <1>13, <2>1 DEF TypeOK, CheckStart
<1>14. ASSUME NEW k \in Checkers, CheckResolution(k)
       PROVE  TypeOK'
  <2>1. check' \in [Checkers -> Check]
    <3> DEFINE flagged == IF Overdue("resolution", check[k].now) THEN check[k].flagged \cup {"resolution"}
                                                                 ELSE check[k].flagged
               c == [check[k] EXCEPT !.pc = "resolution", !.flagged = flagged]
    <3>1. check[k] \in Check /\ flagged \in SUBSET Clocks
      BY DEF TypeOK, Check, Clocks
    <3>2. check' = [check EXCEPT ![k] = c]
      BY <1>14 DEF CheckResolution, TypeOK
    <3> HIDE DEF flagged
    <3>3. c \in Check
      BY <3>1 DEF Check
    <3> HIDE DEF c
    <3> QED
      BY <3>2, <3>3 DEF TypeOK
  <2> QED
    BY <1>14, <2>1 DEF TypeOK, CheckResolution
<1>15. ASSUME NEW k \in Checkers, CheckCommit(k)
       PROVE  TypeOK'
  <2>1. sla' \in [Clocks -> [met : {Null} \cup (0..MaxClock), breached : BOOLEAN]]
    BY <1>15 DEF TypeOK, CheckCommit
  <2>2. notices' \in [Clocks -> Nat]
    BY <1>15 DEF TypeOK, CheckCommit
  <2> QED
    BY <1>15, <2>1, <2>2 DEF TypeOK, CheckCommit
<1> QED
  BY <1>1, <1>2, <1>3, <1>5, <1>6, <1>7, <1>8, <1>9, <1>10, <1>11, <1>12, <1>13, <1>14, <1>15, StepCases
     DEF Unlocked

-----------------------------------------------------------------------------
(* Who moves the issue, and which clocks. *)
LEMMA IssueMoves ==
  ASSUME [Next]_vars
  PROVE  \/ UNCHANGED <<issue, history, stale>>
         \/ \E p \in Requests : Commit(p)
         \/ \E u \in Users : Delete(u)
BY StepCases DEF vars, Elapse, CreateRca, Rollback, Locking, Transition, Apply, Lock, Unlocked,
   DeleteStart, RecordOnly, Refuse, Deliver, CheckStart, CheckResolution, CheckCommit

LEMMA ClockMoves ==
  ASSUME [Next]_vars
  PROVE  \/ UNCHANGED <<sla, notices>>
         \/ \E p \in Requests : Commit(p)
         \/ \E k \in Checkers : CheckCommit(k)
BY StepCases DEF vars, Elapse, CreateRca, Rollback, Locking, Transition, Apply, Lock, Unlocked,
   DeleteStart, RecordOnly, Refuse, Deliver, Delete, CheckStart, CheckResolution

(* A transaction that is locked after a step was so before, or has just    *)
(* taken the lock; one that is loaded was so, or has just loaded. *)
LEMMA TxMoves ==
  ASSUME TypeOK, [Next]_vars
  PROVE  \A p \in Requests :
           \/ tx'[p] = tx[p]
           \/ tx'[p].pc \in {"idle", "deleting"}
           \/ Locking(p)
           \/ p \in Deliveries /\ \E e \in Events : Deliver(p, e)
<1> USE DEF Goto, TypeOK, IdleTx
<1>1. SUFFICES ASSUME NEW p \in Requests, tx'[p] # tx[p], tx'[p].pc \notin {"idle", "deleting"}
               PROVE  Locking(p) \/ (p \in Deliveries /\ \E e \in Events : Deliver(p, e))
  OBVIOUS
<1>2. ASSUME NEW q \in Requests, NEW to, tx' = [tx EXCEPT ![q] = to], to.pc \in {"idle", "deleting"}
      PROVE  FALSE
  BY <1>1, <1>2
<1>3. ~Rollback
  BY <1>1, <1>2 DEF Rollback
<1>4. \A q \in Requests : ~Commit(q)
  BY <1>1, <1>2 DEF Commit
<1>5. \A q \in Requests : ~Unlocked(q)
  BY <1>1, <1>2 DEF Unlocked, DeleteStart, RecordOnly, Refuse
<1>6. \A u \in Users : ~Delete(u)
  BY <1>1, <1>2 DEF Delete, Requests
<1>7. ASSUME NEW q \in Requests, Locking(q)
      PROVE  q = p
  BY <1>1, <1>7, LockTaken DEF Lock
<1>8. ASSUME NEW d \in Deliveries, NEW e \in Events, Deliver(d, e)
      PROVE  d = p
  BY <1>1, <1>8 DEF Deliver, Requests
<1>9. tx' # tx
  BY <1>1
<1> QED
  BY <1>3, <1>4, <1>5, <1>6, <1>7, <1>8, <1>9, StepCases
     DEF vars, Elapse, CreateRca, CheckStart, CheckResolution, CheckCommit

(* The lock and the rows it guards. *)
LEMMA LocksStep ==
  ASSUME TypeOK, Locks, [Next]_vars
  PROVE  Locks'
<1>1. ASSUME NEW p \in Requests, tx'[p].pc = "locked", tx[p].pc # "locked"
      PROVE  Locking(p)
  BY <1>1, TxMoves DEF Deliver, Goto, TypeOK
<1>2. ASSUME NEW p \in Requests, Locking(p)
      PROVE  Locks'
  <2>1. PICK from \in Status \ {"closed"} :
          /\ Lock(p, from, ALLOWED_TRANSITIONS[from])
          /\ ~issue.deleted /\ (p \in Users => from = issue.status)
    BY <1>2, LockTaken
  <2>2. /\ tx' = [tx EXCEPT ![p] = [pc |-> "locked", seen |-> from, to |-> ALLOWED_TRANSITIONS[from],
                                    marks |-> Marks(from, ALLOWED_TRANSITIONS[from])]]
        /\ UNCHANGED issue
    BY <2>1 DEF Lock, Goto
  <2>3. \A q \in Requests : tx[q].pc # "locked"
    BY <2>1 DEF Lock, Held
  <2>4. "resolution" \in Marks(from, ALLOWED_TRANSITIONS[from]) => ALLOWED_TRANSITIONS[from] = "resolved"
    BY DEF Marks
  <2> QED
    BY <2>1, <2>2, <2>3, <2>4 DEF TypeOK, Locks, LockHeld
<1>3. SUFFICES ASSUME \A p \in Requests : tx'[p].pc = "locked" => tx'[p] = tx[p]
               PROVE  Locks'
  BY <1>1, <1>2, TxMoves DEF Deliver, Goto, TypeOK
<1>4. ASSUME NEW p \in Requests, tx'[p].pc = "locked"
      PROVE  UNCHANGED issue
  <2>1. ASSUME NEW q \in Requests, Commit(q)
        PROVE  FALSE
    BY <1>3, <1>4, <2>1 DEF Commit, Goto, IdleTx, Locks, TypeOK
  <2>2. ASSUME NEW u \in Users, Delete(u)
        PROVE  FALSE
    BY <1>3, <1>4, <2>2 DEF Delete, Held
  <2> QED
    BY <2>1, <2>2, IssueMoves
<1> QED
  BY <1>3, <1>4 DEF Locks, LockHeld

-----------------------------------------------------------------------------
(* A settled clock stays settled, a breach stays, and a clock that stops   *)
(* stops now. *)
LEMMA ClocksOnward ==
  ASSUME TypeOK, [Next]_vars, NEW c \in Clocks
  PROVE  /\ sla[c].breached => sla'[c].breached
         /\ Settled(c) => Settled(c)'
         /\ sla'[c].met \in {sla[c].met, clock}
         /\ sla'[c].met # sla[c].met => \E p \in Requests : Commit(p) /\ c \in tx[p].marks
<1>1. clock \in Nat /\ clock # Null
  BY HoursAssumption DEF TypeOK, Null
<1>2. ASSUME NEW p \in Requests, Commit(p)
      PROVE  sla'[c] = IF c \in tx[p].marks THEN [sla[c] EXCEPT !.met = clock] ELSE sla[c]
  BY <1>2 DEF Commit
<1>3. ASSUME NEW k \in Checkers, CheckCommit(k)
      PROVE  sla'[c] = IF c \in check[k].flagged THEN [sla[c] EXCEPT !.breached = TRUE] ELSE sla[c]
  BY <1>3 DEF CheckCommit
<1>4. sla[c] \in [met : {Null} \cup (0..MaxClock), breached : BOOLEAN]
  BY DEF TypeOK
<1>5. ASSUME NEW p \in Requests, Commit(p)
      PROVE  /\ sla'[c].breached = sla[c].breached
             /\ sla'[c].met = IF c \in tx[p].marks THEN clock ELSE sla[c].met
  BY <1>2, <1>4, <1>5
<1>6. ASSUME NEW k \in Checkers, CheckCommit(k)
      PROVE  /\ sla[c].breached => sla'[c].breached
             /\ sla'[c].met = sla[c].met
  BY <1>3, <1>4, <1>6
<1> QED
  BY <1>1, <1>5, <1>6, ClockMoves DEF Settled

LEMMA SettlingStep ==
  ASSUME TypeOK, Settling, [Next]_vars
  PROVE  Settling'
<1>1. ClocksSettle'
  <2>1. CASE issue'.status = issue.status
    BY <2>1, ClocksOnward DEF Settling, ClocksSettle, Settled, Clocks
  <2>2. ASSUME NEW p \in Requests, Commit(p)
        PROVE  ClocksSettle'
    <3>1. tx[p].pc = "locked" /\ issue'.status = tx[p].to
      BY <2>2 DEF Commit, TypeOK
    <3>2. \A c \in tx[p].marks \cap Clocks : Settled(c)'
      BY <2>2, HoursAssumption DEF Commit, TypeOK, Settled, Null
    <3>3. Settled("response")' /\ (tx[p].to \in Done => Settled("resolution")')
      BY <3>1, <3>2, ClocksOnward DEF Settling, Settles, Clocks
    <3> QED
      BY <3>1, <3>3 DEF ClocksSettle, Settled
  <2>3. ASSUME NEW u \in Users, Delete(u)
        PROVE  issue'.status = issue.status
    BY <2>3 DEF Delete, TypeOK
  <2> QED
    BY <2>1, <2>2, <2>3, IssueMoves
<1>2. ASSUME NEW p \in Requests, tx'[p] = tx[p]
      PROVE  Settles(p)'
  BY <1>2, ClocksOnward DEF Settling, Settles, Clocks
<1>3. ASSUME NEW p \in Deliveries, NEW e \in Events, Deliver(p, e)
      PROVE  Settles(p)'
  <2>1. tx'[p] = [pc |-> "loaded", seen |-> issue.status, to |-> e, marks |-> {}] /\ UNCHANGED sla
    BY <1>3 DEF Deliver, Goto, TypeOK, Requests
  <2> QED
    BY <2>1 DEF Settling, ClocksSettle, Settles, Settled
<1>4. ASSUME NEW p \in Requests, Locking(p)
      PROVE  Settles(p)'
  <2>1. PICK from \in Status \ {"closed"} :
          /\ Lock(p, from, ALLOWED_TRANSITIONS[from])
          /\ p \in Users => from = issue.status
          /\ p \notin Users => tx[p].pc = "loaded" /\ from = tx[p].seen
    BY <1>4, LockTaken
  <2> DEFINE to == ALLOWED_TRANSITIONS[from]
  <2>2. tx'[p] = [pc |-> "locked", seen |-> from, to |-> to, marks |-> Marks(from, to)] /\ UNCHANGED sla
    BY <2>1 DEF Lock, Goto, TypeOK
  <2>3. (from # "open" => Settled("response")) /\ (from \in Done => Settled("resolution"))
    BY <2>1 DEF Settling, ClocksSettle, Settles, Settled
  <2>4. "response" \in Marks(from, to) \/ Settled("response")
    BY <2>3, Graph DEF Marks, Settled, Clocks
  <2>5. to \in Done => "resolution" \in Marks(from, to) \/ Settled("resolution")
    BY <2>3, Graph DEF Marks, Settled, Clocks
  <2> HIDE DEF to
  <2> QED
    BY <2>2, <2>4, <2>5 DEF Settles, Settled
<1>5. ASSUME NEW p \in Requests, tx'[p].pc \in {"idle", "deleting"}
      PROVE  Settles(p)'
  BY <1>5 DEF Settles
<1>6. \A p \in Requests : Settles(p)'
  BY <1>2, <1>3, <1>4, <1>5, TxMoves
<1> QED
  BY <1>1, <1>6 DEF Settling

-----------------------------------------------------------------------------
(* What a check may have flagged, and when. *)
LEMMA CheckMoves ==
  ASSUME TypeOK, [Next]_vars, NEW k \in Checkers
  PROVE  \/ check'[k] = check[k]
         \/ check'[k] = IdleCheck
         \/ CheckStart(k) \/ CheckResolution(k)
<1>1. ASSUME NEW j \in Checkers, CheckStart(j) \/ CheckResolution(j), j # k
      PROVE  check'[k] = check[k]
  BY <1>1 DEF CheckStart, CheckResolution, TypeOK
<1>2. ASSUME NEW j \in Checkers, check' = [check EXCEPT ![j] = IdleCheck]
      PROVE  check'[k] = check[k] \/ check'[k] = IdleCheck
  BY <1>2 DEF TypeOK
<1>3. CASE UNCHANGED check
  BY <1>3
<1> QED
  BY <1>1, <1>2, <1>3, StepCases
     DEF vars, Elapse, CreateRca, Rollback, Locking, Transition, Apply, Lock, Unlocked, Commit,
         DeleteStart, RecordOnly, Refuse, Deliver, Delete, CheckCommit

LEMMA ClockOnward ==
  ASSUME TypeOK, [Next]_vars
  PROVE  clock \in Nat /\ clock' \in Nat /\ clock <= clock'
<1>1. clock \in Nat
  BY HoursAssumption DEF TypeOK
<1>2. UNCHANGED clock \/ Elapse
  BY StepCases
     DEF vars, CreateRca, Rollback, Locking, Transition, Apply, Lock, Unlocked, Commit,
         DeleteStart, RecordOnly, Refuse, Deliver, Delete, CheckStart, CheckResolution, CheckCommit
<1> QED
  BY <1>1, <1>2 DEF Elapse

LEMMA LateStep ==
  ASSUME TypeOK, Late, [Next]_vars
  PROVE  Late'
<1> USE DueTyped, ClockOnward
<1>1. \A k \in Checkers : check[k].now \in Nat /\ check[k].flagged \subseteq Clocks
  BY HoursAssumption DEF TypeOK, Check
<1>2. ASSUME NEW c \in Clocks, clock > Due(c), sla[c].met = Null \/ sla[c].met > Due(c)
      PROVE  clock' > Due(c) /\ (sla'[c].met = Null \/ sla'[c].met > Due(c))
  BY <1>2, ClocksOnward
<1>3. ASSUME NEW c \in Clocks, sla'[c].breached
      PROVE  clock > Due(c) /\ (sla[c].met = Null \/ sla[c].met > Due(c))
  <2>1. CASE sla[c].breached
    BY <2>1 DEF Late, OnTimeNotBreached
  <2>2. CASE ~sla[c].breached
    <3>1. ASSUME NEW p \in Requests, Commit(p)
          PROVE  FALSE
      BY <1>3, <2>2, <3>1 DEF Commit, TypeOK
    <3>2. PICK k \in Checkers : CheckCommit(k)
      BY <1>3, <2>2, <3>1, ClockMoves
    <3>3. c \in check[k].flagged
      BY <1>3, <2>2, <3>2 DEF CheckCommit, TypeOK
    <3> QED
      BY <3>3 DEF Late
  <2> QED
    BY <2>1, <2>2
<1>4. ASSUME NEW k \in Checkers
      PROVE  /\ check'[k].now <= clock
             /\ \A c \in check'[k].flagged :
                  c \in Clocks /\ clock > Due(c) /\ (sla[c].met = Null \/ sla[c].met > Due(c))
  <2>1. CASE check'[k] = check[k]
    BY <1>1, <2>1 DEF Late
  <2>2. CASE check'[k] = IdleCheck
    BY <2>2 DEF IdleCheck
  <2>3. CASE CheckStart(k)
    <3>1. check'[k] = [pc |-> "response", now |-> clock,
                       flagged |-> IF Overdue("response", clock) THEN {"response"} ELSE {}]
      BY <2>3 DEF CheckStart, TypeOK
    <3>2. \A c \in check'[k].flagged : c = "response" /\ Overdue(c, clock)
      BY <3>1
    <3> QED
      BY <3>1, <3>2 DEF Overdue, Clocks
  <2>4. CASE CheckResolution(k)
    <3>1. /\ check'[k].now = check[k].now
          /\ check'[k].flagged =
               IF Overdue("resolution", check[k].now) THEN check[k].flagged \cup {"resolution"}
                                                      ELSE check[k].flagged
      BY <2>4 DEF CheckResolution, TypeOK, Check
    <3>2. check[k].now <= clock
      BY DEF Late
    <3>3. Overdue("resolution", check[k].now) =>
            clock > Due("resolution") /\ sla["resolution"].met = Null
      BY <1>1, <3>2 DEF Overdue, Clocks
    <3> QED
      BY <1>1, <3>1, <3>2, <3>3 DEF Late, Clocks
  <2> QED
    BY <2>1, <2>2, <2>3, <2>4, CheckMoves
<1>5. \A k \in Checkers : check'[k].now \in Nat
  BY TypeStep, HoursAssumption DEF TypeOK, Check
<1> QED
  BY <1>2, <1>3, <1>4, <1>5 DEF Late, OnTimeNotBreached

(* The checks that have flagged a clock can be counted. *)
LEMMA FlaggingCount ==
  ASSUME NEW S, S \subseteq Checkers
  PROVE  /\ IsFiniteSet(S) /\ Cardinality(S) \in Nat /\ Cardinality(Checkers) \in Nat
         /\ Cardinality(S) <= Cardinality(Checkers)
         /\ \A T : T \subseteq S => Cardinality(T) <= Cardinality(S)
         /\ \A k \in S : Cardinality(S \ {k}) = Cardinality(S) - 1
BY HoursAssumption, FS_Subset, FS_CardinalityType, FS_RemoveElement

LEMMA NoticedStep ==
  ASSUME TypeOK, Noticed, [Next]_vars
  PROVE  Noticed'
<1> DEFINE Counted(c) ==
      /\ sla'[c].breached <=> notices'[c] > 0
      /\ notices'[c] + Cardinality(Flagging(c)') <= Cardinality(Checkers)
<1>1. \A c \in Clocks : Flagging(c) \subseteq Checkers /\ Flagging(c)' \subseteq Checkers
  BY DEF Flagging
<1>2. \A c \in Clocks : notices[c] \in Nat
  BY DEF TypeOK
<1>3. \A c \in Clocks : ~sla[c].breached => notices[c] = 0
  BY <1>2 DEF Noticed
(* Only a check that flags or commits needs more than this. *)
<1>4. ASSUME NEW c \in Clocks, sla'[c].breached = sla[c].breached, notices'[c] = notices[c],
             Flagging(c)' \subseteq Flagging(c) \/ ~sla[c].breached
      PROVE  Counted(c)
  <2>1. CASE Flagging(c)' \subseteq Flagging(c)
    BY <1>1, <1>2, <1>4, <2>1, FlaggingCount DEF Noticed
  <2>2. CASE ~sla[c].breached
    BY <1>1, <1>3, <1>4, <2>2, FlaggingCount
  <2> QED
    BY <1>4, <2>1, <2>2
<1>5. ASSUME NEW k \in Checkers, CheckStart(k) \/ CheckResolution(k), NEW c \in Clocks
      PROVE  Counted(c)
  <2>1. UNCHANGED <<sla, notices>>
    BY <1>5 DEF CheckStart, CheckResolution
  <2>2. CASE ~sla[c].breached
    BY <1>4, <2>1, <2>2
  <2>3. CASE sla[c].breached
    <3>1. \A t : ~Overdue(c, t)
      BY <2>3 DEF Overdue
    <3>2. \A j \in Checkers \ {k} : check'[j] = check[j]
      BY <1>5 DEF CheckStart, CheckResolution, TypeOK
    <3>3. ASSUME CheckStart(k)
          PROVE  Flagging(c)' \subseteq Flagging(c)
      <4>1. check'[k].flagged = IF Overdue("response", clock) THEN {"response"} ELSE {}
        BY <3>3 DEF CheckStart, TypeOK
      <4>2. c \notin check'[k].flagged
        BY <3>1, <4>1
      <4> QED
        BY <3>2, <4>2 DEF Flagging
    <3>4. ASSUME CheckResolution(k)
          PROVE  Flagging(c)' \subseteq Flagging(c)
      <4>1. check'[k].flagged = IF Overdue("resolution", check[k].now)
                                THEN check[k].flagged \cup {"resolution"} ELSE check[k].flagged
        BY <3>4 DEF CheckResolution, TypeOK, Check
      <4>2. c \in check'[k].flagged => c \in check[k].flagged
        BY <3>1, <4>1
      <4> QED
        BY <3>2, <4>2 DEF Flagging
    <3>5. Flagging(c)' \subseteq Flagging(c)
      BY <1>5, <3>3, <3>4
    <3> QED
      BY <1>4, <2>1, <3>5
  <2> QED
    BY <2>2, <2>3
<1>6. ASSUME NEW k \in Checkers, CheckCommit(k), NEW c \in Clocks
      PROVE  Counted(c)
  <2>1. Flagging(c)' = Flagging(c) \ {k}
    BY <1>6 DEF CheckCommit, Flagging, IdleCheck, TypeOK
  <2>2. CASE c \in check[k].flagged
    <3>1. k \in Flagging(c)
      BY <2>2 DEF Flagging
    <3>2. sla'[c].breached = TRUE /\ notices'[c] = notices[c] + 1
      BY <1>6, <2>2 DEF CheckCommit, TypeOK
    <3> QED
      BY <1>1, <1>2, <2>1, <3>1, <3>2, FlaggingCount DEF Noticed
  <2>3. CASE c \notin check[k].flagged
    BY <1>4, <1>6, <2>1, <2>3 DEF CheckCommit
  <2> QED
    BY <2>2, <2>3
<1>7. ASSUME NEW p \in Requests, Commit(p), NEW c \in Clocks
      PROVE  Counted(c)
  <2>1. sla'[c].breached = sla[c].breached /\ UNCHANGED <<notices, check>>
    BY <1>7 DEF Commit, TypeOK
  <2>2. Flagging(c)' = Flagging(c)
    BY <2>1 DEF Flagging
  <2> QED
    BY <1>4, <2>1, <2>2
<1>8. ASSUME Rollback, NEW c \in Clocks
      PROVE  Counted(c)
  <2>1. Flagging(c)' \subseteq Flagging(c)
    <3>1. CASE UNCHANGED check
      BY <3>1 DEF Flagging
    <3>2. ASSUME NEW k \in Checkers, check' = [check EXCEPT ![k] = IdleCheck]
          PROVE  Flagging(c)' \subseteq Flagging(c)
      <4>1. check'[k].flagged = {} /\ \A j \in Checkers : j # k => check'[j] = check[j]
        BY <3>2 DEF TypeOK, IdleCheck
      <4> QED
        BY <4>1 DEF Flagging
    <3> QED
      BY <1>8, <3>1, <3>2 DEF Rollback
  <2> QED
    BY <1>4, <1>8, <2>1 DEF Rollback
<1>9. ASSUME UNCHANGED <<sla, notices, check>>, NEW c \in Clocks
      PROVE  Counted(c)
  BY <1>4, <1>9 DEF Flagging
<1>10. \A c \in Clocks : Counted(c)
  BY <1>5, <1>6, <1>7, <1>8, <1>9, StepCases
     DEF vars, Elapse, CreateRca, Locking, Transition, Apply, Lock, Unlocked,
         DeleteStart, RecordOnly, Refuse, Deliver, Delete
<1>11. ASSUME NEW k \in Checkers, check'[k].pc = "idle"
       PROVE  check'[k].flagged = {}
  <2>1. ~CheckStart(k)
    BY <1>11 DEF CheckStart, TypeOK
  <2>2. ~CheckResolution(k)
    BY <1>11 DEF CheckResolution, TypeOK, Check
  <2> QED
    BY <1>11, <2>1, <2>2, CheckMoves DEF Noticed, IdleCheck
<1> QED
  BY <1>10, <1>11 DEF Noticed

(* Without a stale decision the log grows from the present status. *)
LEMMA SerialStep ==
  ASSUME TypeOK, Locks, SerialWithoutStale, [Next]_vars
  PROVE  SerialWithoutStale'
<1>1. SUFFICES ASSUME stale' = 0
               PROVE  HistoryChains' /\ (sla'["resolution"].met # Null => issue'.status \in Done)
  BY DEF SerialWithoutStale
<1>2. ASSUME NEW p \in Requests, Commit(p)
      PROVE  HistoryChains' /\ (sla'["resolution"].met # Null => issue'.status \in Done)
  <2>1. /\ tx[p].pc = "locked" /\ issue'.status = tx[p].to
        /\ history' = Append(history, [from |-> tx[p].seen, to |-> tx[p].to])
    BY <1>2 DEF Commit, TypeOK
  <2>2. stale = 0 /\ tx[p].seen = issue.status
    BY <1>1, <1>2, <2>1 DEF Commit, TypeOK, Requests, Locks, LockHeld
  <2>3. HistoryChains /\ (sla["resolution"].met # Null => issue.status \in Done)
    BY <2>2 DEF SerialWithoutStale
  <2>4. history \in Seq([from : Status, to : Status]) /\ tx[p].seen \in Status /\ tx[p].to \in Status
    BY DEF TypeOK, Transaction
  <2>5. HistoryChains'
    <3>1. Len(history') = Len(history) + 1 /\ history'[Len(history')].to = issue'.status
      BY <2>1, <2>4
    <3>2. ASSUME NEW i \in 1..Len(history') - 1
          PROVE  history'[i + 1].from = history'[i].to
      <4>1. CASE i < Len(history)
        BY <2>1, <2>3, <2>4, <3>1, <4>1 DEF HistoryChains
      <4>2. CASE i = Len(history)
        BY <2>1, <2>2, <2>3, <2>4, <3>1, <4>2 DEF HistoryChains
      <4> QED
        BY <2>4, <3>1, <4>1, <4>2
    <3> QED
      BY <3>1, <3>2 DEF HistoryChains
  <2>6. /\ tx[p].seen # "closed" /\ tx[p].to = ALLOWED_TRANSITIONS[tx[p].seen]
        /\ "resolution" \in tx[p].marks => tx[p].to = "resolved"
    BY <2>1 DEF Locks, LockHeld
  <2>7. sla'["resolution"].met # Null => sla["resolution"].met # Null \/ "resolution" \in tx[p].marks
    BY <1>2 DEF Commit, Clocks
  <2>8. sla'["resolution"].met # Null => issue'.status \in Done
    BY <2>1, <2>2, <2>3, <2>4, <2>6, <2>7, Graph DEF Done
  <2> QED
    BY <2>5, <2>8
<1>3. ASSUME ~\E p \in Requests : Commit(p)
      PROVE  HistoryChains' /\ (sla'["resolution"].met # Null => issue'.status \in Done)
  <2>1. UNCHANGED <<issue, history, stale>> \/ \E u \in Users : Delete(u)
    BY <1>3, IssueMoves
  <2>2. UNCHANGED <<history, stale>> /\ issue'.status = issue.status
    BY <2>1 DEF Delete, TypeOK
  <2>3. sla'["resolution"].met = sla["resolution"].met
    BY <1>3, ClocksOnward DEF Clocks
  <2> QED
    BY <1>1, <2>2, <2>3 DEF SerialWithoutStale, HistoryChains
<1> QED
  BY <1>2, <1>3

-----------------------------------------------------------------------------
LEMMA InitIInv ==
  ASSUME Init
  PROVE  IInv
<1> USE HoursAssumption, IdleTyped
<1>1. TypeOK
  <2>1. issue \in [status : Status, deleted : BOOLEAN] /\ history \in Seq([from : Status, to : Status])
    BY DEF Init, Status
  <2>2. sla \in [Clocks -> [met : {Null} \cup (0..MaxClock), breached : BOOLEAN]]
    BY DEF Init
  <2>3. \A d \in Deliveries : tx[d].pc = "idle"
    BY DEF Init, IdleTx, Requests
  <2>4. tx \in [Requests -> Transaction] /\ check \in [Checkers -> Check]
    BY DEF Init
  <2>5. clock \in 0..MaxClock /\ faults \in 0..MaxFaults /\ stale \in Nat
    BY DEF Init
  <2>6. rca \in BOOLEAN /\ notices \in [Clocks -> Nat] /\ recorded \subseteq Events
    BY DEF Init
  <2> QED
    BY <2>1, <2>2, <2>3, <2>4, <2>5, <2>6 DEF TypeOK
<1>2. Locks /\ Settling
  BY DEF Init, Locks, LockHeld, IdleTx, Settling, ClocksSettle, Settles, Done
<1>3. Late
  BY DEF Init, Late, OnTimeNotBreached, IdleCheck
<1>4. Noticed
  <2>1. \A c \in Clocks : Flagging(c) = {}
    BY DEF Init, Flagging, IdleCheck
  <2>2. Cardinality({}) = 0 /\ Cardinality(Checkers) \in Nat
    BY FS_EmptySet, FS_CardinalityType
  <2>3. /\ \A k \in Checkers : check[k].flagged = {}
        /\ \A c \in Clocks : sla[c].breached = FALSE /\ notices[c] = 0
    BY DEF Init, IdleCheck
  <2> QED
    BY <2>1, <2>2, <2>3 DEF Noticed
<1>5. SerialWithoutStale
  BY DEF Init, SerialWithoutStale, HistoryChains, Clocks, Null
<1> QED
  BY <1>1, <1>2, <1>3, <1>4, <1>5 DEF IInv

(* The invariant that carries all of this module's theorems. *)
THEOREM Invariance == Spec => []IInv
<1>1. IInv /\ [Next]_vars => IInv'
  BY TypeStep, LocksStep, SettlingStep, LateStep, NoticedStep, SerialStep DEF IInv
<1> QED
  BY InitIInv, <1>1, PTL DEF Spec

(* The rows, the transactions and the checks keep their types. *)
THEOREM Typed == Spec => []TypeOK
<1>1. IInv => TypeOK
  BY DEF IInv
<1> QED
  BY <1>1, Invariance, PTL

(* What was done within its hours is never reported as a breach. *)
THEOREM InTimeIsNoBreach == Spec => []OnTimeNotBreached
<1>1. IInv => OnTimeNotBreached
  BY DEF IInv, Late
<1> QED
  BY <1>1, Invariance, PTL

(* A breach is reported, and once per overlapping check at most. *)
THEOREM BreachesNoticed == Spec => []NotifiedPerChecker
<1>1. IInv => NotifiedPerChecker
  <2>1. SUFFICES ASSUME IInv, NEW c \in Clocks
                 PROVE  notices[c] <= Cardinality(Checkers) /\ (sla[c].breached <=> notices[c] > 0)
    BY DEF NotifiedPerChecker
  <2>2. Flagging(c) \subseteq Checkers
    BY DEF Flagging
  <2>3. notices[c] \in Nat /\ Cardinality(Flagging(c)) \in Nat /\ Cardinality(Checkers) \in Nat
    BY <2>1, <2>2, FlaggingCount DEF IInv, TypeOK
  <2> QED
    BY <2>1, <2>3 DEF IInv, Noticed
<1> QED
  BY <1>1, Invariance, PTL

(* The clocks of a resolved issue are settled. *)
THEOREM ResolvedIsSettled == Spec => []ClocksSettle
<1>1. IInv => ClocksSettle
  BY DEF IInv, Settling
<1> QED
  BY <1>1, Invariance, PTL

(* Only a delivery that decides on an old status breaks the log. *)
THEOREM LogChains == Spec => []SerialWithoutStale
<1>1. IInv => SerialWithoutStale
  BY DEF IInv
<1> QED
  BY <1>1, Invariance, PTL

-----------------------------------------------------------------------------
(* The view of the issue. *)
LEMMA FirstOfDues ==
  \A c \in Clocks : Due(c) >= (IF ResponseDue < ResolutionDue THEN ResponseDue ELSE ResolutionDue)
BY HoursAssumption DEF Due, Clocks

LEMMA ViewStep ==
  ASSUME IInv, [Next]_vars
  PROVE  [View!ViewNext]_View!viewVars
<1> DEFINE Reported == \E c \in Clocks : sla[c].breached
<1>1. CASE Elapse
  BY <1>1 DEF Elapse, View!ViewNext, View!PassTime
<1>2. ASSUME NEW p \in Requests, Commit(p)
      PROVE  [View!ViewNext]_View!viewVars
  <2>1. ~issue.deleted /\ issue'.deleted = issue.deleted /\ UNCHANGED clock
    BY <1>2 DEF Commit, IInv, TypeOK, Locks, LockHeld
  <2>2. \A c \in Clocks : sla'[c].breached = sla[c].breached
    BY <1>2 DEF Commit, IInv, TypeOK
  <2> QED
    BY <2>1, <2>2 DEF View!ViewNext, View!Move, View!viewVars
<1>3. ASSUME NEW u \in Users, Delete(u)
      PROVE  [View!ViewNext]_View!viewVars
  <2>1. issue'.deleted = TRUE /\ issue'.status = issue.status /\ UNCHANGED <<clock, sla>>
    BY <1>3 DEF Delete, IInv, TypeOK
  <2>2. issue.deleted \in BOOLEAN
    BY DEF IInv, TypeOK
  <2> QED
    BY <2>1, <2>2 DEF View!ViewNext, View!Retire, View!viewVars
<1>4. ASSUME NEW k \in Checkers, CheckCommit(k)
      PROVE  [View!ViewNext]_View!viewVars
  <2>1. UNCHANGED <<clock, issue>>
    BY <1>4 DEF CheckCommit
  <2>2. CASE Reported' = Reported
    BY <2>1, <2>2 DEF View!viewVars
  <2>3. CASE Reported' # Reported
    <3>1. PICK c \in Clocks : sla[c].breached # sla'[c].breached
      BY <2>3
    <3>2. c \in check[k].flagged
      BY <1>4, <3>1 DEF CheckCommit
    <3>3. clock > Due(c) /\ clock \in Nat
      BY <3>2, HoursAssumption DEF IInv, Late, TypeOK
    <3>4. clock > (IF ResponseDue < ResolutionDue THEN ResponseDue ELSE ResolutionDue)
      BY <3>3, FirstOfDues, DueTyped, HoursAssumption
    <3>5. ~Reported /\ Reported'
      BY <2>3, ClocksOnward DEF IInv
    <3> QED
      BY <2>1, <3>4, <3>5 DEF View!ViewNext, View!Breach
  <2> QED
    BY <2>2, <2>3
<1>5. CASE UNCHANGED <<clock, issue, sla>>
  BY <1>5 DEF View!viewVars
<1> QED
  BY <1>1, <1>2, <1>3, <1>4, <1>5, StepCases
     DEF vars, CreateRca, Rollback, Locking, Transition, Apply, Lock, Unlocked,
         DeleteStart, RecordOnly, Refuse, Deliver, CheckStart, CheckResolution

(* The issue keeps what escalation policies rely on. *)
THEOREM IssueImplementsView == Spec => ImplementsView
<1>1. Init => View!ViewInit
  BY DEF Init, View!ViewInit, Done
<1> QED
  BY <1>1, ViewStep, Invariance, PTL DEF Spec, ImplementsView, View!ViewSpec

-----------------------------------------------------------------------------
(* Escalation policies: the argument is the lock of a policy.  What its    *)
(* holder found when it took the lock stays true until it commits.         *)

(* One evaluation at a time holds a policy. *)
LocksApart ==
  \A e, f \in Evaluators : e # f => ev[e].locked \cap ev[f].locked = {}

(* An escalation that waits for its commit is of an active policy and more *)
(* than the window after the earlier ones. *)
WrittenStands ==
  \A e \in Evaluators : \A p \in ev[e].wrote :
    /\ policy[p] = "active"
    /\ \A i \in 1..Len(fired[p]) : ev[e].now > fired[p][i] + Window

(* What a sequence holds. *)
LEMMA Elements ==
  ASSUME NEW S, NEW s \in Seq(S), NEW i \in 1..Len(s)
  PROVE  s[i] \in S
OBVIOUS

PolicyInv == PolicyTypeOK /\ LocksApart /\ WrittenStands /\ SpacedEscalations

-----------------------------------------------------------------------------
(* Steps that write neither the policies nor the evaluations. *)
LEMMA WorldStep ==
  ASSUME PolicyInv, IssueStep \/ Touch
  PROVE  PolicyInv'
<1>1. UNCHANGED <<policy, ev, fired>>
  BY DEF IssueStep, Touch
<1>2. hour' \in 0..LastHour /\ updated' \in 0..LastHour
  BY WindowAssumption DEF PolicyInv, PolicyTypeOK, IssueStep, ViewNext, PassTime, Move, Breach, Retire, Touch, viewVars
<1>3. unresolved' \in BOOLEAN /\ breached' \in BOOLEAN /\ deleted' \in BOOLEAN
  BY DEF PolicyInv, PolicyTypeOK, IssueStep, ViewNext, PassTime, Move, Breach, Retire, Touch, viewVars
<1>4. PolicyTypeOK'
  BY <1>1, <1>2, <1>3 DEF PolicyInv, PolicyTypeOK
<1>5. LocksApart' /\ WrittenStands' /\ SpacedEscalations'
  BY <1>1 DEF PolicyInv, LocksApart, WrittenStands, SpacedEscalations
<1> QED
  BY <1>4, <1>5 DEF PolicyInv

(* A policy is administered only while no evaluation holds it. *)
LEMMA AdministerStep ==
  ASSUME PolicyInv, NEW p \in PolicySet, Administer(p)
  PROVE  PolicyInv'
<1>1. /\ Free(p) /\ UNCHANGED <<viewVars, updated, ev, fired>>
      /\ \E to \in {"active", "inactive"} : policy' = [policy EXCEPT ![p] = to]
  BY DEF Administer, SetPolicy
<1>2. PolicyTypeOK'
  BY <1>1 DEF PolicyInv, PolicyTypeOK, viewVars
<1>3. \A e \in Evaluators : p \notin ev[e].wrote
  BY <1>1 DEF PolicyInv, PolicyTypeOK, Free
<1>4. \A q \in PolicySet : q # p => policy'[q] = policy[q]
  BY <1>1 DEF PolicyInv, PolicyTypeOK
<1>5. \A e \in Evaluators : ev[e].wrote \subseteq PolicySet
  BY DEF PolicyInv, PolicyTypeOK
<1>6. WrittenStands'
  BY <1>1, <1>3, <1>4, <1>5 DEF PolicyInv, WrittenStands
<1>7. LocksApart' /\ SpacedEscalations'
  BY <1>1 DEF PolicyInv, LocksApart, SpacedEscalations
<1> QED
  BY <1>2, <1>6, <1>7 DEF PolicyInv

(* An evaluation begins with nothing locked and nothing written. *)
LEMMA StartStep ==
  ASSUME PolicyInv, NEW e \in Evaluators, Start(e)
  PROVE  PolicyInv'
<1> DEFINE new == [IdleEv EXCEPT !.pc = "running", !.now = hour, !.todo = ActivePolicies]
<1>1. /\ ev' = [ev EXCEPT ![e] = new] /\ UNCHANGED <<viewVars, updated, policy, fired>>
  BY DEF Start, EvalStep
<1>2. /\ new \in [pc : {"idle", "running"}, now : 0..LastHour, todo : SUBSET PolicySet,
                  locked : SUBSET PolicySet, wrote : SUBSET PolicySet]
      /\ new.locked = {} /\ new.wrote = {}
  BY DEF PolicyInv, PolicyTypeOK, IdleEv, ActivePolicies
<1> HIDE DEF new
<1>3. PolicyTypeOK'
  BY <1>1, <1>2 DEF PolicyInv, PolicyTypeOK, viewVars
<1>4. LocksApart' /\ WrittenStands' /\ SpacedEscalations'
  BY <1>1, <1>2 DEF PolicyInv, PolicyTypeOK, LocksApart, WrittenStands, SpacedEscalations
<1> QED
  BY <1>3, <1>4 DEF PolicyInv

(* What an evaluation writes, it has checked under the lock. *)
LEMMA EvaluateStep ==
  ASSUME PolicyInv, NEW e \in Evaluators, NEW p \in PolicySet, Evaluate(e, p)
  PROVE  PolicyInv'
<1> DEFINE wrote == IF Fires(p, ev[e].now) THEN ev[e].wrote \cup {p} ELSE ev[e].wrote
           new == [ev[e] EXCEPT !.todo = @ \ {p}, !.locked = @ \cup {p}, !.wrote = wrote]
<1>1. ev' = [ev EXCEPT ![e] = new] /\ Free(p) /\ UNCHANGED <<viewVars, updated, policy, fired>>
  BY DEF Evaluate, EvalStep
<1>2. /\ new \in [pc : {"idle", "running"}, now : 0..LastHour, todo : SUBSET PolicySet,
                  locked : SUBSET PolicySet, wrote : SUBSET PolicySet]
      /\ new.locked = ev[e].locked \cup {p} /\ new.wrote = wrote /\ new.now = ev[e].now
      /\ wrote \subseteq ev[e].wrote \cup {p}
  BY DEF PolicyInv, PolicyTypeOK
<1>3. p \in wrote => p \in ev[e].wrote \/ Fires(p, ev[e].now)
  OBVIOUS
<1>4. Fires(p, ev[e].now) =>
        policy[p] = "active" /\ \A i \in 1..Len(fired[p]) : ev[e].now > fired[p][i] + Window
  <2>1. SUFFICES ASSUME Fires(p, ev[e].now), NEW i \in 1..Len(fired[p])
                 PROVE  ev[e].now > fired[p][i] + Window
    BY DEF Fires
  <2>2. fired[p][i] \in Int /\ ev[e].now \in Int
    <3>1. fired[p] \in Seq(0..LastHour) /\ ev[e].now \in 0..LastHour
      BY DEF PolicyInv, PolicyTypeOK
    <3>2. fired[p][i] \in 0..LastHour
      BY <3>1, Elements
    <3> QED
      BY <3>1, <3>2, WindowAssumption
  <2>3. ~(fired[p][i] >= ev[e].now - Window)
    BY <2>1, <2>2 DEF Fires, Recent, ToSet
  <2> QED
    BY <2>2, <2>3, WindowAssumption
<1> HIDE DEF wrote, new
<1>5. PolicyTypeOK'
  BY <1>1, <1>2 DEF PolicyInv, PolicyTypeOK, viewVars
<1>6. LocksApart'
  BY <1>1, <1>2 DEF PolicyInv, PolicyTypeOK, LocksApart, Free
<1>7. WrittenStands'
  BY <1>1, <1>2, <1>3, <1>4 DEF PolicyInv, PolicyTypeOK, WrittenStands
<1>8. SpacedEscalations'
  BY <1>1 DEF PolicyInv, SpacedEscalations
<1> QED
  BY <1>5, <1>6, <1>7, <1>8 DEF PolicyInv

(* A commit appends to the policies its evaluation holds. *)
LEMMA FinishStep ==
  ASSUME PolicyInv, NEW e \in Evaluators, Finish(e)
  PROVE  PolicyInv'
<1>1. /\ ev' = [ev EXCEPT ![e] = IdleEv] /\ UNCHANGED <<viewVars, updated, policy>>
      /\ fired' = [p \in PolicySet |-> IF p \in ev[e].wrote THEN Append(fired[p], ev[e].now) ELSE fired[p]]
  BY DEF Finish, EvalStep
<1>2. \A p \in PolicySet : fired[p] \in Seq(0..LastHour)
  BY DEF PolicyInv, PolicyTypeOK
<1>3. ev[e].now \in 0..LastHour
  BY DEF PolicyInv, PolicyTypeOK
<1>4. fired' \in [PolicySet -> Seq(0..LastHour)]
  <2>1. \A p \in PolicySet : Append(fired[p], ev[e].now) \in Seq(0..LastHour)
    BY <1>2, <1>3
  <2> QED
    BY <1>1, <1>2, <2>1
<1>5. IdleEv \in [pc : {"idle", "running"}, now : 0..LastHour, todo : SUBSET PolicySet,
                  locked : SUBSET PolicySet, wrote : SUBSET PolicySet]
  BY WindowAssumption DEF IdleEv
<1>6. PolicyTypeOK'
  BY <1>1, <1>4, <1>5 DEF PolicyInv, PolicyTypeOK, viewVars, IdleEv
<1>7. LocksApart'
  BY <1>1 DEF PolicyInv, PolicyTypeOK, LocksApart, IdleEv
<1>8. WrittenStands'
  <2>1. SUFFICES ASSUME NEW f \in Evaluators, NEW p \in ev'[f].wrote
                 PROVE  /\ policy'[p] = "active"
                        /\ \A i \in 1..Len(fired'[p]) : ev'[f].now > fired'[p][i] + Window
    BY DEF WrittenStands
  <2>2. f # e /\ ev'[f] = ev[f] /\ p \in PolicySet /\ p \in ev[f].wrote
    BY <1>1, <2>1 DEF PolicyInv, PolicyTypeOK, IdleEv
  <2>3. p \notin ev[e].wrote
    BY <2>2 DEF PolicyInv, PolicyTypeOK, LocksApart
  <2> QED
    BY <1>1, <2>2, <2>3 DEF PolicyInv, WrittenStands
<1>9. SpacedEscalations'
  <2>1. SUFFICES ASSUME NEW p \in PolicySet, NEW i \in 1..Len(fired'[p]), NEW j \in 1..Len(fired'[p]), i < j
                 PROVE  fired'[p][j] > fired'[p][i] + Window
    BY DEF SpacedEscalations
  <2>2. CASE p \notin ev[e].wrote
    BY <1>1, <2>1, <2>2 DEF PolicyInv, SpacedEscalations
  <2>3. CASE p \in ev[e].wrote
    <3>1. fired'[p] = Append(fired[p], ev[e].now)
      BY <1>1, <2>3
    <3>2. CASE j \in 1..Len(fired[p])
      BY <1>2, <2>1, <3>1, <3>2 DEF PolicyInv, SpacedEscalations
    <3>3. CASE j = Len(fired[p]) + 1
      BY <1>2, <2>1, <2>3, <3>1, <3>3 DEF PolicyInv, WrittenStands
    <3> QED
      BY <1>2, <3>1, <3>2, <3>3
  <2> QED
    BY <2>2, <2>3
<1> QED
  BY <1>6, <1>7, <1>8, <1>9 DEF PolicyInv

-----------------------------------------------------------------------------
LEMMA PolicyStep ==
  ASSUME PolicyInv, [PolicyNext]_policyVars
  PROVE  PolicyInv'
<1>1. CASE UNCHANGED policyVars
  BY <1>1 DEF policyVars, viewVars, PolicyInv, PolicyTypeOK, LocksApart, WrittenStands, SpacedEscalations
<1> QED
  BY <1>1, WorldStep, AdministerStep, StartStep, EvaluateStep, FinishStep DEF PolicyNext, Evaluation

THEOREM PolicyInvariance == PolicySpec => []PolicyInv
<1>1. PolicyInit => PolicyInv
  <2>1. SUFFICES ASSUME PolicyInit PROVE PolicyInv
    OBVIOUS
  <2>2. 0 \in 0..LastHour
    BY WindowAssumption
  <2>3. /\ ev \in [Evaluators -> [pc : {"idle", "running"}, now : 0..LastHour, todo : SUBSET PolicySet,
                                 locked : SUBSET PolicySet, wrote : SUBSET PolicySet]]
        /\ \A e \in Evaluators : ev[e].locked = {} /\ ev[e].wrote = {}
    BY <2>1, <2>2 DEF PolicyInit, IdleEv
  <2>4. /\ fired \in [PolicySet -> Seq(0..LastHour)]
        /\ \A p \in PolicySet : Len(fired[p]) = 0
    BY <2>1 DEF PolicyInit
  <2>5. PolicyTypeOK
    BY <2>1, <2>2, <2>3, <2>4 DEF PolicyInit, ViewInit, PolicyTypeOK
  <2>6. LocksApart /\ WrittenStands
    BY <2>3 DEF LocksApart, WrittenStands
  <2>7. SpacedEscalations
    BY <2>4 DEF SpacedEscalations
  <2> QED
    BY <2>5, <2>6, <2>7 DEF PolicyInv
<1> QED
  BY <1>1, PolicyStep, PTL DEF PolicySpec

(* The rows and the evaluations keep their types. *)
THEOREM PoliciesTyped == PolicySpec => []PolicyTypeOK
<1>1. PolicyInv => PolicyTypeOK
  BY DEF PolicyInv
<1> QED
  BY <1>1, PolicyInvariance, PTL

(* Escalations of a policy are more than the window apart. *)
THEOREM Spaced == PolicySpec => []SpacedEscalations
<1>1. PolicyInv => SpacedEscalations
  BY DEF PolicyInv
<1> QED
  BY <1>1, PolicyInvariance, PTL

(* Only active policies escalate. *)
THEOREM ActiveOnly == PolicySpec => OnlyActiveFires
<1>1. ASSUME PolicyInv, [PolicyNext]_policyVars, NEW p \in PolicySet, fired'[p] # fired[p]
      PROVE  policy[p] = "active"
  <2>1. PICK e \in Evaluators : Finish(e)
    BY <1>1 DEF PolicyNext, policyVars, IssueStep, Touch, Administer, SetPolicy, Evaluation, Start, Evaluate
  <2>2. p \in ev[e].wrote
    BY <1>1, <2>1 DEF Finish
  <2> QED
    BY <1>1, <2>2 DEF PolicyInv, WrittenStands
<1>2. PolicyInv /\ [PolicyNext]_policyVars => [\A p \in PolicySet : fired'[p] # fired[p] => policy[p] = "active"]_policyVars
  BY <1>1
<1> QED
  BY <1>2, PolicyInvariance, PTL DEF PolicySpec, OnlyActiveFires

-----------------------------------------------------------------------------
(* Waiting for locks: an evaluation takes its policies oldest first, so    *)
(* every policy it holds is older than those it has still to take.         *)
InOrder ==
  \A e \in Evaluators :
    /\ ev[e].pc = "idle" => ev[e].locked = {} /\ ev[e].todo = {}
    /\ \A i, j \in DOMAIN Policies :
         Policies[i] \in ev[e].locked /\ Policies[j] \in ev[e].todo => i < j

LEMMA OrderStep ==
  ASSUME PolicyInv, InOrder, [PolicyNext]_policyVars
  PROVE  InOrder'
<1>1. ASSUME NEW e \in Evaluators, Start(e)
      PROVE  InOrder'
  <2>1. /\ \A f \in Evaluators : f # e => ev'[f] = ev[f]
        /\ ev'[e].pc = "running" /\ ev'[e].locked = {}
    BY <1>1 DEF Start, EvalStep, IdleEv, PolicyInv, PolicyTypeOK
  <2> QED
    BY <2>1 DEF InOrder
<1>2. ASSUME NEW e \in Evaluators, NEW p \in PolicySet, Evaluate(e, p)
      PROVE  InOrder'
  <2>1. /\ \A f \in Evaluators : f # e => ev'[f] = ev[f]
        /\ ev'[e].pc = ev[e].pc /\ ev'[e].todo = ev[e].todo \ {p} /\ ev'[e].locked = ev[e].locked \cup {p}
        /\ Oldest(p, ev[e].todo)
    BY <1>2 DEF Evaluate, EvalStep, PolicyInv, PolicyTypeOK
  <2>2. ev[e].pc # "idle"
    BY <2>1 DEF Oldest, InOrder
  <2>3. ASSUME NEW i \in DOMAIN Policies, NEW j \in DOMAIN Policies,
               Policies[i] \in ev[e].locked \cup {p}, Policies[j] \in ev[e].todo \ {p}
        PROVE  i < j
    <3>1. CASE Policies[i] \in ev[e].locked
      BY <2>3, <3>1 DEF InOrder
    <3>2. CASE Policies[i] = p
      <4>1. i \in Int /\ j \in Int
        BY PoliciesAssumption
      <4>2. i # j /\ ~(j < i)
        BY <2>1, <2>3, <3>2 DEF Oldest
      <4> QED
        BY <4>1, <4>2
    <3> QED
      BY <2>3, <3>1, <3>2
  <2> QED
    BY <2>1, <2>2, <2>3 DEF InOrder
<1>3. ASSUME NEW e \in Evaluators, Finish(e)
      PROVE  InOrder'
  <2>1. /\ \A f \in Evaluators : f # e => ev'[f] = ev[f]
        /\ ev'[e].locked = {} /\ ev'[e].todo = {}
    BY <1>3 DEF Finish, EvalStep, IdleEv, PolicyInv, PolicyTypeOK
  <2> QED
    BY <2>1 DEF InOrder
<1>4. CASE UNCHANGED ev
  BY <1>4 DEF InOrder
<1> QED
  BY <1>1, <1>2, <1>3, <1>4
     DEF PolicyNext, policyVars, IssueStep, Touch, Administer, SetPolicy, Evaluation

(* A set of positions has a last one. *)
LEMMA LastPosition ==
  ASSUME NEW n \in Nat, NEW S \in SUBSET (1..n), S # {}
  PROVE  \E i \in S : \A j \in S : j <= i
<1> DEFINE Back == {n - i : i \in S}
           R == OpToRel(<, Nat)
<1>1. Back \subseteq Nat /\ Back # {}
  <2>1. \A i \in S : n - i \in Nat
    OBVIOUS
  <2>2. PICK i : i \in S
    OBVIOUS
  <2>3. n - i \in Back
    BY <2>2
  <2> QED
    BY <2>1, <2>3
<1>2. \A x, y \in Nat : x < y => <<x, y>> \in R
  BY DEF OpToRel
<1>3. \E x \in Back : \A y \in Back : ~(<<y, x>> \in R)
  <2> HIDE DEF Back, R
  <2>1. IsWellFoundedOn(R, Nat)
    BY NatLessThanWellFounded DEF R
  <2> QED
    BY <1>1, <2>1, WFMin
<1>4. PICK x \in Back : \A y \in Back : ~(y < x)
  <2> HIDE DEF Back, R
  <2> QED
    BY <1>1, <1>2, <1>3
<1>5. PICK i \in S : x = n - i
  BY <1>4
<1>6. ASSUME NEW j \in S
      PROVE  j <= i
  <2>1. n - j \in Back /\ ~(n - j < n - i)
    BY <1>4, <1>5
  <2> QED
    BY <2>1
<1> QED
  BY <1>6

(* Of the policies that running evaluations wait for take the youngest:    *)
(* its holder would wait for a younger one.                                *)
LEMMA OneGoesOn ==
  ASSUME PolicyInv, InOrder
  PROVE  NoDeadlock
<1> SUFFICES ASSUME NEW d \in Evaluators, ev[d].pc = "running",
                    \A e \in Evaluators : ev[e].pc = "running" => Waits(e)
             PROVE  FALSE
  BY DEF NoDeadlock
<1> DEFINE Wanted(i) == \E e \in Evaluators :
             ev[e].pc = "running" /\ Oldest(Policies[i], ev[e].todo) /\ ~Free(Policies[i])
           W == {i \in DOMAIN Policies : Wanted(i)}
<1>1. \A p \in PolicySet : \E i \in DOMAIN Policies : p = Policies[i]
  BY DEF PolicySet, ToSet
<1>2. \A e \in Evaluators : ev[e].pc = "running" =>
        \E i \in W : Oldest(Policies[i], ev[e].todo)
  BY <1>1 DEF Waits
<1>3. W # {}
  BY <1>2
<1>4. W \in SUBSET (1..Len(Policies)) /\ Len(Policies) \in Nat
  BY PoliciesAssumption
<1>5. PICK i \in W : \A j \in W : j <= i
  <2> HIDE DEF W
  <2> QED
    BY <1>3, <1>4, LastPosition
<1>6. PICK f \in Evaluators : Policies[i] \in ev[f].locked
  BY <1>5 DEF Free
<1>7. ev[f].pc = "running"
  BY <1>6 DEF PolicyInv, PolicyTypeOK, InOrder
<1>8. PICK j \in W : Oldest(Policies[j], ev[f].todo)
  BY <1>2, <1>7
<1>9. i < j
  BY <1>6, <1>8 DEF InOrder, Oldest
<1> QED
  BY <1>4, <1>5, <1>8, <1>9

(* Evaluations never block each other for good. *)
THEOREM EvaluationsGoOn == PolicySpec => []NoDeadlock
<1>1. PolicyInit => InOrder
  BY DEF PolicyInit, InOrder, IdleEv
<1>2. PolicyInv /\ InOrder /\ [PolicyNext]_policyVars => InOrder'
  BY OrderStep
<1>3. PolicyInv /\ InOrder => NoDeadlock
  BY OneGoesOn
<1> QED
  BY <1>1, <1>2, <1>3, PolicyInvariance, PTL DEF PolicySpec

-----------------------------------------------------------------------------
(* The two components together.  Escalation is checked and proved over an  *)
(* issue that moves as IssueView allows; over an issue that moves as       *)
(* IssueCase says, it is the same component: what its steps rely on is     *)
(* what the issue keeps.                                                   *)

(* Both count the same hours. *)
SameHours ==
  /\ LastHour = MaxClock
  /\ FirstDue = IF ResponseDue < ResolutionDue THEN ResponseDue ELSE ResolutionDue

(* What an evaluation reads of the issue are the issue's rows. *)
Linked ==
  /\ hour = clock /\ deleted = issue.deleted
  /\ unresolved = (issue.status \notin Done)
  /\ breached = (\E c \in Clocks : sla[c].breached)

(* The policies, their evaluations and the issue's updated_at over an      *)
(* issue of which they assume nothing. *)
OverIssueInit ==
  /\ updated = 0
  /\ policy = [p \in PolicySet |-> "active"]
  /\ ev = [e \in Evaluators |-> IdleEv]
  /\ fired = [p \in PolicySet |-> <<>>]

OverIssueNext ==
  \/ /\ updated' = IF <<unresolved, deleted>>' # <<unresolved, deleted>> THEN hour ELSE updated
     /\ UNCHANGED <<policy, ev, fired>>
  \/ Touch
  \/ \E p \in PolicySet : Administer(p)
  \/ \E e \in Evaluators : Evaluation(e)

OverIssue == OverIssueInit /\ [][OverIssueNext]_policyVars

LEMMA ViewLinked ==
  ASSUME SameHours, Linked, Linked', [View!ViewNext]_View!viewVars
  PROVE  [ViewNext]_viewVars
<1>1. CASE UNCHANGED View!viewVars
  BY <1>1 DEF Linked, View!viewVars, viewVars
<1>2. CASE View!PassTime
  BY <1>2 DEF SameHours, Linked, View!PassTime, PassTime, ViewNext
<1>3. CASE View!Move
  BY <1>3 DEF Linked, View!Move, Move, ViewNext
<1>4. CASE View!Breach
  BY <1>4 DEF SameHours, Linked, View!Breach, Breach, ViewNext
<1>5. CASE View!Retire
  BY <1>5 DEF Linked, View!Retire, Retire, ViewNext
<1> QED
  BY <1>1, <1>2, <1>3, <1>4, <1>5 DEF View!ViewNext

LEMMA OverIssueStep ==
  ASSUME SameHours, IInv, [Next]_vars, Linked, Linked', [OverIssueNext]_policyVars
  PROVE  [PolicyNext]_policyVars
<1>1. [ViewNext]_viewVars
  BY ViewStep, ViewLinked
<1>2. ASSUME updated' = IF <<unresolved, deleted>>' # <<unresolved, deleted>> THEN hour ELSE updated,
             UNCHANGED <<policy, ev, fired>>
      PROVE  [PolicyNext]_policyVars
  <2>1. CASE ViewNext
    BY <1>2, <2>1 DEF PolicyNext, IssueStep
  <2>2. CASE UNCHANGED viewVars
    BY <1>2, <2>2 DEF viewVars, policyVars
  <2> QED
    BY <1>1, <2>1, <2>2
<1> QED
  BY <1>2 DEF OverIssueNext, PolicyNext

(* Over a real issue the policies behave as over its view: whatever the    *)
(* issue's users, deliveries and breach checks do in between, escalations  *)
(* of a policy are more than the window apart, only active policies        *)
(* escalate, and evaluations do not block each other.                      *)
THEOREM EscalationOverIssues ==
  ASSUME SameHours
  PROVE  Spec /\ []Linked /\ OverIssue => []SpacedEscalations /\ OnlyActiveFires /\ []NoDeadlock
<1>1. Init /\ Linked /\ OverIssueInit => PolicyInit
  <2> SUFFICES ASSUME Init, Linked, OverIssueInit PROVE PolicyInit
    OBVIOUS
  <2>1. ViewInit
    BY DEF Init, Linked, ViewInit, Done
  <2> QED
    BY <2>1 DEF OverIssueInit, PolicyInit
<1>2. IInv /\ [Next]_vars /\ Linked /\ Linked' /\ [OverIssueNext]_policyVars => [PolicyNext]_policyVars
  BY OverIssueStep
<1>3. Spec /\ []Linked /\ OverIssue => PolicySpec
  BY <1>1, <1>2, Invariance, PTL DEF Spec, OverIssue, PolicySpec
<1> QED
  BY <1>3, Spaced, ActiveOnly, EvaluationsGoOn, PTL
=============================================================================
