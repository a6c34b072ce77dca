------------------------ MODULE SchedulerClaim_proofs ------------------------
(***************************************************************************)
(* The admitted runs of a job are spaced, serve later and later ticks,     *)
(* overlap only a stale run and are marked abandoned only when they are;   *)
(* and no killed worker disables the job: for any set of workers, any      *)
(* times that satisfy the assumptions, and any number of crashes, errors   *)
(* and clock ticks.                                                        *)
(***************************************************************************)
EXTENDS SchedulerClaim, SequenceTheorems, TLAPS

-----------------------------------------------------------------------------
(* The inductive invariant. *)

(* Between taking the advisory lock and its commit, a worker holds it. *)
Guarded == {"recent", "inflight", "reclaim", "commit"}

LockHeld ==
  /\ \A w \in Workers : pc[w] \in Guarded => w \in holder
  /\ \A u, v \in holder : u = v

(* What the recent check established still holds when the row is written:  *)
(* only the lock holder adds admitted rows.                                *)
Checked == {"inflight", "reclaim", "commit"}

SnapshotValid ==
  \A w \in Workers : pc[w] \in Checked =>
    \A i \in Ids : rows[i].admitted => snap[w] >= rows[i].started + Window

(* A claim starts within the grace time of its tick. *)
Punctuality ==
  /\ \A w \in Workers : pc[w] # "idle" => tick[w] <= snap[w] /\ snap[w] <= tick[w] + Grace
  /\ \A i \in Ids : rows[i].tick <= rows[i].started /\ rows[i].started <= rows[i].tick + Grace

(* A running worker holds one of the rows. *)
MineValid == \A w \in Workers : pc[w] = "running" => mine[w] \in Ids

Inv == TypeOK /\ LockHeld /\ SnapshotValid /\ Punctuality /\ MineValid /\ ClaimsSpaced

-----------------------------------------------------------------------------
(* The next run time of a schedule lies in the future and is a time. *)
LEMMA NextRunType ==
  ASSUME NEW d \in Nat, NEW t \in Nat
  PROVE  NextRun(d, t) \in Nat
<1>1. Interval \in Nat /\ Interval > 0
  BY TimeAssumption
<1>2. CASE t < d
  BY <1>2 DEF NextRun
<1>3. CASE ~(t < d)
  <2> DEFINE q == (t - d) \div Interval
  <2>1. q \in Nat
    BY <1>1, <1>3
  <2>2. Interval * (q + 1) \in Nat
    BY <1>1, <2>1
  <2>3. NextRun(d, t) = d + Interval * (q + 1)
    BY <1>3 DEF NextRun
  <2> QED
    BY <2>2, <2>3
<1> QED
  BY <1>2, <1>3

-----------------------------------------------------------------------------
(* How an action may change the log: rewrite statuses in place, or append  *)
(* one running row; what the claims were made from never changes.          *)

SameClaim(i) ==
  /\ rows'[i].started = rows[i].started
  /\ rows'[i].tick = rows[i].tick
  /\ rows'[i].admitted = rows[i].admitted

Keeps ==
  /\ rows' \in Seq(Row)
  /\ Len(rows') = Len(rows)
  /\ \A i \in Ids : SameClaim(i)

Appends(w, admitted) ==
  /\ rows' \in Seq(Row)
  /\ Len(rows') = Len(rows) + 1
  /\ \A i \in Ids : SameClaim(i)
  /\ rows'[Len(rows) + 1].started = snap[w]
  /\ rows'[Len(rows) + 1].tick = tick[w]
  /\ rows'[Len(rows) + 1].admitted = admitted

(* A log that does not change is kept. *)
LEMMA UnchangedKeeps ==
  ASSUME TypeOK, UNCHANGED rows
  PROVE  Keeps
BY DEF TypeOK, Keeps, SameClaim, Ids

(* The end of a run rewrites the row of the worker in place. *)
LEMMA FinishKeeps ==
  ASSUME TypeOK, MineValid, NEW w \in Workers,
         NEW status \in {"completed", "failed"}, NEW run \in {"ok", "error"},
         Finish(w, status, run)
  PROVE  Keeps
<1>1. rows \in Seq(Row) /\ mine[w] \in 1..Len(rows) /\ Outlasts(rows[mine[w]]) \in BOOLEAN
  BY DEF TypeOK, MineValid, Finish, Ids, Outlasts
<1> DEFINE m == mine[w]
           r == [rows[m] EXCEPT !.status = status, !.run = run, !.overran = Outlasts(rows[m]),
                                !.abandoned = (@ /\ status = "completed")]
<1>2. rows[m] \in Row
  BY <1>1
<1>3. r \in Row /\ r.started = rows[m].started /\ r.tick = rows[m].tick
        /\ r.admitted = rows[m].admitted
  <2>1. Outlasts(rows[m]) \in BOOLEAN
    BY <1>1
  <2> QED
    BY <1>2, <2>1 DEF Row
<1>4. rows' = [rows EXCEPT ![m] = r]
  BY <1>1 DEF Finish
<1> HIDE DEF r
<1> QED
  BY <1>1, <1>2, <1>3, <1>4 DEF Keeps, SameClaim, Ids

(* So does a run that ends without a terminal write. *)
LEMMA RunLostKeeps ==
  ASSUME TypeOK, MineValid, NEW w \in Workers, rows' = RunLost(w)
  PROVE  Keeps
<1>1. CASE pc[w] # "running"
  BY <1>1, UnchangedKeeps DEF RunLost
<1>2. CASE pc[w] = "running"
  <2>1. rows \in Seq(Row) /\ mine[w] \in 1..Len(rows)
    BY <1>2 DEF TypeOK, MineValid, Ids
  <2> DEFINE m == mine[w]
             r == [rows[m] EXCEPT !.run = "lost"]
  <2>2. rows[m] \in Row
    BY <2>1
  <2>3. r \in Row /\ r.started = rows[m].started /\ r.tick = rows[m].tick
          /\ r.admitted = rows[m].admitted
    BY <2>2 DEF Row
  <2>4. rows' = [rows EXCEPT ![m] = r]
    BY <1>2, <2>1 DEF RunLost
  <2> HIDE DEF r
  <2> QED
    BY <2>1, <2>2, <2>3, <2>4 DEF Keeps, SameClaim, Ids
<1> QED
  BY <1>1, <1>2

(* A new row is a row. *)
LEMMA NewRowType ==
  ASSUME TypeOK, NEW w \in Workers, NEW admitted \in BOOLEAN
  PROVE  /\ NewRow(w, admitted) \in Row
         /\ NewRow(w, admitted).started = snap[w]
         /\ NewRow(w, admitted).tick = tick[w]
         /\ NewRow(w, admitted).admitted = admitted
BY DEF TypeOK, NewRow, Row

(* Reclaiming rewrites in place. *)
LEMMA ReclaimedType ==
  ASSUME TypeOK, NEW ids
  PROVE  /\ Reclaimed(ids) \in Seq(Row)
         /\ Len(Reclaimed(ids)) = Len(rows)
         /\ \A i \in Ids : /\ Reclaimed(ids)[i].started = rows[i].started
                           /\ Reclaimed(ids)[i].tick = rows[i].tick
                           /\ Reclaimed(ids)[i].admitted = rows[i].admitted
<1>1. rows \in Seq(Row) /\ Len(rows) \in Nat
  BY DEF TypeOK
<1>2. \A i \in Ids : rows[i] \in Row
  BY <1>1 DEF Ids
<1>3. \A i \in Ids : /\ Reclaimed(ids)[i] \in Row
                    /\ Reclaimed(ids)[i].started = rows[i].started
                    /\ Reclaimed(ids)[i].tick = rows[i].tick
                    /\ Reclaimed(ids)[i].admitted = rows[i].admitted
  BY <1>2 DEF Reclaimed, Row
<1>4. Reclaimed(ids) = [i \in 1..Len(rows) |-> Reclaimed(ids)[i]]
  BY DEF Reclaimed, Ids
<1>5. Reclaimed(ids) \in Seq(Row) /\ Len(Reclaimed(ids)) = Len(rows)
  BY <1>1, <1>3, <1>4, IsASeq DEF Ids
<1> QED
  BY <1>3, <1>5

LEMMA CommitAppends ==
  ASSUME TypeOK, NEW w \in Workers, CommitClaim(w)
  PROVE  Appends(w, TRUE)
<1> DEFINE q == Reclaimed(seen[w])
           r == NewRow(w, TRUE)
<1>1. rows' = Append(q, r)
  BY DEF CommitClaim
<1>2. q \in Seq(Row) /\ Len(q) = Len(rows) /\ Len(rows) \in Nat
  BY ReclaimedType DEF TypeOK
<1>3. r \in Row /\ r.started = snap[w] /\ r.tick = tick[w] /\ r.admitted = TRUE
  BY NewRowType
<1>4. \A i \in Ids : q[i].started = rows[i].started /\ q[i].tick = rows[i].tick
                      /\ q[i].admitted = rows[i].admitted
  BY ReclaimedType
<1> HIDE DEF q, r
<1>5. \A i \in 1..Len(rows) : Append(q, r)[i] = q[i]
  BY <1>2, <1>3
<1>6. Append(q, r) \in Seq(Row) /\ Len(Append(q, r)) = Len(rows) + 1
        /\ Append(q, r)[Len(rows) + 1] = r
  BY <1>2, <1>3
<1> QED
  BY <1>1, <1>3, <1>4, <1>5, <1>6 DEF Appends, SameClaim, Ids

LEMMA FailOpenAppends ==
  ASSUME TypeOK, NEW w \in Workers, FailOpen(w)
  PROVE  Appends(w, FALSE)
<1> DEFINE r == NewRow(w, FALSE)
<1>1. rows' = Append(rows, r)
  BY DEF FailOpen
<1>2. rows \in Seq(Row) /\ Len(rows) \in Nat
  BY DEF TypeOK
<1>3. r \in Row /\ r.started = snap[w] /\ r.tick = tick[w] /\ r.admitted = FALSE
  BY NewRowType
<1> HIDE DEF r
<1>4. /\ \A i \in 1..Len(rows) : Append(rows, r)[i] = rows[i]
      /\ Append(rows, r) \in Seq(Row) /\ Len(Append(rows, r)) = Len(rows) + 1
      /\ Append(rows, r)[Len(rows) + 1] = r
  BY <1>2, <1>3
<1> QED
  BY <1>1, <1>3, <1>4 DEF Appends, SameClaim, Ids

-----------------------------------------------------------------------------
(* A step that keeps the log, never puts the holder of the lock beyond the *)
(* recent check and never gives a worker a new tick keeps what the         *)
(* invariant says of the log.                                              *)
LEMMA KeepsLogFacts ==
  ASSUME Inv, Keeps,
         \A w \in Workers : pc'[w] \in Checked => pc[w] \in Checked /\ snap'[w] = snap[w]
  PROVE  SnapshotValid' /\ ClaimsSpaced'
           /\ \A i \in Ids' : /\ rows'[i].tick <= rows'[i].started
                              /\ rows'[i].started <= rows'[i].tick + Grace
<1>1. Ids' = Ids /\ \A i \in Ids : SameClaim(i)
  BY DEF Keeps, Ids
<1>2. SnapshotValid'
  BY <1>1 DEF Inv, SnapshotValid, SameClaim
<1>3. ClaimsSpaced'
  BY <1>1 DEF Inv, ClaimsSpaced, SameClaim
<1>4. \A i \in Ids' : /\ rows'[i].tick <= rows'[i].started
                     /\ rows'[i].started <= rows'[i].tick + Grace
  BY <1>1 DEF Inv, Punctuality, SameClaim
<1> QED
  BY <1>2, <1>3, <1>4

(* A run_logged call that returns leaves nothing behind. *)
LEMMA ReturnInv ==
  ASSUME Inv, Keeps, NEW w \in Workers, Return(w)
  PROVE  LockHeld' /\ SnapshotValid' /\ Punctuality' /\ MineValid' /\ ClaimsSpaced'
<1>1. pc' = [pc EXCEPT ![w] = "idle"] /\ holder' = holder \ {w}
        /\ snap' = [snap EXCEPT ![w] = 0] /\ tick' = [tick EXCEPT ![w] = 0]
        /\ mine' = [mine EXCEPT ![w] = 0]
  BY DEF Return
<1>2. TypeOK
  BY DEF Inv
<1>3. LockHeld'
  BY <1>1, <1>2 DEF Inv, LockHeld, Guarded, TypeOK
<1>4. \A v \in Workers : pc'[v] # "idle" =>
         pc'[v] = pc[v] /\ snap'[v] = snap[v] /\ tick'[v] = tick[v] /\ mine'[v] = mine[v]
  BY <1>1, <1>2 DEF TypeOK
<1>5. \A v \in Workers : pc'[v] \in Checked => pc[v] \in Checked /\ snap'[v] = snap[v]
  BY <1>4 DEF Checked
<1>6. SnapshotValid' /\ ClaimsSpaced' /\ \A i \in Ids' : /\ rows'[i].tick <= rows'[i].started
                              /\ rows'[i].started <= rows'[i].tick + Grace
  BY <1>5, KeepsLogFacts
<1>7. Punctuality'
  BY <1>4, <1>6 DEF Inv, Punctuality
<1>8. MineValid'
  BY <1>4 DEF Inv, MineValid, Keeps, Ids
<1> QED
  BY <1>3, <1>6, <1>7, <1>8

-----------------------------------------------------------------------------
(* Type correctness. *)

LEMMA InitInv == Init => Inv
<1> SUFFICES ASSUME Init PROVE Inv
  OBVIOUS
<1>1. Ids = {}
  BY DEF Init, Ids
<1>2. TypeOK
  BY <1>1, TimeAssumption DEF Init, TypeOK, PC, InClaim
<1> QED
  BY <1>1, <1>2 DEF Init, Inv, LockHeld, Guarded, SnapshotValid, Checked, Punctuality,
     MineValid, ClaimsSpaced

(* Every step leaves the log, and the rows a worker selected, well formed. *)
LEMMA ReturnType ==
  ASSUME TypeOK, Keeps, NEW w \in Workers, Return(w),
         clock' \in Nat, due' \in [Workers -> Nat], faults' \in Nat
  PROVE  TypeOK'
BY DEF TypeOK, Return, Keeps, Ids, PC

LEMMA StepType ==
  ASSUME TypeOK, MineValid, NEW w \in Workers, Step(w)
  PROVE  TypeOK'
<1> USE DEF PC, InClaim
<1>1. CASE Fire(w)
  <2>1. NextRun(due[w], clock) \in Nat
    BY NextRunType DEF TypeOK
  <2> QED
    BY <1>1, <2>1 DEF TypeOK, Fire, Ids
<1>2. CASE Misfire(w)
  <2>1. NextRun(due[w], clock) \in Nat
    BY NextRunType DEF TypeOK
  <2> QED
    BY <1>2, <2>1 DEF TypeOK, Misfire, Ids
<1>3. CASE AcquireLock(w)
  BY <1>3 DEF TypeOK, AcquireLock, Ids
<1>4. ASSUME NEW blocking, NEW next \in PC, Check(w, blocking, next)
      PROVE  TypeOK'
  <2>1. UNCHANGED <<clock, rows, due, faults>>
    BY <1>4 DEF Check
  <2>2. CASE Return(w)
    BY <2>1, <2>2, UnchangedKeeps, ReturnType DEF TypeOK
  <2>3. CASE pc' = [pc EXCEPT ![w] = next] /\ UNCHANGED <<tick, snap, seen, mine, holder>>
    BY <2>1, <2>3 DEF TypeOK, Ids
  <2> QED
    BY <1>4, <2>2, <2>3 DEF Check
<1>5. CASE CheckRecent(w)
  BY <1>4, <1>5 DEF CheckRecent
<1>6. CASE CheckInFlight(w)
  BY <1>4, <1>6 DEF CheckInFlight
<1>7. CASE SelectAbandoned(w)
  <2>1. Abandoned(snap[w]) \subseteq Ids
    BY DEF Abandoned
  <2> QED
    BY <1>7, <2>1 DEF TypeOK, SelectAbandoned, Ids
<1>8. CASE CommitClaim(w)
  <2>1. Appends(w, TRUE)
    BY <1>8, CommitAppends
  <2>2. rows' \in Seq(Row) /\ Ids \subseteq Ids'
    BY <2>1 DEF Appends, TypeOK, Ids
  <2>3. mine' \in [Workers -> Nat]
    BY <1>8 DEF TypeOK, CommitClaim
  <2>4. seen' \in [Workers -> SUBSET Ids']
    BY <1>8, <2>2 DEF TypeOK, CommitClaim
  <2>5. /\ clock' \in Nat /\ due' \in [Workers -> Nat] /\ faults' \in Nat
        /\ pc' \in [Workers -> PC] /\ tick' \in [Workers -> Nat]
        /\ snap' \in [Workers -> Nat] /\ holder' \in SUBSET Workers
    BY <1>8 DEF TypeOK, CommitClaim
  <2> QED
    BY <2>2, <2>3, <2>4, <2>5 DEF TypeOK
<1>9. CASE ClaimError(w)
  BY <1>9 DEF TypeOK, ClaimError, Ids
<1>10. CASE FailOpen(w)
  <2>1. Appends(w, FALSE)
    BY <1>10, FailOpenAppends
  <2>2. rows' \in Seq(Row) /\ Ids \subseteq Ids'
    BY <2>1 DEF Appends, TypeOK, Ids
  <2>3. mine' \in [Workers -> Nat]
    BY <1>10 DEF TypeOK, FailOpen
  <2>4. seen' \in [Workers -> SUBSET Ids']
    BY <1>10, <2>2 DEF TypeOK, FailOpen
  <2>5. /\ clock' \in Nat /\ due' \in [Workers -> Nat] /\ faults' \in Nat
        /\ pc' \in [Workers -> PC] /\ tick' \in [Workers -> Nat]
        /\ snap' \in [Workers -> Nat] /\ holder' \in SUBSET Workers
    BY <1>10 DEF TypeOK, FailOpen
  <2> QED
    BY <2>2, <2>3, <2>4, <2>5 DEF TypeOK
<1>11. CASE RunOk(w)
  BY <1>11, FinishKeeps, ReturnType DEF RunOk, Finish, TypeOK
<1>12. CASE RunFail(w)
  BY <1>12, FinishKeeps, ReturnType DEF RunFail, Finish, TypeOK
<1>13. CASE LogError(w)
  <2>1. Keeps
    BY <1>13, RunLostKeeps DEF LogError
  <2>2. clock' \in Nat /\ due' \in [Workers -> Nat] /\ faults' \in Nat
    BY <1>13 DEF LogError, TypeOK
  <2> QED
    BY <1>13, <2>1, <2>2, ReturnType DEF LogError
<1>14. CASE Crash(w)
  <2>1. NextRun(0, clock) \in Nat
    BY NextRunType DEF TypeOK
  <2>2. RestartDue \in Nat
    BY <2>1, TimeAssumption DEF RestartDue, TypeOK
  <2>3. Keeps
    BY <1>14, RunLostKeeps DEF Crash
  <2>4. clock' \in Nat /\ due' \in [Workers -> Nat] /\ faults' \in Nat
    BY <1>14, <2>2 DEF Crash, TypeOK
  <2> QED
    BY <1>14, <2>3, <2>4, ReturnType DEF Crash
<1> QED
  BY <1>1, <1>2, <1>3, <1>5, <1>6, <1>7, <1>8, <1>9, <1>10, <1>11, <1>12, <1>13, <1>14 DEF Step

-----------------------------------------------------------------------------
(* The invariant is inductive: the steps that neither return nor append,   *)
(* then the two that append, then every step.                              *)

LEMMA FireInv ==
  ASSUME Inv, NEW w \in Workers, Fire(w)
  PROVE  LockHeld' /\ SnapshotValid' /\ Punctuality' /\ MineValid' /\ ClaimsSpaced'
<1>1. TypeOK /\ Keeps
  BY UnchangedKeeps DEF Inv, Fire
<1>2. \A v \in Workers : v # w =>
         pc'[v] = pc[v] /\ snap'[v] = snap[v] /\ tick'[v] = tick[v]
  BY <1>1 DEF Fire, TypeOK
<1>3. pc'[w] = "lock" /\ snap'[w] = clock /\ tick'[w] = due[w]
        /\ due[w] <= clock /\ clock <= due[w] + Grace
  BY <1>1 DEF Fire, TypeOK
<1>4. \A v \in Workers : pc'[v] \in Checked => pc[v] \in Checked /\ snap'[v] = snap[v]
  BY <1>2, <1>3 DEF Checked
<1>5. SnapshotValid' /\ ClaimsSpaced' /\ \A i \in Ids' : /\ rows'[i].tick <= rows'[i].started
                              /\ rows'[i].started <= rows'[i].tick + Grace
  BY <1>1, <1>4, KeepsLogFacts
<1>6. Punctuality'
  BY <1>2, <1>3, <1>5 DEF Inv, Punctuality
<1>7. LockHeld'
  BY <1>2, <1>3 DEF Inv, LockHeld, Guarded, Fire
<1>8. MineValid'
  BY <1>2, <1>3 DEF Inv, MineValid, Fire, Ids
<1> QED
  BY <1>5, <1>6, <1>7, <1>8

(* Steps inside a call that leave the log, the times and the lock of the   *)
(* others alone.                                                           *)
LEMMA InCallInv ==
  ASSUME Inv, NEW w \in Workers, NEW next \in PC \ {"idle", "running"},
         pc[w] # "idle", pc' = [pc EXCEPT ![w] = next],
         UNCHANGED <<rows, tick, snap, mine>>,
         next \in Guarded => w \in holder',
         \A v \in holder : v = w \/ v \in holder',
         \A u, v \in holder' : u = v,
         next \in Checked => pc[w] \in Checked
           \/ \A i \in Ids : rows[i].admitted => snap[w] >= rows[i].started + Window
  PROVE  LockHeld' /\ SnapshotValid' /\ Punctuality' /\ MineValid' /\ ClaimsSpaced'
<1>1. TypeOK /\ Ids' = Ids
  BY DEF Inv, Ids
<1>2. pc'[w] = next /\ \A v \in Workers : v # w => pc'[v] = pc[v]
  BY <1>1 DEF TypeOK
<1>3. LockHeld'
  BY <1>2 DEF Inv, LockHeld
<1>4. SnapshotValid'
  BY <1>1, <1>2 DEF Inv, SnapshotValid
<1>5. Punctuality'
  BY <1>1, <1>2 DEF Inv, Punctuality
<1>6. MineValid' /\ ClaimsSpaced'
  BY <1>1, <1>2 DEF Inv, MineValid, ClaimsSpaced
<1> QED
  BY <1>3, <1>4, <1>5, <1>6

(* The commit of a claim: the lock makes the recent check still true. *)
LEMMA CommitInv ==
  ASSUME Inv, NEW w \in Workers, CommitClaim(w)
  PROVE  LockHeld' /\ SnapshotValid' /\ Punctuality' /\ MineValid' /\ ClaimsSpaced'
<1>1. TypeOK
  BY DEF Inv
<1> DEFINE n == Len(rows) + 1
<1>2. Appends(w, TRUE)
  BY <1>1, CommitAppends
<1>3. n \in Nat /\ Ids' = Ids \cup {n} /\ n \notin Ids
  BY <1>1, <1>2 DEF Appends, TypeOK, Ids
<1>4. \A i \in Ids : SameClaim(i)
  BY <1>2 DEF Appends
<1>5. rows'[n].started = snap[w] /\ rows'[n].tick = tick[w] /\ rows'[n].admitted = TRUE
  BY <1>2 DEF Appends
<1>6. pc[w] = "commit" /\ pc'[w] = "running" /\ mine'[w] = n /\ holder' = holder \ {w}
  BY <1>1 DEF CommitClaim, TypeOK
<1>7. \A v \in Workers : v # w => pc'[v] = pc[v] /\ mine'[v] = mine[v]
  BY <1>1 DEF CommitClaim, TypeOK
<1>8. UNCHANGED <<snap, tick>>
  BY DEF CommitClaim
<1> HIDE DEF n
<1>9. \A v \in Workers : v # w => pc[v] \notin Guarded
  BY <1>6 DEF Inv, LockHeld, Guarded
<1>10. LockHeld'
  BY <1>6, <1>7, <1>9 DEF Inv, LockHeld, Guarded
<1>11. SnapshotValid'
  <2>1. \A v \in Workers : pc'[v] \notin Checked
    BY <1>6, <1>7, <1>9 DEF Checked, Guarded
  <2> QED
    BY <2>1 DEF SnapshotValid
<1>12. Punctuality'
  <2>1. \A v \in Workers : pc'[v] # "idle" => tick'[v] <= snap'[v] /\ snap'[v] <= tick'[v] + Grace
    BY <1>6, <1>7, <1>8 DEF Inv, Punctuality
  <2>2. \A i \in Ids' : rows'[i].tick <= rows'[i].started /\ rows'[i].started <= rows'[i].tick + Grace
    BY <1>3, <1>4, <1>5, <1>6 DEF Inv, Punctuality, SameClaim
  <2> QED
    BY <2>1, <2>2 DEF Punctuality
<1>13. MineValid'
  BY <1>3, <1>6, <1>7 DEF Inv, MineValid
<1>14. ClaimsSpaced'
  <2>1. \A i \in Ids : rows[i].admitted => snap[w] >= rows[i].started + Window
    BY <1>6 DEF Inv, SnapshotValid, Checked
  <2>2. \A i \in Ids : i < n
    BY <1>1, <1>3 DEF n, Ids, TypeOK
  <2> QED
    BY <1>3, <1>4, <1>5, <2>1, <2>2 DEF Inv, ClaimsSpaced, SameClaim, Ids
<1> QED
  BY <1>10, <1>11, <1>12, <1>13, <1>14

(* An unlocked insert adds no admitted row. *)
LEMMA FailOpenInv ==
  ASSUME Inv, NEW w \in Workers, FailOpen(w)
  PROVE  LockHeld' /\ SnapshotValid' /\ Punctuality' /\ MineValid' /\ ClaimsSpaced'
<1>1. TypeOK
  BY DEF Inv
<1> DEFINE n == Len(rows) + 1
<1>2. Appends(w, FALSE)
  BY <1>1, FailOpenAppends
<1>3. n \in Nat /\ Ids' = Ids \cup {n} /\ n \notin Ids
  BY <1>1, <1>2 DEF Appends, TypeOK, Ids
<1>4. \A i \in Ids : SameClaim(i)
  BY <1>2 DEF Appends
<1>5. rows'[n].started = snap[w] /\ rows'[n].tick = tick[w] /\ rows'[n].admitted = FALSE
  BY <1>2 DEF Appends
<1>6. pc[w] = "failopen" /\ pc'[w] = "running" /\ mine'[w] = n
  BY <1>1 DEF FailOpen, TypeOK
<1>7. \A v \in Workers : v # w => pc'[v] = pc[v] /\ mine'[v] = mine[v]
  BY <1>1 DEF FailOpen, TypeOK
<1>8. UNCHANGED <<snap, tick, holder>>
  BY DEF FailOpen
<1> HIDE DEF n
<1>9. LockHeld'
  BY <1>6, <1>7, <1>8 DEF Inv, LockHeld, Guarded
<1>10. SnapshotValid'
  BY <1>3, <1>4, <1>5, <1>6, <1>7, <1>8 DEF Inv, SnapshotValid, Checked, SameClaim
<1>11. Punctuality'
  <2>1. \A v \in Workers : pc'[v] # "idle" => tick'[v] <= snap'[v] /\ snap'[v] <= tick'[v] + Grace
    BY <1>6, <1>7, <1>8 DEF Inv, Punctuality
  <2>2. \A i \in Ids' : rows'[i].tick <= rows'[i].started /\ rows'[i].started <= rows'[i].tick + Grace
    BY <1>3, <1>4, <1>5, <1>6 DEF Inv, Punctuality, SameClaim
  <2> QED
    BY <2>1, <2>2 DEF Punctuality
<1>12. MineValid'
  BY <1>3, <1>6, <1>7 DEF Inv, MineValid
<1>13. ClaimsSpaced'
  BY <1>3, <1>4, <1>5 DEF Inv, ClaimsSpaced, SameClaim
<1> QED
  BY <1>9, <1>10, <1>11, <1>12, <1>13

(* Every step of a worker preserves the invariant. *)
LEMMA StepInv ==
  ASSUME Inv, NEW w \in Workers, Step(w)
  PROVE  Inv'
<1> DEFINE Rest == LockHeld' /\ SnapshotValid' /\ Punctuality' /\ MineValid' /\ ClaimsSpaced'
<1>1. TypeOK /\ MineValid
  BY DEF Inv
<1>2. TypeOK'
  BY <1>1, StepType
<1>3. Rest
  <2>1. CASE Fire(w)
    BY <2>1, FireInv
  <2>2. CASE Misfire(w)
    BY <2>2 DEF Misfire, Inv, LockHeld, SnapshotValid, Punctuality, MineValid, ClaimsSpaced, Ids
  <2>3. CASE AcquireLock(w)
    <3>1. /\ pc[w] = "lock" /\ pc' = [pc EXCEPT ![w] = "recent"]
          /\ holder = {} /\ holder' = {w} /\ UNCHANGED <<rows, tick, snap, mine>>
      BY <2>3 DEF AcquireLock
    <3> QED
      BY <3>1, InCallInv DEF Guarded, Checked, PC, InClaim
  <2>4. CASE CheckRecent(w)
    <3>1. pc[w] = "recent" /\ Check(w, Recent(snap[w]), "inflight") /\ UNCHANGED rows
      BY <2>4 DEF CheckRecent, Check
    <3>2. CASE Return(w)
      BY <1>1, <3>1, <3>2, UnchangedKeeps, ReturnInv
    <3>3. CASE Recent(snap[w]) = {} /\ pc' = [pc EXCEPT ![w] = "inflight"]
               /\ UNCHANGED <<tick, snap, seen, mine, holder>>
      <4>1. snap[w] \in Nat /\ \A i \in Ids : rows[i].started \in Nat
        <5>1. \A i \in Ids : rows[i] \in Row
          BY <1>1 DEF TypeOK, Ids
        <5> QED
          BY <1>1, <5>1 DEF TypeOK, Row
      <4>2. \A i \in Ids : snap[w] >= rows[i].started + Window
        BY <3>3, <4>1, TimeAssumption DEF Recent
      <4>3. w \in holder /\ \A u, v \in holder : u = v
        BY <3>1 DEF Inv, LockHeld, Guarded
      <4> QED
        BY <3>1, <3>3, <4>2, <4>3, InCallInv DEF PC, InClaim
    <3> QED
      BY <3>1, <3>2, <3>3 DEF Check
  <2>5. CASE CheckInFlight(w)
    <3>1. pc[w] = "inflight" /\ Check(w, InFlight(snap[w]), "reclaim") /\ UNCHANGED rows
      BY <2>5 DEF CheckInFlight, Check
    <3>2. CASE Return(w)
      BY <1>1, <3>1, <3>2, UnchangedKeeps, ReturnInv
    <3>3. CASE pc' = [pc EXCEPT ![w] = "reclaim"] /\ UNCHANGED <<tick, snap, seen, mine, holder>>
      <4>1. w \in holder /\ \A u, v \in holder : u = v
        BY <3>1 DEF Inv, LockHeld, Guarded
      <4> QED
        BY <3>1, <3>3, <4>1, InCallInv DEF Checked, PC, InClaim
    <3> QED
      BY <3>1, <3>2, <3>3 DEF Check
  <2>6. CASE SelectAbandoned(w)
    <3>1. /\ pc[w] = "reclaim" /\ pc' = [pc EXCEPT ![w] = "commit"]
          /\ UNCHANGED <<rows, tick, snap, mine, holder>>
      BY <2>6 DEF SelectAbandoned
    <3>2. w \in holder /\ \A u, v \in holder : u = v
      BY <3>1 DEF Inv, LockHeld, Guarded
    <3> QED
      BY <3>1, <3>2, InCallInv DEF Checked, PC, InClaim
  <2>7. CASE CommitClaim(w)
    BY <2>7, CommitInv
  <2>8. CASE ClaimError(w)
    <3>1. /\ pc[w] # "idle" /\ pc' = [pc EXCEPT ![w] = "failopen"]
          /\ holder' = holder \ {w} /\ UNCHANGED <<rows, tick, snap, mine>>
      BY <2>8 DEF ClaimError, InClaim
    <3>2. \A u, v \in holder : u = v
      BY DEF Inv, LockHeld
    <3> QED
      BY <3>1, <3>2, InCallInv DEF Guarded, Checked, PC
  <2>9. CASE FailOpen(w)
    BY <2>9, FailOpenInv
  <2>10. CASE RunOk(w)
    BY <1>1, <2>10, FinishKeeps, ReturnInv DEF RunOk, Finish
  <2>11. CASE RunFail(w)
    BY <1>1, <2>11, FinishKeeps, ReturnInv DEF RunFail, Finish
  <2>12. CASE LogError(w)
    BY <1>1, <2>12, RunLostKeeps, ReturnInv DEF LogError
  <2>13. CASE Crash(w)
    BY <1>1, <2>13, RunLostKeeps, ReturnInv DEF Crash
  <2> QED
    BY <2>1, <2>2, <2>3, <2>4, <2>5, <2>6, <2>7, <2>8, <2>9, <2>10, <2>11, <2>12, <2>13 DEF Step
<1> QED
  BY <1>2, <1>3 DEF Inv

(* The passage of time and stuttering change nothing the invariant reads. *)
LEMMA NextInv ==
  ASSUME Inv, [Next]_vars
  PROVE  Inv'
<1>1. CASE \E w \in Workers : Step(w)
  BY <1>1, StepInv
<1>2. CASE ClockTick
  <2>1. clock' \in Nat /\ UNCHANGED <<rows, due, pc, tick, snap, seen, mine, holder, faults>>
    BY <1>2 DEF ClockTick, Inv, TypeOK
  <2> QED
    BY <2>1 DEF Inv, TypeOK, LockHeld, SnapshotValid, Punctuality, MineValid, ClaimsSpaced, Ids
<1>3. CASE UNCHANGED vars
  BY <1>3 DEF vars, Inv, TypeOK, LockHeld, SnapshotValid, Punctuality, MineValid, ClaimsSpaced, Ids
<1> QED
  BY <1>1, <1>2, <1>3 DEF Next, Horizon

(* The invariant holds in every reachable state. *)
THEOREM Invariance == Spec => []Inv
<1>1. Inv /\ [Next]_vars => Inv'
  BY NextInv
<1> QED
  BY InitInv, <1>1, PTL DEF Spec

(* The log, the lock and the locals of every worker keep their types. *)
THEOREM TypeCorrect == Spec => []TypeOK
<1>1. Inv => TypeOK
  BY DEF Inv
<1> QED
  BY Invariance, <1>1, PTL

(* claim_job_tick: runs admitted by the claim start a de-duplication       *)
(* window apart, for any number of workers, crashes and errors.            *)
THEOREM Spacing == Spec => []ClaimsSpaced
<1>1. Inv => ClaimsSpaced
  BY DEF Inv
<1> QED
  BY Invariance, <1>1, PTL

-----------------------------------------------------------------------------
(* The refinement of TickLedger. *)

Serving(log) == [i \in 1..Len(log) |-> [tick |-> log[i].tick, admitted |-> log[i].admitted]]

(* The mapped log is a sequence as long as the run log. *)
LEMMA ServingSeq ==
  ASSUME NEW log \in Seq(Row)
  PROVE  Serving(log) \in Seq([tick : Nat, admitted : BOOLEAN]) /\ Len(Serving(log)) = Len(log)
<1>1. Len(log) \in Nat /\ \A i \in 1..Len(log) : log[i] \in Row
  OBVIOUS
<1>2. \A i \in 1..Len(log) : Serving(log)[i] \in [tick : Nat, admitted : BOOLEAN]
  BY <1>1 DEF Serving, Row
<1> QED
  BY <1>1, <1>2, IsASeq DEF Serving

LEMMA ServesIsServing == Serves = Serving(rows) /\ Serves' = Serving(rows')
BY DEF Serves, Serving, Ids

(* A step that keeps the run log is a stutter of the ledger. *)
LEMMA KeepsStutters ==
  ASSUME Keeps
  PROVE  Serves' = Serves
BY ServesIsServing DEF Keeps, Serving, SameClaim, Ids

(* An appending step extends the ledger. *)
LEMMA AppendsGrows ==
  ASSUME TypeOK, TypeOK', NEW w \in Workers, NEW admitted \in BOOLEAN, Appends(w, admitted)
  PROVE  /\ Len(Serves') = Len(Serves) + 1
         /\ \A i \in 1..Len(Serves) : Serves'[i] = Serves[i]
         /\ Serves'[Len(Serves) + 1].tick = tick[w]
         /\ Serves'[Len(Serves) + 1].admitted = admitted
<1>1. rows \in Seq(Row) /\ rows' \in Seq(Row) /\ Len(rows) \in Nat
  BY DEF TypeOK
<1>2. Len(Serves) = Len(rows) /\ Len(Serves') = Len(rows')
  BY <1>1, ServingSeq, ServesIsServing
<1>3. Ids' = 1..(Len(rows) + 1) /\ Len(rows') = Len(rows) + 1
  BY DEF Appends, Ids
<1>4. \A i \in Ids : Serves'[i] = Serves[i]
  BY <1>1, <1>2, <1>3 DEF Appends, Serves, Serving, SameClaim, Ids
<1>5. Len(rows) + 1 \in Ids'
  BY <1>1, <1>3
<1> QED
  BY <1>1, <1>2, <1>3, <1>4, <1>5 DEF Appends, Serves, Serving, Ids

(* The commit of a claim serves a tick later than every admitted run's:    *)
(* claims start within the grace time of their ticks and a window apart,   *)
(* and the grace time is shorter than the window.                          *)
LEMMA CommitAdmits ==
  ASSUME Inv, Inv', NEW w \in Workers, CommitClaim(w)
  PROVE  Ledger!Admit
<1>1. TypeOK /\ TypeOK'
  BY DEF Inv
<1>2. Appends(w, TRUE)
  BY <1>1, CommitAppends
<1>3. /\ Len(Serves') = Len(Serves) + 1
      /\ \A i \in 1..Len(Serves) : Serves'[i] = Serves[i]
      /\ Serves'[Len(Serves) + 1].tick = tick[w]
      /\ Serves'[Len(Serves) + 1].admitted = TRUE
  BY <1>1, <1>2, AppendsGrows
<1>4. Len(Serves) = Len(rows)
  BY <1>1, ServingSeq, ServesIsServing DEF TypeOK
<1>5. \A i \in Ids : rows[i].admitted => rows[i].tick < tick[w]
  <2>1. SUFFICES ASSUME NEW i \in Ids, rows[i].admitted
                 PROVE  rows[i].tick < tick[w]
    OBVIOUS
  <2>2. rows[i] \in Row /\ tick[w] \in Nat /\ snap[w] \in Nat
    BY <1>1 DEF TypeOK, Ids
  <2>3. rows[i].tick \in Nat /\ rows[i].started \in Nat
    BY <2>2 DEF Row
  <2>4. pc[w] = "commit"
    BY DEF CommitClaim
  <2>5. snap[w] >= rows[i].started + Window
    BY <2>1, <2>4 DEF Inv, SnapshotValid, Checked
  <2>6. rows[i].tick <= rows[i].started /\ snap[w] <= tick[w] + Grace
    BY <2>4 DEF Inv, Punctuality
  <2> QED
    BY <2>2, <2>3, <2>5, <2>6, TimeAssumption, WindowAssumption
<1>6. \A i \in 1..Len(Serves) : Serves[i].admitted => Serves[i].tick < tick[w]
  BY <1>4, <1>5 DEF Serves, Ids
<1> QED
  BY <1>3, <1>6 DEF Ledger!Admit, Ledger!Grows

LEMMA FailOpenDegrades ==
  ASSUME Inv, Inv', NEW w \in Workers, FailOpen(w)
  PROVE  Ledger!Degrade
<1>1. TypeOK /\ TypeOK'
  BY DEF Inv
<1>2. Appends(w, FALSE)
  BY <1>1, FailOpenAppends
<1>3. /\ Len(Serves') = Len(Serves) + 1
      /\ \A i \in 1..Len(Serves) : Serves'[i] = Serves[i]
      /\ Serves'[Len(Serves) + 1].admitted = FALSE
  BY <1>1, <1>2, AppendsGrows
<1> QED
  BY <1>3 DEF Ledger!Degrade, Ledger!Grows

(* Every step maps to a step of the ledger or to a stutter. *)
LEMMA StepRefines ==
  ASSUME Inv, Inv', [Next]_vars
  PROVE  [Ledger!Next]_Serves
<1>1. TypeOK /\ MineValid
  BY DEF Inv
<1>2. CASE UNCHANGED rows
  BY <1>1, <1>2, UnchangedKeeps, KeepsStutters
<1>3. ASSUME NEW w \in Workers, Step(w)
      PROVE  [Ledger!Next]_Serves
  <2>1. CASE UNCHANGED rows
    BY <1>2, <2>1
  <2>2. CASE CommitClaim(w)
    BY <2>2, CommitAdmits DEF Ledger!Next
  <2>3. CASE FailOpen(w)
    BY <2>3, FailOpenDegrades DEF Ledger!Next
  <2>4. CASE RunOk(w) \/ RunFail(w)
    BY <1>1, <2>4, FinishKeeps, KeepsStutters DEF RunOk, RunFail
  <2>5. CASE LogError(w) \/ Crash(w)
    BY <1>1, <2>5, RunLostKeeps, KeepsStutters DEF LogError, Crash
  <2> QED
    BY <1>3, <2>1, <2>2, <2>3, <2>4, <2>5 DEF Step, Fire, Misfire, AcquireLock,
       CheckRecent, CheckInFlight, Check, SelectAbandoned, ClaimError
<1> QED
  BY <1>2, <1>3 DEF Next, ClockTick, Horizon, vars

(* The claim implements the ledger: no scheduled tick is served twice by   *)
(* admitted runs, whatever the number of workers, crashes and errors.      *)
THEOREM Refinement == Spec => ServesEachTickOnce
<1>1. Init => Ledger!Init
  <2> SUFFICES ASSUME Init PROVE Serves = << >>
    BY DEF Ledger!Init
  <2>1. rows = << >>
    BY DEF Init
  <2> QED
    BY <2>1 DEF Serves, Ids
<1>2. Inv /\ Inv' /\ [Next]_vars => [Ledger!Next]_Serves
  BY StepRefines
<1> QED
  BY Invariance, <1>1, <1>2, PTL DEF Spec, ServesEachTickOnce, Ledger!Spec
-----------------------------------------------------------------------------
(* Overlapping runs.  ClaimsSpaced says nothing of how long the earlier    *)
(* run lives; the invariant below does.                                    *)

AdmittedLive(i) == rows[i].admitted /\ rows[i].run = "live"

(* The in-flight check sees a live admitted run by its status, or the run  *)
(* is so old that a later claim has already taken it for abandoned.        *)
LiveVisible ==
  \A i \in Ids : AdmittedLive(i) =>
    \/ rows[i].status = "running"
    \/ \E k \in Ids : rows[k].admitted /\ rows[k].started >= rows[i].started + Stale

(* What the in-flight check established still holds when the row is        *)
(* written: the lock keeps new admitted runs out, and old ones only end.   *)
NoneInFlight ==
  \A w \in Workers : pc[w] \in {"reclaim", "commit"} =>
    \A i \in Ids : AdmittedLive(i) => snap[w] >= rows[i].started + Stale

OverlapInv == LiveVisible /\ NoneInFlight /\ OverlapOnlyAfterStale


(* How a step may treat the runs behind the rows: a row that is written    *)
(* stops being live, except that a commit marks rows as failed.            *)
EndsOnly == \A i \in Ids : rows'[i].run = "live" => rows'[i] = rows[i]

LEMMA FinishEnds ==
  ASSUME TypeOK, MineValid, NEW w \in Workers,
         NEW status \in {"completed", "failed"}, NEW run \in {"ok", "error"},
         Finish(w, status, run)
  PROVE  /\ \A i \in Ids : i # mine[w] => rows'[i] = rows[i]
         /\ rows'[mine[w]].run = run /\ rows'[mine[w]].status = status
         /\ rows'[mine[w]].abandoned = (rows[mine[w]].abandoned /\ status = "completed")
         /\ rows'[mine[w]].overran = Outlasts(rows[mine[w]])
<1>1. rows \in Seq(Row) /\ mine[w] \in 1..Len(rows) /\ Outlasts(rows[mine[w]]) \in BOOLEAN
  BY DEF TypeOK, MineValid, Finish, Ids, Outlasts
<1> DEFINE m == mine[w]
           r == [rows[m] EXCEPT !.status = status, !.run = run, !.overran = Outlasts(rows[m]),
                                !.abandoned = (@ /\ status = "completed")]
<1>2. rows[m] \in Row
  BY <1>1
<1>3. /\ r.run = run /\ r.status = status /\ r.overran = Outlasts(rows[m])
      /\ r.abandoned = (rows[m].abandoned /\ status = "completed")
  BY <1>2 DEF Row
<1>4. rows' = [rows EXCEPT ![m] = r]
  BY <1>1 DEF Finish
<1> HIDE DEF r
<1> QED
  BY <1>1, <1>3, <1>4 DEF Ids

LEMMA RunLostEnds ==
  ASSUME TypeOK, MineValid, NEW w \in Workers, rows' = RunLost(w)
  PROVE  /\ \A i \in Ids : (pc[w] = "running" /\ i = mine[w]) \/ rows'[i] = rows[i]
         /\ pc[w] = "running" => /\ rows'[mine[w]].run = "lost"
                                 /\ rows'[mine[w]].status = rows[mine[w]].status
<1>1. CASE pc[w] # "running"
  BY <1>1 DEF RunLost
<1>2. CASE pc[w] = "running"
  <2>1. rows \in Seq(Row) /\ mine[w] \in 1..Len(rows)
    BY <1>2 DEF TypeOK, MineValid, Ids
  <2> DEFINE m == mine[w]
             r == [rows[m] EXCEPT !.run = "lost"]
  <2>2. rows[m] \in Row
    BY <2>1
  <2>3. r.run = "lost" /\ r.status = rows[m].status
    BY <2>2 DEF Row
  <2>4. rows' = [rows EXCEPT ![m] = r]
    BY <1>2, <2>1 DEF RunLost
  <2> HIDE DEF r
  <2> QED
    BY <1>2, <2>1, <2>3, <2>4 DEF Ids
<1> QED
  BY <1>1, <1>2

(* What a commit does to the old rows and puts into the new one. *)
LEMMA CommitRows ==
  ASSUME TypeOK, NEW w \in Workers, CommitClaim(w)
  PROVE  /\ \A i \in Ids : i \notin seen[w] => rows'[i] = rows[i]
         /\ \A i \in seen[w] : /\ rows'[i].run = rows[i].run
                               /\ rows'[i].overran = rows[i].overran
                               /\ rows'[i].started = rows[i].started
                               /\ rows'[i].status = "failed"
         /\ rows'[Len(rows) + 1].run = "live" /\ rows'[Len(rows) + 1].status = "running"
         /\ rows'[Len(rows) + 1].abandoned = FALSE
<1> DEFINE q == Reclaimed(seen[w])
           r == NewRow(w, TRUE)
<1>1. rows' = Append(q, r)
  BY DEF CommitClaim
<1>2. q \in Seq(Row) /\ Len(q) = Len(rows) /\ Len(rows) \in Nat
  BY ReclaimedType DEF TypeOK
<1>3. r \in Row /\ r.run = "live" /\ r.status = "running" /\ r.abandoned = FALSE
  BY NewRowType DEF NewRow
<1>4. \A i \in Ids : rows[i] \in Row
  BY DEF TypeOK, Ids
<1>5. \A i \in Ids : i \notin seen[w] => q[i] = rows[i]
  BY DEF Reclaimed
<1>6. \A i \in Ids : i \in seen[w] => /\ q[i].run = rows[i].run /\ q[i].status = "failed"
                                      /\ q[i].overran = rows[i].overran
                                      /\ q[i].started = rows[i].started
  BY <1>4 DEF Reclaimed, Row
<1>7. seen[w] \subseteq Ids
  BY DEF TypeOK
<1> HIDE DEF q, r
<1>8. \A i \in 1..Len(rows) : Append(q, r)[i] = q[i]
  BY <1>2, <1>3
<1>9. Append(q, r)[Len(rows) + 1] = r
  BY <1>2, <1>3
<1>10. Len(rows) + 1 \notin seen[w]
  BY <1>2, <1>7 DEF Ids
<1> QED
  BY <1>1, <1>3, <1>5, <1>6, <1>7, <1>8, <1>9, <1>10 DEF Ids

LEMMA FailOpenRows ==
  ASSUME TypeOK, NEW w \in Workers, FailOpen(w)
  PROVE  /\ \A i \in Ids : rows'[i] = rows[i]
         /\ rows'[Len(rows) + 1].run = "live" /\ rows'[Len(rows) + 1].status = "running"
         /\ rows'[Len(rows) + 1].abandoned = FALSE
<1> DEFINE r == NewRow(w, FALSE)
<1>1. rows' = Append(rows, r)
  BY DEF FailOpen
<1>2. rows \in Seq(Row) /\ Len(rows) \in Nat
  BY DEF TypeOK
<1>3. r \in Row /\ r.run = "live" /\ r.status = "running" /\ r.abandoned = FALSE
  BY NewRowType DEF NewRow
<1> HIDE DEF r
<1> QED
  BY <1>1, <1>2, <1>3 DEF Ids

(* A step that only ends runs, and takes no worker past the in-flight      *)
(* check, keeps the invariant; adding rows without a claim is harmless.    *)
LEMMA EndsKeepsOverlap ==
  ASSUME TypeOK, OverlapInv, EndsOnly, Ids \subseteq Ids',
         \A i \in Ids : SameClaim(i),
         \A i \in Ids' : i \in Ids \/ ~rows'[i].admitted,
         \A w \in Workers : pc'[w] \in {"reclaim", "commit"} =>
           /\ snap'[w] = snap[w]
           /\ \/ pc[w] \in {"reclaim", "commit"}
              \/ \A i \in Ids : AdmittedLive(i) => snap[w] >= rows[i].started + Stale
  PROVE  OverlapInv'
<1>1. \A i \in Ids' : AdmittedLive(i)' => i \in Ids /\ AdmittedLive(i) /\ rows'[i] = rows[i]
  BY DEF AdmittedLive, EndsOnly
<1>2. LiveVisible'
  BY <1>1 DEF OverlapInv, LiveVisible, SameClaim
<1>3. NoneInFlight'
  BY <1>1 DEF OverlapInv, NoneInFlight
<1>4. OverlapOnlyAfterStale'
  BY <1>1 DEF OverlapInv, OverlapOnlyAfterStale, AdmittedLive, SameClaim
<1> QED
  BY <1>2, <1>3, <1>4 DEF OverlapInv

(* The in-flight check: a live admitted run that its status hides is a     *)
(* window and more than the abandonment age older than this claim.         *)
LEMMA InFlightCheckSound ==
  ASSUME Inv, OverlapInv, NEW w \in Workers, pc[w] = "inflight", InFlight(snap[w]) = {},
         NEW i \in Ids, AdmittedLive(i)
  PROVE  snap[w] >= rows[i].started + Stale
<1>1. snap[w] \in Nat /\ \A k \in Ids : rows[k].started \in Nat
  <2>1. snap[w] \in Nat /\ \A k \in Ids : rows[k] \in Row
    BY DEF Inv, TypeOK, Ids
  <2> QED
    BY <2>1 DEF Row
<1>2. CASE rows[i].status = "running"
  <2>1. ~(rows[i].started > snap[w] - Stale)
    BY <1>2 DEF InFlight
  <2> QED
    BY <1>1, <2>1, TimeAssumption
<1>3. CASE rows[i].status # "running"
  <2>1. PICK k \in Ids : rows[k].admitted /\ rows[k].started >= rows[i].started + Stale
    BY <1>3 DEF OverlapInv, LiveVisible
  <2>2. snap[w] >= rows[k].started + Window
    BY <2>1 DEF Inv, SnapshotValid, Checked
  <2> QED
    BY <1>1, <2>1, <2>2, TimeAssumption
<1> QED
  BY <1>2, <1>3

LEMMA CommitOverlap ==
  ASSUME Inv, OverlapInv, NEW w \in Workers, CommitClaim(w)
  PROVE  OverlapInv'
<1> DEFINE n == Len(rows) + 1
<1>1. TypeOK /\ Appends(w, TRUE)
  BY CommitAppends DEF Inv
<1>2. n \in Nat /\ Ids' = Ids \cup {n} /\ n \notin Ids /\ \A i \in Ids : i < n
  BY <1>1 DEF Appends, TypeOK, Ids
<1>3. /\ \A i \in Ids : SameClaim(i) /\ rows'[i].run = rows[i].run
      /\ \A i \in Ids : i \notin seen[w] => rows'[i] = rows[i]
      /\ seen[w] \subseteq Ids
      /\ rows'[n].run = "live" /\ rows'[n].status = "running"
      /\ rows'[n].started = snap[w] /\ rows'[n].admitted = TRUE
  BY <1>1, CommitRows DEF Appends, TypeOK
<1>4. pc[w] = "commit" /\ pc' = [pc EXCEPT ![w] = "running"]
  BY DEF CommitClaim
<1> HIDE DEF n
<1>5. \A i \in Ids : AdmittedLive(i) => rows'[n].started >= rows[i].started + Stale
  BY <1>3, <1>4 DEF OverlapInv, NoneInFlight
<1>6. LiveVisible'
  BY <1>2, <1>3, <1>5 DEF LiveVisible, OverlapInv, AdmittedLive, SameClaim
<1>7. NoneInFlight'
  <2>1. \A v \in Workers : v # w => pc[v] \notin Guarded
    BY <1>4 DEF Inv, LockHeld, Guarded
  <2>2. \A v \in Workers : pc'[v] \notin {"reclaim", "commit"}
    BY <1>1, <1>4, <2>1 DEF TypeOK, Guarded
  <2> QED
    BY <2>2 DEF NoneInFlight
<1>8. OverlapOnlyAfterStale'
  <2>1. \A i, j \in Ids : i < j /\ rows'[i].admitted /\ rows'[j].admitted /\ rows'[i].run = "live"
          => rows'[j].started >= rows'[i].started + Stale
    BY <1>3 DEF OverlapInv, OverlapOnlyAfterStale, SameClaim
  <2>2. \A i \in Ids : rows'[i].admitted /\ rows'[i].run = "live"
          => rows'[n].started >= rows'[i].started + Stale
    BY <1>3, <1>5 DEF AdmittedLive, SameClaim
  <2>3. \A i \in Ids : ~(n < i)
    BY <1>2 DEF Ids
  <2>4. ~(n < n)
    BY <1>2
  <2> QED
    BY <1>2, <2>1, <2>2, <2>3, <2>4 DEF OverlapOnlyAfterStale
<1> QED
  BY <1>6, <1>7, <1>8 DEF OverlapInv

LEMMA StepOverlap ==
  ASSUME Inv, OverlapInv, NEW w \in Workers, Step(w)
  PROVE  OverlapInv'
<1>1. TypeOK /\ MineValid
  BY DEF Inv
<1> DEFINE Late(v) == pc'[v] \in {"reclaim", "commit"} =>
                        snap'[v] = snap[v] /\ pc[v] \in {"reclaim", "commit"}
<1>2. ASSUME Keeps, EndsOnly, \A v \in Workers : Late(v)
      PROVE  OverlapInv'
  BY <1>1, <1>2, EndsKeepsOverlap DEF Keeps, Ids
<1>3. ASSUME UNCHANGED rows, \A v \in Workers : Late(v)
      PROVE  OverlapInv'
  BY <1>1, <1>2, <1>3, UnchangedKeeps DEF EndsOnly
<1>4. ASSUME Return(w)
      PROVE  \A v \in Workers : Late(v)
  BY <1>1, <1>4 DEF Return, TypeOK
<1>5. CASE Fire(w) \/ Misfire(w) \/ AcquireLock(w) \/ ClaimError(w) \/ SelectAbandoned(w)
  <2>1. \A v \in Workers : Late(v)
    BY <1>1, <1>5 DEF TypeOK, Fire, Misfire, AcquireLock, ClaimError, SelectAbandoned
  <2> QED
    BY <1>3, <1>5, <2>1 DEF Fire, Misfire, AcquireLock, ClaimError, SelectAbandoned
<1>6. CASE CheckRecent(w)
  <2>1. \A v \in Workers : Late(v)
    BY <1>1, <1>4, <1>6 DEF TypeOK, CheckRecent, Check
  <2> QED
    BY <1>3, <1>6, <2>1 DEF CheckRecent, Check
<1>7. CASE CheckInFlight(w)
  <2>1. UNCHANGED rows /\ pc[w] = "inflight" /\ Check(w, InFlight(snap[w]), "reclaim")
    BY <1>7 DEF CheckInFlight, Check
  <2>2. CASE Return(w)
    BY <1>3, <1>4, <2>1, <2>2
  <2>3. CASE InFlight(snap[w]) = {} /\ pc' = [pc EXCEPT ![w] = "reclaim"] /\ UNCHANGED snap
    <3>1. \A i \in Ids : AdmittedLive(i) => snap[w] >= rows[i].started + Stale
      BY <2>1, <2>3, InFlightCheckSound
    <3>2. \A v \in Workers : v # w => pc'[v] = pc[v]
      BY <1>1, <2>3 DEF TypeOK
    <3>3. EndsOnly /\ Keeps
      BY <1>1, <2>1, UnchangedKeeps DEF EndsOnly
    <3> QED
      BY <1>1, <2>3, <3>1, <3>2, <3>3, EndsKeepsOverlap DEF Keeps, Ids
  <2> QED
    BY <2>1, <2>2, <2>3 DEF Check
<1>8. CASE CommitClaim(w)
  BY <1>8, CommitOverlap
<1>9. CASE FailOpen(w)
  <2>1. Appends(w, FALSE) /\ \A i \in Ids : rows'[i] = rows[i]
    BY <1>1, <1>9, FailOpenAppends, FailOpenRows
  <2>2. Ids' = Ids \cup {Len(rows) + 1} /\ ~rows'[Len(rows) + 1].admitted
    BY <1>1, <2>1 DEF Appends, TypeOK, Ids
  <2>3. \A v \in Workers : Late(v)
    BY <1>1, <1>9 DEF TypeOK, FailOpen
  <2>4. EndsOnly /\ (\A i \in Ids : SameClaim(i)) /\ Ids \subseteq Ids'
    BY <2>1, <2>2 DEF EndsOnly, Appends
  <2> QED
    BY <1>1, <2>2, <2>3, <2>4, EndsKeepsOverlap
<1>10. ASSUME NEW status \in {"completed", "failed"}, NEW run \in {"ok", "error"},
              Finish(w, status, run)
       PROVE  OverlapInv'
  <2>1. EndsOnly
    BY <1>1, <1>10, FinishEnds DEF EndsOnly
  <2> QED
    BY <1>1, <1>2, <1>4, <1>10, <2>1, FinishKeeps DEF Finish
<1>11. CASE RunOk(w) \/ RunFail(w)
  BY <1>10, <1>11 DEF RunOk, RunFail
<1>12. CASE LogError(w) \/ Crash(w)
  <2>1. rows' = RunLost(w) /\ Return(w)
    BY <1>12 DEF LogError, Crash
  <2>2. EndsOnly
    BY <1>1, <2>1, RunLostEnds DEF EndsOnly
  <2> QED
    BY <1>1, <1>2, <1>4, <2>1, <2>2, RunLostKeeps
<1> QED
  BY <1>5, <1>6, <1>7, <1>8, <1>9, <1>11, <1>12 DEF Step

(* claim_job_tick's in-flight check: a run is admitted beside a live one   *)
(* only when that one is STALE_RUNNING_AFTER old, although the statuses    *)
(* the check reads may have been overwritten by an earlier reclaim.        *)
THEOREM Overlap == Spec => []OverlapOnlyAfterStale
<1>1. Init => OverlapInv
  BY DEF Init, Ids, OverlapInv, LiveVisible, NoneInFlight, OverlapOnlyAfterStale
<1>2. Inv /\ OverlapInv /\ [Next]_vars => OverlapInv'
  <2> SUFFICES ASSUME Inv, OverlapInv, [Next]_vars PROVE OverlapInv'
    OBVIOUS
  <2>1. CASE \E w \in Workers : Step(w)
    BY <2>1, StepOverlap
  <2>2. CASE UNCHANGED <<rows, pc, snap>>
    BY <2>2 DEF OverlapInv, LiveVisible, NoneInFlight, OverlapOnlyAfterStale, AdmittedLive, Ids
  <2> QED
    BY <2>1, <2>2 DEF Next, ClockTick, Horizon, vars
<1>3. OverlapInv => OverlapOnlyAfterStale
  BY DEF OverlapInv
<1> QED
  BY Invariance, <1>1, <1>2, <1>3, PTL DEF Spec

-----------------------------------------------------------------------------
(* True marks of abandonment.                                              *)

(* Rows and running workers correspond: a live row is the row of one       *)
(* running worker, which started it when its claim read the clock.         *)
Owned ==
  /\ \A w \in Workers : pc[w] = "running" =>
       /\ mine[w] \in Ids
       /\ rows[mine[w]].run = "live" /\ rows[mine[w]].started = snap[w]
  /\ \A u, v \in Workers :
       pc[u] = "running" /\ pc[v] = "running" /\ mine[u] = mine[v] => u = v
  /\ \A i \in Ids : rows[i].run = "live" =>
       \E w \in Workers : pc[w] = "running" /\ mine[w] = i

(* No call outlives MaxRun. *)
Timely == \A w \in Workers : pc[w] # "idle" => snap[w] <= clock /\ clock <= snap[w] + MaxRun

(* Only a run without an outcome leaves its row running. *)
Unfinished == \A i \in Ids : rows[i].status = "running" => rows[i].run \in {"live", "lost"}

(* A row may be marked at time t. *)
Dead(row, t) ==
  \/ row.run = "lost"
  \/ row.run = "live" /\ t >= row.started + Stale
  \/ row.run # "live" /\ row.overran

(* The rows selected for reclaiming may be marked until the flush, however *)
(* their runs end in between.                                              *)
SeenDead == \A w \in Workers : \A i \in seen[w] : Dead(rows[i], clock)

MarkedDead == \A i \in Ids : rows[i].abandoned => Dead(rows[i], clock)

MarkInv == Owned /\ Timely /\ Unfinished /\ SeenDead /\ MarkedDead

(* The names of the parts a step must keep. *)
OwnedRows ==
  \A w \in Workers : pc[w] = "running" =>
    mine[w] \in Ids /\ rows[mine[w]].run = "live" /\ rows[mine[w]].started = snap[w]

OneEach ==
  \A u, v \in Workers : pc[u] = "running" /\ pc[v] = "running" /\ mine[u] = mine[v] => u = v

HasOwner ==
  \A i \in Ids : rows[i].run = "live" => \E w \in Workers : pc[w] = "running" /\ mine[w] = i

LEMMA OwnedParts == /\ Owned <=> OwnedRows /\ OneEach /\ HasOwner
                    /\ Owned' <=> OwnedRows' /\ OneEach' /\ HasOwner'
BY DEF Owned, OwnedRows, OneEach, HasOwner

(* A step that starts and ends no run keeps the correspondence. *)
LEMMA SameRunsOwned ==
  ASSUME TypeOK, Owned, UNCHANGED rows,
         \A v \in Workers : pc'[v] = "running" <=> pc[v] = "running",
         \A v \in Workers : pc[v] = "running" => mine'[v] = mine[v] /\ snap'[v] = snap[v]
  PROVE  Owned'
<1>1. OwnedRows' /\ OneEach' /\ HasOwner'
  BY OwnedParts DEF OwnedRows, OneEach, HasOwner, Ids
<1> QED
  BY <1>1, OwnedParts

(* The end of a worker's run, or the return of a call that has none. *)
LEMMA EndOwned ==
  ASSUME TypeOK, Owned, NEW w \in Workers, Keeps, Return(w),
         \A i \in Ids : (pc[w] = "running" /\ i = mine[w]) \/ rows'[i] = rows[i],
         pc[w] = "running" => rows'[mine[w]].run # "live"
  PROVE  Owned'
<1>1. Ids' = Ids /\ \A i \in Ids : SameClaim(i)
  BY DEF Keeps, Ids
<1>2. pc'[w] = "idle"
        /\ \A v \in Workers : v # w => pc'[v] = pc[v] /\ mine'[v] = mine[v] /\ snap'[v] = snap[v]
  BY DEF TypeOK, Return
<1>3. OwnedRows'
  BY <1>1, <1>2, OwnedParts DEF OwnedRows, OneEach
<1>4. OneEach'
  BY <1>2, OwnedParts DEF OneEach
<1>5. HasOwner'
  <2>1. SUFFICES ASSUME NEW i \in Ids, rows'[i].run = "live"
                 PROVE  \E v \in Workers : pc'[v] = "running" /\ mine'[v] = i
    BY <1>1 DEF HasOwner
  <2>2. rows'[i] = rows[i] /\ ~(pc[w] = "running" /\ i = mine[w])
    BY <2>1
  <2>3. PICK v \in Workers : pc[v] = "running" /\ mine[v] = i
    BY <2>1, <2>2, OwnedParts DEF HasOwner
  <2> QED
    BY <1>2, <2>2, <2>3
<1> QED
  BY <1>3, <1>4, <1>5, OwnedParts

(* A new run and its row. *)
LEMMA StartOwned ==
  ASSUME TypeOK, Owned, NEW w \in Workers, NEW admitted \in BOOLEAN, Appends(w, admitted),
         \A i \in Ids : rows'[i].run = rows[i].run,
         rows'[Len(rows) + 1].run = "live",
         pc[w] # "running", pc' = [pc EXCEPT ![w] = "running"],
         mine' = [mine EXCEPT ![w] = Len(rows) + 1], snap' = snap
  PROVE  Owned'
<1> DEFINE n == Len(rows) + 1
<1>1. n \in Nat /\ Ids' = Ids \cup {n} /\ n \notin Ids
  BY DEF Appends, TypeOK, Ids
<1>2. /\ rows'[n].run = "live" /\ rows'[n].started = snap[w]
      /\ \A i \in Ids : SameClaim(i) /\ rows'[i].run = rows[i].run
  BY DEF Appends
<1>3. /\ pc'[w] = "running" /\ mine'[w] = n
      /\ \A v \in Workers : v # w => pc'[v] = pc[v] /\ mine'[v] = mine[v]
  BY DEF TypeOK
<1> HIDE DEF n
<1>4. OwnedRows'
  BY <1>1, <1>2, <1>3, OwnedParts DEF OwnedRows, SameClaim
<1>5. OneEach'
  BY <1>1, <1>3, OwnedParts DEF OwnedRows, OneEach
<1>6. HasOwner'
  BY <1>1, <1>2, <1>3, OwnedParts DEF HasOwner
<1> QED
  BY <1>4, <1>5, <1>6, OwnedParts

(* Calls are as old as their snapshots say, and end in time. *)
LEMMA StepTimely ==
  ASSUME TypeOK, Timely, NEW w \in Workers, Step(w)
  PROVE  Timely'
<1>1. CASE Fire(w)
  <2>1. snap'[w] = clock /\ clock' = clock
        /\ \A v \in Workers : v # w => pc'[v] = pc[v] /\ snap'[v] = snap[v]
    BY <1>1 DEF Fire, TypeOK
  <2>2. clock \in Nat /\ clock <= clock /\ clock <= clock + MaxRun
    BY TimeAssumption DEF TypeOK
  <2> QED
    BY <2>1, <2>2 DEF Timely
<1>2. ASSUME Return(w), clock' = clock
      PROVE  Timely'
  <2>1. pc'[w] = "idle" /\ \A v \in Workers : v # w => pc'[v] = pc[v] /\ snap'[v] = snap[v]
    BY <1>2 DEF Return, TypeOK
  <2> QED
    BY <1>2, <2>1 DEF Timely
<1>3. ASSUME UNCHANGED <<clock, snap>>, pc[w] # "idle",
             \A v \in Workers : v # w => pc'[v] = pc[v]
      PROVE  Timely'
  BY <1>3 DEF Timely
<1>4. CASE Misfire(w)
  BY <1>4 DEF Timely, Misfire
<1>5. CASE AcquireLock(w) \/ SelectAbandoned(w) \/ CommitClaim(w) \/ ClaimError(w) \/ FailOpen(w)
  BY <1>3, <1>5 DEF TypeOK, AcquireLock, SelectAbandoned, CommitClaim, ClaimError, FailOpen, InClaim
<1>6. CASE CheckRecent(w) \/ CheckInFlight(w)
  BY <1>2, <1>3, <1>6 DEF TypeOK, CheckRecent, CheckInFlight, Check
<1>7. CASE RunOk(w) \/ RunFail(w) \/ LogError(w) \/ Crash(w)
  BY <1>2, <1>7 DEF RunOk, RunFail, Finish, LogError, Crash
<1> QED
  BY <1>1, <1>4, <1>5, <1>6, <1>7 DEF Step

(* A row old enough to be reclaimed, whose run did not end. *)
LEMMA AbandonedIsDead ==
  ASSUME TypeOK, MarkInv, NEW w \in Workers, pc[w] # "idle", NEW i \in Abandoned(snap[w])
  PROVE  Dead(rows[i], clock)
<1>1. i \in Ids /\ rows[i].status = "running" /\ rows[i].started <= snap[w] - Stale
  BY DEF Abandoned
<1>2. rows[i].run \in {"live", "lost"}
  BY <1>1 DEF MarkInv, Unfinished
<1>3. snap[w] <= clock /\ snap[w] \in Nat /\ clock \in Nat /\ Stale \in Nat
  BY TimeAssumption DEF MarkInv, Timely, TypeOK
<1>4. rows[i].started \in Nat
  <2>1. rows[i] \in Row
    BY <1>1 DEF TypeOK, Ids
  <2> QED
    BY <2>1 DEF Row
<1>5. clock >= rows[i].started + Stale
  BY <1>1, <1>3, <1>4
<1> QED
  BY <1>2, <1>5 DEF Dead

(* A step that marks no row keeps the marks true. *)
LEMMA EndMarks ==
  ASSUME TypeOK, MarkInv, NEW w \in Workers, Keeps, Return(w), clock' = clock,
         \A i \in Ids : (pc[w] = "running" /\ i = mine[w]) \/ rows'[i] = rows[i],
         pc[w] = "running" =>
           /\ rows'[mine[w]].run # "live"
           /\ rows'[mine[w]].status = "running" => rows'[mine[w]].run = "lost"
           /\ \/ rows'[mine[w]].run = "lost"
              \/ /\ rows'[mine[w]].abandoned => rows[mine[w]].abandoned
                 /\ rows'[mine[w]].overran = Outlasts(rows[mine[w]])
  PROVE  Owned' /\ Unfinished' /\ SeenDead' /\ MarkedDead'
<1>1. Owned'
  BY EndOwned DEF MarkInv
<1>2. Ids' = Ids
  BY DEF Keeps, Ids
<1>3. pc[w] = "running" => mine[w] \in Ids /\ rows[mine[w]].run = "live"
  BY OwnedParts DEF MarkInv, OwnedRows
<1>4. Unfinished'
  BY <1>2 DEF MarkInv, Unfinished
<1>5. \A i \in Ids : Dead(rows[i], clock) => Dead(rows'[i], clock)
  BY <1>3 DEF Dead, Outlasts
<1>6. SeenDead'
  <2>1. \A v \in Workers : seen'[v] \subseteq seen[v] /\ seen[v] \subseteq Ids
    BY DEF Return, TypeOK
  <2> QED
    BY <1>5, <2>1 DEF MarkInv, SeenDead
<1>7. MarkedDead'
  BY <1>2, <1>3, <1>5 DEF MarkInv, MarkedDead, Dead
<1> QED
  BY <1>1, <1>4, <1>6, <1>7

LEMMA CommitMarks ==
  ASSUME TypeOK, MarkInv, NEW w \in Workers, CommitClaim(w)
  PROVE  Owned' /\ Unfinished' /\ SeenDead' /\ MarkedDead'
<1> DEFINE n == Len(rows) + 1
<1>1. Appends(w, TRUE)
  BY CommitAppends
<1>2. n \in Nat /\ Ids' = Ids \cup {n} /\ n \notin Ids
  BY <1>1 DEF Appends, TypeOK, Ids
<1>3. /\ \A i \in Ids : i \notin seen[w] => rows'[i] = rows[i]
      /\ \A i \in seen[w] : rows'[i].run = rows[i].run /\ rows'[i].status = "failed"
      /\ rows'[n].run = "live" /\ rows'[n].status = "running" /\ rows'[n].abandoned = FALSE
  BY CommitRows
<1>4. clock' = clock /\ \A v \in Workers : seen[v] \subseteq Ids /\ seen'[v] \subseteq seen[v]
  BY DEF TypeOK, CommitClaim
<1>5. \A i \in Ids : rows'[i].run = rows[i].run /\ (Dead(rows[i], clock) => Dead(rows'[i], clock))
  <2>1. \A i \in seen[w] : /\ rows'[i].run = rows[i].run /\ rows'[i].overran = rows[i].overran
                            /\ rows'[i].started = rows[i].started
    BY CommitRows
  <2> QED
    BY <1>3, <2>1 DEF Dead
<1>6. Owned'
  BY <1>1, <1>3, <1>5, StartOwned DEF MarkInv, CommitClaim
<1> HIDE DEF n
<1>7. Unfinished'
  BY <1>2, <1>3, <1>4 DEF MarkInv, Unfinished
<1>8. SeenDead'
  BY <1>4, <1>5 DEF MarkInv, SeenDead
<1>9. MarkedDead'
  BY <1>2, <1>3, <1>4, <1>5 DEF MarkInv, MarkedDead, SeenDead
<1> QED
  BY <1>6, <1>7, <1>8, <1>9

LEMMA FailOpenMarks ==
  ASSUME TypeOK, MarkInv, NEW w \in Workers, FailOpen(w)
  PROVE  Owned' /\ Unfinished' /\ SeenDead' /\ MarkedDead'
<1> DEFINE n == Len(rows) + 1
<1>1. Appends(w, FALSE)
  BY FailOpenAppends
<1>2. n \in Nat /\ Ids' = Ids \cup {n} /\ n \notin Ids
  BY <1>1 DEF Appends, TypeOK, Ids
<1>3. /\ \A i \in Ids : rows'[i] = rows[i]
      /\ rows'[n].run = "live" /\ rows'[n].status = "running" /\ rows'[n].abandoned = FALSE
      /\ clock' = clock
  BY FailOpenRows DEF FailOpen
<1>4. Owned'
  BY <1>1, <1>3, StartOwned DEF MarkInv, FailOpen
<1> HIDE DEF n
<1>5. Unfinished'
  BY <1>2, <1>3 DEF MarkInv, Unfinished
<1>6. SeenDead'
  BY <1>3 DEF MarkInv, SeenDead, FailOpen, TypeOK
<1>7. MarkedDead'
  BY <1>2, <1>3 DEF MarkInv, MarkedDead
<1> QED
  BY <1>4, <1>5, <1>6, <1>7

LEMMA StepMarks ==
  ASSUME Inv, MarkInv, NEW w \in Workers, Step(w)
  PROVE  MarkInv'
<1> DEFINE Rest == Owned' /\ Unfinished' /\ SeenDead' /\ MarkedDead'
<1>1. TypeOK /\ MineValid
  BY DEF Inv
<1>2. Timely'
  BY <1>1, StepTimely DEF MarkInv
<1> SUFFICES Rest
  BY <1>2 DEF MarkInv
<1>3. ASSUME UNCHANGED <<clock, rows>>, Return(w), pc[w] # "running"
      PROVE  Rest
  BY <1>1, <1>3, UnchangedKeeps, EndMarks
<1>4. ASSUME UNCHANGED <<clock, rows, mine>>,
             \A v \in Workers : pc'[v] = "running" <=> pc[v] = "running",
             \A v \in Workers : pc[v] = "running" => snap'[v] = snap[v],
             \A v \in Workers : seen'[v] \subseteq seen[v]
      PROVE  Rest
  <2>1. Owned'
    BY <1>1, <1>4, SameRunsOwned DEF MarkInv
  <2> QED
    BY <1>4, <2>1 DEF MarkInv, Unfinished, SeenDead, MarkedDead, Ids
<1>5. CASE Fire(w) \/ Misfire(w) \/ AcquireLock(w) \/ ClaimError(w)
  BY <1>1, <1>4, <1>5 DEF TypeOK, Fire, Misfire, AcquireLock, ClaimError, InClaim
<1>6. CASE CheckRecent(w) \/ CheckInFlight(w)
  BY <1>1, <1>3, <1>4, <1>6 DEF TypeOK, CheckRecent, CheckInFlight, Check
<1>7. CASE SelectAbandoned(w)
  <2>1. /\ pc[w] = "reclaim" /\ pc' = [pc EXCEPT ![w] = "commit"]
        /\ seen' = [seen EXCEPT ![w] = Abandoned(snap[w])]
        /\ UNCHANGED <<clock, rows, mine, snap>>
    BY <1>7 DEF SelectAbandoned
  <2>2. \A v \in Workers : pc'[v] = "running" <=> pc[v] = "running"
    BY <1>1, <2>1 DEF TypeOK
  <2>3. Owned'
    BY <1>1, <2>1, <2>2, SameRunsOwned DEF MarkInv
  <2>4. SeenDead'
    <3>1. SUFFICES ASSUME NEW v \in Workers, NEW i \in seen'[v]
                   PROVE  Dead(rows[i], clock)
      BY <2>1 DEF SeenDead
    <3>2. CASE v = w
      <4>1. seen'[w] = Abandoned(snap[w])
        BY <1>1, <2>1 DEF TypeOK
      <4> QED
        BY <1>1, <2>1, <3>1, <3>2, <4>1, AbandonedIsDead
    <3>3. CASE v # w
      BY <1>1, <2>1, <3>1, <3>3 DEF TypeOK, MarkInv, SeenDead
    <3> QED
      BY <3>2, <3>3
  <2> QED
    BY <2>1, <2>3, <2>4 DEF MarkInv, Unfinished, MarkedDead, Ids
<1>8. CASE CommitClaim(w)
  BY <1>1, <1>8, CommitMarks
<1>9. CASE FailOpen(w)
  BY <1>1, <1>9, FailOpenMarks
<1>10. CASE RunOk(w)
  BY <1>1, <1>10, FinishKeeps, FinishEnds, EndMarks DEF RunOk, Finish
<1>11. CASE RunFail(w)
  BY <1>1, <1>11, FinishKeeps, FinishEnds, EndMarks DEF RunFail, Finish
<1>12. CASE LogError(w) \/ Crash(w)
  <2>1. rows' = RunLost(w) /\ Return(w) /\ clock' = clock
    BY <1>12 DEF LogError, Crash
  <2> QED
    BY <1>1, <2>1, RunLostKeeps, RunLostEnds, EndMarks
<1> QED
  BY <1>2, <1>5, <1>6, <1>7, <1>8, <1>9, <1>10, <1>11, <1>12 DEF Step

LEMMA TickMarks ==
  ASSUME TypeOK, MarkInv, ClockTick
  PROVE  MarkInv'
<1>1. clock' = clock + 1 /\ UNCHANGED <<rows, pc, mine, snap, seen>>
  BY DEF ClockTick
<1>2. Timely'
  <2>1. SUFFICES ASSUME NEW w \in Workers, pc[w] # "idle"
                 PROVE  snap[w] <= clock + 1 /\ clock + 1 <= snap[w] + MaxRun
    BY <1>1 DEF Timely
  <2>2. clock < snap[w] + MaxRun
    BY <2>1 DEF ClockTick, MayWait
  <2>3. snap[w] <= clock
    BY <2>1 DEF MarkInv, Timely
  <2> QED
    BY <2>2, <2>3, TimeAssumption DEF TypeOK
<1>3. \A i \in Ids : Dead(rows[i], clock) => Dead(rows[i], clock + 1)
  <2>1. clock \in Nat /\ Stale \in Nat /\ \A i \in Ids : rows[i].started \in Nat
    <3>1. \A i \in Ids : rows[i] \in Row
      BY DEF TypeOK, Ids
    <3> QED
      BY <3>1, TimeAssumption DEF Row, TypeOK
  <2> QED
    BY <2>1 DEF Dead
<1>4. SeenDead' /\ MarkedDead'
  <2>1. \A w \in Workers : seen[w] \subseteq Ids
    BY DEF TypeOK
  <2> QED
    BY <1>1, <1>3, <2>1 DEF MarkInv, SeenDead, MarkedDead, Ids
<1> QED
  BY <1>1, <1>2, <1>4 DEF MarkInv, Owned, Unfinished, Ids

LEMMA NextMarks ==
  ASSUME Inv, MarkInv, [Next]_vars
  PROVE  MarkInv'
<1>1. CASE \E w \in Workers : Step(w)
  BY <1>1, StepMarks
<1>2. CASE ClockTick
  BY <1>2, TickMarks DEF Inv
<1>3. CASE UNCHANGED vars
  BY <1>3 DEF vars, MarkInv, Owned, Timely, Unfinished, SeenDead, MarkedDead, Ids
<1> QED
  BY <1>1, <1>2, <1>3 DEF Next, Horizon

(* The reclaim of claim_job_tick: only a run that ended without a terminal *)
(* write, or that lasted STALE_RUNNING_AFTER, is marked "Abandoned",       *)
(* although the rows are written some time after they were selected.       *)
THEOREM TrueMarks == Spec => []NoFalseAbandonment
<1>1. Init => MarkInv
  BY DEF Init, Ids, MarkInv, Owned, Timely, Unfinished, SeenDead, MarkedDead
<1>2. Inv /\ MarkInv /\ [Next]_vars => MarkInv'
  BY NextMarks
<1>3. MarkInv => NoFalseAbandonment
  BY DEF MarkInv, MarkedDead, Dead, NoFalseAbandonment, Outlasts
<1> QED
  BY Invariance, <1>1, <1>2, <1>3, PTL DEF Spec

-----------------------------------------------------------------------------
(* The job is not disabled.  Under Punctual every firing is handled, and   *)
(* ends, before the next tick; what an idle worker waits for is therefore  *)
(* never far beyond the latest start, but for the faults so far.           *)

Grid == {Interval * k : k \in Nat}

OnGrid ==
  /\ \A w \in Workers : due[w] \in Grid /\ tick[w] \in Grid
  /\ \A i \in Ids : rows[i].tick \in Grid

(* Every call is about the current tick, and the next firing is the next.  *)
Current ==
  \A w \in Workers :
    IF pc[w] = "idle" THEN clock <= due[w] + MaxLate
                      ELSE snap[w] <= tick[w] + MaxLate /\ due[w] = tick[w] + Interval

OwnTick ==
  /\ \A w \in Workers : pc[w] = "running" => rows[mine[w]].tick = tick[w]
  /\ \A i \in Ids : rows[i].started <= clock

(* A run is lost by a fault. *)
Budget ==
  /\ faults <= MaxFaults
  /\ (\E i \in Ids : rows[i].run = "lost") => faults > 0

Allowance == Stale + Interval * faults

(* Time t is at most a after the latest start of the log. *)
Within(t, a, log) == t <= a \/ \E i \in 1..Len(log) : t <= log[i].started + a

Served ==
  \A w \in Workers : /\ pc[w] = "idle" => Within(due[w], Allowance, rows)
                     /\ pc[w] \notin {"idle", "running"} => Within(tick[w], Allowance, rows)

PunctualInv == OnGrid /\ Current /\ OwnTick /\ Budget /\ Served

(* The grid of the calendar's ticks. *)
LEMMA GridType == ASSUME NEW a \in Grid PROVE a \in Nat /\ a + Interval \in Grid
<1>1. PICK k \in Nat : a = Interval * k
  BY DEF Grid
<1>2. Interval \in Nat /\ Interval * k \in Nat /\ Interval * (k + 1) = Interval * k + Interval
  BY TimeAssumption
<1>3. k + 1 \in Nat
  OBVIOUS
<1> QED
  BY <1>1, <1>2, <1>3 DEF Grid

LEMMA Multiples ==
  ASSUME NEW k \in Nat, NEW m \in Nat, k < m
  PROVE  Interval * k + Interval <= Interval * m
<1>1. PICK d \in Nat : m = k + 1 + d
  <2>1. m - k - 1 \in Nat /\ m = k + 1 + (m - k - 1)
    OBVIOUS
  <2> QED
    BY <2>1
<1>2. Interval \in Nat /\ Interval * d \in Nat
  BY TimeAssumption
<1>3. Interval * m = Interval * k + Interval + Interval * d
  BY <1>1, <1>2
<1>4. Interval * k \in Nat
  BY <1>2
<1> QED
  BY <1>2, <1>3, <1>4

LEMMA GridGap ==
  ASSUME NEW a \in Grid, NEW b \in Grid, a < b
  PROVE  a + Interval <= b
<1>1. PICK k \in Nat : a = Interval * k
  BY DEF Grid
<1>2. PICK m \in Nat : b = Interval * m
  BY DEF Grid
<1>3. CASE k < m
  BY <1>1, <1>2, <1>3, Multiples
<1>4. CASE m < k
  <2>1. b + Interval <= a
    BY <1>1, <1>2, <1>4, Multiples
  <2> QED
    BY <2>1, GridType, TimeAssumption
<1>5. CASE k = m
  BY <1>1, <1>2, <1>5, GridType
<1> QED
  BY <1>3, <1>4, <1>5

(* Two ticks whose intervals contain the same time are the same tick. *)
LEMMA SameTick ==
  ASSUME NEW a \in Grid, NEW b \in Grid, NEW t \in Nat,
         a <= t, t < a + Interval, b <= t, t < b + Interval
  PROVE  a = b
<1>1. a \in Nat /\ b \in Nat
  BY GridType
<1>2. ~(a < b) /\ ~(b < a)
  BY <1>1, GridGap, TimeAssumption
<1> QED
  BY <1>1, <1>2

(* The next run of a worker that fires in time is the next tick. *)
LEMMA NextRunInTime ==
  ASSUME NEW d \in Grid, NEW t \in Nat, d <= t, t < d + Interval
  PROVE  NextRun(d, t) = d + Interval
<1>1. d \in Nat /\ Interval \in Nat /\ Interval > 0
  BY GridType, TimeAssumption
<1>2. (t - d) \div Interval = 0
  BY <1>1
<1>3. Interval * (0 + 1) = Interval
  BY <1>1
<1> QED
  BY <1>1, <1>2, <1>3 DEF NextRun

(* The next run of a restarted process is the first tick from now on. *)
LEMMA NextRunFirst ==
  ASSUME NEW t \in Nat
  PROVE  /\ NextRun(0, t) \in Grid /\ t < NextRun(0, t)
         /\ \A g \in Grid : t < g => NextRun(0, t) <= g
<1> DEFINE q == t \div Interval
<1>1. Interval \in Nat /\ Interval > 0
  BY TimeAssumption
<1>2. q \in Nat /\ Interval * q <= t /\ t < Interval * q + Interval
  BY <1>1
<1>3. Interval * (q + 1) = Interval * q + Interval /\ q + 1 \in Nat
  BY <1>1, <1>2
<1>4. NextRun(0, t) = Interval * (q + 1)
  BY <1>1, <1>2 DEF NextRun
<1> HIDE DEF q
<1>5. ASSUME NEW g \in Grid, t < g
      PROVE  Interval * (q + 1) <= g
  <2>1. Interval * q \in Grid /\ Interval * q \in Nat
    BY <1>1, <1>2 DEF Grid
  <2>2. Interval * q < g
    BY <1>2, <1>5, <2>1, GridType
  <2> QED
    BY <1>3, <2>1, <2>2, GridGap
<1>6. NextRun(0, t) \in Grid
  BY <1>3, <1>4 DEF Grid
<1> QED
  BY <1>2, <1>3, <1>4, <1>5, <1>6

(* Faults and starts only add to what is within reach. *)
LEMMA MultipleType == ASSUME NEW k \in Nat PROVE Interval * k \in Nat
BY TimeAssumption

LEMMA AllowanceGrows ==
  ASSUME TypeOK, TypeOK', faults <= faults'
  PROVE  /\ Allowance \in Nat /\ Allowance' \in Nat /\ Allowance <= Allowance'
         /\ faults < faults' => Allowance + Interval <= Allowance'
         /\ faults > 0 => Stale + Interval <= Allowance
         /\ Stale <= Allowance
<1>1. faults \in Nat /\ faults' \in Nat /\ Interval \in Nat /\ Stale \in Nat
  BY TimeAssumption DEF TypeOK
<1> DEFINE p == Interval * faults
           q == Interval * faults'
<1>2. p \in Nat /\ q \in Nat
  BY <1>1, MultipleType
<1>3. faults < faults' => p + Interval <= q
  BY <1>1, Multiples
<1>4. faults > 0 => Interval <= p
  <2>1. faults > 0 => Interval * 0 + Interval <= p
    BY <1>1, Multiples
  <2>2. Interval * 0 + Interval = Interval
    BY <1>1
  <2> QED
    BY <2>1, <2>2
<1>5. faults = faults' => p = q
  OBVIOUS
<1>6. Allowance = Stale + p /\ Allowance' = Stale + q
  BY DEF Allowance
<1> HIDE DEF p, q
<1>7. p <= q
  BY <1>1, <1>2, <1>3, <1>5
<1> QED
  BY <1>1, <1>2, <1>3, <1>4, <1>6, <1>7

LEMMA WithinGrows ==
  ASSUME TypeOK, TypeOK', faults <= faults', Ids \subseteq Ids', \A i \in Ids : SameClaim(i)
  PROVE  \A t \in Nat : Within(t, Allowance, rows) =>
           /\ Within(t, Allowance', rows')
           /\ faults < faults' => Within(t + Interval, Allowance', rows')
<1>1. /\ Allowance \in Nat /\ Allowance' \in Nat /\ Allowance <= Allowance'
      /\ faults < faults' => Allowance + Interval <= Allowance'
  BY AllowanceGrows
<1>2. Interval \in Nat /\ \A i \in Ids : rows[i].started \in Nat
  <2>1. \A i \in Ids : rows[i] \in Row
    BY DEF TypeOK, Ids
  <2> QED
    BY <2>1, TimeAssumption DEF Row
<1> SUFFICES ASSUME NEW t \in Nat, Within(t, Allowance, rows)
             PROVE  /\ Within(t, Allowance', rows')
                    /\ faults < faults' => Within(t + Interval, Allowance', rows')
  OBVIOUS
<1>3. CASE t <= Allowance
  <2>1. t <= Allowance' /\ (faults < faults' => t + Interval <= Allowance')
    BY <1>1, <1>2, <1>3
  <2> QED
    BY <2>1 DEF Within
<1>4. CASE \E i \in Ids : t <= rows[i].started + Allowance
  <2>1. PICK i \in Ids : t <= rows[i].started + Allowance
    BY <1>4
  <2>2. i \in 1..Len(rows') /\ rows'[i].started = rows[i].started
    BY <2>1 DEF SameClaim, Ids
  <2>3. t <= rows'[i].started + Allowance'
    BY <1>1, <1>2, <2>1, <2>2
  <2>4. faults < faults' => t + Interval <= rows'[i].started + Allowance'
    BY <1>1, <1>2, <2>1, <2>2
  <2> QED
    BY <2>2, <2>3, <2>4 DEF Within
<1> QED
  BY <1>3, <1>4 DEF Within, Ids

(* A call in progress is about the tick of the current interval. *)
LEMMA CallIsCurrent ==
  ASSUME Punctual, Inv, MarkInv, PunctualInv, NEW w \in Workers, pc[w] # "idle"
  PROVE  /\ tick[w] \in Grid /\ tick[w] \in Nat /\ snap[w] \in Nat /\ clock \in Nat
         /\ tick[w] <= snap[w] /\ snap[w] <= tick[w] + MaxLate /\ snap[w] <= clock
         /\ clock < tick[w] + Interval /\ due[w] = tick[w] + Interval
<1>1. tick[w] \in Grid /\ tick[w] \in Nat /\ snap[w] \in Nat /\ clock \in Nat
  BY DEF PunctualInv, OnGrid, Inv, TypeOK
<1>2. tick[w] <= snap[w] /\ snap[w] <= clock /\ clock <= snap[w] + MaxRun
  BY DEF Inv, Punctuality, MarkInv, Timely
<1>3. snap[w] <= tick[w] + MaxLate /\ due[w] = tick[w] + Interval
  BY DEF PunctualInv, Current
<1> QED
  BY <1>1, <1>2, <1>3, TimeAssumption DEF Punctual

(* What every step of a worker leaves alone. *)
OthersRest(w) ==
  \A v \in Workers : v # w =>
    /\ pc'[v] = pc[v] /\ due'[v] = due[v] /\ tick'[v] = tick[v]
    /\ snap'[v] = snap[v] /\ mine'[v] = mine[v]

LogGrows == Ids \subseteq Ids' /\ \A i \in Ids : SameClaim(i)

LEMMA StepFrame ==
  ASSUME Inv, NEW w \in Workers, Step(w), faults <= MaxFaults
  PROVE  /\ OthersRest(w) /\ clock' = clock
         /\ faults \in Nat /\ faults' \in Nat /\ faults <= faults' /\ faults' <= MaxFaults
<1>1. TypeOK
  BY DEF Inv
<1>2. OthersRest(w)
  BY <1>1 DEF Step, TypeOK, OthersRest, Fire, Misfire, AcquireLock, CheckRecent, CheckInFlight,
     Check, Return, SelectAbandoned, CommitClaim, ClaimError, FailOpen, RunOk, RunFail, Finish,
     LogError, Crash
<1>3. clock' = clock /\ (faults' = faults \/ (faults < MaxFaults /\ faults' = faults + 1))
  BY DEF Step, Fire, Misfire, AcquireLock, CheckRecent, CheckInFlight,
     Check, Return, SelectAbandoned, CommitClaim, ClaimError, FailOpen, RunOk, RunFail, Finish,
     LogError, Crash
<1> QED
  BY <1>1, <1>2, <1>3, TimeAssumption DEF TypeOK

LEMMA StepLogGrows ==
  ASSUME Inv, NEW w \in Workers, Step(w)
  PROVE  LogGrows
<1>1. TypeOK /\ MineValid
  BY DEF Inv
<1>2. ASSUME Keeps PROVE LogGrows
  BY <1>2 DEF Keeps, LogGrows, Ids
<1>8. ASSUME NEW admitted, Appends(w, admitted) PROVE LogGrows
  <2>1. Len(rows) \in Nat /\ Ids' = 1..(Len(rows) + 1)
    BY <1>1, <1>8 DEF Appends, TypeOK, Ids
  <2> QED
    BY <1>8, <2>1 DEF Appends, LogGrows, Ids
<1>3. CASE CommitClaim(w)
  BY <1>1, <1>3, <1>8, CommitAppends
<1>4. CASE FailOpen(w)
  BY <1>1, <1>4, <1>8, FailOpenAppends
<1>5. CASE RunOk(w) \/ RunFail(w)
  BY <1>1, <1>2, <1>5, FinishKeeps DEF RunOk, RunFail
<1>6. CASE LogError(w) \/ Crash(w)
  BY <1>1, <1>2, <1>6, RunLostKeeps DEF LogError, Crash
<1>7. CASE UNCHANGED rows
  BY <1>1, <1>2, <1>7, UnchangedKeeps
<1> QED
  BY <1>3, <1>4, <1>5, <1>6, <1>7 DEF Step, Fire, Misfire, AcquireLock,
     CheckRecent, CheckInFlight, Check, SelectAbandoned, ClaimError

(* What a step must establish for its own worker. *)
LEMMA PunctualStep ==
  ASSUME Inv, Inv', PunctualInv, NEW w \in Workers, Step(w),
         \A i \in Ids' : i \in Ids \/ (rows'[i].tick \in Grid /\ rows'[i].started <= clock),
         (\E i \in Ids' : rows'[i].run = "lost") => faults' > 0,
         due'[w] \in Grid, tick'[w] \in Grid,
         pc'[w] = "idle" => clock <= due'[w] + MaxLate /\ Within(due'[w], Allowance', rows'),
         pc'[w] # "idle" => snap'[w] <= tick'[w] + MaxLate /\ due'[w] = tick'[w] + Interval,
         pc'[w] \notin {"idle", "running"} => Within(tick'[w], Allowance', rows'),
         pc'[w] = "running" => rows'[mine'[w]].tick = tick'[w]
  PROVE  PunctualInv'
<1>1. TypeOK /\ TypeOK' /\ MineValid
  BY DEF Inv
<1>2. /\ OthersRest(w) /\ clock' = clock
      /\ faults \in Nat /\ faults' \in Nat /\ faults <= faults' /\ faults' <= MaxFaults
  BY StepFrame DEF PunctualInv, Budget
<1>3. LogGrows
  BY StepLogGrows
<1>4. OnGrid'
  BY <1>2, <1>3 DEF PunctualInv, OnGrid, OthersRest, LogGrows, SameClaim
<1>5. Current'
  BY <1>2 DEF PunctualInv, Current, OthersRest
<1>6. OwnTick'
  <2>1. \A v \in Workers : v # w /\ pc'[v] = "running" => rows'[mine'[v]].tick = tick'[v]
    BY <1>1, <1>2, <1>3 DEF PunctualInv, OwnTick, OthersRest, LogGrows, SameClaim, MineValid
  <2>2. \A i \in Ids' : rows'[i].started <= clock'
    BY <1>2, <1>3 DEF PunctualInv, OwnTick, LogGrows, SameClaim
  <2> QED
    BY <2>1, <2>2 DEF OwnTick
<1>7. Budget'
  BY <1>2 DEF Budget
<1>8. Served'
  <2>1. \A v \in Workers : due[v] \in Nat /\ tick[v] \in Nat
    BY <1>1 DEF TypeOK
  <2>2. \A t \in Nat : Within(t, Allowance, rows) => Within(t, Allowance', rows')
    BY <1>1, <1>2, <1>3, WithinGrows DEF LogGrows
  <2>3. \A v \in Workers : v # w =>
           /\ pc'[v] = "idle" => Within(due'[v], Allowance', rows')
           /\ pc'[v] \notin {"idle", "running"} => Within(tick'[v], Allowance', rows')
    BY <1>2, <2>1, <2>2 DEF PunctualInv, Served, OthersRest
  <2> QED
    BY <2>3 DEF Served
<1> QED
  BY <1>4, <1>5, <1>6, <1>7, <1>8 DEF PunctualInv

LEMMA ZeroOnGrid == 0 \in Grid
<1>1. Interval * 0 = 0
  BY TimeAssumption
<1> QED
  BY <1>1 DEF Grid

LEMMA WithinDown ==
  ASSUME NEW t \in Nat, NEW u \in Nat, NEW a \in Nat, NEW log \in Seq(Row),
         Within(u, a, log), t <= u
  PROVE  Within(t, a, log)
<1>1. \A i \in 1..Len(log) : log[i].started \in Nat
  <2>1. \A i \in 1..Len(log) : log[i] \in Row
    OBVIOUS
  <2> QED
    BY <2>1 DEF Row
<1>2. CASE u <= a
  BY <1>2 DEF Within
<1>3. CASE \E i \in 1..Len(log) : u <= log[i].started + a
  <2>1. PICK i \in 1..Len(log) : u <= log[i].started + a
    BY <1>3
  <2>2. t <= log[i].started + a
    BY <1>1, <2>1
  <2> QED
    BY <2>2 DEF Within
<1> QED
  BY <1>2, <1>3 DEF Within

(* A start in the current interval puts the next tick within reach. *)
LEMMA StartWithin ==
  ASSUME Punctual, TypeOK, NEW i \in Ids, NEW t \in Nat, t <= rows[i].started
  PROVE  Within(t + Interval, Allowance, rows)
<1>1. Allowance \in Nat /\ Stale <= Allowance
  <2>1. faults \in Nat /\ Stale \in Nat
    BY TimeAssumption DEF TypeOK
  <2>2. Interval * faults \in Nat
    BY <2>1, MultipleType
  <2> QED
    BY <2>1, <2>2 DEF Allowance
<1>2. rows[i].started \in Nat
  <2>1. rows[i] \in Row
    BY DEF TypeOK, Ids
  <2> QED
    BY <2>1 DEF Row
<1>3. t + Interval <= rows[i].started + Allowance
  BY <1>1, <1>2, TimeAssumption DEF Punctual
<1> QED
  BY <1>3 DEF Within, Ids

(* The row of a running worker is such a start. *)
LEMMA RunningWithin ==
  ASSUME Punctual, Inv, MarkInv, PunctualInv, NEW w \in Workers, pc[w] = "running"
  PROVE  Within(tick[w] + Interval, Allowance, rows)
<1>1. mine[w] \in Ids /\ rows[mine[w]].tick = tick[w] /\ tick[w] <= rows[mine[w]].started
  BY DEF Inv, MineValid, Punctuality, PunctualInv, OwnTick
<1>2. TypeOK /\ tick[w] \in Nat
  BY DEF Inv, TypeOK
<1> QED
  BY <1>1, <1>2, StartWithin

(* A claim is refused by a start in the current interval: the rows of the  *)
(* tick before lie outside the window.                                     *)
LEMMA RecentWithin ==
  ASSUME Punctual, Inv, MarkInv, PunctualInv, NEW w \in Workers, pc[w] # "idle",
         Recent(snap[w]) # {}
  PROVE  Within(tick[w] + Interval, Allowance, rows)
<1>1. PICK i \in Ids : rows[i].started > snap[w] - Window
  BY DEF Recent
<1>2. /\ tick[w] \in Grid /\ tick[w] \in Nat /\ snap[w] \in Nat /\ clock \in Nat
      /\ tick[w] <= snap[w] /\ clock < tick[w] + Interval
  BY CallIsCurrent
<1>3. /\ rows[i].tick \in Grid /\ rows[i].tick <= rows[i].started
      /\ rows[i].started <= rows[i].tick + Grace /\ rows[i].started <= clock
  BY DEF Inv, Punctuality, PunctualInv, OnGrid, OwnTick
<1>4. rows[i].tick \in Nat /\ rows[i].started \in Nat
  <2>1. rows[i] \in Row
    BY DEF Inv, TypeOK, Ids
  <2> QED
    BY <2>1 DEF Row
<1>5. ~(rows[i].tick < tick[w])
  <2>1. SUFFICES ASSUME rows[i].tick < tick[w] PROVE FALSE
    OBVIOUS
  <2>2. rows[i].tick + Interval <= tick[w]
    BY <1>2, <1>3, <2>1, GridGap
  <2> QED
    BY <1>1, <1>2, <1>3, <1>4, <2>2, TimeAssumption DEF Punctual
<1>6. tick[w] <= rows[i].started
  BY <1>2, <1>3, <1>4, <1>5
<1> QED
  BY <1>2, <1>6, StartWithin DEF Inv

(* Or by the running row of a lost run, which a fault has paid for, or by  *)
(* a live run: one of the current interval.                                *)
LEMMA InFlightWithin ==
  ASSUME Punctual, Inv, MarkInv, PunctualInv, NEW w \in Workers, pc[w] # "idle",
         InFlight(snap[w]) # {}
  PROVE  Within(tick[w] + Interval, Allowance, rows)
<1>1. PICK i \in Ids : rows[i].status = "running" /\ rows[i].started > snap[w] - Stale
  BY DEF InFlight
<1>2. /\ tick[w] \in Grid /\ tick[w] \in Nat /\ snap[w] \in Nat /\ clock \in Nat
      /\ tick[w] <= snap[w] /\ snap[w] <= clock /\ clock < tick[w] + Interval
  BY CallIsCurrent
<1>3. rows[i].started \in Nat
  <2>1. rows[i] \in Row
    BY DEF Inv, TypeOK, Ids
  <2> QED
    BY <2>1 DEF Row
<1>4. CASE rows[i].run = "live"
  <2>1. PICK v \in Workers : pc[v] = "running" /\ mine[v] = i
    BY <1>4, OwnedParts DEF MarkInv, HasOwner
  <2>2. rows[i].started = snap[v]
    BY <2>1, OwnedParts DEF MarkInv, OwnedRows
  <2>3. /\ tick[v] \in Grid /\ tick[v] \in Nat /\ tick[v] <= snap[v] /\ snap[v] <= clock
        /\ clock < tick[v] + Interval /\ snap[v] \in Nat
    BY <2>1, CallIsCurrent
  <2>4. tick[v] <= clock /\ tick[w] <= clock
    BY <1>2, <2>3
  <2>5. tick[v] = tick[w]
    BY <1>2, <2>3, <2>4, SameTick
  <2> QED
    BY <1>2, <2>2, <2>3, <2>5, StartWithin DEF Inv
<1>5. CASE rows[i].run = "lost"
  <2>1. faults \in Nat /\ faults > 0
    BY <1>5 DEF PunctualInv, Budget, Inv, TypeOK
  <2>2. Interval \in Nat /\ Stale \in Nat
    BY TimeAssumption
  <2>3. Interval * faults \in Nat /\ Interval * 0 + Interval <= Interval * faults
    BY <2>1, MultipleType, Multiples
  <2>4. Allowance \in Nat /\ Stale + Interval <= Allowance
    BY <2>2, <2>3 DEF Allowance
  <2>5. tick[w] + Interval <= rows[i].started + Allowance
    BY <1>1, <1>2, <1>3, <2>2, <2>4
  <2> QED
    BY <2>5 DEF Within, Ids
<1> QED
  BY <1>1, <1>4, <1>5 DEF MarkInv, Unfinished

(* Steps of a call that go on. *)
LEMMA InCallPunctual ==
  ASSUME Punctual, Inv, Inv', MarkInv, PunctualInv, NEW w \in Workers, Step(w),
         UNCHANGED <<rows, due, tick, snap>>,
         pc[w] \notin {"idle", "running"}, pc'[w] \notin {"idle", "running"}
  PROVE  PunctualInv'
<1>1. /\ faults \in Nat /\ faults' \in Nat /\ faults <= faults'
      /\ TypeOK /\ TypeOK' /\ tick[w] \in Nat
  BY StepFrame DEF PunctualInv, Budget, Inv, TypeOK
<1>2. LogGrows /\ Ids' = Ids
  BY StepLogGrows DEF Ids
<1>3. Within(tick[w], Allowance', rows')
  BY <1>1, <1>2, WithinGrows DEF PunctualInv, Served, LogGrows
<1>4. (\E i \in Ids' : rows'[i].run = "lost") => faults' > 0
  BY <1>1, <1>2 DEF PunctualInv, Budget
<1>5. /\ due'[w] \in Grid /\ tick'[w] \in Grid
      /\ snap'[w] <= tick'[w] + MaxLate /\ due'[w] = tick'[w] + Interval
  BY DEF PunctualInv, OnGrid, Current
<1> QED
  BY <1>2, <1>3, <1>4, <1>5, PunctualStep

(* A call that returns. *)
LEMMA ReturnPunctual ==
  ASSUME Punctual, Inv, Inv', MarkInv, PunctualInv, NEW w \in Workers, Step(w), Return(w),
         pc[w] # "idle", due' = due, Ids' = Ids,
         \A i \in Ids : rows'[i].run = "lost" => rows[i].run = "lost" \/ faults' > faults,
         Within(tick[w] + Interval, Allowance', rows')
  PROVE  PunctualInv'
<1>1. /\ faults \in Nat /\ faults' \in Nat /\ faults <= faults' /\ TypeOK
  BY StepFrame DEF PunctualInv, Budget, Inv
<1>2. pc'[w] = "idle" /\ tick'[w] = 0 /\ 0 \in Grid
  BY <1>1, ZeroOnGrid DEF TypeOK, Return
<1>3. due'[w] = tick[w] + Interval /\ clock < tick[w] + Interval /\ clock \in Nat
        /\ tick[w] \in Nat /\ due'[w] \in Grid
  BY CallIsCurrent, GridType
<1>4. clock <= due'[w] + MaxLate
  BY <1>3, TimeAssumption
<1>5. (\E i \in Ids' : rows'[i].run = "lost") => faults' > 0
  BY <1>1 DEF PunctualInv, Budget
<1> QED
  BY <1>2, <1>3, <1>4, <1>5, PunctualStep

(* A call that starts a run. *)
LEMMA StartPunctual ==
  ASSUME Punctual, Inv, Inv', MarkInv, PunctualInv, NEW w \in Workers, Step(w),
         NEW admitted, Appends(w, admitted), pc[w] # "idle",
         pc'[w] = "running", mine'[w] = Len(rows) + 1, UNCHANGED <<due, tick, snap>>,
         \A i \in Ids : rows'[i].run = rows[i].run, rows'[Len(rows) + 1].run = "live"
  PROVE  PunctualInv'
<1> DEFINE n == Len(rows) + 1
<1>1. n \in Nat /\ Ids' = Ids \cup {n}
  BY DEF Appends, Inv, TypeOK, Ids
<1>2. rows'[n].started = snap[w] /\ rows'[n].tick = tick[w]
  BY DEF Appends
<1>3. /\ tick[w] \in Grid /\ due[w] \in Grid /\ snap[w] <= clock
      /\ snap[w] <= tick[w] + MaxLate /\ due[w] = tick[w] + Interval
  BY CallIsCurrent, GridType
<1>4. faults \in Nat /\ faults' \in Nat /\ faults <= faults'
  BY StepFrame DEF PunctualInv, Budget
<1> HIDE DEF n
<1>5. (\E i \in Ids' : rows'[i].run = "lost") => faults' > 0
  BY <1>1, <1>4 DEF PunctualInv, Budget, n
<1>6. \A i \in Ids' : i \in Ids \/ (rows'[i].tick \in Grid /\ rows'[i].started <= clock)
  BY <1>1, <1>2, <1>3
<1>7. mine'[w] = n
  BY DEF n
<1> QED
  BY <1>2, <1>3, <1>5, <1>6, <1>7, PunctualStep

LEMMA FirePunctual ==
  ASSUME Punctual, Inv, Inv', PunctualInv, NEW w \in Workers, Fire(w)
  PROVE  PunctualInv'
<1>1. TypeOK /\ Step(w) /\ UNCHANGED <<rows, faults>> /\ Ids' = Ids
  BY DEF Inv, Step, Fire, Ids
<1>2. pc[w] = "idle" /\ due[w] <= clock /\ clock <= due[w] + MaxLate /\ due[w] \in Grid
        /\ Within(due[w], Allowance, rows)
  BY DEF Fire, PunctualInv, Current, OnGrid, Served
<1>3. clock \in Nat /\ due[w] \in Nat /\ clock < due[w] + Interval
  BY <1>1, <1>2, TimeAssumption, WindowAssumption DEF TypeOK, Punctual
<1>4. NextRun(due[w], clock) = due[w] + Interval /\ due[w] + Interval \in Grid
  BY <1>2, <1>3, NextRunInTime, GridType
<1>5. /\ pc'[w] = "lock" /\ tick'[w] = due[w] /\ snap'[w] = clock
      /\ due'[w] = due[w] + Interval
  BY <1>1, <1>4 DEF Fire, TypeOK
<1>6. Within(tick'[w], Allowance', rows')
  BY <1>1, <1>2, <1>5 DEF Allowance
<1>7. (\E i \in Ids' : rows'[i].run = "lost") => faults' > 0
  BY <1>1 DEF PunctualInv, Budget
<1> QED
  BY <1>1, <1>2, <1>4, <1>5, <1>6, <1>7, PunctualStep

(* No firing is dropped. *)
LEMMA NoMisfire ==
  ASSUME Punctual, Inv, MarkInv, PunctualInv, NEW w \in Workers, Misfire(w)
  PROVE  FALSE
<1>1. clock \in Nat /\ due[w] \in Nat
  BY DEF Inv, TypeOK
<1>2. CASE pc[w] = "idle"
  <2>1. clock > due[w] + Grace /\ clock <= due[w] + MaxLate
    BY <1>2 DEF Misfire, PunctualInv, Current
  <2> QED
    BY <1>1, <2>1, TimeAssumption DEF Punctual
<1>3. CASE pc[w] # "idle"
  <2>1. due[w] <= clock /\ clock < due[w]
    BY <1>3, CallIsCurrent DEF Misfire
  <2> QED
    BY <1>1, <2>1
<1> QED
  BY <1>2, <1>3

(* A restarted worker has the first tick from now on, which is at most one *)
(* interval after what it waited for or worked on.                         *)
LEMMA CrashPunctual ==
  ASSUME Punctual, Inv, Inv', MarkInv, PunctualInv, NEW w \in Workers, Crash(w)
  PROVE  PunctualInv'
<1>1. TypeOK /\ TypeOK' /\ MineValid /\ Step(w)
  BY DEF Inv, Step
<1>2. Keeps /\ Ids' = Ids /\ LogGrows
  BY <1>1, RunLostKeeps, StepLogGrows DEF Crash, Keeps, Ids
<1>3. faults \in Nat /\ faults' = faults + 1 /\ faults < faults' /\ faults' > 0 /\ faults <= faults'
  BY <1>1 DEF Crash, TypeOK
<1> DEFINE r == NextRun(0, clock)
<1>4. /\ r \in Grid /\ clock < r /\ r \in Nat /\ clock \in Nat
      /\ \A g \in Grid : clock < g => r <= g
  BY <1>1, NextRunFirst, GridType DEF TypeOK
<1>5. due'[w] = r /\ pc'[w] = "idle" /\ tick'[w] = 0
  BY <1>1 DEF Crash, Return, RestartDue, Punctual, TypeOK
<1> HIDE DEF r
<1>6. \A t \in Nat : Within(t, Allowance, rows) =>
         Within(t, Allowance', rows') /\ Within(t + Interval, Allowance', rows')
  BY <1>1, <1>2, <1>3, WithinGrows DEF LogGrows
<1>7. Allowance' \in Nat /\ rows' \in Seq(Row)
  BY <1>1, <1>3, AllowanceGrows DEF TypeOK
<1>8. PICK u \in Nat : r <= u /\ Within(u, Allowance', rows')
  <2>1. CASE pc[w] = "idle"
    <3>1. due[w] \in Grid /\ due[w] \in Nat /\ due[w] + Interval \in Grid
            /\ due[w] + Interval \in Nat /\ clock <= due[w] + MaxLate
      BY <2>1, GridType DEF PunctualInv, OnGrid, Current
    <3>2. clock < due[w] + Interval
      BY <1>4, <3>1, TimeAssumption, WindowAssumption DEF Punctual
    <3>3. r <= due[w] + Interval
      BY <1>4, <3>1, <3>2
    <3>4. Within(due[w] + Interval, Allowance', rows')
      BY <1>6, <2>1, <3>1 DEF PunctualInv, Served
    <3> QED
      BY <3>1, <3>3, <3>4
  <2>2. CASE pc[w] # "idle"
    <3>1. tick[w] \in Grid /\ tick[w] \in Nat /\ clock < tick[w] + Interval
            /\ tick[w] + Interval \in Grid /\ tick[w] + Interval \in Nat
      BY <2>2, CallIsCurrent, GridType
    <3>2. r <= tick[w] + Interval
      BY <1>4, <3>1
    <3>3. CASE pc[w] = "running"
      BY <1>6, <3>1, <3>2, <3>3, RunningWithin
    <3>4. CASE pc[w] # "running"
      BY <1>6, <2>2, <3>1, <3>2, <3>4 DEF PunctualInv, Served
    <3> QED
      BY <3>3, <3>4
  <2> QED
    BY <2>1, <2>2
<1>9. Within(r, Allowance', rows')
  BY <1>4, <1>7, <1>8, WithinDown
<1>10. clock <= r + MaxLate
  BY <1>4, TimeAssumption
<1> QED
  BY <1>1, <1>2, <1>3, <1>4, <1>5, <1>9, <1>10, ZeroOnGrid, PunctualStep

LEMMA StepPunctual ==
  ASSUME Punctual, Inv, Inv', MarkInv, PunctualInv, NEW w \in Workers, Step(w)
  PROVE  PunctualInv'
<1>1. /\ TypeOK /\ TypeOK' /\ MineValid /\ LogGrows
      /\ faults \in Nat /\ faults' \in Nat /\ faults <= faults'
  BY StepFrame, StepLogGrows DEF Inv, PunctualInv, Budget
<1>2. \A t \in Nat : Within(t, Allowance, rows) =>
         /\ Within(t, Allowance', rows')
         /\ faults < faults' => Within(t + Interval, Allowance', rows')
  BY <1>1, WithinGrows DEF LogGrows
<1>3. ASSUME pc[w] # "idle"
      PROVE  tick[w] \in Nat /\ tick[w] + Interval \in Nat
  BY <1>3, CallIsCurrent, GridType
<1>4. CASE Fire(w)
  BY <1>4, FirePunctual
<1>5. CASE Misfire(w)
  BY <1>5, NoMisfire
<1>6. CASE AcquireLock(w) \/ SelectAbandoned(w) \/ ClaimError(w)
  BY <1>1, <1>6, InCallPunctual DEF AcquireLock, SelectAbandoned, ClaimError, InClaim, TypeOK
<1>7. CASE CheckRecent(w)
  <2>1. pc[w] = "recent" /\ UNCHANGED <<rows, due, faults>>
          /\ Check(w, Recent(snap[w]), "inflight")
    BY <1>7 DEF CheckRecent, Check
  <2>2. CASE Return(w) /\ Recent(snap[w]) # {}
    <3>1. Within(tick[w] + Interval, Allowance', rows')
      BY <1>2, <1>3, <2>1, <2>2, RecentWithin
    <3> QED
      BY <2>1, <2>2, <3>1, ReturnPunctual DEF Ids
  <2>3. CASE pc' = [pc EXCEPT ![w] = "inflight"] /\ UNCHANGED <<tick, snap, seen, mine, holder>>
    BY <1>1, <2>1, <2>3, InCallPunctual DEF TypeOK
  <2> QED
    BY <2>1, <2>2, <2>3 DEF Check
<1>8. CASE CheckInFlight(w)
  <2>1. pc[w] = "inflight" /\ UNCHANGED <<rows, due, faults>>
          /\ Check(w, InFlight(snap[w]), "reclaim")
    BY <1>8 DEF CheckInFlight, Check
  <2>2. CASE Return(w) /\ InFlight(snap[w]) # {}
    <3>1. Within(tick[w] + Interval, Allowance', rows')
      BY <1>2, <1>3, <2>1, <2>2, InFlightWithin
    <3> QED
      BY <2>1, <2>2, <3>1, ReturnPunctual DEF Ids
  <2>3. CASE pc' = [pc EXCEPT ![w] = "reclaim"] /\ UNCHANGED <<tick, snap, seen, mine, holder>>
    BY <1>1, <2>1, <2>3, InCallPunctual DEF TypeOK
  <2> QED
    BY <2>1, <2>2, <2>3 DEF Check
<1>9. CASE CommitClaim(w)
  <2>1. Appends(w, TRUE) /\ rows'[Len(rows) + 1].run = "live"
          /\ \A i \in Ids : rows'[i].run = rows[i].run
    BY <1>1, <1>9, CommitAppends, CommitRows
  <2> QED
    BY <1>1, <1>9, <2>1, StartPunctual DEF CommitClaim, TypeOK
<1>10. CASE FailOpen(w)
  <2>1. Appends(w, FALSE) /\ rows'[Len(rows) + 1].run = "live"
          /\ \A i \in Ids : rows'[i].run = rows[i].run
    BY <1>1, <1>10, FailOpenAppends, FailOpenRows
  <2> QED
    BY <1>1, <1>10, <2>1, StartPunctual DEF FailOpen, TypeOK
<1>11. ASSUME NEW status \in {"completed", "failed"}, NEW run \in {"ok", "error"},
              Finish(w, status, run)
       PROVE  PunctualInv'
  <2>1. pc[w] = "running" /\ Return(w) /\ due' = due
    BY <1>11 DEF Finish
  <2>2. Ids' = Ids /\ \A i \in Ids : rows'[i].run = "lost" => rows[i].run = "lost"
    BY <1>1, <1>11, FinishKeeps, FinishEnds DEF Keeps, Ids
  <2>3. Within(tick[w] + Interval, Allowance', rows')
    BY <1>2, <1>3, <2>1, RunningWithin
  <2> QED
    BY <2>1, <2>2, <2>3, ReturnPunctual
<1>12. CASE RunOk(w) \/ RunFail(w)
  BY <1>11, <1>12 DEF RunOk, RunFail
<1>13. CASE LogError(w)
  <2>1. /\ pc[w] \in {"failopen", "running"} /\ Return(w) /\ due' = due
        /\ faults < faults' /\ rows' = RunLost(w)
    BY <1>1, <1>13 DEF LogError
  <2>2. Ids' = Ids
    BY <1>1, <2>1, RunLostKeeps DEF Keeps, Ids
  <2>3. Within(tick[w] + Interval, Allowance', rows')
    <3>1. CASE pc[w] = "running"
      BY <1>2, <1>3, <3>1, RunningWithin
    <3>2. CASE pc[w] = "failopen"
      BY <1>2, <1>3, <2>1, <3>2 DEF PunctualInv, Served
    <3> QED
      BY <2>1, <3>1, <3>2
  <2> QED
    BY <1>1, <2>1, <2>2, <2>3, ReturnPunctual
<1>14. CASE Crash(w)
  BY <1>14, CrashPunctual
<1> QED
  BY <1>4, <1>5, <1>6, <1>7, <1>8, <1>9, <1>10, <1>12, <1>13, <1>14 DEF Step

LEMMA TickPunctual ==
  ASSUME Inv, PunctualInv, ClockTick
  PROVE  PunctualInv'
<1>1. clock' = clock + 1 /\ UNCHANGED <<rows, due, pc, tick, snap, mine, faults>>
        /\ \A w \in Workers : MayWait(w)
  BY DEF ClockTick
<1>2. Current'
  <2>1. \A w \in Workers : clock \in Nat /\ due[w] \in Nat /\ MaxLate \in Nat
    BY TimeAssumption DEF Inv, TypeOK
  <2> QED
    BY <1>1, <2>1 DEF MayWait, PunctualInv, Current
<1>3. OwnTick'
  <2>1. clock \in Nat /\ \A i \in Ids : rows[i].started \in Nat
    <3>1. clock \in Nat /\ \A i \in Ids : rows[i] \in Row
      BY DEF Inv, TypeOK, Ids
    <3> QED
      BY <3>1 DEF Row
  <2> QED
    BY <1>1, <2>1 DEF PunctualInv, OwnTick, Ids
<1> QED
  BY <1>1, <1>2, <1>3 DEF PunctualInv, OnGrid, Budget, Served, Allowance, Ids

(* Whatever some worker waits for or works on, the clock is not far ahead. *)
LEMMA PunctualIsAlive ==
  ASSUME Punctual, Inv, MarkInv, PunctualInv
  PROVE  JobNotDisabled
<1>1. PICK w \in Workers : TRUE
  BY WorkersAssumption
<1>2. /\ clock \in Nat /\ faults \in Nat /\ due[w] \in Nat /\ tick[w] \in Nat /\ rows \in Seq(Row)
      /\ MaxFaults \in Nat /\ Stale \in Nat /\ Interval \in Nat /\ MaxLate \in Nat /\ MaxRun \in Nat
  BY TimeAssumption DEF Inv, TypeOK
<1> DEFINE p == Interval * faults
           q == Interval * MaxFaults
<1>3. p \in Nat /\ q \in Nat /\ p <= q
  <2>1. faults <= MaxFaults
    BY DEF PunctualInv, Budget
  <2>2. p \in Nat /\ q \in Nat
    BY <1>2, MultipleType
  <2>3. faults < MaxFaults => p + Interval <= q
    BY <1>2, Multiples
  <2>4. faults = MaxFaults => p = q
    OBVIOUS
  <2> HIDE DEF p, q
  <2> QED
    BY <1>2, <2>1, <2>2, <2>3, <2>4
<1>4. Allowance = Stale + p /\ MaxSilence = Stale + q + MaxLate + MaxRun
  BY DEF Allowance, MaxSilence
<1> HIDE DEF p, q
<1>5. PICK t \in Nat : Within(t, Allowance, rows) /\ clock <= t + MaxLate + MaxRun
  <2>1. CASE pc[w] = "idle"
    <3>1. Within(due[w], Allowance, rows) /\ clock <= due[w] + MaxLate
      BY <2>1 DEF PunctualInv, Served, Current
    <3> QED
      BY <1>2, <3>1
  <2>2. CASE pc[w] # "idle"
    <3>1. clock <= snap[w] + MaxRun /\ snap[w] <= tick[w] + MaxLate /\ snap[w] \in Nat
      BY <2>2, CallIsCurrent DEF MarkInv, Timely
    <3>2. Within(tick[w], Allowance, rows)
      <4>1. CASE pc[w] = "running"
        <5>1. Within(tick[w] + Interval, Allowance, rows)
          BY <4>1, RunningWithin
        <5>2. Allowance \in Nat
          BY <1>2, <1>3, <1>4
        <5>3. tick[w] + Interval \in Nat /\ tick[w] <= tick[w] + Interval
          BY <1>2
        <5> QED
          BY <1>2, <5>1, <5>2, <5>3, WithinDown
      <4>2. CASE pc[w] # "running"
        BY <2>2, <4>2 DEF PunctualInv, Served
      <4> QED
        BY <4>1, <4>2
    <3> QED
      BY <1>2, <3>1, <3>2
  <2> QED
    BY <2>1, <2>2
<1>6. CASE t <= Allowance
  BY <1>2, <1>3, <1>4, <1>5, <1>6 DEF JobNotDisabled
<1>7. CASE \E i \in Ids : t <= rows[i].started + Allowance
  <2>1. PICK i \in Ids : t <= rows[i].started + Allowance
    BY <1>7
  <2>2. rows[i].started \in Nat
    <3>1. rows[i] \in Row
      BY <1>2 DEF Ids
    <3> QED
      BY <3>1 DEF Row
  <2>3. clock <= rows[i].started + MaxSilence
    BY <1>2, <1>3, <1>4, <1>5, <2>1, <2>2
  <2> QED
    BY <2>3 DEF JobNotDisabled
<1> QED
  BY <1>5, <1>6, <1>7 DEF Within, Ids

(* A worker killed in mid-run, with the running row it leaves behind, does *)
(* not disable its job: some run starts every STALE_RUNNING_AFTER, plus an *)
(* interval per fault, for any number of workers, crashes and errors.      *)
THEOREM Availability == Spec => []JobNotDisabled
<1> DEFINE Alive == Punctual => PunctualInv
<1>1. Init => MarkInv
  BY DEF Init, Ids, MarkInv, Owned, Timely, Unfinished, SeenDead, MarkedDead
<1>2. Init => Alive
  <2> SUFFICES ASSUME Init, Punctual PROVE PunctualInv
    OBVIOUS
  <2>1. Interval \in Grid /\ 0 \in Grid /\ Interval <= Stale
    <3>1. 0 + Interval \in Grid /\ 0 + Interval = Interval
      BY ZeroOnGrid, GridType, TimeAssumption
    <3> QED
      BY <3>1, ZeroOnGrid DEF Punctual
  <2>2. Ids = {}
    BY DEF Init, Ids
  <2>3. Allowance = Stale
    <3>1. Interval * 0 = 0
      BY TimeAssumption
    <3> QED
      BY <3>1, TimeAssumption DEF Init, Allowance
  <2> QED
    BY <2>1, <2>2, <2>3, TimeAssumption DEF Init, PunctualInv, OnGrid, Current, OwnTick, Budget,
       Served, Within
<1>3. Inv /\ MarkInv /\ [Next]_vars => MarkInv'
  BY NextMarks
<1>4. Inv /\ Inv' /\ MarkInv /\ Alive /\ [Next]_vars => Alive'
  <2> SUFFICES ASSUME Inv, Inv', MarkInv, Punctual, PunctualInv, [Next]_vars PROVE PunctualInv'
    OBVIOUS
  <2>1. CASE \E w \in Workers : Step(w)
    BY <2>1, StepPunctual
  <2>2. CASE ClockTick
    BY <2>2, TickPunctual
  <2>3. CASE UNCHANGED vars
    BY <2>3 DEF vars, PunctualInv, OnGrid, Current, OwnTick, Budget, Served, Allowance, Ids
  <2> QED
    BY <2>1, <2>2, <2>3 DEF Next, Horizon
<1>5. Inv /\ MarkInv /\ Alive => JobNotDisabled
  BY PunctualIsAlive DEF JobNotDisabled
<1> QED
  BY Invariance, <1>1, <1>2, <1>3, <1>4, <1>5, PTL DEF Spec

=============================================================================
