--------------------------- MODULE SchedulerClaim ---------------------------
(***************************************************************************)
(* Cross-process de-duplication of one scheduled job.  Every gunicorn      *)
(* worker runs its own BackgroundScheduler; each firing goes through       *)
(* SchedulerJobLogger.run_logged, which claims the tick in                 *)
(* scheduler_run_logs (claim_job_tick) before it runs the job function.    *)
(* Jobs do not interact: lock key and every query are per job name.        *)
(*                                                                         *)
(* A claim reads the clock, takes pg_advisory_xact_lock, runs three        *)
(* selects (each on the rows committed at that moment) and commits.  Every *)
(* select is an action of its own, because a run of another process may    *)
(* finish, fail or start unlocked between two of them.                     *)
(***************************************************************************)
EXTENDS Integers, Sequences, FiniteSets

CONSTANTS
  Workers,     \* the worker processes
  Trigger,     \* "cron" | "interval": the APScheduler trigger of the job
  Interval,    \* time between two ticks of the job
  Grace,       \* misfire_grace_time: a firing later than this is dropped
  Window,      \* DEFAULT_DEDUPE_WINDOW
  Stale,       \* STALE_RUNNING_AFTER
  MaxRun,      \* longest time from a firing to the end of its run
  MaxLate,     \* longest time a due firing of an idle worker is left pending
  MaxClock,    \* bound: length of a behaviour
  MaxFaults    \* bound: crashes and database errors in a behaviour

ASSUME WorkersAssumption == Workers # {}
ASSUME TriggerAssumption == Trigger \in {"cron", "interval"}
ASSUME TimeAssumption ==
  /\ Interval \in Nat \ {0} /\ Grace \in Nat /\ Window \in Nat /\ Stale \in Nat
  /\ MaxRun \in Nat /\ MaxLate \in Nat /\ MaxClock \in Nat /\ MaxFaults \in Nat
(* scheduler_lock.py: the window stays below the shortest interval; the    *)
(* misfire grace time (one second) is well below the window (60 s).        *)
ASSUME WindowAssumption == Grace < Window /\ Window < Interval

VARIABLES
  clock,    \* wall clock shared by the processes of the host
  rows,     \* scheduler_run_logs of the job, in commit order
  due,      \* due[w]: next_run_time of the job in w's scheduler
  pc,       \* pc[w]: where w's run_logged call is
  tick,     \* tick[w]: the run time w's current firing is for
  snap,     \* snap[w]: `now` of w's claim
  seen,     \* seen[w]: the rows w selected as abandoned
  mine,     \* mine[w]: the row w holds as `log`, 0 if none
  holder,   \* the workers that hold the advisory lock
  faults    \* crashes and errors so far

vars == <<clock, rows, due, pc, tick, snap, seen, mine, holder, faults>>

(* A row keeps, beside its columns, the tick it is for, whether it went    *)
(* through the claim ("admitted"), what became of the run behind it, and   *)
(* whether that run had lasted STALE_RUNNING_AFTER when it ended.          *)
Row == [started : Nat, status : {"running", "completed", "failed"},
        abandoned : BOOLEAN, tick : Nat, admitted : BOOLEAN,
        run : {"live", "ok", "error", "lost"}, overran : BOOLEAN]

Ids == 1..Len(rows)

InClaim == {"lock", "recent", "inflight", "reclaim", "commit"}
PC == InClaim \cup {"idle", "failopen", "running"}

TypeOK ==
  /\ clock \in Nat
  /\ rows \in Seq(Row)
  /\ due \in [Workers -> Nat]
  /\ pc \in [Workers -> PC]
  /\ tick \in [Workers -> Nat]
  /\ snap \in [Workers -> Nat]
  /\ seen \in [Workers -> SUBSET Ids]
  /\ mine \in [Workers -> Nat]
  /\ holder \in SUBSET Workers
  /\ faults \in Nat

Init ==
  /\ clock = 0
  /\ rows = << >>
  /\ due = [w \in Workers |-> Interval]
  /\ pc = [w \in Workers |-> "idle"]
  /\ tick = [w \in Workers |-> 0]
  /\ snap = [w \in Workers |-> 0]
  /\ seen = [w \in Workers |-> {}]
  /\ mine = [w \in Workers |-> 0]
  /\ holder = {}
  /\ faults = 0

-----------------------------------------------------------------------------
(* The scheduler of a worker (APScheduler: coalesce, max_instances = 1).   *)

(* First run time after t of a schedule that includes d. *)
NextRun(d, t) == IF t < d THEN d ELSE d + Interval * (((t - d) \div Interval) + 1)

(* A restarted process: a cron trigger keeps the calendar's ticks, an      *)
(* interval trigger counts from the start of the process.                  *)
RestartDue == IF Trigger = "cron" THEN NextRun(0, clock) ELSE clock + Interval

(* A due firing enters run_logged; claim_job_tick first reads the clock. *)
Fire(w) ==
  /\ pc[w] = "idle"
  /\ due[w] <= clock /\ clock <= due[w] + Grace
  /\ pc' = [pc EXCEPT ![w] = "lock"]
  /\ tick' = [tick EXCEPT ![w] = due[w]]
  /\ snap' = [snap EXCEPT ![w] = clock]
  /\ due' = [due EXCEPT ![w] = NextRun(@, clock)]
  /\ UNCHANGED <<clock, rows, seen, mine, holder, faults>>

(* The firing is dropped: too late, or the previous one is still running. *)
Misfire(w) ==
  /\ due[w] <= clock
  /\ pc[w] # "idle" \/ clock > due[w] + Grace
  /\ due' = [due EXCEPT ![w] = NextRun(@, clock)]
  /\ UNCHANGED <<clock, rows, pc, tick, snap, seen, mine, holder, faults>>

-----------------------------------------------------------------------------
(* claim_job_tick. *)

(* run_logged returns: its locals are gone and its session is closed, which *)
(* ends the transaction and with it the advisory lock.                      *)
Return(w) ==
  /\ pc' = [pc EXCEPT ![w] = "idle"]
  /\ tick' = [tick EXCEPT ![w] = 0]
  /\ snap' = [snap EXCEPT ![w] = 0]
  /\ seen' = [seen EXCEPT ![w] = {}]
  /\ mine' = [mine EXCEPT ![w] = 0]
  /\ holder' = holder \ {w}

(* Mutant: no advisory lock, as before claim_job_tick (any number enter). *)
AcquireNothing(w) ==
  /\ pc[w] = "lock"
  /\ holder' = holder \cup {w}
  /\ pc' = [pc EXCEPT ![w] = "recent"]
  /\ UNCHANGED <<clock, rows, due, tick, snap, seen, mine, faults>>

AcquireLock(w) ==
  /\ pc[w] = "lock"
  /\ holder = {}
  /\ holder' = {w}
  /\ pc' = [pc EXCEPT ![w] = "recent"]
  /\ UNCHANGED <<clock, rows, due, tick, snap, seen, mine, faults>>

(* Rows that make the tick "already claimed by another process". *)
Recent(t) == {i \in Ids : rows[i].started > t - Window}

(* Mutants: any running row blocks, whatever its age; only rows of the     *)
(* window block; any running row counts as abandoned.                      *)
InFlightAnyAge(t) == {i \in Ids : rows[i].status = "running"}
InFlightInWindow(t) == {i \in Ids : rows[i].status = "running" /\ rows[i].started > t - Window}
AbandonedAnyAge(t) == {i \in Ids : rows[i].status = "running"}

(* Rows of a run "still running elsewhere", and those too old for that. *)
InFlight(t) == {i \in Ids : rows[i].status = "running" /\ rows[i].started > t - Stale}
Abandoned(t) == {i \in Ids : rows[i].status = "running" /\ rows[i].started <= t - Stale}

(* Rollback and return None, or go on to the next statement. *)
Check(w, blocking, next) ==
  /\ \/ blocking # {} /\ Return(w)
     \/ /\ blocking = {}
        /\ pc' = [pc EXCEPT ![w] = next]
        /\ UNCHANGED <<tick, snap, seen, mine, holder>>
  /\ UNCHANGED <<clock, rows, due, faults>>

CheckRecent(w) == pc[w] = "recent" /\ Check(w, Recent(snap[w]), "inflight")

CheckInFlight(w) == pc[w] = "inflight" /\ Check(w, InFlight(snap[w]), "reclaim")

SelectAbandoned(w) ==
  /\ pc[w] = "reclaim"
  /\ seen' = [seen EXCEPT ![w] = Abandoned(snap[w])]
  /\ pc' = [pc EXCEPT ![w] = "commit"]
  /\ UNCHANGED <<clock, rows, due, tick, snap, mine, holder, faults>>

NewRow(w, admitted) ==
  [started |-> snap[w], status |-> "running", abandoned |-> FALSE,
   tick |-> tick[w], admitted |-> admitted, run |-> "live", overran |-> FALSE]

(* The flush writes the rows selected above, whatever they hold by now. *)
Reclaimed(ids) ==
  [i \in Ids |-> IF i \in ids THEN [rows[i] EXCEPT !.status = "failed", !.abandoned = TRUE]
                              ELSE rows[i]]

CommitClaim(w) ==
  /\ pc[w] = "commit"
  /\ rows' = Append(Reclaimed(seen[w]), NewRow(w, TRUE))
  /\ mine' = [mine EXCEPT ![w] = Len(rows) + 1]
  /\ seen' = [seen EXCEPT ![w] = {}]
  /\ pc' = [pc EXCEPT ![w] = "running"]
  /\ holder' = holder \ {w}
  /\ UNCHANGED <<clock, due, tick, snap, faults>>

(* Any statement of the claim errors: rollback, then the unlocked insert. *)
ClaimError(w) ==
  /\ pc[w] \in InClaim
  /\ faults < MaxFaults
  /\ faults' = faults + 1
  /\ pc' = [pc EXCEPT ![w] = "failopen"]
  /\ seen' = [seen EXCEPT ![w] = {}]
  /\ holder' = holder \ {w}
  /\ UNCHANGED <<clock, rows, due, tick, snap, mine>>

FailOpen(w) ==
  /\ pc[w] = "failopen"
  /\ rows' = Append(rows, NewRow(w, FALSE))
  /\ mine' = [mine EXCEPT ![w] = Len(rows) + 1]
  /\ pc' = [pc EXCEPT ![w] = "running"]
  /\ UNCHANGED <<clock, due, tick, snap, seen, holder, faults>>

-----------------------------------------------------------------------------
(* run_logged after the claim: the job function, then the row's end.  The  *)
(* UPDATE is by primary key and does not look at the row's status; only a  *)
(* failure overwrites the error message a reclaimer may have left.         *)

Outlasts(row) == clock >= row.started + Stale

Finish(w, status, run) ==
  /\ pc[w] = "running"
  /\ rows' = [rows EXCEPT ![mine[w]].status = status, ![mine[w]].run = run,
                          ![mine[w]].overran = Outlasts(rows[mine[w]]),
                          ![mine[w]].abandoned = (@ /\ status = "completed")]
  /\ Return(w)
  /\ UNCHANGED <<clock, due, faults>>

RunOk(w) == Finish(w, "completed", "ok")

RunFail(w) == Finish(w, "failed", "error")

(* The rows after w's run, if it has one, stops without a terminal write. *)
RunLost(w) ==
  IF pc[w] = "running" THEN [rows EXCEPT ![mine[w]].run = "lost"] ELSE rows

(* The write of the terminal status, or the unlocked insert, errors: the   *)
(* exception leaves run_logged and the process goes on.                    *)
LogError(w) ==
  /\ pc[w] \in {"failopen", "running"}
  /\ faults < MaxFaults
  /\ faults' = faults + 1
  /\ rows' = RunLost(w)
  /\ Return(w)
  /\ UNCHANGED <<clock, due>>

(* The process is killed and restarted: Postgres rolls its transaction     *)
(* back, which releases the advisory lock.                                 *)
Crash(w) ==
  /\ faults < MaxFaults
  /\ faults' = faults + 1
  /\ rows' = RunLost(w)
  /\ due' = [due EXCEPT ![w] = RestartDue]
  /\ Return(w)
  /\ UNCHANGED clock

-----------------------------------------------------------------------------
(* Time.  A due firing of an idle worker waits at most MaxLate; a firing   *)
(* and its run last at most MaxRun.                                        *)

MayWait(w) ==
  IF pc[w] = "idle" THEN clock < due[w] + MaxLate ELSE clock < snap[w] + MaxRun

ClockTick ==
  /\ clock < MaxClock
  /\ \A w \in Workers : MayWait(w)
  /\ clock' = clock + 1
  /\ UNCHANGED <<rows, due, pc, tick, snap, seen, mine, holder, faults>>

(* Bound: the behaviour ends here. *)
Horizon == clock = MaxClock /\ UNCHANGED vars

Step(w) ==
  \/ Fire(w) \/ Misfire(w)
  \/ AcquireLock(w) \/ CheckRecent(w) \/ CheckInFlight(w) \/ SelectAbandoned(w)
  \/ CommitClaim(w) \/ ClaimError(w) \/ FailOpen(w)
  \/ RunOk(w) \/ RunFail(w) \/ LogError(w) \/ Crash(w)

Next == ClockTick \/ Horizon \/ \E w \in Workers : Step(w)

Spec == Init /\ [][Next]_vars

-----------------------------------------------------------------------------
(* Properties. *)

(* Two runs admitted by the claim start at least the de-duplication window *)
(* apart, in commit order, whatever crashes, errors and interleavings      *)
(* there are: the check and the insert are atomic across processes even    *)
(* though `now` is read before the advisory lock is taken.                 *)
ClaimsSpaced ==
  \A i, j \in Ids :
    (i < j /\ rows[i].admitted /\ rows[j].admitted)
      => rows[j].started >= rows[i].started + Window

(* The claim starts a run beside a live admitted one only when that one    *)
(* has been running for STALE_RUNNING_AFTER.                               *)
OverlapOnlyAfterStale ==
  \A i, j \in Ids :
    /\ i < j
    /\ rows[i].admitted /\ rows[j].admitted
    /\ rows[i].run = "live"
    => rows[j].started >= rows[i].started + Stale

(* A row is marked "Abandoned" only if its run ended without a terminal    *)
(* write, or really lasted STALE_RUNNING_AFTER; in particular the update   *)
(* made from the earlier select never overwrites the outcome of a younger  *)
(* run that started or finished in between.                                *)
NoFalseAbandonment ==
  \A i \in Ids : rows[i].abandoned =>
    \/ rows[i].run = "lost"
    \/ rows[i].run = "live" /\ Outlasts(rows[i])
    \/ rows[i].overran

(* A killed worker never disables its job.  With the calendar's ticks,     *)
(* firings handled within the grace time and runs that leave the next tick *)
(* alone, the time since the latest start of a run is bounded by the       *)
(* abandonment age, an interval per fault and the length of a claim.       *)
Punctual ==
  /\ Trigger = "cron"
  /\ MaxLate <= Grace /\ Grace + MaxRun < Interval
  /\ Grace + Window <= Interval /\ Interval <= Stale

MaxSilence == Stale + Interval * MaxFaults + MaxLate + MaxRun

JobNotDisabled ==
  Punctual => \/ clock <= MaxSilence
              \/ \E i \in Ids : clock <= rows[i].started + MaxSilence

(* Every scheduled tick is served by at most one admitted run. *)
Serves == [i \in Ids |-> [tick |-> rows[i].tick, admitted |-> rows[i].admitted]]

Ledger == INSTANCE TickLedger WITH ledger <- Serves

ServesEachTickOnce == Ledger!Spec
=============================================================================
