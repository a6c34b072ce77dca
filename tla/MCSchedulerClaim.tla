--------------------------- MODULE MCSchedulerClaim ---------------------------
(* Two worker processes of one host and one of two jobs: a cron job with     *)
(* short runs (the constants of the configuration), or an interval job that  *)
(* may run longer than STALE_RUNNING_AFTER and be started late.  The jobs    *)
(* share nothing, so a behaviour belongs to one of them, chosen at the       *)
(* start.  JobNotDisabled, which speaks of the cron job's constants, is true *)
(* of the other job because its clock ends before MaxSilence.  The workers   *)
(* are interchangeable and no liveness property is checked, so symmetry is   *)
(* sound.                                                                    *)
EXTENDS SchedulerClaim, TLC

CONSTANTS w1, w2

VARIABLE job

MCWorkers == {w1, w2}
Symmetry == Permutations(MCWorkers)

Long == INSTANCE SchedulerClaim WITH
  Trigger <- "interval", Interval <- 3, MaxRun <- 6, MaxLate <- 2, MaxClock <- 11

MCInit == \/ job = "cron" /\ Init
          \/ job = "long" /\ Long!Init

MCNext == /\ \/ job = "cron" /\ Next
             \/ job = "long" /\ Long!Next
          /\ UNCHANGED job

MCSpec == MCInit /\ [][MCNext]_<<vars, job>>
=============================================================================
