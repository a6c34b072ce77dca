\* Two workers, one fault.  The constants are those of the cron job: ticks
\* every 4, window 2, grace 1; Long gives the interval job its own.
CONSTANTS
  w1 = w1
  w2 = w2
  Workers <- MCWorkers
  Trigger = "cron"
  Interval = 4
  Grace = 1
  Window = 2
  Stale = 4
  MaxRun = 2
  MaxLate = 1
  MaxClock = 16
  MaxFaults = 1
SPECIFICATION MCSpec
SYMMETRY Symmetry
INVARIANTS
  NoFalseAbandonment
  
  ClaimsSpaced
  OverlapOnlyAfterStale
PROPERTY ServesEachTickOnce
