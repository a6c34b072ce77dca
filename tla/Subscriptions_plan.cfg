\* Two sessions and the sweep; two codes, two subscriptions, events in any order.
CONSTANTS
  c1 = c1
  c2 = c2
  q1 = q1
  q2 = q2
  Codes <- TwoCodes
  Requests <- TwoRequests
  Sweep = sweep
  Types <- Halted
  MaxSubs = 2
  MaxEvents = 2
  MaxAsks = 3
  MaxLosses = 1
SPECIFICATION FairSpec
CHECK_DEADLOCK FALSE

  
  
PROPERTIES
  NoEarlyDowngrade
  PaidKept
  TrialEnds
  EventsAnswered
