\* A user and the tracker's webhook advance the same issue.
CONSTANTS
  u1 = u1
  u2 = u2
  d1 = d1
  d2 = d2
  hourly = hourly
  manual = manual
  Users <- OneUser
  Deliveries <- OneDelivery
  Events <- TrackerEvents
  Checkers = {}
  ResponseDue = 1
  ResolutionDue = 2
  RequireRca = TRUE
  MaxClock = 0
  MaxFaults = 0
SPECIFICATION Spec
INVARIANTS
  HistoryChains
CHECK_DEADLOCK FALSE
