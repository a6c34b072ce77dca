\* A user, a tracker's webhook and two breach checks; both deadlines pass.
CONSTANTS
  u1 = u1
  u2 = u2
  d1 = d1
  d2 = d2
  hourly = hourly
  manual = manual
  Users <- OneUser
  Deliveries <- OneDelivery
  Events <- TrackerEvents
  Checkers <- TwoCheckers
  ResponseDue = 0
  ResolutionDue = 1
  RequireRca = TRUE
  MaxClock = 2
  MaxFaults = 1
SPECIFICATION FairSpec
INVARIANTS
  SerialWithoutStale
  
  NotifiedPerChecker
PROPERTIES
  BreachReported
  ImplementsView
