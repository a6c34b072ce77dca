\* Two policies, evaluated by the daily job and by hand.
CONSTANTS
  daily = daily
  manual = manual
  FirstDue = 0
  LastHour = 3
  Policies <- TwoPolicies
  Evaluators <- TwoEvaluators
  Window = 1
  StateHours = 1
SPECIFICATION FairPolicySpec
INVARIANTS
  SpacedEscalations
  NoDeadlock
PROPERTIES
  OnlyActiveFires
  
CHECK_DEADLOCK FALSE
