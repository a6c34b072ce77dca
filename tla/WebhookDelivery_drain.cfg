\* The drain, with batches smaller than the backlog, beside an operator's call;
\* one transaction may be lost.
CONSTANTS
  e1 = e1
  d1 = d1
  c1 = c1
  Endpoints <- OneEndpoint
  Drains <- OneDrain
  Callers <- OneCaller
  MaxAttempts = 3
  InCall = 2
  Batch = 1
  Scan = 2
  MaxRows = 2
  MaxCalls = 1
  MaxRollbacks = 1
SPECIFICATION FairSpec
CHECK_DEADLOCK FALSE
INVARIANTS
  NoEarlyDeath
  AttemptsBounded

  
