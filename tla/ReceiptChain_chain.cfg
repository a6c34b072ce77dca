\* Three signed checks and one unsigned, in any order.
CONSTANTS
  k1 = k1
  k2 = k2
  k3 = k3
  k4 = k4
  Checks <- FourChecks
  Signed <- ThreeSigned
  None = None
SPECIFICATION FairSpec
CHECK_DEADLOCK FALSE
INVARIANTS
  ChainVerifies
PROPERTIES
  AppendsOnly
  ChecksAnswered
