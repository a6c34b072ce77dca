\* Two patterns that change three times; a drain and a sweep; one fault.
CONSTANTS
  k1 = k1
  k2 = k2
  Patterns <- TwoPatterns
  Batch = 2
  MaxChanges = 3
  MaxFaults = 1
SPECIFICATION FairSpec
INVARIANTS
  ReactiveComplete
  
PROPERTIES
  EventuallyAgrees
  CandidatesDrain
