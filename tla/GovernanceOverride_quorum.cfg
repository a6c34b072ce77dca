\* Two calls at once on one override and its export.
CONSTANTS
  u1 = u1
  u2 = u2
  u3 = u3
  o1 = o1
  h1 = h1
  h2 = h2
  Users <- MCUsers
  Overrides <- OneOverride
  Handlers <- TwoHandlers
  None = None
  Required = 2
  Actions <- AllActions
  ExportOps <- AllExportOps
SPECIFICATION Spec
SYMMETRY Symmetry
INVARIANTS
  ApprovalsCounted
  
PROPERTIES
  HoldRemovedByQuorum
  ImplementsVote
