------------------------- MODULE MCGovernanceOverride -------------------------
(* Instances of GovernanceOverride. *)
EXTENDS GovernanceOverride, TLC

CONSTANTS u1, u2, u3, o1, h1, h2

MCUsers == {u1, u2, u3}
OneOverride == {o1}
TwoHandlers == {h1, h2}
AllExportOps == {"hold", "release", "archive", "retain"}
Symmetry == Permutations(Users) \cup Permutations(Overrides) \cup Permutations(Handlers)
=============================================================================
