--------------------------- MODULE MCTestSession ---------------------------
(* Instances of TestSession for TLC. *)
EXTENDS TestSession

\* Three teams, one of them again after another, and a test without a team.
MixedTeams == <<"integration", "network", "storage", "network", "virt">>
WithFixture == {"network", "storage", "virt"}

\* What a resource looks like is only compared.
Symmetry == Permutations(Values)
=============================================================================
