------------------------- MODULE MCDeploymentLease -------------------------
(* Processes are alike and so are run ids: every one of them starts alike, takes
   the same steps and appears in the properties under a quantifier.            *)
EXTENDS DeploymentLease, TLC

Symmetry == Permutations(Processes) \cup Permutations(RunIds)
=============================================================================
