------------------------ MODULE MCContainerRegistry ------------------------
(* An instance of ContainerRegistry for TLC.  Two runtimes are as many as a  *)
(* session has at once if wakes were not deduplicated.                       *)
EXTENDS ContainerRegistry, TLC

CONSTANTS r1, r2
OneRuntime  == {r1}
TwoRuntimes == {r1, r2}
Twins       == Permutations(TwoRuntimes)
=============================================================================
