---------------------------- MODULE MCMlTraining ----------------------------
(* Instances of MlTraining for TLC.                                         *)
EXTENDS MlTraining, TLC

CONSTANTS r1, r2, a1

TwoRuns == {r1, r2}
OneAgent == {a1}
MCOwner == [r \in Runs |-> a1]

Symmetric == Permutations(Runs)

============================================================================
