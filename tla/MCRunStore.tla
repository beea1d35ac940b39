------------------------------ MODULE MCRunStore ------------------------------
(* Instances of RunStore for TLC: two runs with the same output paths, and a   *)
(* third that may share the natural key of the first.                          *)
EXTENDS RunStore, TLC

CONSTANTS o1, o2, k1, k2

\* The wspy-stores are interchangeable.
Symmetry == Permutations(Stores)

SharedOutputs == [r \in Runs |-> o1]
SharedKeys == [r \in Runs |-> k1]
OwnKeys == CHOOSE f \in [Runs -> Keys] : \A r, s \in Runs : f[r] = f[s] => r = s
OwnOrShared == {OwnKeys, SharedKeys}

ThisBuild == {AllOptions}
=============================================================================
