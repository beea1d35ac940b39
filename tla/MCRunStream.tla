------------------------------ MODULE MCRunStream ------------------------------
(* Instances of RunStream for TLC: a request for a run, and one for a second   *)
(* run or for an analysis, of the same name.                                   *)
EXTENDS RunStream

CONSTANTS k1, r1, r2, s1

StreamInit == Init /\ kind[r1] = "run"

StreamSpec == StreamInit /\ [][Next]_everyVars /\ Fairness
=============================================================================
