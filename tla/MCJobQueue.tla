------------------------------ MODULE MCJobQueue ------------------------------
(* Instances of JobQueue for TLC: job ids are 1, 2, ...; runners and          *)
(* requeuers are interchangeable.                                            *)
EXTENDS JobQueue, TLC

CONSTANTS x

Symmetry == Permutations(Runners) \cup Permutations(Requeuers)

\* The first two jobs ask for the run_id x, or none does.
SameRunId == [j \in Jobs |-> IF j <= 2 THEN x ELSE NoId]
NoRunId == [j \in Jobs |-> NoId]
=============================================================================
