----------------------------- MODULE MCPtraceLoop -----------------------------
(* Instances of PtraceLoop for TLC: a root process and the pids it may fork. *)
EXTENDS PtraceLoop

CONSTANTS p1, p2
=============================================================================
