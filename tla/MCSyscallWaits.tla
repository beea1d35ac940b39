---------------------------- MODULE MCSyscallWaits ----------------------------
(* Instances of SyscallWaits for TLC: a root process, the pid of its children,  *)
(* and calls that wait, do not wait, fork, execute a program, or do not return. *)
EXTENDS SyscallWaits

CONSTANTS p1, p2
=============================================================================
