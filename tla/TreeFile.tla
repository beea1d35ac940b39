------------------------------- MODULE TreeFile -------------------------------
(***************************************************************************)
(* What the file written by wspy --tree promises to whoever reads it       *)
(* (proctree.c, the integrity check of run_tests.sh): which line may come  *)
(* next.  It says nothing of how the tracer finds out (PtraceLoop).        *)
(*                                                                         *)
(* A process is a pid together with how many processes had that pid before *)
(* it, since the kernel may hand a pid out again after its exit.           *)
(***************************************************************************)
EXTENDS Naturals, Sequences

CONSTANTS Pids, Root

VARIABLES
  file,    \* the lines written so far
  closed   \* has the tracer stopped waiting for tracees?

treeVars == <<file, closed>>

Process(l) == <<l.pid, l.inc>>
Parent(l)  == <<l.by, l.byInc>>

Lines(kinds) == {i \in DOMAIN file : file[i].kind \in kinds}
Named    == {Process(file[i]) : i \in Lines({"root", "fork"})}
Finished == {Process(file[i]) : i \in Lines({"exit"})}

\* The processes of a pid count from 1, and the next one is named after the exit
\* block of the previous one.
Fresh(x) ==
  /\ x \notin Named \cup Finished
  /\ x[2] = 1 \/ (x[2] > 1 /\ <<x[1], x[2] - 1>> \in Finished)

Init ==
  /\ closed = FALSE
  /\ Len(file) = 1 /\ file[1].kind = "root" /\ Process(file[1]) = <<Root, 1>>

(* A process that has not exited, named itself or not, names a new child; the *)
(* exit block of the child may follow at once, if it was waiting for this line. *)
Name(l) ==
  /\ ~closed
  /\ l.kind = "fork" /\ l.pid # l.by
  /\ Fresh(Process(l)) /\ (Fresh(Parent(l)) \/ Parent(l) \in Named \ Finished)
  /\ UNCHANGED closed

NameOnly(l) == Name(l) /\ file' = Append(file, l)
NameAndFinish(l, b) ==
  /\ Name(l) /\ b.kind = "exit" /\ Process(b) = Process(l)
  /\ file' = Append(Append(file, l), b)

(* The exit block of a process that has been named and has none yet. *)
Finish(b) ==
  /\ ~closed
  /\ b.kind = "exit" /\ Process(b) \in Named \ Finished
  /\ file' = Append(file, b)
  /\ UNCHANGED closed

(* Any other line; an exec comes before the exit block of its process. *)
Other(l) ==
  /\ ~closed
  /\ l.kind \notin {"root", "fork", "exit"}
  /\ l.kind = "exec" => Process(l) \notin Finished
  /\ \A x \in Named : x[1] = l.pid => x[2] <= l.inc
  /\ file' = Append(file, l)
  /\ UNCHANGED closed

Close == ~closed /\ closed' = TRUE /\ UNCHANGED file

(* At the very end: the block of a process whose fork line never came. *)
Orphan(b) ==
  /\ closed
  /\ b.kind = "exit" /\ Process(b) \notin Named \cup Finished
  /\ file' = Append(file, b)
  /\ UNCHANGED closed

\* Every line a step appends is one of the given set.
Write(lines) ==
  \/ \E l \in lines : NameOnly(l) \/ Finish(l) \/ Other(l) \/ Orphan(l)
  \/ \E l, b \in lines : NameAndFinish(l, b)
  \/ Close

\* A step may append whatever lines the file has next.
Spec == Init /\ [][Write({file'[i] : i \in DOMAIN file'})]_treeVars
=============================================================================
