------------------------------ MODULE PtraceLoop ------------------------------
(***************************************************************************)
(* The --tree tracer of wspy: ptrace_loop() and its per-pid table          *)
(* (topdown.c), together with the part of the kernel it depends on.        *)
(*                                                                         *)
(* Every descendant of the workload is a tracee.  A tracee that reaches a  *)
(* ptrace event, receives a signal or dies has one status waiting for      *)
(* wait4(-1); wait4 may hand the waiting statuses over in any order, so a  *)
(* child can be seen to exit before the fork stop of its parent names it.  *)
(* One iteration of the loop (wait4, the branch for that status, the final *)
(* ptrace(PTRACE_CONT)) is one action: the tracer is a single thread and   *)
(* the tracee stays stopped until the iteration resumes it.                *)
(***************************************************************************)
EXTENDS Naturals, Sequences, FiniteSets

CONSTANTS
  Pids,       \* process identifiers the kernel can hand out
  Root,       \* child_pid, the workload wspy launched
  PidReuse,   \* may the kernel hand a reaped pid out again?
  SigKill,    \* may a tracee be killed by SIGKILL, losing a waiting stop?
  Rematch,    \* may a process exec images that match --target twice?
  MaxBirths,  \* bound: processes created over the run, the root included
  MaxExecs,   \* bound: successful execve() calls over the run
  MaxNoise    \* bound: signals and unexplained SIGTRAPs over the run

ASSUME RootAssumption   == Root \in Pids
ASSUME SwitchAssumption == PidReuse \in BOOLEAN /\ SigKill \in BOOLEAN
                           /\ Rematch \in BOOLEAN
ASSUME BoundAssumption  == MaxBirths \in Nat /\ MaxExecs \in Nat /\ MaxNoise \in Nat

VARIABLES
  (* the kernel *)
  life,        \* where each pid is between creation and reaping
  stop,        \* the status of each tracee that wait4 has not returned yet
  msg,         \* what PTRACE_GETEVENTMSG returns: the child a fork stop names
  matches,     \* does the image of the last exec satisfy target_match()?
  open,        \* perf fds open on this pid
  births, execs, noise,  \* processes, execs and signals so far (bounds only)
  (* the tracer *)
  loop,        \* "wait" in while(1), "flush" after ECHILD, "done"
  known,       \* ptrace_pid_entry.known
  pending,     \* ptrace_pid_entry.pending_exit: <<>> or one block
  target,      \* length of the list ptrace_pid_entry.target_counters
  fork_events, exit_events, exec_events, unknown_traps,
  rootStatus,  \* child_exit_known / child_exited / child_signaled
  file,        \* the tree file
  (* history *)
  inc,         \* how many processes have had this pid
  parentOf     \* the pid that forked the process now using this pid

bounds      == <<births, execs, noise>>
kernelVars  == <<life, stop, msg, matches, bounds, inc, parentOf>>
events      == <<fork_events, exit_events, exec_events, unknown_traps>>
tracerVars  == <<loop, known, pending, target, events, rootStatus, file, open>>
vars        == <<kernelVars, tracerVars>>

-----------------------------------------------------------------------------
(* The tree file.  A line's pid is the process it is about: the child for a *)
(* fork line, whose first column is by (inc and byInc only tell incarnations *)
(* of a pid apart, the program writes pids alone).  The comm ... exit block of a pid is  *)
(* one "exit" entry, groups being how many counter groups it prints, and the  *)
(* comm ... signal lines of a killed pid one "killed" entry.                  *)

LineKinds == {"root", "fork", "exec", "exit", "exited", "signal", "killed", "unknown"}

\* The time a line is stamped with: how many events came before it.
elapsed == fork_events + exit_events + exec_events + unknown_traps

Line(kind, p) ==
  [kind |-> kind, pid |-> p, inc |-> inc[p], by |-> p, byInc |-> inc[p],
   at |-> elapsed, groups |-> 0]

ForkLine(p, c) == [Line("fork", c) EXCEPT !.by = p, !.byInc = inc[p]]

ExitBlock(p) == [Line("exit", p) EXCEPT !.groups = target[p]]

Lines ==
  [kind : LineKinds, pid : Pids, inc : Nat, by : Pids, byInc : Nat,
   at : Nat, groups : Nat]

Stops == {"none", "sigstop", "fork", "exec", "exit", "trap", "signal",
          "exited", "signaled"}
Lives == {"unborn", "alive", "exiting", "dead", "reaped"}

KernelTypeOK ==
  /\ life \in [Pids -> Lives]
  /\ stop \in [Pids -> Stops]
  /\ msg \in [Pids -> Pids]
  /\ matches \in [Pids -> BOOLEAN]
  /\ births \in Nat /\ execs \in Nat /\ noise \in Nat
  /\ inc \in [Pids -> Nat]
  /\ parentOf \in [Pids -> Pids]

TracerTypeOK ==
  /\ loop \in {"wait", "flush", "done"}
  /\ known \in [Pids -> BOOLEAN]
  /\ pending \in [Pids -> Seq(Lines)]
  /\ target \in [Pids -> Nat]
  /\ open \in [Pids -> Nat]
  /\ fork_events \in Nat /\ exit_events \in Nat
  /\ exec_events \in Nat /\ unknown_traps \in Nat
  /\ rootStatus \in {"unknown", "exited", "signaled"}
  /\ file \in Seq(Lines)

TypeOK == KernelTypeOK /\ TracerTypeOK

(* ptrace_loop() starts after the "root" line is written and the root runs. *)
Init ==
  /\ life = [p \in Pids |-> IF p = Root THEN "alive" ELSE "unborn"]
  /\ stop = [p \in Pids |-> "none"]
  /\ msg = [p \in Pids |-> Root]
  /\ matches = [p \in Pids |-> FALSE]
  /\ open = [p \in Pids |-> 0]
  /\ births = 1 /\ execs = 0 /\ noise = 0
  /\ loop = "wait"
  /\ known = [p \in Pids |-> p = Root]
  /\ pending = [p \in Pids |-> <<>>]
  /\ target = [p \in Pids |-> 0]
  /\ fork_events = 0 /\ exit_events = 0 /\ exec_events = 0 /\ unknown_traps = 0
  /\ rootStatus = "unknown"
  /\ inc = [p \in Pids |-> IF p = Root THEN 1 ELSE 0]
  /\ file = <<Line("root", Root)>>
  /\ parentOf = [p \in Pids |-> Root]

-----------------------------------------------------------------------------
(* The kernel and the workload. *)

Running(p) == life[p] = "alive" /\ stop[p] = "none"

(* A pid is free before its first use and, under PidReuse, once its process *)
(* is reaped by its parent too: not while that parent sits in the very fork *)
(* stop that names it.                                                      *)
Free(p) ==
  \/ life[p] = "unborn"
  \/ /\ PidReuse /\ life[p] = "reaped" /\ p # Root
     /\ \A q \in Pids : ~(stop[q] = "fork" /\ msg[q] = p)

(* fork/vfork/clone: the parent enters its event stop, the child its initial *)
(* SIGSTOP; nothing orders the two.                                          *)
Fork(p, c) ==
  /\ Running(p) /\ Free(c) /\ births < MaxBirths
  /\ life' = [life EXCEPT ![c] = "alive"]
  /\ stop' = [stop EXCEPT ![p] = "fork", ![c] = "sigstop"]
  /\ msg' = [msg EXCEPT ![p] = c]
  /\ matches' = [matches EXCEPT ![c] = FALSE]
  /\ inc' = [inc EXCEPT ![c] = @ + 1]
  /\ parentOf' = [parentOf EXCEPT ![c] = p]
  /\ births' = births + 1 /\ UNCHANGED <<execs, noise>>
  /\ UNCHANGED tracerVars

Exec(p) ==
  /\ Running(p) /\ execs < MaxExecs
  /\ \E m \in BOOLEAN :
       /\ m => Rematch \/ target[p] = 0
       /\ matches' = [matches EXCEPT ![p] = m]
  /\ stop' = [stop EXCEPT ![p] = "exec"]
  /\ execs' = execs + 1 /\ UNCHANGED <<births, noise>>
  /\ UNCHANGED <<life, msg, inc, parentOf, tracerVars>>

(* A signal-delivery stop, or a SIGTRAP no ptrace event explains. *)
Noise(p) ==
  /\ Running(p) /\ noise < MaxNoise
  /\ \E s \in {"signal", "trap"} : stop' = [stop EXCEPT ![p] = s]
  /\ noise' = noise + 1 /\ UNCHANGED <<births, execs>>
  /\ UNCHANGED <<life, msg, matches, inc, parentOf, tracerVars>>

Exit(p) ==
  /\ Running(p)
  /\ life' = [life EXCEPT ![p] = "exiting"]
  /\ stop' = [stop EXCEPT ![p] = "exit"]
  /\ UNCHANGED <<msg, matches, bounds, inc, parentOf, tracerVars>>

Die(p) ==
  /\ life[p] = "exiting" /\ stop[p] = "none"
  /\ life' = [life EXCEPT ![p] = "dead"]
  /\ \E s \in {"exited", "signaled"} : stop' = [stop EXCEPT ![p] = s]
  /\ UNCHANGED <<msg, matches, bounds, inc, parentOf, tracerVars>>

(* SIGKILL wakes a tracee out of any stop; the status it was waiting with is *)
(* lost.  It may or may not go through PTRACE_EVENT_EXIT on its way out.     *)
Kill(p) ==
  /\ SigKill
  /\ \/ /\ life[p] \in {"alive", "exiting"}
        /\ life' = [life EXCEPT ![p] = "dead"]
        /\ stop' = [stop EXCEPT ![p] = "signaled"]
     \/ /\ life[p] = "alive"
        /\ life' = [life EXCEPT ![p] = "exiting"]
        /\ stop' = [stop EXCEPT ![p] = "exit"]
  /\ UNCHANGED <<msg, matches, bounds, inc, parentOf, tracerVars>>

-----------------------------------------------------------------------------
(* The tracer: one action per status wait4 can return. *)

Waited(p, status) == loop = "wait" /\ stop[p] = status

(* Every branch that does not reap the tracee ends in ptrace(PTRACE_CONT). *)
Resume(p) ==
  /\ stop' = [stop EXCEPT ![p] = "none"]
  /\ UNCHANGED <<life, msg, matches, bounds, inc, parentOf>>

Reap(p) ==
  /\ stop' = [stop EXCEPT ![p] = "none"]
  /\ life' = [life EXCEPT ![p] = "reaped"]
  /\ UNCHANGED <<msg, matches, bounds, inc, parentOf>>

(* ptrace_pid_is_known(): the root or fork line of p is in the file. *)
AlwaysKnown(p) == TRUE \* slip: the exit block is never deferred
IsKnown(p) == known[p]

(* ptrace_pid_mark_known(), right after line names pid c: its deferred block, *)
(* if any, goes in the file next and leaves the table.                        *)
MarkKnown(c, line) ==
  /\ file' = Append(file, line) \o pending[c]
  /\ known' = [known EXCEPT ![c] = TRUE]
  /\ pending' = [pending EXCEPT ![c] = <<>>]

(* ptrace_pid_defer_exit(): the block replaces any the entry already holds. *)
DeferExit(p, block) == pending' = [pending EXCEPT ![p] = <<block>>]

(* read_counters(), print, close_counters(), target_counters = NULL. *)
KeepTargetOpen(p) == UNCHANGED <<open, target>> \* slip: no close at exit
CloseTarget(p) ==
  /\ open' = [open EXCEPT ![p] = @ - target[p]]
  /\ target' = [target EXCEPT ![p] = 0]

(* One more group is pushed on the pid's list, and setup_counters() opens    *)
(* every group of that list, the ones an earlier exec pushed included.       *)
AttachTarget(p) ==
  /\ target' = [target EXCEPT ![p] = @ + 1]
  /\ open' = [open EXCEPT ![p] = @ + target[p] + 1]

HandleFork(p) ==
  /\ Waited(p, "fork")
  /\ MarkKnown(msg[p], ForkLine(p, msg[p]))
  /\ fork_events' = fork_events + 1 /\ UNCHANGED <<exit_events, exec_events, unknown_traps>>
  /\ Resume(p)
  /\ UNCHANGED <<loop, target, rootStatus, open>>

(* The exit block is built from /proc and from the pid's target counters, and *)
(* goes in the file now if the pid is known, in its table entry otherwise.    *)
HandleExit(p) ==
  /\ Waited(p, "exit")
  /\ IF IsKnown(p)
       THEN file' = Append(file, ExitBlock(p)) /\ UNCHANGED pending
       ELSE DeferExit(p, ExitBlock(p)) /\ UNCHANGED file
  /\ exit_events' = exit_events + 1 /\ UNCHANGED <<fork_events, exec_events, unknown_traps>>
  /\ CloseTarget(p)
  /\ Resume(p)
  /\ UNCHANGED <<loop, known, rootStatus>>

HandleExec(p) ==
  /\ Waited(p, "exec")
  /\ file' = Append(file, Line("exec", p))
  /\ exec_events' = exec_events + 1 /\ UNCHANGED <<fork_events, exit_events, unknown_traps>>
  /\ IF matches[p] THEN AttachTarget(p) ELSE UNCHANGED <<target, open>>
  /\ Resume(p)
  /\ UNCHANGED <<loop, known, pending, rootStatus>>

HandleUnknown(p) ==
  /\ Waited(p, "trap")
  /\ file' = Append(file, Line("unknown", p))
  /\ unknown_traps' = unknown_traps + 1 /\ UNCHANGED <<fork_events, exit_events, exec_events>>
  /\ Resume(p)
  /\ UNCHANGED <<loop, known, pending, target, rootStatus, open>>

NewPidNotResumed(p) == \* slip: the initial SIGSTOP is not continued
  /\ Waited(p, "sigstop")
  /\ UNCHANGED vars
HandleNewPid(p) ==
  /\ Waited(p, "sigstop")
  /\ Resume(p)
  /\ UNCHANGED tracerVars

HandleSignal(p) ==
  /\ Waited(p, "signal")
  /\ file' = Append(file, Line("signal", p))
  /\ Resume(p)
  /\ UNCHANGED <<loop, known, pending, target, events, rootStatus, open>>

(* child_exit_known and its companions, when the reaped pid is child_pid. *)
NoteRootStatus(p, how) ==
  rootStatus' = IF p = Root THEN how ELSE rootStatus

HandleExited(p) ==
  /\ Waited(p, "exited")
  /\ file' = Append(file, Line("exited", p))
  /\ NoteRootStatus(p, "exited")
  /\ Reap(p)
  /\ UNCHANGED <<loop, known, pending, target, events, open>>

HandleSignaled(p) ==
  /\ Waited(p, "signaled")
  /\ file' = Append(file, Line("killed", p))
  /\ NoteRootStatus(p, "signaled")
  /\ Reap(p)
  /\ UNCHANGED <<loop, known, pending, target, events, open>>

(* wait4 fails with ECHILD once no tracee is left. *)
NoMoreChildren ==
  /\ loop = "wait"
  /\ \A p \in Pids : life[p] \in {"unborn", "reaped"}
  /\ loop' = "flush"
  /\ UNCHANGED <<kernelVars, known, pending, target, events, rootStatus, file, open>>

(* ptrace_pid_table_flush_and_free(), one table entry at a time. *)
FlushPending(p) ==
  /\ loop = "flush" /\ pending[p] # <<>>
  /\ file' = file \o pending[p]
  /\ pending' = [pending EXCEPT ![p] = <<>>]
  /\ UNCHANGED <<kernelVars, loop, known, target, events, rootStatus, open>>

(* The "# ptrace-summary" footer. *)
WriteSummary ==
  /\ loop = "flush" /\ \A p \in Pids : pending[p] = <<>>
  /\ loop' = "done"
  /\ UNCHANGED <<kernelVars, known, pending, target, events, rootStatus, file, open>>

Tracer(p) ==
  \/ HandleFork(p) \/ HandleExit(p) \/ HandleExec(p) \/ HandleUnknown(p)
  \/ HandleNewPid(p) \/ HandleSignal(p) \/ HandleExited(p) \/ HandleSignaled(p)
  \/ FlushPending(p)

Workload(p) ==
  \/ \E c \in Pids : Fork(p, c)
  \/ Exec(p) \/ Noise(p) \/ Exit(p) \/ Die(p) \/ Kill(p)

Finished == loop = "done" /\ UNCHANGED vars

Next ==
  \/ \E p \in Pids : Tracer(p) \/ Workload(p)
  \/ NoMoreChildren \/ WriteSummary
  \/ Finished

Spec == Init /\ [][Next]_vars

(* The loop never stops calling wait4, and the kernel completes an exit; that *)
(* every tracee exits in the end is the workload's part.                      *)
Fairness ==
  /\ \A p \in Pids : WF_vars(Tracer(p)) /\ WF_vars(Exit(p)) /\ WF_vars(Die(p))
  /\ WF_vars(NoMoreChildren) /\ WF_vars(WriteSummary)

FairSpec == Spec /\ Fairness

-----------------------------------------------------------------------------
(* Properties. *)

LinesIn(f, kind) == {i \in DOMAIN f : f[i].kind = kind}
LinesOf(kind) == LinesIn(file, kind)

(* A process is named by its fork line before its exit block appears, whatever *)
(* order wait4 delivered the two stops in.                                     *)
ForkBeforeExit ==
  \A i \in LinesOf("exit"), j \in LinesOf("fork") :
    file[i].pid = file[j].pid /\ file[i].inc = file[j].inc => j < i

(* No exit block is written twice: a deferred block leaves the table when it  *)
(* is written, and the final flush finds only the ones never written.         *)
OneExitBlock ==
  \A i, j \in LinesOf("exit") :
    file[i].pid = file[j].pid /\ file[i].inc = file[j].inc => i = j

(* The footer agrees with the lines above it, so no deferred exit block was   *)
(* dropped and none written twice (the tree-stress check of run_tests.sh).    *)
FooterMatchesFile ==
  loop = "done" =>
    /\ fork_events = Cardinality(LinesOf("fork"))
    /\ exit_events = Cardinality(LinesOf("exit"))
    /\ exec_events = Cardinality(LinesOf("exec"))
    /\ unknown_traps = Cardinality(LinesOf("unknown"))

(* A process whose exit stop has been handled holds no PMU counter any more.  *)
(* (One that SIGKILL takes before that stop is never read: its counters stay   *)
(* open until wspy ends.)  Its exit block printed each group once, and no      *)
(* group of an image that did not match.                                       *)
CountersClosedAtExit ==
  /\ \A p \in Pids : life[p] = "exiting" /\ stop[p] # "exit" => open[p] = 0
  /\ \A i \in LinesOf("exit") : file[i].groups <= 1

(* The loop ends and writes its footer: no tracee is left stopped, and how the *)
(* workload itself ended is known by then.                                     *)
Terminates == <>(loop = "done" /\ rootStatus # "unknown")

(* Every group on a pid's list has its fd open. *)
HeldCounters == \A p \in Pids : target[p] <= open[p]

(* Why ForkBeforeExit and OneExitBlock hold when no pid is reused: the named  *)
(* parts below are inductive together.                                        *)

\* A waiting fork stop names a child that is born, not yet known, and no other
\* parent's.
ForkStops ==
  \A p \in Pids : stop[p] = "fork" =>
    /\ life[msg[p]] # "unborn" /\ ~known[msg[p]]
    /\ \A q \in Pids : stop[q] = "fork" /\ msg[q] = msg[p] => q = p

\* Only born pids are known, a pid outside the trace has no status waiting, and
\* an exit stop is that of an exiting process.
Births ==
  \A p \in Pids :
    /\ life[p] = "unborn" => ~known[p]
    /\ life[p] \in {"unborn", "reaped"} => stop[p] = "none"
    /\ stop[p] = "exit" => life[p] = "exiting"

\* After ECHILD every tracee is gone.
AllGone == loop # "wait" => \A p \in Pids : life[p] \in {"unborn", "reaped"}

\* A table entry defers at most its own exit block, and only while unknown.
Deferred ==
  \A p \in Pids :
    /\ Len(pending[p]) <= 1
    /\ pending[p] # <<>> => ~known[p] /\ pending[p][1].kind = "exit"
                                      /\ pending[p][1].pid = p

\* While the loop waits, an exit block is in the file for known pids only.
WrittenIfKnown ==
  loop = "wait" => \A i \in LinesOf("exit") : known[file[i].pid]

\* A pid yet to reach its exit stop has no exit block anywhere, and a deferred
\* block is not in the file as well.
ExitPlace ==
  \A p \in Pids :
    \/ life[p] \in {"unborn", "alive"}
    \/ stop[p] = "exit"
    \/ pending[p] # <<>>
    => \A i \in LinesOf("exit") : file[i].pid # p

\* A pid yet to reach its exit stop has nothing deferred.
NothingDeferred ==
  \A p \in Pids :
    life[p] \in {"unborn", "alive"} \/ stop[p] = "exit" => pending[p] = <<>>

\* The order and uniqueness of a pid's lines, without telling incarnations apart.
PidOrderIn(f) ==
  /\ \A i \in LinesIn(f, "exit"), j \in LinesIn(f, "fork") :
       f[i].pid = f[j].pid => j < i
  /\ \A i, j \in LinesIn(f, "exit") : f[i].pid = f[j].pid => i = j
PidOrder == PidOrderIn(file)

Promised == INSTANCE TreeFile WITH closed <- loop # "wait"
(* The file ptrace_loop() writes is one TreeFile allows. *)
KeepsPromise == Promised!Spec

OrderInv ==
  /\ ForkStops /\ Births /\ AllGone /\ Deferred
  /\ WrittenIfKnown /\ ExitPlace /\ NothingDeferred /\ PidOrder
=============================================================================
