----------------------------- MODULE SyscallWaits -----------------------------
(***************************************************************************)
(* PtraceLoop with system call stops (trace_syscall): what --tree-futex,   *)
(* --tree-io-wait, --tree-connect, --tree-nanosleep, --tree-wait and       *)
(* --tree-poll measure.                                                    *)
(*                                                                         *)
(* The kernel stops a tracee when it enters a system call and when it      *)
(* returns, with one and the same status.  ptrace_loop() tells the two     *)
(* apart by a flag per pid.  Fork and exec stops, signals, kills and exits *)
(* come in between, and an execve() by a thread moves it to the pid of its *)
(* process: ptrace(2), "execve(2) under ptrace".                           *)
(***************************************************************************)
EXTENDS PtraceLoop

CONSTANTS
  Calls,      \* system calls the workload makes
  Options,    \* the --tree- options given, of those above
  MaxCalls    \* bound: system calls over the run

\* Calls by their number (one for each table of numbers), and the accumulator
\* of the pid's entry they are charged to.
Bucket ==
  [futex |-> "futex", read |-> "io_read", write |-> "io_write", connect |-> "connect",
   nanosleep |-> "nanosleep", wait4 |-> "wait", poll |-> "poll"]
Numbers == DOMAIN Bucket \cup {"clone", "execve", "exit", "other"}

\* A futex call waits or does not, by its argument; all other calls have one kind.
Kinds == (Numbers \ {"futex"}) \cup {"futex_wait", "futex_wake"}
Number(c) == IF c \in {"futex_wait", "futex_wake"} THEN "futex" ELSE c

Requested(b) == (IF b \in {"io_read", "io_write"} THEN "io_wait" ELSE b) \in Options

ASSUME CallAssumption == Calls \subseteq Kinds /\ MaxCalls \in Nat

VARIABLES
  (* the kernel *)
  phase,     \* of each tracee: outside a call, stopped at its entry or exit, or inside
  call,      \* the call it is in
  calls,     \* calls entered so far (bound only)
  (* the tracer: fields of struct ptrace_pid_entry *)
  in_syscall, current_syscall, syscall_entry_elapsed, futex_is_wait,
  waits,     \* the accumulators: each bucket's waits, from one time to another
  printed,   \* the wait lines of the pid's last exit block, if it has one
  (* history *)
  clock,     \* system call stops handled so far, the time of the present one
  since,     \* when the entry stop of the call was handled
  done,      \* the calls of which both stops were handled
  taken      \* pids whose process was replaced by an exec in another thread

callVars  == <<phase, call, calls, since, done, taken>>
entryVars == <<in_syscall, current_syscall, syscall_entry_elapsed, futex_is_wait, waits>>
sysVars   == <<callVars, entryVars, printed, clock>>
waitVars  == <<vars, sysVars>>

\* ptrace_setup() resumes the root from the SIGTRAP after its first execve(), whose
\* own exit stop has passed.
WaitsInit ==
  /\ Init
  /\ phase = [p \in Pids |-> "user"] /\ call = [p \in Pids |-> "other"] /\ calls = 0
  /\ in_syscall = [p \in Pids |-> FALSE] /\ current_syscall = [p \in Pids |-> "none"]
  /\ syscall_entry_elapsed = [p \in Pids |-> 0] /\ futex_is_wait = [p \in Pids |-> FALSE]
  /\ waits = [p \in Pids |-> {}] /\ printed = [p \in Pids |-> <<>>]
  /\ clock = 0 /\ since = [p \in Pids |-> 0] /\ done = [p \in Pids |-> {}] /\ taken = {}

-----------------------------------------------------------------------------
(* The kernel. *)

SysStopped(p) == phase[p] \in {"entry", "exit"}

To(p, ph) == phase' = [phase EXCEPT ![p] = ph]

EnterCall(p) ==
  /\ Running(p) /\ phase[p] = "user" /\ calls < MaxCalls
  /\ \E c \in Calls : call' = [call EXCEPT ![p] = c]
  /\ To(p, "entry")
  /\ calls' = calls + 1
  /\ UNCHANGED <<vars, since, done, taken, entryVars, printed, clock>>

\* exit_group() does not return.
ReturnFromCall(p) ==
  /\ Running(p) /\ phase[p] \in {"inside", "after"} /\ call[p] # "exit"
  /\ To(p, "exit")
  /\ UNCHANGED <<vars, call, calls, since, done, taken, entryVars, printed, clock>>

(* The event stop of a clone() or execve() is inside the call, and both have    *)
(* their exit stop later; a child starts outside.                               *)
ForkInCall(p) ==
  /\ phase[p] = "inside" /\ call[p] = "clone"
  /\ \E c \in Pids : Fork(p, c) /\ phase' = [phase EXCEPT ![p] = "after", ![c] = "user"]
  /\ UNCHANGED <<call, calls, since, done, taken, entryVars, printed, clock>>

ExecInCall(p) ==
  /\ phase[p] = "inside" /\ call[p] = "execve"
  /\ Exec(p) /\ To(p, "after")
  /\ UNCHANGED <<call, calls, since, done, taken, entryVars, printed, clock>>

(* A thread p executes a program while the first thread of its process, which   *)
(* created it, has stopped for its exit: the first is not reaped, p goes on     *)
(* under its pid, and no status says that p's own pid is gone.                  *)
ExecInThread(p) ==
  LET q == parentOf[p] IN
  /\ Running(p) /\ phase[p] = "inside" /\ call[p] = "execve" /\ execs < MaxExecs
  /\ q # p /\ life[q] = "exiting" /\ stop[q] = "none"
  /\ life' = [life EXCEPT ![p] = "reaped", ![q] = "alive"]
  /\ stop' = [stop EXCEPT ![q] = "exec"]
  /\ \E m \in BOOLEAN : /\ m => Rematch \/ target[q] = 0
                        /\ matches' = [matches EXCEPT ![q] = m]
  /\ execs' = execs + 1
  /\ phase' = [phase EXCEPT ![p] = "user", ![q] = "after"]
  /\ call' = [call EXCEPT ![q] = "execve"]
  /\ taken' = taken \cup {q}
  /\ UNCHANGED <<msg, births, noise, inc, parentOf, tracerVars>>
  /\ UNCHANGED <<calls, since, done, entryVars, printed, clock>>

\* Signals are delivered outside of calls; an exit may begin in a call, which
\* then has no exit stop, and SIGKILL ends any stop.
OtherKernel(p) ==
  /\ \/ Noise(p) /\ phase[p] = "user" /\ UNCHANGED phase
     \/ Exit(p) /\ ~SysStopped(p) /\ UNCHANGED phase
     \/ Die(p) /\ UNCHANGED phase
     \/ Kill(p) /\ To(p, "user")
  /\ UNCHANGED <<call, calls, since, done, taken, entryVars, printed, clock>>

-----------------------------------------------------------------------------
(* The tracer. *)

RootsEntry(p) == Root \* slip: one flag for the whole tree
EntryOf(p) == p

EntryStop(e, c) ==
  /\ in_syscall' = [in_syscall EXCEPT ![e] = TRUE]
  /\ current_syscall' = [current_syscall EXCEPT ![e] = Number(c)]
  /\ syscall_entry_elapsed' = [syscall_entry_elapsed EXCEPT ![e] = clock]
  /\ futex_is_wait' = IF "futex" \in Options /\ Number(c) = "futex"
                      THEN [futex_is_wait EXCEPT ![e] = (c = "futex_wait")] ELSE futex_is_wait
  /\ UNCHANGED waits

\* The call is the one of the entry stop; what it was for is not asked again.
ExitStop(e) ==
  LET nr == current_syscall[e]
      counts == /\ nr \in DOMAIN Bucket /\ Requested(Bucket[nr])
                /\ nr = "futex" => futex_is_wait[e]
      wait == [bucket |-> Bucket[nr], from |-> syscall_entry_elapsed[e], to |-> clock]
  IN /\ waits' = IF counts THEN [waits EXCEPT ![e] = @ \cup {wait}] ELSE waits
     /\ in_syscall' = [in_syscall EXCEPT ![e] = FALSE]
     /\ UNCHANGED <<current_syscall, syscall_entry_elapsed, futex_is_wait>>

\* What the stop really is.
HandledEntry(p) == To(p, "inside") /\ since' = [since EXCEPT ![p] = clock] /\ UNCHANGED done
HandledExit(p) ==
  /\ To(p, "user")
  /\ done' = [done EXCEPT ![p] = @ \cup {[kind |-> call[p], from |-> since[p], to |-> clock]}]
  /\ UNCHANGED since

HandleSyscall(p) ==
  /\ loop = "wait" /\ SysStopped(p)
  /\ IF in_syscall[EntryOf(p)] THEN ExitStop(EntryOf(p)) ELSE EntryStop(EntryOf(p), call[p])
  /\ IF phase[p] = "entry" THEN HandledEntry(p) ELSE HandledExit(p)
  /\ clock' = clock + 1
  /\ UNCHANGED <<vars, call, calls, taken, printed>>

\* The lines of the waits are part of the exit block.
HandleExitWaits(p) ==
  /\ HandleExit(p)
  /\ printed' = [printed EXCEPT ![p] = <<waits[p]>>]
  /\ UNCHANGED <<callVars, entryVars, clock>>

HandleOther(p) ==
  /\ \/ HandleFork(p) \/ HandleExec(p) \/ HandleUnknown(p) \/ HandleNewPid(p)
     \/ HandleSignal(p) \/ HandleExited(p) \/ HandleSignaled(p) \/ FlushPending(p)
  /\ UNCHANGED sysVars

WaitsNext ==
  \/ \E p \in Pids :
       \/ EnterCall(p) \/ ReturnFromCall(p) \/ ForkInCall(p) \/ ExecInCall(p)
       \/ ExecInThread(p) \/ OtherKernel(p)
       \/ HandleSyscall(p) \/ HandleExitWaits(p) \/ HandleOther(p)
  \/ (NoMoreChildren \/ WriteSummary \/ Finished) /\ UNCHANGED sysVars

WaitsSpec == WaitsInit /\ [][WaitsNext]_waitVars

-----------------------------------------------------------------------------
\* What a process should be charged with: its calls of a requested kind, each
\* from its own entry to its own return.
Owed(p) ==
  {[bucket |-> Bucket[Number(s.kind)], from |-> s.from, to |-> s.to] :
     s \in {t \in done[p] : /\ t.kind # "futex_wake" /\ Number(t.kind) \in DOMAIN Bucket
                            /\ Requested(Bucket[Number(t.kind)])}}

(* "Each tracee's own stop stream strictly alternates entry/exit" (struct        *)
(* ptrace_pid_entry): whatever stops come between and wherever a process is       *)
(* forked, killed or exits, it is charged with its own calls and with no others,  *)
(* and its exit block says so.  Only the first process of a pid is: the entry of  *)
(* its successor, or of a thread that took its pid by an exec, is the old one.    *)
WaitsAreOwn ==
  \A p \in Pids : inc[p] <= 1 /\ p \notin taken =>
    waits[p] = Owed(p) /\ printed[p] \in {<<>>, <<Owed(p)>>}
=============================================================================
