------------------------------ MODULE TracerProofs ------------------------------
(***************************************************************************)
(* Proofs about the way from a workload to its process tree.               *)
(*                                                                         *)
(* The --tree tracer: its state keeps its type, and, as long as the kernel *)
(* reuses no pid, every process is named before its one exit block, for    *)
(* any number of processes, executions and signals, and whether or not     *)
(* tracees are killed, so that it keeps the promise of TreeFile.           *)
(*                                                                         *)
(* The tree: what that promise says about the order of the lines; what     *)
(* proctree makes of any file that keeps it, pids that are used again      *)
(* included; and what the two make of the processes the kernel ran.        *)
(***************************************************************************)
EXTENDS TreePipeline, SyscallWaits, FiniteSetTheorems, WellFoundedInduction, TLAPS

-----------------------------------------------------------------------------
(* The tracer. *)

(* What a line of each kind is. *)
LEMMA LineType ==
  ASSUME TypeOK
  PROVE  /\ \A p \in Pids, kind \in LineKinds :
              /\ Line(kind, p) \in Lines
              /\ Line(kind, p).kind = kind /\ Line(kind, p).pid = p
         /\ \A p, c \in Pids :
              /\ ForkLine(p, c) \in Lines
              /\ ForkLine(p, c).kind = "fork" /\ ForkLine(p, c).pid = c
         /\ \A p \in Pids :
              /\ ExitBlock(p) \in Lines
              /\ ExitBlock(p).kind = "exit" /\ ExitBlock(p).pid = p
<1>1. elapsed \in Nat
  BY DEF TypeOK, TracerTypeOK, elapsed
<1>2. QED
  BY <1>1, ZenonT(60)
  DEF TypeOK, KernelTypeOK, TracerTypeOK, Lines, Line, ForkLine, ExitBlock, LineKinds

(* The file only grows: what Append and \o keep and add. *)
LEMMA Appended ==
  ASSUME NEW s \in Seq(Lines), NEW l \in Lines
  PROVE  /\ Append(s, l) \in Seq(Lines)
         /\ DOMAIN s = 1 .. Len(s) /\ Len(s) \in Nat
         /\ DOMAIN Append(s, l) = 1 .. Len(s) + 1
         /\ \A i \in 1 .. Len(s) : Append(s, l)[i] = s[i]
         /\ Append(s, l)[Len(s) + 1] = l
OBVIOUS

LEMMA Concatenated ==
  ASSUME NEW s \in Seq(Lines), NEW t \in Seq(Lines)
  PROVE  /\ s \o t \in Seq(Lines)
         /\ DOMAIN s = 1 .. Len(s) /\ Len(s) \in Nat
         /\ DOMAIN t = 1 .. Len(t) /\ Len(t) \in Nat
         /\ DOMAIN (s \o t) = 1 .. Len(s) + Len(t)
         /\ \A i \in 1 .. Len(s) : (s \o t)[i] = s[i]
         /\ \A i \in 1 .. Len(t) : (s \o t)[Len(s) + i] = t[i]
OBVIOUS

(* The tree file and the table stay sequences of lines. *)
LEMMA FileType ==
  ASSUME TypeOK, NEW p \in Pids, Tracer(p)
  PROVE  file' \in Seq(Lines) /\ pending' \in [Pids -> Seq(Lines)]
<1> DEFINE T == file \in Seq(Lines) /\ pending \in [Pids -> Seq(Lines)]
               /\ msg \in [Pids -> Pids]
<1>1. T
  BY DEF TypeOK, KernelTypeOK, TracerTypeOK
<1>2. /\ \A kind \in LineKinds : Line(kind, p) \in Lines
      /\ \A c \in Pids : ForkLine(p, c) \in Lines
      /\ ExitBlock(p) \in Lines
  BY LineType
<1>3. CASE HandleFork(p)
  <2>1. Append(file, ForkLine(p, msg[p])) \in Seq(Lines) /\ msg[p] \in Pids
    BY <1>1, <1>2, Appended
  <2>2. Append(file, ForkLine(p, msg[p])) \o pending[msg[p]] \in Seq(Lines)
    BY <1>1, <2>1, Concatenated
  <2>3. QED
    BY <1>1, <1>3, <2>2 DEF HandleFork, MarkKnown
<1>4. CASE HandleExit(p)
  <2>1. <<ExitBlock(p)>> \in Seq(Lines) /\ Append(file, ExitBlock(p)) \in Seq(Lines)
    BY <1>1, <1>2, Appended
  <2>2. QED
    BY <1>1, <1>4, <2>1 DEF HandleExit, DeferExit
<1>5. CASE FlushPending(p)
  BY <1>1, <1>5, Concatenated DEF FlushPending
<1>6. CASE HandleNewPid(p)
  BY <1>1, <1>6 DEF HandleNewPid, tracerVars
<1>7. CASE HandleExec(p) \/ HandleUnknown(p) \/ HandleSignal(p)
           \/ HandleExited(p) \/ HandleSignaled(p)
  <2>1. \A kind \in LineKinds : Append(file, Line(kind, p)) \in Seq(Lines)
    BY <1>1, <1>2, Appended
  <2>2. QED
    BY <1>1, <1>7, <2>1 DEF HandleExec, HandleUnknown, HandleSignal,
                            HandleExited, HandleSignaled, LineKinds
<1>8. QED
  BY <1>3, <1>4, <1>5, <1>6, <1>7 DEF Tracer

(* What each kind of step does to the kernel's part of the type invariant. *)
LEMMA KernelType ==
  ASSUME KernelTypeOK, NEW p \in Pids
  PROVE  /\ Workload(p) => KernelTypeOK'
         /\ Tracer(p) => KernelTypeOK'
<1> USE DEF KernelTypeOK, Lives, Stops, bounds
<1>1. ASSUME NEW c \in Pids, Fork(p, c) PROVE KernelTypeOK'
  BY <1>1 DEF Fork
<1>2. ASSUME Exec(p) PROVE KernelTypeOK'
  BY <1>2 DEF Exec
<1>3. ASSUME Noise(p) PROVE KernelTypeOK'
  BY <1>3 DEF Noise
<1>4. ASSUME Exit(p) \/ Die(p) \/ Kill(p) PROVE KernelTypeOK'
  BY <1>4 DEF Exit, Die, Kill
<1>5. ASSUME Resume(p) \/ Reap(p) \/ UNCHANGED kernelVars PROVE KernelTypeOK'
  BY <1>5 DEF Resume, Reap, kernelVars
<1>6. QED
  BY <1>1, <1>2, <1>3, <1>4, <1>5
  DEF Workload, Tracer, HandleFork, HandleExit, HandleExec, HandleUnknown,
      HandleNewPid, HandleSignal, HandleExited, HandleSignaled, FlushPending

(* Attaching and closing a pid's counters keep an open fd per listed group. *)
LEMMA TargetType ==
  ASSUME target \in [Pids -> Nat], open \in [Pids -> Nat], HeldCounters,
         NEW p \in Pids, AttachTarget(p) \/ CloseTarget(p)
  PROVE  target' \in [Pids -> Nat] /\ open' \in [Pids -> Nat] /\ HeldCounters'
<1>1. CASE AttachTarget(p)
  <2>1. target[p] + 1 \in Nat /\ open[p] + target[p] + 1 \in Nat
        /\ target[p] + 1 <= open[p] + target[p] + 1
    OBVIOUS
  <2>2. QED
    BY <1>1, <2>1 DEF AttachTarget, HeldCounters
<1>2. CASE CloseTarget(p)
  BY <1>2 DEF CloseTarget, HeldCounters
<1>3. QED
  BY <1>1, <1>2

LEMMA TracerType ==
  ASSUME TypeOK, HeldCounters, NEW p \in Pids, Tracer(p)
  PROVE  TracerTypeOK' /\ HeldCounters'
<1>1. file' \in Seq(Lines) /\ pending' \in [Pids -> Seq(Lines)]
  BY FileType
<1>2. TracerTypeOK
  BY DEF TypeOK
<1> USE <1>1, <1>2 DEF TracerTypeOK, HeldCounters, events
<1>3. CASE HandleFork(p)
  BY <1>3 DEF HandleFork, MarkKnown
<1>4. CASE HandleExit(p)
  BY <1>4, TargetType DEF HandleExit
<1>5. CASE HandleExec(p)
  <2>1. /\ target' \in [Pids -> Nat] /\ open' \in [Pids -> Nat]
        /\ HeldCounters'
    <3>1. CASE matches[p]  BY <1>5, <3>1, TargetType, SMTT(30) DEF HandleExec
    <3>2. CASE ~matches[p]  BY <1>5, <3>2, SMTT(30) DEF HandleExec
    <3>3. QED  BY <3>1, <3>2
  <2>2. exec_events' \in Nat /\ UNCHANGED <<loop, known, fork_events, exit_events, unknown_traps,
                                           rootStatus>>
    BY <1>5 DEF HandleExec
  <2>3. QED
    BY <2>1, <2>2, SMTT(30)
<1>6. CASE HandleUnknown(p)
  <2>1. unknown_traps' \in Nat
    BY <1>6 DEF HandleUnknown
  <2>2. QED
    BY <1>6, <2>1 DEF HandleUnknown
<1>7. CASE HandleSignal(p)
  BY <1>7 DEF HandleSignal
<1>8. CASE HandleNewPid(p)
  BY <1>8 DEF HandleNewPid, tracerVars
<1>9. CASE HandleExited(p) \/ HandleSignaled(p)
  BY <1>9 DEF HandleExited, HandleSignaled, NoteRootStatus
<1>10. CASE FlushPending(p)
  BY <1>10 DEF FlushPending
<1>11. QED
  BY <1>3, <1>4, <1>5, <1>6, <1>7, <1>8, <1>9, <1>10 DEF Tracer

LEMMA TracerUnchanged ==
  ASSUME TracerTypeOK, HeldCounters, UNCHANGED tracerVars
  PROVE  TracerTypeOK' /\ HeldCounters'
BY DEF TracerTypeOK, HeldCounters, tracerVars, events

(* Every variable keeps its type, and every counter group on a pid's list has *)
(* an open fd, for any pids and bounds, with or without pid reuse and SIGKILL. *)
THEOREM TypeCorrect == Spec => [](TypeOK /\ HeldCounters)
<1>1. Init => TypeOK /\ HeldCounters
  BY RootAssumption
  DEF Init, TypeOK, KernelTypeOK, TracerTypeOK, HeldCounters, Lines, LineKinds,
      Lives, Stops, Line, elapsed
<1>2. TypeOK /\ HeldCounters /\ [Next]_vars => (TypeOK /\ HeldCounters)'
  <2> SUFFICES ASSUME TypeOK, HeldCounters, [Next]_vars
               PROVE  KernelTypeOK' /\ TracerTypeOK' /\ HeldCounters'
    BY DEF TypeOK
  <2>1. KernelTypeOK /\ TracerTypeOK
    BY DEF TypeOK
  <2>2. ASSUME NEW p \in Pids, Workload(p)
        PROVE  KernelTypeOK' /\ TracerTypeOK' /\ HeldCounters'
    <3>1. UNCHANGED tracerVars
      BY <2>2 DEF Workload, Fork, Exec, Noise, Exit, Die, Kill
    <3>2. QED
      BY <2>1, <2>2, <3>1, KernelType, TracerUnchanged
  <2>3. ASSUME NEW p \in Pids, Tracer(p)
        PROVE  KernelTypeOK' /\ TracerTypeOK' /\ HeldCounters'
    BY <2>1, <2>3, KernelType, TracerType
  <2>4. ASSUME NoMoreChildren \/ WriteSummary
        PROVE  KernelTypeOK' /\ TracerTypeOK' /\ HeldCounters'
    BY <2>1, <2>4 DEF NoMoreChildren, WriteSummary, KernelTypeOK, TracerTypeOK,
                      HeldCounters, kernelVars, bounds, events
  <2>5. CASE UNCHANGED vars
    BY <2>1, <2>5, TracerUnchanged DEF vars, KernelTypeOK, kernelVars, bounds
  <2>6. QED
    BY <2>2, <2>3, <2>4, <2>5 DEF Next, Finished
<1>3. QED
  BY <1>1, <1>2, PTL DEF Spec

-----------------------------------------------------------------------------
(* A step that writes neither a fork line nor an exit block keeps the places  *)
(* of those that are in the file.                                             *)
FileKept ==
  /\ LinesOf("exit")' = LinesOf("exit") /\ LinesOf("fork")' = LinesOf("fork")
  /\ \A i \in LinesOf("exit") : file'[i] = file[i]
  /\ \A i \in LinesOf("fork") : file'[i] = file[i]

LEMMA PlainLine ==
  ASSUME file \in Seq(Lines), NEW l \in Lines, l.kind \notin {"fork", "exit"},
         file' = Append(file, l)
  PROVE  FileKept
BY Appended DEF FileKept, LinesOf, LinesIn

LEMMA SameFile ==
  ASSUME file' = file
  PROVE  FileKept
BY DEF FileKept, LinesOf, LinesIn

(* What the tracer's steps that write no fork line and no exit block keep. *)
LEMMA QuietStep ==
  ASSUME TypeOK, TypeOK', OrderInv, NEW p \in Pids, FileKept,
         loop' = loop, known' = known, pending' = pending,
         Resume(p) \/ Reap(p)
  PROVE  OrderInv'
<1> USE DEF TypeOK, KernelTypeOK, TracerTypeOK
<1>1. /\ msg' = msg
      /\ \A q \in Pids : stop'[q] = stop[q] \/ stop'[q] = "none"
      /\ \A q \in Pids : life'[q] = life[q] \/ (life'[q] = "reaped" /\ stop'[q] = "none")
      /\ stop'[p] = "none"
      /\ \A q \in Pids : q # p => stop'[q] = stop[q] /\ life'[q] = life[q]
  BY DEF Resume, Reap
<1>2. ForkStops'
  BY <1>1, ZenonT(60) DEF OrderInv, ForkStops
<1>3. Births'
  BY <1>1, SMTT(30) DEF OrderInv, Births
<1>4. AllGone'
  BY <1>1 DEF OrderInv, AllGone
<1>5. Deferred'
  <2> SUFFICES ASSUME Deferred PROVE Deferred'
    BY DEF OrderInv
  <2>1. QED
    BY ONLY Deferred, known' = known, pending' = pending DEF Deferred
<1>6. WrittenIfKnown'
  <2> SUFFICES ASSUME WrittenIfKnown PROVE WrittenIfKnown'
    BY DEF OrderInv
  <2>1. QED
    BY ONLY WrittenIfKnown, FileKept, known' = known, loop' = loop DEF WrittenIfKnown, FileKept
<1>7. ExitPlace'
  <2> SUFFICES ASSUME NEW q \in Pids, NEW i \in LinesOf("exit"),
                      life'[q] \in {"unborn", "alive"} \/ stop'[q] = "exit"
                        \/ pending[q] # <<>>
               PROVE  file[i].pid # q
    BY DEF ExitPlace, FileKept
  <2>1. life[q] \in {"unborn", "alive"} \/ stop[q] = "exit" \/ pending[q] # <<>>
    BY <1>1
  <2>2. QED
    BY <2>1 DEF OrderInv, ExitPlace
<1>8. NothingDeferred'
  BY <1>1 DEF OrderInv, NothingDeferred
<1>9. PidOrder'
  <2>1. PidOrder
    BY DEF OrderInv
  <2>2. ASSUME NEW i \in LinesOf("exit"), NEW j \in LinesOf("fork"),
               file'[i].pid = file'[j].pid
        PROVE  j < i
    BY <2>1, <2>2 DEF PidOrder, PidOrderIn, LinesOf, FileKept
  <2>3. ASSUME NEW i \in LinesOf("exit"), NEW j \in LinesOf("exit"),
               file'[i].pid = file'[j].pid
        PROVE  i = j
    BY <2>1, <2>3 DEF PidOrder, PidOrderIn, LinesOf, FileKept
  <2>4. QED
    BY <2>2, <2>3 DEF PidOrder, PidOrderIn, LinesOf, FileKept
<1>10. QED
  BY <1>2, <1>3, <1>4, <1>5, <1>6, <1>7, <1>8, <1>9 DEF OrderInv

(* The kernel's steps.  Only here does it matter that no pid is reused: a fork *)
(* takes a pid that has no line and no table entry yet.                        *)
LEMMA WorkloadStep ==
  ASSUME TypeOK, OrderInv, ~PidReuse, NEW p \in Pids, Workload(p)
  PROVE  OrderInv'
<1> USE DEF TypeOK, KernelTypeOK, TracerTypeOK
<1>1. /\ loop' = loop /\ known' = known /\ pending' = pending /\ file' = file
      /\ \A k \in {"exit", "fork"} : LinesOf(k)' = LinesOf(k)
  BY DEF Workload, Fork, Exec, Noise, Exit, Die, Kill, tracerVars, LinesOf, LinesIn
<1>2. loop = "wait"
  BY DEF Workload, Fork, Exec, Noise, Exit, Die, Kill, Running, OrderInv, AllGone
<1>3. AllGone' /\ Deferred' /\ WrittenIfKnown' /\ PidOrder'
  <2>1. AllGone'
    BY <1>1, <1>2 DEF AllGone
  <2>2. Deferred'
    BY <1>1 DEF OrderInv, Deferred
  <2>3. WrittenIfKnown'
    BY <1>1 DEF OrderInv, WrittenIfKnown
  <2>4. PidOrder'
    BY <1>1 DEF OrderInv, PidOrder
  <2>5. QED
    BY <2>1, <2>2, <2>3, <2>4
<1>4. CASE \E c \in Pids : Fork(p, c)
  <2>1. PICK c \in Pids : Fork(p, c)
    BY <1>4
  <2>2. /\ life[p] = "alive" /\ life[c] = "unborn" /\ p # c
        /\ stop[p] = "none" /\ stop'[p] = "fork" /\ stop'[c] = "sigstop"
        /\ life'[p] = "alive" /\ life'[c] = "alive" /\ msg'[p] = c
        /\ \A q \in Pids : q # p => msg'[q] = msg[q]
        /\ \A q \in Pids : q # c => life'[q] = life[q]
        /\ \A q \in Pids \ {p, c} : stop'[q] = stop[q]
    BY <2>1 DEF Fork, Running, Free
  <2>3. ForkStops'
    <3> SUFFICES ASSUME NEW q \in Pids, stop'[q] = "fork"
                 PROVE  /\ life'[msg'[q]] # "unborn" /\ ~known[msg'[q]]
                        /\ \A r \in Pids : stop'[r] = "fork" /\ msg'[r] = msg'[q] => r = q
      BY <1>1 DEF ForkStops
    <3>1. ASSUME NEW r \in Pids, r # p, stop'[r] = "fork"
          PROVE  stop[r] = "fork" /\ msg'[r] = msg[r] /\ msg[r] # c
      <4>1. stop[r] = "fork" /\ msg'[r] = msg[r]
        BY <2>2, <3>1
      <4>2. life[msg[r]] # "unborn"
        BY <4>1 DEF OrderInv, ForkStops
      <4>3. QED
        BY <2>2, <4>1, <4>2
    <3>2. ~known[c]
      BY <2>2 DEF OrderInv, Births
    <3>3. CASE q = p
      BY <2>2, <3>1, <3>2, <3>3
    <3>4. CASE q # p
      <4>1. stop[q] = "fork" /\ msg'[q] = msg[q] /\ msg[q] # c
        BY <3>1, <3>4
      <4>2. life[msg[q]] # "unborn" /\ ~known[msg[q]] /\ msg[q] \in Pids
        BY <4>1 DEF OrderInv, ForkStops
      <4>3. life'[msg[q]] # "unborn"
        BY <2>2, <4>1, <4>2
      <4>4. ASSUME NEW r \in Pids, stop'[r] = "fork", msg'[r] = msg'[q]
            PROVE  r = q
        <5>1. r # p
          BY <2>2, <4>1, <4>4
        <5>2. stop[r] = "fork" /\ msg[r] = msg[q]
          BY <3>1, <4>1, <4>4, <5>1
        <5>3. QED
          BY <4>1, <5>2 DEF OrderInv, ForkStops
      <4>5. QED
        BY <4>1, <4>2, <4>3, <4>4
    <3>5. QED
      BY <3>3, <3>4
  <2>4. Births'
    BY <1>1, <2>2, ZenonT(60) DEF OrderInv, Births
  <2>5. \A q \in Pids :
           /\ life'[q] \in {"unborn", "alive"} => life[q] \in {"unborn", "alive"}
           /\ stop'[q] = "exit" => stop[q] = "exit"
    BY <2>2
  <2>6. ExitPlace'
    BY <1>1, <2>5 DEF OrderInv, ExitPlace
  <2>7. NothingDeferred'
    BY <1>1, <2>5 DEF OrderInv, NothingDeferred
  <2>8. QED
    BY <1>3, <2>3, <2>4, <2>6, <2>7 DEF OrderInv
<1>5. CASE Exec(p) \/ Noise(p) \/ Exit(p) \/ Die(p) \/ Kill(p)
  <2>1. /\ msg' = msg /\ life[p] \in {"alive", "exiting"}
        /\ life'[p] \in {"alive", "exiting", "dead"} /\ stop'[p] # "fork"
        /\ life'[p] = "alive" => life[p] = "alive"
        /\ stop'[p] = "exit" => life[p] = "alive" /\ life'[p] = "exiting"
        /\ \A q \in Pids : q # p => life'[q] = life[q] /\ stop'[q] = stop[q]
    BY <1>5 DEF Exec, Noise, Exit, Die, Kill, Running, Lives, Stops
  <2>2. ForkStops'
    BY <1>1, <2>1 DEF OrderInv, ForkStops
  <2>3. Births'
    BY <1>1, <2>1 DEF OrderInv, Births
  <2>4. ExitPlace'
    BY <1>1, <2>1 DEF OrderInv, ExitPlace
  <2>5. NothingDeferred'
    BY <1>1, <2>1 DEF OrderInv, NothingDeferred
  <2>6. QED
    BY <1>3, <2>2, <2>3, <2>4, <2>5 DEF OrderInv
<1>6. QED
  BY <1>4, <1>5 DEF Workload

(* One more exit block at the end, for a pid that has none. *)
LEMMA ExitAppended ==
  ASSUME NEW f \in Seq(Lines), NEW l \in Lines, l.kind = "exit"
  PROVE  LET g == Append(f, l) IN
         /\ g \in Seq(Lines) /\ Len(f) \in Nat
         /\ LinesIn(g, "exit") = LinesIn(f, "exit") \cup {Len(f) + 1}
         /\ LinesIn(g, "fork") = LinesIn(f, "fork")
         /\ \A i \in LinesIn(f, "exit") : i \in 1 .. Len(f)
         /\ \A i \in LinesIn(f, "fork") : i \in 1 .. Len(f)
         /\ \A i \in 1 .. Len(f) : g[i] = f[i]
         /\ g[Len(f) + 1] = l
BY Appended DEF LinesIn

LEMMA PidOrderExit ==
  ASSUME NEW f \in Seq(Lines), NEW l \in Lines, l.kind = "exit", PidOrderIn(f),
         \A i \in LinesIn(f, "exit") : f[i].pid # l.pid
  PROVE  PidOrderIn(Append(f, l))
<1> DEFINE g == Append(f, l)
<1> HIDE DEF g
<1>0. /\ Len(f) \in Nat
      /\ LinesIn(g, "exit") = LinesIn(f, "exit") \cup {Len(f) + 1}
      /\ LinesIn(g, "fork") = LinesIn(f, "fork")
      /\ \A i \in LinesIn(f, "exit") : i \in 1 .. Len(f)
      /\ \A i \in LinesIn(f, "fork") : i \in 1 .. Len(f)
      /\ \A i \in 1 .. Len(f) : g[i] = f[i]
      /\ g[Len(f) + 1] = l
  BY ExitAppended DEF g
<1>1. ASSUME NEW i \in LinesIn(g, "exit"), NEW j \in LinesIn(g, "fork"),
             g[i].pid = g[j].pid
      PROVE  j < i
  <2>1. j \in LinesIn(f, "fork") /\ j \in 1 .. Len(f) /\ g[j] = f[j]
    BY <1>0
  <2>2. CASE i = Len(f) + 1
    BY <1>0, <2>1, <2>2
  <2>3. CASE i \in LinesIn(f, "exit")
    BY <1>0, <1>1, <2>1, <2>3 DEF PidOrderIn
  <2>4. QED
    BY <1>0, <2>2, <2>3
<1>2. ASSUME NEW i \in LinesIn(g, "exit"), NEW j \in LinesIn(g, "exit"),
             g[i].pid = g[j].pid
      PROVE  i = j
  <2>1. CASE i \in LinesIn(f, "exit") /\ j \in LinesIn(f, "exit")
    BY <1>0, <1>2, <2>1 DEF PidOrderIn
  <2>2. CASE i = Len(f) + 1 /\ j = Len(f) + 1
    BY <2>2
  <2>3. CASE i = Len(f) + 1 /\ j \in LinesIn(f, "exit")
    BY <1>0, <1>2, <2>3
  <2>4. CASE j = Len(f) + 1 /\ i \in LinesIn(f, "exit")
    BY <1>0, <1>2, <2>4
  <2>5. QED
    BY <1>0, <2>1, <2>2, <2>3, <2>4
<1>3. PidOrderIn(g)
  BY <1>1, <1>2 DEF PidOrderIn
<1>4. QED
  BY <1>3 DEF g

(* A fork line at the end, for a pid that has no exit block. *)
LEMMA PidOrderFork ==
  ASSUME NEW f \in Seq(Lines), NEW l \in Lines, l.kind = "fork", PidOrderIn(f),
         \A i \in LinesIn(f, "exit") : f[i].pid # l.pid
  PROVE  LET g == Append(f, l) IN
         /\ g \in Seq(Lines)
         /\ PidOrderIn(g)
         /\ LinesIn(g, "exit") = LinesIn(f, "exit")
         /\ \A i \in LinesIn(f, "exit") : g[i] = f[i]
<1> DEFINE g == Append(f, l)
<1> HIDE DEF g
<1>1. /\ g \in Seq(Lines)
      /\ LinesIn(g, "exit") = LinesIn(f, "exit")
      /\ LinesIn(g, "fork") = LinesIn(f, "fork") \cup {Len(f) + 1}
      /\ \A i \in LinesIn(f, "exit") : i \in 1 .. Len(f)
      /\ \A i \in LinesIn(f, "fork") : i \in 1 .. Len(f)
      /\ \A i \in 1 .. Len(f) : g[i] = f[i]
      /\ g[Len(f) + 1] = l
  BY Appended DEF LinesIn, g
<1>2. \A i \in LinesIn(f, "exit") : g[i] = f[i] /\ g[i].pid # l.pid
  BY <1>1
<1>3. ASSUME NEW i \in LinesIn(g, "exit"), NEW j \in LinesIn(g, "fork"),
             g[i].pid = g[j].pid
      PROVE  j < i
  <2>1. j # Len(f) + 1
    BY <1>1, <1>2, <1>3
  <2>2. j \in LinesIn(f, "fork") /\ g[j] = f[j] /\ g[i] = f[i]
    BY <1>1, <2>1
  <2>3. QED
    BY <1>1, <1>3, <2>2 DEF PidOrderIn
<1>4. ASSUME NEW i \in LinesIn(g, "exit"), NEW j \in LinesIn(g, "exit"),
             g[i].pid = g[j].pid
      PROVE  i = j
  BY <1>1, <1>2, <1>4 DEF PidOrderIn
<1>5. PidOrderIn(g)
  BY <1>3, <1>4 DEF PidOrderIn
<1>6. QED
  BY <1>1, <1>2, <1>5 DEF g

(* A deferred block is at most one line, so joining it to the file appends it. *)
LEMMA JoinBlock ==
  ASSUME NEW f \in Seq(Lines), NEW b \in Seq(Lines), Len(b) <= 1, b # <<>>
  PROVE  b[1] \in Lines /\ f \o b = Append(f, b[1])
<1>1. Len(b) = 1
  <2> DEFINE n == Len(b)
  <2>1. n \in Nat /\ n # 0 /\ n <= 1
    OBVIOUS
  <2> HIDE DEF n
  <2>2. n = 1
    BY <2>1
  <2>3. QED
    BY <2>2 DEF n
<1>2. b[1] \in Lines
  BY <1>1
<1>3. f \o b = Append(f, b[1])
  <2>1. b = <<b[1]>>
    BY <1>1
  <2>2. \A l \in Lines : f \o <<l>> = Append(f, l)
    OBVIOUS
  <2>3. QED
    BY <1>2, <2>1, <2>2
<1>4. QED
  BY <1>2, <1>3

(* What the file holds once a fork line and the deferred block of its child *)
(* have been written, the child having had no exit block before.            *)
LEMMA NamedFile ==
  ASSUME NEW f0 \in Seq(Lines), NEW l \in Lines, l.kind = "fork", PidOrderIn(f0),
         \A i \in LinesIn(f0, "exit") : f0[i].pid # l.pid,
         NEW b \in Seq(Lines), Len(b) <= 1,
         b # <<>> => b[1].kind = "exit" /\ b[1].pid = l.pid
  PROVE  LET g == Append(f0, l) \o b IN
         /\ PidOrderIn(g)
         /\ \A i \in LinesIn(g, "exit") :
              \/ i \in LinesIn(f0, "exit") /\ g[i] = f0[i]
              \/ b # <<>> /\ g[i].pid = l.pid
<1> DEFINE f == Append(f0, l)
           g == f \o b
<1>1. /\ f \in Seq(Lines)
      /\ PidOrderIn(f)
      /\ LinesIn(f, "exit") = LinesIn(f0, "exit")
      /\ \A i \in LinesIn(f0, "exit") : f[i] = f0[i]
  BY PidOrderFork
<1> HIDE DEF f
<1>2. CASE b = <<>>
  <2>1. g = f
    BY <1>1, <1>2
  <2>2. QED
    BY <1>1, <2>1 DEF f
<1>3. CASE b # <<>>
  <2>1. b[1] \in Lines /\ g = Append(f, b[1])
    BY <1>1, <1>3, JoinBlock
  <2>2. \A i \in LinesIn(f, "exit") : f[i].pid # b[1].pid
    BY <1>1, <1>3
  <2>3. PidOrderIn(g)
    BY <1>1, <1>3, <2>1, <2>2, PidOrderExit
  <2>4. /\ LinesIn(g, "exit") = LinesIn(f, "exit") \cup {Len(f) + 1}
        /\ \A i \in LinesIn(f, "exit") : i \in 1 .. Len(f)
        /\ \A i \in 1 .. Len(f) : g[i] = f[i]
        /\ g[Len(f) + 1] = b[1]
    BY <1>1, <1>3, <2>1, ExitAppended
  <2> HIDE DEF g
  <2>5. \A i \in LinesIn(g, "exit") :
           \/ i \in LinesIn(f0, "exit") /\ g[i] = f0[i]
           \/ b # <<>> /\ g[i].pid = l.pid
    BY <1>1, <1>3, <2>4
  <2>6. QED
    BY <2>3, <2>5 DEF f, g
<1>4. QED
  BY <1>2, <1>3

(* A fork stop names its child, whose deferred block follows the fork line. *)
LEMMA HandleForkStep ==
  ASSUME TypeOK, OrderInv, NEW p \in Pids, HandleFork(p)
  PROVE  OrderInv'
<1> DEFINE c == msg[p]
           l == ForkLine(p, c)
<1>0. /\ file \in Seq(Lines) /\ pending \in [Pids -> Seq(Lines)]
      /\ known \in [Pids -> BOOLEAN] /\ stop \in [Pids -> Stops]
      /\ msg \in [Pids -> Pids] /\ c \in Pids
  BY DEF TypeOK, KernelTypeOK, TracerTypeOK
<1>1. /\ loop = "wait" /\ loop' = "wait" /\ stop[p] = "fork"
      /\ file' = Append(file, l) \o pending[c]
      /\ known' = [known EXCEPT ![c] = TRUE]
      /\ pending' = [pending EXCEPT ![c] = <<>>]
      /\ stop' = [stop EXCEPT ![p] = "none"] /\ life' = life /\ msg' = msg
  BY DEF HandleFork, Waited, MarkKnown, Resume
<1>2. l \in Lines /\ l.kind = "fork" /\ l.pid = c
  BY <1>0, LineType
<1> HIDE DEF l
<1>3. ~known[c] /\ life[c] # "unborn"
  BY <1>0, <1>1 DEF OrderInv, ForkStops
<1>4. \A i \in LinesIn(file, "exit") : known[file[i].pid] /\ file[i].pid # c
  BY <1>1, <1>3 DEF OrderInv, WrittenIfKnown, LinesOf
<1>5. /\ Len(pending[c]) <= 1 /\ pending[c] \in Seq(Lines)
      /\ pending[c] # <<>> => pending[c][1].kind = "exit" /\ pending[c][1].pid = c
  BY <1>0 DEF OrderInv, Deferred
<1>6. /\ PidOrder'
      /\ \A i \in LinesOf("exit")' :
           \/ i \in LinesOf("exit") /\ file'[i] = file[i]
           \/ pending[c] # <<>> /\ file'[i].pid = c
  <2>1. PidOrderIn(file)
    BY DEF OrderInv, PidOrder
  <2> DEFINE b == pending[c]
             g == Append(file, l) \o b
  <2>2. /\ \A i \in LinesIn(file, "exit") : file[i].pid # l.pid
        /\ b \in Seq(Lines) /\ Len(b) <= 1
        /\ b # <<>> => b[1].kind = "exit" /\ b[1].pid = l.pid
    BY <1>2, <1>4, <1>5
  <2>3. g = file' /\ (b # <<>> <=> pending[c] # <<>>)
    BY <1>1
  <2> HIDE DEF b
  <2>4. /\ PidOrderIn(g)
        /\ \A i \in LinesIn(g, "exit") :
             \/ i \in LinesIn(file, "exit") /\ g[i] = file[i]
             \/ b # <<>> /\ g[i].pid = l.pid
    BY <1>0, <1>2, <2>1, <2>2, NamedFile, ZenonT(60)
  <2> HIDE DEF g
  <2>5. QED
    BY <1>2, <2>3, <2>4 DEF PidOrder, LinesOf
<1>7. ForkStops'
  BY <1>0, <1>1 DEF OrderInv, ForkStops
<1>8. Births' /\ AllGone'
  BY <1>0, <1>1, <1>3 DEF OrderInv, Births, AllGone
<1>9. Deferred'
  BY <1>0, <1>1 DEF OrderInv, Deferred
<1>10. WrittenIfKnown'
  <2>1. ASSUME NEW i \in LinesOf("exit")'
        PROVE  known'[file'[i].pid]
    <3>1. CASE i \in LinesOf("exit") /\ file'[i] = file[i]
      <4>1. known[file[i].pid] /\ file[i].pid # c
        BY <1>4, <3>1 DEF LinesOf
      <4>2. file[i].pid \in Pids
        <5>1. i \in DOMAIN file
          BY <3>1 DEF LinesOf, LinesIn
        <5>2. file[i] \in Lines
          BY <1>0, <5>1
        <5>3. QED
          BY <5>2 DEF Lines
      <4>3. QED
        BY <1>0, <1>1, <3>1, <4>1, <4>2
    <3>2. CASE file'[i].pid = c
      BY <1>0, <1>1, <3>2
    <3>3. QED
      BY <1>6, <3>1, <3>2
  <2>2. QED
    BY <2>1 DEF WrittenIfKnown
<1>11. NothingDeferred'
  BY <1>0, <1>1 DEF OrderInv, NothingDeferred
<1>12. ExitPlace'
  <2> SUFFICES ASSUME NEW q \in Pids, NEW i \in LinesOf("exit")', file'[i].pid = q,
                      life[q] \in {"unborn", "alive"} \/ stop'[q] = "exit"
                        \/ pending'[q] # <<>>
               PROVE  FALSE
    BY <1>1 DEF ExitPlace
  <2>1. life[q] \in {"unborn", "alive"} \/ stop[q] = "exit"
          \/ (pending[q] # <<>> /\ q # c)
    BY <1>0, <1>1
  <2>2. CASE i \in LinesOf("exit") /\ file'[i] = file[i]
    BY <2>1, <2>2 DEF OrderInv, ExitPlace
  <2>3. CASE pending[c] # <<>> /\ q = c
    BY <2>1, <2>3 DEF OrderInv, NothingDeferred
  <2>4. QED
    BY <1>6, <2>2, <2>3
<1>13. QED
  BY <1>6, <1>7, <1>8, <1>9, <1>10, <1>11, <1>12 DEF OrderInv

(* An exit stop writes the block of a known pid and defers that of another; *)
(* in both cases the pid had no block anywhere.                             *)
LEMMA HandleExitStep ==
  ASSUME TypeOK, OrderInv, NEW p \in Pids, HandleExit(p)
  PROVE  OrderInv'
<1> DEFINE l == ExitBlock(p)
<1>0. /\ file \in Seq(Lines) /\ pending \in [Pids -> Seq(Lines)]
      /\ known \in [Pids -> BOOLEAN] /\ stop \in [Pids -> Stops]
  BY DEF TypeOK, KernelTypeOK, TracerTypeOK
<1>1. /\ loop = "wait" /\ loop' = "wait" /\ stop[p] = "exit" /\ known' = known
      /\ stop' = [stop EXCEPT ![p] = "none"] /\ life' = life /\ msg' = msg
      /\ \/ known[p] /\ file' = Append(file, l) /\ pending' = pending
         \/ ~known[p] /\ file' = file /\ pending' = [pending EXCEPT ![p] = <<l>>]
  BY DEF HandleExit, Waited, IsKnown, DeferExit, Resume
<1>2. l \in Lines /\ l.kind = "exit" /\ l.pid = p
  BY LineType
<1> HIDE DEF l
<1>3. life[p] = "exiting" /\ pending[p] = <<>>
  BY <1>1 DEF OrderInv, Births, NothingDeferred
<1>4. \A i \in LinesIn(file, "exit") : file[i].pid # p
  BY <1>1 DEF OrderInv, ExitPlace, LinesOf
<1>5. /\ PidOrder'
      /\ \A i \in LinesOf("exit")' :
           \/ i \in LinesOf("exit") /\ file'[i] = file[i]
           \/ known[p] /\ file'[i].pid = p
  <2>1. PidOrderIn(file)
    BY DEF OrderInv, PidOrder
  <2>2. CASE file' = file
    BY <2>1, <2>2 DEF PidOrder, LinesOf
  <2>3. CASE known[p] /\ file' = Append(file, l)
    <3>1. PidOrderIn(Append(file, l))
      BY <1>0, <1>2, <1>4, <2>1, PidOrderExit
    <3>2. \A i \in LinesIn(Append(file, l), "exit") :
             \/ i \in LinesIn(file, "exit") /\ Append(file, l)[i] = file[i]
             \/ Append(file, l)[i].pid = p
      BY <1>0, <1>2, ExitAppended
    <3>3. QED
      BY <2>3, <3>1, <3>2 DEF PidOrder, LinesOf
  <2>4. QED
    BY <1>1, <2>2, <2>3
<1>6. ForkStops'
  BY <1>0, <1>1 DEF OrderInv, ForkStops
<1>7. Births' /\ AllGone'
  BY <1>0, <1>1 DEF OrderInv, Births, AllGone
<1>8. Deferred'
  <2>1. <<l>>[1] = l /\ Len(<<l>>) <= 1
    OBVIOUS
  <2>2. Deferred
    BY DEF OrderInv
  <2>3. ASSUME NEW q \in Pids
        PROVE  /\ Len(pending'[q]) <= 1
               /\ pending'[q] # <<>> => /\ ~known'[q]
                                       /\ pending'[q][1].kind = "exit"
                                       /\ pending'[q][1].pid = q
    <3>1. CASE pending'[q] = pending[q]
      BY <1>1, <2>2, <3>1 DEF Deferred
    <3>2. CASE q = p /\ pending'[q] = <<l>> /\ ~known[p]
      BY <1>1, <1>2, <2>1, <3>2
    <3>3. QED
      BY <1>0, <1>1, <3>1, <3>2
  <2>4. QED
    BY <2>3 DEF Deferred
<1>9. WrittenIfKnown'
  BY <1>1, <1>5 DEF OrderInv, WrittenIfKnown
<1>10. NothingDeferred'
  BY <1>0, <1>1, <1>3 DEF OrderInv, NothingDeferred
<1>11. ExitPlace'
  <2> SUFFICES ASSUME NEW q \in Pids, NEW i \in LinesOf("exit")', file'[i].pid = q,
                      life[q] \in {"unborn", "alive"} \/ stop'[q] = "exit"
                        \/ pending'[q] # <<>>
               PROVE  FALSE
    BY <1>1 DEF ExitPlace
  <2>1. CASE q = p
    <3>1. known[p] => pending'[p] = <<>>
      BY <1>1, <1>3
    <3>2. known[p]
      BY <1>4, <1>5, <2>1 DEF LinesOf
    <3>3. QED
      BY <1>0, <1>1, <1>3, <2>1, <3>1, <3>2
  <2>2. CASE q # p
    <3>1. life[q] \in {"unborn", "alive"} \/ stop[q] = "exit" \/ pending[q] # <<>>
      BY <1>0, <1>1, <2>2
    <3>2. i \in LinesOf("exit") /\ file[i].pid = q
      BY <1>5, <2>2
    <3>3. QED
      BY <3>1, <3>2 DEF OrderInv, ExitPlace
  <2>3. QED
    BY <2>1, <2>2
<1>12. QED
  BY <1>5, <1>6, <1>7, <1>8, <1>9, <1>10, <1>11 DEF OrderInv

(* The final flush writes what is still deferred, which the file lacks. *)
LEMMA FlushStep ==
  ASSUME TypeOK, OrderInv, NEW p \in Pids, FlushPending(p)
  PROVE  OrderInv'
<1> DEFINE b == pending[p]
<1>0. /\ file \in Seq(Lines) /\ pending \in [Pids -> Seq(Lines)] /\ b \in Seq(Lines)
  BY DEF TypeOK, KernelTypeOK, TracerTypeOK
<1>1. /\ loop = "flush" /\ loop' = "flush" /\ known' = known /\ b # <<>>
      /\ stop' = stop /\ life' = life /\ msg' = msg
      /\ file' = file \o b /\ pending' = [pending EXCEPT ![p] = <<>>]
  BY DEF FlushPending, kernelVars
<1>2. /\ Len(b) <= 1 /\ b[1].kind = "exit" /\ b[1].pid = p
      /\ \A i \in LinesIn(file, "exit") : file[i].pid # p
      /\ ~(life[p] \in {"unborn", "alive"} \/ stop[p] = "exit")
  BY <1>1 DEF OrderInv, Deferred, ExitPlace, NothingDeferred, LinesOf
<1> HIDE DEF b
<1>3. b[1] \in Lines /\ file' = Append(file, b[1])
  BY <1>0, <1>1, <1>2, JoinBlock
<1>4. /\ PidOrder'
      /\ \A i \in LinesOf("exit")' :
           (i \in LinesOf("exit") /\ file'[i] = file[i]) \/ file'[i].pid = p
  <2>1. PidOrderIn(Append(file, b[1]))
    BY <1>0, <1>2, <1>3, PidOrderExit DEF OrderInv, PidOrder
  <2>2. \A i \in LinesIn(Append(file, b[1]), "exit") :
           \/ i \in LinesIn(file, "exit") /\ Append(file, b[1])[i] = file[i]
           \/ Append(file, b[1])[i].pid = p
    BY <1>0, <1>2, <1>3, ExitAppended
  <2>3. QED
    BY <1>3, <2>1, <2>2 DEF PidOrder, LinesOf
<1>5. ForkStops' /\ Births' /\ AllGone'
  BY <1>1 DEF OrderInv, ForkStops, Births, AllGone
<1>6. Deferred'
  BY <1>0, <1>1 DEF OrderInv, Deferred
<1>7. WrittenIfKnown'
  BY <1>1 DEF WrittenIfKnown
<1>8. NothingDeferred'
  BY <1>0, <1>1 DEF OrderInv, NothingDeferred
<1>9. ExitPlace'
  BY <1>0, <1>1, <1>2, <1>4 DEF OrderInv, ExitPlace
<1>10. QED
  BY <1>4, <1>5, <1>6, <1>7, <1>8, <1>9 DEF OrderInv

(* The tracer's remaining branches write a plain line or nothing. *)
LEMMA TracerStep ==
  ASSUME TypeOK, TypeOK', OrderInv, NEW p \in Pids, Tracer(p)
  PROVE  OrderInv'
<1>0. file \in Seq(Lines)
  BY DEF TypeOK, TracerTypeOK
<1>1. \A kind \in LineKinds : Line(kind, p) \in Lines /\ Line(kind, p).kind = kind
  BY LineType
<1>2. CASE HandleFork(p)
  BY <1>2, HandleForkStep
<1>3. CASE HandleExit(p)
  BY <1>3, HandleExitStep
<1>4. CASE FlushPending(p)
  BY <1>4, FlushStep
<1>5. CASE HandleNewPid(p)
  BY <1>5, SameFile, QuietStep DEF HandleNewPid, tracerVars
<1>6. CASE HandleExec(p) \/ HandleUnknown(p) \/ HandleSignal(p)
           \/ HandleExited(p) \/ HandleSignaled(p)
  <2>1. PICK kind \in LineKinds \ {"fork", "exit"} : file' = Append(file, Line(kind, p))
    BY <1>6 DEF HandleExec, HandleUnknown, HandleSignal, HandleExited,
                HandleSignaled, LineKinds
  <2>2. FileKept
    BY <1>0, <1>1, <2>1, PlainLine
  <2>3. /\ loop' = loop /\ known' = known /\ pending' = pending
        /\ Resume(p) \/ Reap(p)
    BY <1>6 DEF HandleExec, HandleUnknown, HandleSignal, HandleExited, HandleSignaled
  <2>4. QED
    BY <2>2, <2>3, QuietStep
<1>7. QED
  BY <1>2, <1>3, <1>4, <1>5, <1>6 DEF Tracer

LEMMA OrderInit ==
  Init => OrderInv
<1> SUFFICES ASSUME Init PROVE OrderInv
  OBVIOUS
<1>1. LinesOf("exit") = {} /\ LinesOf("fork") = {}
  BY DEF Init, LinesOf, LinesIn, Line
<1>2. ForkStops /\ Births /\ AllGone /\ NothingDeferred
  BY RootAssumption DEF Init, ForkStops, Births, AllGone, NothingDeferred
<1>3. Deferred
  <2>1. Len(<<>>) <= 1 /\ \A p \in Pids : pending[p] = <<>>
    BY DEF Init
  <2>2. QED
    BY <2>1 DEF Deferred
<1>4. WrittenIfKnown /\ ExitPlace /\ PidOrder
  BY <1>1 DEF WrittenIfKnown, ExitPlace, PidOrder, PidOrderIn, LinesOf
<1>5. QED
  BY <1>2, <1>3, <1>4 DEF OrderInv

(* The inductive invariant: as long as the kernel reuses no pid, it holds for *)
(* any pids and bounds, with or without SIGKILL and repeated --target matches. *)
THEOREM OrderCorrect ==
  ASSUME ~PidReuse
  PROVE  Spec => []OrderInv
<1>1. TypeOK /\ TypeOK' /\ OrderInv /\ [Next]_vars => OrderInv'
  <2> SUFFICES ASSUME TypeOK, TypeOK', OrderInv, [Next]_vars
               PROVE  OrderInv'
    OBVIOUS
  <2>1. ASSUME NEW p \in Pids, Tracer(p) PROVE OrderInv'
    BY <2>1, TracerStep
  <2>2. ASSUME NEW p \in Pids, Workload(p) PROVE OrderInv'
    BY <2>2, WorkloadStep
  <2>3. CASE NoMoreChildren \/ WriteSummary
    <3>1. /\ life' = life /\ stop' = stop /\ msg' = msg /\ known' = known
          /\ pending' = pending /\ file' = file /\ loop' # "wait"
          /\ \A p \in Pids : life[p] \in {"unborn", "reaped"}
      BY <2>3 DEF NoMoreChildren, WriteSummary, kernelVars, OrderInv, AllGone
    <3>2. QED
      BY <3>1 DEF OrderInv, ForkStops, Births, AllGone, Deferred, WrittenIfKnown,
                  ExitPlace, NothingDeferred, PidOrder, LinesOf
  <2>4. CASE UNCHANGED vars
    BY <2>4 DEF vars, kernelVars, tracerVars, OrderInv, ForkStops, Births, AllGone,
                Deferred, WrittenIfKnown, ExitPlace, NothingDeferred, PidOrder, LinesOf
  <2>5. QED
    BY <2>1, <2>2, <2>3, <2>4 DEF Next, Finished
<1>2. QED
  BY <1>1, OrderInit, TypeCorrect, PTL DEF Spec

(* Every fork line comes before the exit block of the process it names, and no *)
(* process has two exit blocks, whatever order wait4 delivers the stops in.    *)
THEOREM NamedBeforeExit ==
  ASSUME ~PidReuse
  PROVE  Spec => [](ForkBeforeExit /\ OneExitBlock)
<1>1. OrderInv => ForkBeforeExit /\ OneExitBlock
  BY DEF OrderInv, PidOrder, PidOrderIn, ForkBeforeExit, OneExitBlock, LinesOf
<1>2. QED
  BY <1>1, OrderCorrect, PTL

-----------------------------------------------------------------------------
(* While no image matches --target twice in a process, a pid's list never      *)
(* holds more than the one group it has open: what CountersClosedAtExit needs. *)
FewGroups(f) == \A i \in DOMAIN f : f[i].groups \in {0, 1}

CounterInv ==
  /\ \A p \in Pids :
       /\ open[p] = target[p] /\ target[p] \in {0, 1}
       /\ stop[p] = "exec" => life[p] = "alive" /\ (matches[p] => target[p] = 0)
       /\ life[p] = "exiting" /\ stop[p] # "exit" => target[p] = 0
       /\ FewGroups(pending[p])
  /\ FewGroups(file)

LEMMA GroupsWritten ==
  ASSUME NEW s \in Seq(Lines), FewGroups(s)
  PROVE  /\ \A l \in Lines : l.groups \in {0, 1} =>
              FewGroups(Append(s, l)) /\ FewGroups(<<l>>)
         /\ \A t \in Seq(Lines) : FewGroups(t) => FewGroups(s \o t)
<1>1. ASSUME NEW l \in Lines, l.groups \in {0, 1}
      PROVE  FewGroups(Append(s, l)) /\ FewGroups(<<l>>)
  <2>1. FewGroups(Append(s, l))
    BY <1>1, Appended DEF FewGroups
  <2>2. QED
    BY <1>1, <2>1 DEF FewGroups
<1>2. ASSUME NEW t \in Seq(Lines), FewGroups(t) PROVE FewGroups(s \o t)
  <2> SUFFICES ASSUME NEW i \in DOMAIN (s \o t) PROVE (s \o t)[i].groups \in {0, 1}
    BY DEF FewGroups
  <2>1. CASE i \in 1 .. Len(s)
    BY <2>1, Concatenated DEF FewGroups
  <2>2. CASE i \notin 1 .. Len(s)
    <3>1. PICK k \in 1 .. Len(t) : i = Len(s) + k
      <4>1. i \in 1 .. Len(s) + Len(t) /\ Len(s) \in Nat /\ Len(t) \in Nat
        BY Concatenated
      <4>2. i - Len(s) \in 1 .. Len(t) /\ i = Len(s) + (i - Len(s))
        BY <2>2, <4>1
      <4>3. QED
        BY <4>2
    <3>2. (s \o t)[i] = t[k] /\ k \in DOMAIN t
      BY <3>1, Concatenated
    <3>3. QED
      BY <1>2, <3>2 DEF FewGroups
  <2>3. QED
    BY <2>1, <2>2
<1>3. QED
  BY <1>1, <1>2

LEMMA GroupsOf ==
  \A p, c \in Pids, kind \in LineKinds :
    Line(kind, p).groups = 0 /\ ForkLine(p, c).groups = 0 /\ ExitBlock(p).groups = target[p]
BY DEF Line, ForkLine, ExitBlock

(* What a step does to the counters and the stops, its lines aside. *)
LEMMA CounterWorkload ==
  ASSUME TypeOK, CounterInv, ~Rematch, NEW p \in Pids, Workload(p)
  PROVE  CounterInv'
<1>1. UNCHANGED tracerVars
  BY DEF Workload, Fork, Exec, Noise, Exit, Die, Kill
<1>2. FewGroups(file)' /\ \A q \in Pids : FewGroups(pending[q])'
  BY <1>1 DEF CounterInv, FewGroups, tracerVars
<1>3. /\ life \in [Pids -> Lives] /\ stop \in [Pids -> Stops] /\ matches \in [Pids -> BOOLEAN]
  BY DEF TypeOK, KernelTypeOK
<1>4. ASSUME NEW q \in Pids
      PROVE  /\ stop'[q] = "exec" => life'[q] = "alive" /\ (matches'[q] => target[q] = 0)
             /\ life'[q] = "exiting" /\ stop'[q] # "exit" => target[q] = 0
  <2>1. /\ stop[q] = "exec" => life[q] = "alive" /\ (matches[q] => target[q] = 0)
        /\ life[q] = "exiting" /\ stop[q] # "exit" => target[q] = 0
    BY DEF CounterInv
  <2>2. ASSUME NEW c \in Pids, Fork(p, c)
        PROVE  /\ stop'[q] = "exec" => life'[q] = "alive" /\ (matches'[q] => target[q] = 0)
               /\ life'[q] = "exiting" /\ stop'[q] # "exit" => target[q] = 0
    BY <1>3, <2>1, <2>2 DEF Fork, Running
  <2>3. CASE Exec(p)
    BY <1>3, <2>1, <2>3 DEF Exec, Running
  <2>4. CASE Noise(p)
    BY <1>3, <2>1, <2>4 DEF Noise, Running
  <2>5. CASE Exit(p)
    BY <1>3, <2>1, <2>5 DEF Exit, Running
  <2>6. CASE Die(p)
    BY <1>3, <2>1, <2>6 DEF Die
  <2>7. CASE Kill(p)
    BY <1>3, <2>1, <2>7 DEF Kill
  <2>8. QED
    BY <2>2, <2>3, <2>4, <2>5, <2>6, <2>7 DEF Workload
<1>5. \A q \in Pids : open'[q] = target'[q] /\ target'[q] \in {0, 1} /\ target'[q] = target[q]
  BY <1>1 DEF CounterInv, tracerVars
<1>6. QED
  BY <1>2, <1>4, <1>5 DEF CounterInv

LEMMA CounterTracer ==
  ASSUME TypeOK, CounterInv, NEW p \in Pids, Tracer(p)
  PROVE  CounterInv'
<1>1. /\ file \in Seq(Lines) /\ pending \in [Pids -> Seq(Lines)] /\ msg \in [Pids -> Pids]
      /\ stop \in [Pids -> Stops] /\ life \in [Pids -> Lives]
      /\ open \in [Pids -> Nat] /\ target \in [Pids -> Nat]
  BY DEF TypeOK, KernelTypeOK, TracerTypeOK
<1>2. FewGroups(file) /\ \A q \in Pids : FewGroups(pending[q])
  BY DEF CounterInv
<1>3. \A q \in Pids : open[q] = target[q] /\ target[q] \in {0, 1}
  BY DEF CounterInv
<1>l. /\ \A kind \in LineKinds : Line(kind, p) \in Lines /\ Line(kind, p).groups \in {0, 1}
      /\ \A c \in Pids : ForkLine(p, c) \in Lines /\ ForkLine(p, c).groups \in {0, 1}
      /\ ExitBlock(p) \in Lines /\ ExitBlock(p).groups \in {0, 1}
  <2>1. /\ \A kind \in LineKinds : Line(kind, p) \in Lines
        /\ \A c \in Pids : ForkLine(p, c) \in Lines
        /\ ExitBlock(p) \in Lines
    BY LineType
  <2>2. \A kind \in LineKinds, c \in Pids :
           Line(kind, p).groups = 0 /\ ForkLine(p, c).groups = 0
    BY GroupsOf
  <2>3. "exit" \in LineKinds
    BY DEF LineKinds
  <2>4. \A c \in Pids : ForkLine(p, c).groups = 0
    BY <2>2, <2>3
  <2>5. ExitBlock(p).groups = target[p] /\ target[p] \in {0, 1}
    BY <1>3, <2>3, GroupsOf
  <2>6. QED
    BY <2>1, <2>2, <2>4, <2>5
<1>e. FewGroups(<<>>)
  BY DEF FewGroups
<1>4. FewGroups(file)' /\ \A q \in Pids : FewGroups(pending[q])'
  <2>1. CASE HandleFork(p)
    <3>1. PICK c \in Pids : c = msg[p]
      BY <1>1
    <3>2. /\ file' = Append(file, ForkLine(p, c)) \o pending[c]
          /\ pending' = [pending EXCEPT ![c] = <<>>]
      BY <2>1, <3>1 DEF HandleFork, MarkKnown
    <3>3. /\ FewGroups(Append(file, ForkLine(p, c)))
          /\ Append(file, ForkLine(p, c)) \in Seq(Lines) /\ pending[c] \in Seq(Lines)
      BY <1>1, <1>2, <1>l, GroupsWritten, Appended
    <3>4. FewGroups(file')
      BY <1>2, <3>2, <3>3, GroupsWritten
    <3>5. \A q \in Pids : FewGroups(pending'[q])
      BY <1>1, <1>2, <1>e, <3>2
    <3>6. QED
      BY <3>4, <3>5 DEF FewGroups
  <2>2. CASE HandleExit(p)
    <3>1. FewGroups(Append(file, ExitBlock(p))) /\ FewGroups(<<ExitBlock(p)>>)
      BY <1>1, <1>2, <1>l, GroupsWritten
    <3>2. \/ file' = Append(file, ExitBlock(p)) /\ pending' = pending
          \/ file' = file /\ pending' = [pending EXCEPT ![p] = <<ExitBlock(p)>>]
      BY <2>2 DEF HandleExit, DeferExit
    <3>3. FewGroups(file') /\ \A q \in Pids : FewGroups(pending'[q])
      BY <1>1, <1>2, <3>1, <3>2
    <3>4. QED
      BY <3>3 DEF FewGroups
  <2>3. CASE FlushPending(p)
    <3>1. file' = file \o pending[p] /\ pending' = [pending EXCEPT ![p] = <<>>]
      BY <2>3 DEF FlushPending
    <3>2. FewGroups(file') /\ \A q \in Pids : FewGroups(pending'[q])
      BY <1>1, <1>2, <1>e, <3>1, GroupsWritten
    <3>3. QED
      BY <3>2 DEF FewGroups
  <2>4. CASE HandleNewPid(p)
    BY <1>2, <2>4 DEF HandleNewPid, tracerVars, FewGroups
  <2>5. CASE HandleExec(p) \/ HandleUnknown(p) \/ HandleSignal(p)
             \/ HandleExited(p) \/ HandleSignaled(p)
    <3>1. PICK kind \in LineKinds : file' = Append(file, Line(kind, p)) /\ pending' = pending
      BY <2>5 DEF HandleExec, HandleUnknown, HandleSignal, HandleExited,
                  HandleSignaled, LineKinds
    <3>2. FewGroups(file') /\ \A q \in Pids : FewGroups(pending'[q])
      BY <1>1, <1>2, <1>l, <3>1, GroupsWritten
    <3>3. QED
      BY <3>2 DEF FewGroups
  <2>6. QED
    BY <2>1, <2>2, <2>3, <2>4, <2>5 DEF Tracer
<1>5. \A q \in Pids : open'[q] = target'[q] /\ target'[q] \in {0, 1}
  <2>1. CASE HandleExit(p)
    BY <1>1, <1>3, <2>1 DEF HandleExit, CloseTarget
  <2>2. CASE HandleExec(p)
    <3>1. matches[p] => target[p] = 0 /\ open[p] = 0
      BY <1>3, <2>2 DEF HandleExec, Waited, CounterInv
    <3>2. CASE matches[p]
      <4>1. target' = [target EXCEPT ![p] = 1] /\ open' = [open EXCEPT ![p] = 1]
        BY <1>1, <2>2, <3>1, <3>2 DEF HandleExec, AttachTarget
      <4>2. QED
        BY <1>1, <1>3, <4>1
    <3>3. CASE ~matches[p]
      BY <1>3, <2>2, <3>3 DEF HandleExec
    <3>4. QED
      BY <3>2, <3>3
  <2>3. CASE ~HandleExit(p) /\ ~HandleExec(p)
    <3>1. target' = target /\ open' = open
      BY <2>3 DEF Tracer, HandleFork, HandleUnknown, HandleNewPid, HandleSignal,
                  HandleExited, HandleSignaled, FlushPending, tracerVars
    <3>2. QED
      BY <1>3, <3>1
  <2>4. QED
    BY <2>1, <2>2, <2>3
<1>6. ASSUME NEW q \in Pids
      PROVE  /\ stop'[q] = "exec" => life'[q] = "alive" /\ (matches'[q] => target'[q] = 0)
             /\ life'[q] = "exiting" /\ stop'[q] # "exit" => target'[q] = 0
  <2>1. /\ stop[q] = "exec" => life[q] = "alive" /\ (matches[q] => target[q] = 0)
        /\ life[q] = "exiting" /\ stop[q] # "exit" => target[q] = 0
    BY DEF CounterInv
  <2>2. /\ matches' = matches
        /\ q # p => stop'[q] = stop[q] /\ life'[q] = life[q] /\ target'[q] = target[q]
    BY <1>1 DEF Tracer, HandleFork, HandleExit, HandleExec, HandleUnknown, HandleNewPid,
                HandleSignal, HandleExited, HandleSignaled, FlushPending, Resume, Reap,
                CloseTarget, AttachTarget, tracerVars, kernelVars
  <2>3. CASE q # p
    BY <2>1, <2>2, <2>3
  <2>4. CASE q = p /\ FlushPending(p)
    BY <2>1, <2>4 DEF FlushPending, kernelVars
  <2>5. CASE q = p /\ (HandleExited(p) \/ HandleSignaled(p))
    BY <1>1, <2>5 DEF HandleExited, HandleSignaled, Reap
  <2>6. CASE q = p /\ HandleExit(p)
    BY <1>1, <2>6 DEF HandleExit, CloseTarget, Resume
  <2>7. CASE q = p /\ HandleExec(p)
    BY <1>1, <2>1, <2>7 DEF HandleExec, Waited, Resume
  <2>8. CASE q = p /\ (HandleFork(p) \/ HandleUnknown(p) \/ HandleNewPid(p) \/ HandleSignal(p))
    <3>1. stop[p] # "exit" /\ stop'[p] = "none" /\ life' = life /\ target' = target
      BY <1>1, <2>8 DEF HandleFork, HandleUnknown, HandleNewPid, HandleSignal, Waited,
                        Resume, tracerVars
    <3>2. QED
      BY <2>1, <2>8, <3>1
  <2>9. QED
    BY <2>3, <2>4, <2>5, <2>6, <2>7, <2>8 DEF Tracer
<1>7. QED
  BY <1>4, <1>5, <1>6 DEF CounterInv

(* The counters of a process are closed once its exit stop has been handled,   *)
(* and its block prints no group twice, for any pids and bounds, with or       *)
(* without SIGKILL and pid reuse, while no process matches --target twice.     *)
THEOREM ClosedAtExit ==
  ASSUME ~Rematch
  PROVE  Spec => []CountersClosedAtExit
<1>1. Init => CounterInv
  BY DEF Init, CounterInv, FewGroups, Line
<1>2. TypeOK /\ CounterInv /\ [Next]_vars => CounterInv'
  <2> SUFFICES ASSUME TypeOK, CounterInv, [Next]_vars PROVE CounterInv'
    OBVIOUS
  <2>1. ASSUME NEW p \in Pids, Tracer(p) PROVE CounterInv'
    BY <2>1, CounterTracer
  <2>2. ASSUME NEW p \in Pids, Workload(p) PROVE CounterInv'
    BY <2>2, CounterWorkload
  <2>3. CASE NoMoreChildren \/ WriteSummary \/ UNCHANGED vars
    <3>1. /\ file' = file /\ pending' = pending /\ open' = open /\ target' = target
          /\ stop' = stop /\ life' = life /\ matches' = matches
      BY <2>3 DEF NoMoreChildren, WriteSummary, vars, kernelVars, tracerVars
    <3>2. QED
      BY <3>1 DEF CounterInv, FewGroups
  <2>4. QED
    BY <2>1, <2>2, <2>3 DEF Next, Finished
<1>3. TypeOK /\ CounterInv => CountersClosedAtExit
  BY DEF CounterInv, FewGroups, CountersClosedAtExit, LinesOf, LinesIn
<1>4. QED
  BY <1>1, <1>2, <1>3, TypeCorrect, PTL DEF Spec

-----------------------------------------------------------------------------
(* The footer counts what the file and the table hold: OrderInv says that a    *)
(* block is never written over another one in the table.                       *)
Waiting == {p \in Pids : pending[p] # <<>>}

FooterInv ==
  /\ IsFiniteSet(Waiting)
  /\ fork_events = Cardinality(LinesOf("fork"))
  /\ exit_events = Cardinality(LinesOf("exit")) + Cardinality(Waiting)
  /\ exec_events = Cardinality(LinesOf("exec"))
  /\ unknown_traps = Cardinality(LinesOf("unknown"))
  /\ loop = "done" => Waiting = {}

CountOf(f, k) == Cardinality(LinesIn(f, k))

LEMMA LinesFinite ==
  ASSUME NEW f \in Seq(Lines), NEW k
  PROVE  IsFiniteSet(LinesIn(f, k)) /\ CountOf(f, k) \in Nat
<1>1. DOMAIN f = 1 .. Len(f) /\ Len(f) \in Nat
  OBVIOUS
<1>2. IsFiniteSet(1 .. Len(f))
  BY <1>1, FS_Interval
<1>3. LinesIn(f, k) \in SUBSET (1 .. Len(f))
  BY <1>1 DEF LinesIn
<1>4. IsFiniteSet(LinesIn(f, k))
  BY <1>2, <1>3, FS_Subset
<1>5. QED
  BY <1>4, FS_CardinalityType DEF CountOf

LEMMA CountAppended ==
  ASSUME NEW f \in Seq(Lines), NEW l \in Lines, NEW k
  PROVE  CountOf(Append(f, l), k) = IF l.kind = k THEN CountOf(f, k) + 1 ELSE CountOf(f, k)
<1>1. IsFiniteSet(LinesIn(f, k))
  BY LinesFinite
<1>2. Len(f) + 1 \notin LinesIn(f, k)
  BY Appended DEF LinesIn
<1>3. CASE l.kind = k
  <2>1. LinesIn(Append(f, l), k) = LinesIn(f, k) \cup {Len(f) + 1}
    BY <1>3, Appended DEF LinesIn
  <2>2. Cardinality(LinesIn(f, k) \cup {Len(f) + 1}) = Cardinality(LinesIn(f, k)) + 1
    BY <1>1, <1>2, FS_AddElement
  <2>3. QED
    BY <1>3, <2>1, <2>2 DEF CountOf
<1>4. CASE l.kind # k
  <2>1. LinesIn(Append(f, l), k) = LinesIn(f, k)
    BY <1>4, Appended DEF LinesIn
  <2>2. QED
    BY <1>4, <2>1 DEF CountOf
<1>5. QED
  BY <1>3, <1>4

(* A line of another kind than fork and exit. *)
LEMMA FooterPlain ==
  ASSUME TypeOK, FooterInv, NEW p \in Pids, NEW kind \in LineKinds \ {"fork", "exit"},
         file' = Append(file, Line(kind, p)), pending' = pending, loop' = loop,
         fork_events' = fork_events, exit_events' = exit_events,
         exec_events' = IF kind = "exec" THEN exec_events + 1 ELSE exec_events,
         unknown_traps' = IF kind = "unknown" THEN unknown_traps + 1 ELSE unknown_traps
  PROVE  FooterInv'
<1>1. file \in Seq(Lines) /\ Line(kind, p) \in Lines /\ Line(kind, p).kind = kind
  BY LineType DEF TypeOK, TracerTypeOK
<1>2. \A k \in LineKinds : CountOf(file', k) = IF kind = k THEN CountOf(file, k) + 1
                                                          ELSE CountOf(file, k)
  BY <1>1, CountAppended
<1>3. Waiting' = Waiting
  BY DEF Waiting
<1>4. {"fork", "exit", "exec", "unknown"} \subseteq LineKinds
  BY DEF LineKinds
<1>5. /\ fork_events = CountOf(file, "fork")
      /\ exit_events = CountOf(file, "exit") + Cardinality(Waiting)
      /\ exec_events = CountOf(file, "exec")
      /\ unknown_traps = CountOf(file, "unknown")
  BY DEF FooterInv, CountOf, LinesOf
<1>6. /\ fork_events' = CountOf(file', "fork")
      /\ exit_events' = CountOf(file', "exit") + Cardinality(Waiting)
      /\ exec_events' = CountOf(file', "exec")
      /\ unknown_traps' = CountOf(file', "unknown")
  BY <1>2, <1>4, <1>5
<1>7. QED
  BY <1>3, <1>6 DEF FooterInv, CountOf, LinesOf

(* The fork line of c, and the block of c that was waiting for it. *)
LEMMA FooterFork ==
  ASSUME TypeOK, OrderInv, FooterInv, NEW p \in Pids, HandleFork(p)
  PROVE  FooterInv'
<1>1. PICK c \in Pids : c = msg[p]
  BY DEF TypeOK, KernelTypeOK
<1>2. /\ file' = Append(file, ForkLine(p, c)) \o pending[c]
      /\ pending' = [pending EXCEPT ![c] = <<>>]
      /\ fork_events' = fork_events + 1
      /\ exit_events' = exit_events /\ exec_events' = exec_events
      /\ unknown_traps' = unknown_traps /\ loop' = "wait"
  BY <1>1 DEF HandleFork, MarkKnown, Waited
<1>3. file \in Seq(Lines) /\ pending \in [Pids -> Seq(Lines)] /\ pending[c] \in Seq(Lines)
  BY DEF TypeOK, TracerTypeOK
<1>4. PICK l \in Lines : l = ForkLine(p, c) /\ l.kind = "fork"
  BY LineType
<1>5. PICK g \in Seq(Lines) : g = Append(file, l)
  BY <1>3, Appended
<1>6. \A k \in LineKinds : CountOf(g, k) = IF k = "fork" THEN CountOf(file, k) + 1
                                                        ELSE CountOf(file, k)
  BY <1>3, <1>4, <1>5, CountAppended
<1>7. {"fork", "exit", "exec", "unknown"} \subseteq LineKinds
  BY DEF LineKinds
<1>8. /\ IsFiniteSet(Waiting)
      /\ fork_events = CountOf(file, "fork")
      /\ exit_events = CountOf(file, "exit") + Cardinality(Waiting)
      /\ exec_events = CountOf(file, "exec")
      /\ unknown_traps = CountOf(file, "unknown")
  BY DEF FooterInv, CountOf, LinesOf
<1>9. Waiting' = Waiting \ {c}
  BY <1>2, <1>3 DEF Waiting
<1>10. \A k \in LineKinds : CountOf(file, k) \in Nat
  BY <1>3, LinesFinite
<1>11. IsFiniteSet(Waiting')
  BY <1>8, <1>9, FS_RemoveElement
<1>12. /\ fork_events' = CountOf(file', "fork")
       /\ exit_events' = CountOf(file', "exit") + Cardinality(Waiting')
       /\ exec_events' = CountOf(file', "exec")
       /\ unknown_traps' = CountOf(file', "unknown")
  <2>1. CASE pending[c] = <<>>
    <3>1. file' = g
      BY <1>2, <1>4, <1>5, <2>1
    <3>2. Waiting' = Waiting
      BY <1>9, <2>1 DEF Waiting
    <3>3. QED
      BY <1>2, <1>6, <1>7, <1>8, <3>1, <3>2
  <2>2. CASE pending[c] # <<>>
    <3>1. Len(pending[c]) <= 1 /\ pending[c][1].kind = "exit"
      BY <2>2 DEF OrderInv, Deferred
    <3>2. PICK b \in Lines : b = pending[c][1] /\ g \o pending[c] = Append(g, b)
      BY <1>3, <1>5, <2>2, <3>1, JoinBlock
    <3>3. file' = Append(g, b)
      BY <1>2, <1>4, <1>5, <3>2
    <3>4. \A k \in LineKinds : CountOf(file', k) = IF k = "exit" THEN CountOf(g, k) + 1
                                                               ELSE CountOf(g, k)
      BY <3>1, <3>2, <3>3, CountAppended
    <3>5. c \in Waiting
      BY <2>2 DEF Waiting
    <3>6. Cardinality(Waiting') = Cardinality(Waiting) - 1 /\ Cardinality(Waiting) \in Nat
      BY <1>8, <1>9, <3>5, FS_RemoveElement, FS_CardinalityType
    <3>7. /\ CountOf(file', "fork") = CountOf(file, "fork") + 1
          /\ CountOf(file', "exit") = CountOf(file, "exit") + 1
          /\ CountOf(file', "exec") = CountOf(file, "exec")
          /\ CountOf(file', "unknown") = CountOf(file, "unknown")
      BY <1>6, <1>7, <3>4
    <3>8. CountOf(file, "exit") \in Nat
      BY <1>7, <1>10
    <3>9. QED
      BY <1>2, <1>8, <3>6, <3>7, <3>8
  <2>3. QED
    BY <2>1, <2>2
<1>13. QED
  BY <1>2, <1>11, <1>12 DEF FooterInv, CountOf, LinesOf

(* An exit block is written, or waits where none waits. *)
LEMMA FooterExit ==
  ASSUME TypeOK, OrderInv, FooterInv, NEW p \in Pids, HandleExit(p)
  PROVE  FooterInv'
<1>1. PICK l \in Lines : l = ExitBlock(p) /\ l.kind = "exit"
  BY LineType
<1>2. /\ \/ file' = Append(file, l) /\ pending' = pending
         \/ file' = file /\ pending' = [pending EXCEPT ![p] = <<l>>]
      /\ fork_events' = fork_events
      /\ exit_events' = exit_events + 1 /\ exec_events' = exec_events
      /\ unknown_traps' = unknown_traps /\ loop' = "wait"
  BY <1>1 DEF HandleExit, DeferExit, Waited
<1>3. file \in Seq(Lines) /\ pending \in [Pids -> Seq(Lines)]
  BY DEF TypeOK, TracerTypeOK
<1>4. pending[p] = <<>>
  BY DEF HandleExit, Waited, OrderInv, NothingDeferred
<1>5. /\ IsFiniteSet(Waiting)
      /\ fork_events = CountOf(file, "fork")
      /\ exit_events = CountOf(file, "exit") + Cardinality(Waiting)
      /\ exec_events = CountOf(file, "exec")
      /\ unknown_traps = CountOf(file, "unknown")
  BY DEF FooterInv, CountOf, LinesOf
<1>6. {"fork", "exit", "exec", "unknown"} \subseteq LineKinds
  BY DEF LineKinds
<1>7. \A k \in LineKinds : CountOf(file, k) \in Nat
  BY <1>3, LinesFinite
<1>8. Cardinality(Waiting) \in Nat
  BY <1>5, FS_CardinalityType
<1>n. CountOf(file, "exit") \in Nat
  BY <1>6, <1>7
<1>9. CASE file' = Append(file, l) /\ pending' = pending
  <2>1. \A k \in LineKinds : CountOf(file', k) = IF k = "exit" THEN CountOf(file, k) + 1
                                                             ELSE CountOf(file, k)
    BY <1>1, <1>3, <1>9, CountAppended
  <2>2. /\ CountOf(file', "fork") = CountOf(file, "fork")
        /\ CountOf(file', "exit") = CountOf(file, "exit") + 1
        /\ CountOf(file', "exec") = CountOf(file, "exec")
        /\ CountOf(file', "unknown") = CountOf(file, "unknown")
    BY <1>6, <2>1
  <2>3. Waiting' = Waiting
    BY <1>9 DEF Waiting
  <2>4. exit_events' = CountOf(file', "exit") + Cardinality(Waiting)
    BY <1>2, <1>5, <1>8, <1>n, <2>2
  <2>5. QED
    BY <1>2, <1>5, <2>2, <2>3, <2>4 DEF FooterInv, CountOf, LinesOf
<1>10. CASE file' = file /\ pending' = [pending EXCEPT ![p] = <<l>>]
  <2>1. Waiting' = Waiting \cup {p} /\ p \notin Waiting
    <3>1. <<l>> # <<>>
      OBVIOUS
    <3>2. \A q \in Pids : pending'[q] # <<>> <=> q = p \/ pending[q] # <<>>
      BY <1>3, <1>10, <3>1
    <3>3. QED
      BY <1>4, <3>2 DEF Waiting
  <2>2. IsFiniteSet(Waiting') /\ Cardinality(Waiting') = Cardinality(Waiting) + 1
    BY <1>5, <2>1, FS_AddElement
  <2>3. exit_events' = CountOf(file, "exit") + Cardinality(Waiting')
    BY <1>2, <1>5, <1>8, <1>n, <2>2
  <2>4. QED
    BY <1>2, <1>5, <1>10, <2>2, <2>3 DEF FooterInv, CountOf, LinesOf
<1>11. QED
  BY <1>2, <1>9, <1>10

LEMMA FooterFlush ==
  ASSUME TypeOK, OrderInv, FooterInv, NEW p \in Pids, FlushPending(p)
  PROVE  FooterInv'
<1>1. /\ loop = "flush" /\ loop' = loop /\ pending[p] # <<>>
      /\ file' = file \o pending[p] /\ pending' = [pending EXCEPT ![p] = <<>>]
      /\ fork_events' = fork_events /\ exit_events' = exit_events
      /\ exec_events' = exec_events /\ unknown_traps' = unknown_traps
  BY DEF FlushPending, events
<1>2. /\ file \in Seq(Lines) /\ pending \in [Pids -> Seq(Lines)] /\ pending[p] \in Seq(Lines)
      /\ Len(pending[p]) <= 1 /\ pending[p][1].kind = "exit"
  BY <1>1 DEF TypeOK, TracerTypeOK, OrderInv, Deferred
<1>3. PICK b \in Lines : b = pending[p][1] /\ file' = Append(file, b)
  BY <1>1, <1>2, JoinBlock
<1>4. /\ IsFiniteSet(Waiting)
      /\ fork_events = CountOf(file, "fork")
      /\ exit_events = CountOf(file, "exit") + Cardinality(Waiting)
      /\ exec_events = CountOf(file, "exec")
      /\ unknown_traps = CountOf(file, "unknown")
  BY DEF FooterInv, CountOf, LinesOf
<1>5. {"fork", "exit", "exec", "unknown"} \subseteq LineKinds
  BY DEF LineKinds
<1>6. \A k \in LineKinds : CountOf(file', k) = IF k = "exit" THEN CountOf(file, k) + 1
                                                           ELSE CountOf(file, k)
  BY <1>2, <1>3, CountAppended
<1>7. /\ CountOf(file', "fork") = CountOf(file, "fork")
      /\ CountOf(file', "exit") = CountOf(file, "exit") + 1
      /\ CountOf(file', "exec") = CountOf(file, "exec")
      /\ CountOf(file', "unknown") = CountOf(file, "unknown")
  BY <1>5, <1>6
<1>8. Waiting' = Waiting \ {p} /\ p \in Waiting
  BY <1>1, <1>2 DEF Waiting
<1>9. /\ IsFiniteSet(Waiting') /\ Cardinality(Waiting') = Cardinality(Waiting) - 1
      /\ Cardinality(Waiting) \in Nat
  BY <1>4, <1>8, FS_RemoveElement, FS_CardinalityType
<1>10. CountOf(file, "exit") \in Nat
  BY <1>2, LinesFinite
<1>11. exit_events' = CountOf(file', "exit") + Cardinality(Waiting')
  BY <1>1, <1>4, <1>7, <1>9, <1>10
<1>12. QED
  BY <1>1, <1>4, <1>7, <1>9, <1>11 DEF FooterInv, CountOf, LinesOf

LEMMA FooterTracer ==
  ASSUME TypeOK, OrderInv, FooterInv, NEW p \in Pids, Tracer(p)
  PROVE  FooterInv'
<1>1. CASE HandleFork(p)
  BY <1>1, FooterFork
<1>2. CASE HandleExit(p)
  BY <1>2, FooterExit
<1>3. CASE FlushPending(p)
  BY <1>3, FooterFlush
<1>4. CASE HandleNewPid(p)
  BY <1>4 DEF HandleNewPid, tracerVars, events, FooterInv, Waiting, LinesOf
<1>5. CASE HandleExec(p)
  <2>1. "exec" \in LineKinds \ {"fork", "exit"}
    BY DEF LineKinds
  <2>2. QED
    BY <1>5, <2>1, FooterPlain DEF HandleExec
<1>6. CASE HandleUnknown(p)
  <2>1. "unknown" \in LineKinds \ {"fork", "exit"}
    BY DEF LineKinds
  <2>2. QED
    BY <1>6, <2>1, FooterPlain DEF HandleUnknown
<1>7. CASE HandleSignal(p) \/ HandleExited(p) \/ HandleSignaled(p)
  <2>1. PICK kind \in {"signal", "exited", "killed"} :
           /\ file' = Append(file, Line(kind, p)) /\ pending' = pending /\ loop' = loop
           /\ UNCHANGED events
    BY <1>7 DEF HandleSignal, HandleExited, HandleSignaled
  <2>2. kind \in LineKinds \ {"fork", "exit", "exec", "unknown"}
    BY DEF LineKinds
  <2>3. QED
    BY <2>1, <2>2, FooterPlain DEF events
<1>8. QED
  BY <1>1, <1>2, <1>3, <1>4, <1>5, <1>6, <1>7 DEF Tracer

(* The footer's counts are those of the lines above it: no deferred block is   *)
(* lost or written twice, for any pids and bounds, with or without SIGKILL,    *)
(* while the kernel reuses no pid.                                             *)
THEOREM FooterCorrect ==
  ASSUME ~PidReuse
  PROVE  Spec => []FooterMatchesFile
<1>1. Init => FooterInv
  <2> SUFFICES ASSUME Init PROVE FooterInv
    OBVIOUS
  <2>1. /\ LinesOf("fork") = {} /\ LinesOf("exit") = {}
        /\ LinesOf("exec") = {} /\ LinesOf("unknown") = {}
    BY DEF Init, LinesOf, LinesIn, Line
  <2>2. Waiting = {}
    BY DEF Init, Waiting
  <2>3. IsFiniteSet({}) /\ Cardinality({}) = 0
    BY FS_EmptySet
  <2>4. /\ fork_events = 0 /\ exit_events = 0 /\ exec_events = 0 /\ unknown_traps = 0
        /\ loop # "done"
    BY DEF Init
  <2>5. QED
    BY ONLY <2>1, <2>2, <2>3, <2>4 DEF FooterInv
<1>2. TypeOK /\ OrderInv /\ FooterInv /\ [Next]_vars => FooterInv'
  <2> SUFFICES ASSUME TypeOK, OrderInv, FooterInv, [Next]_vars PROVE FooterInv'
    OBVIOUS
  <2>1. ASSUME NEW p \in Pids, Tracer(p) PROVE FooterInv'
    BY <2>1, FooterTracer
  <2>2. CASE UNCHANGED tracerVars
    BY <2>2 DEF tracerVars, events, FooterInv, Waiting, LinesOf, LinesIn
  <2>3. ASSUME NEW p \in Pids, Workload(p) PROVE UNCHANGED tracerVars
    BY <2>3 DEF Workload, Fork, Exec, Noise, Exit, Die, Kill
  <2>4. CASE NoMoreChildren \/ WriteSummary
    <3>1. /\ UNCHANGED <<file, pending, events>>
          /\ loop' = "flush" \/ \A p \in Pids : pending[p] = <<>>
      BY <2>4 DEF NoMoreChildren, WriteSummary
    <3>2. Waiting' = Waiting /\ (loop' = "done" => Waiting = {})
      BY <3>1 DEF Waiting
    <3>3. QED
      BY <3>1, <3>2 DEF events, FooterInv, LinesOf, LinesIn
  <2>5. QED
    BY <2>1, <2>2, <2>3, <2>4 DEF Next, Finished, vars
<1>3. TypeOK /\ FooterInv => FooterMatchesFile
  <2> SUFFICES ASSUME TypeOK, FooterInv, loop = "done" PROVE FooterMatchesFile
    BY DEF FooterMatchesFile
  <2>1. Cardinality(Waiting) = 0
    BY FS_EmptySet DEF FooterInv
  <2>2. Cardinality(LinesOf("exit")) \in Nat
    BY LinesFinite DEF TypeOK, TracerTypeOK, CountOf, LinesOf
  <2>3. QED
    BY <2>1, <2>2 DEF FooterInv, FooterMatchesFile
<1>4. QED
  BY <1>1, <1>2, <1>3, TypeCorrect, OrderCorrect, PTL DEF Spec
-----------------------------------------------------------------------------
(* The tracer keeps the promise of TreeFile as long as the kernel reuses no *)
(* pid: every step appends lines TreeFile allows, or nothing.               *)
\* Without reuse a pid stands for one process, in the table and in the file.
OneProcessPerPid ==
  /\ \A p \in Pids : inc[p] = IF life[p] = "unborn" THEN 0 ELSE 1
  /\ \A i \in DOMAIN file : file[i].inc = 1
  /\ \A p \in Pids : pending[p] # <<>> => pending[p][1].inc = 1

\* The known flag of the table says what the file says.
KnownIsNamed ==
  \A p \in Pids : known[p] <=> \E i \in DOMAIN file :
                                 file[i].kind \in {"root", "fork"} /\ file[i].pid = p

\* Fork and exec stops are those of processes yet to exit; no process is its child.
StopsAlive ==
  \A p \in Pids :
    /\ stop[p] \in {"fork", "exec"} => life[p] = "alive"
    /\ stop[p] = "fork" => msg[p] # p

PromiseInv == OneProcessPerPid /\ KnownIsNamed /\ StopsAlive

-----------------------------------------------------------------------------
NamesIn(f, p) == \E i \in DOMAIN f : f[i].kind \in {"root", "fork"} /\ f[i].pid = p
FirstIn(f)    == \A i \in DOMAIN f : f[i].inc = 1

(* What one more line adds to the named pids, and that it is in the new file. *)
LEMMA OneMoreLine ==
  ASSUME NEW f \in Seq(Lines), NEW l \in Lines
  PROVE  LET g == Append(f, l) IN
         /\ g \in Seq(Lines)
         /\ \A p : NamesIn(g, p) <=>
                     NamesIn(f, p) \/ (l.kind \in {"root", "fork"} /\ l.pid = p)
         /\ FirstIn(f) /\ l.inc = 1 => FirstIn(g)
         /\ Len(g) \in DOMAIN g /\ g[Len(g)] = l
         /\ \A i \in DOMAIN f : i \in DOMAIN g /\ g[i] = f[i]
<1> DEFINE g == Append(f, l)
<1>1. /\ g \in Seq(Lines) /\ Len(f) \in Nat /\ Len(g) = Len(f) + 1
      /\ DOMAIN f = 1 .. Len(f) /\ DOMAIN g = 1 .. Len(f) + 1
      /\ \A i \in 1 .. Len(f) : g[i] = f[i]
      /\ g[Len(f) + 1] = l
  BY Appended
<1> HIDE DEF g
<1>2. DOMAIN g = DOMAIN f \cup {Len(f) + 1}
  BY <1>1
<1>3. \A p : NamesIn(g, p) <=>
               NamesIn(f, p) \/ (l.kind \in {"root", "fork"} /\ l.pid = p)
  BY <1>1, <1>2 DEF NamesIn
<1>4. FirstIn(f) /\ l.inc = 1 => FirstIn(g)
  BY <1>1, <1>2 DEF FirstIn
<1>5. QED
  BY <1>1, <1>2, <1>3, <1>4 DEF g

(* Which process a line of each kind is about. *)
LEMMA LineProcess ==
  ASSUME TypeOK, NEW p \in Pids
  PROVE  /\ \A kind \in LineKinds : Line(kind, p).inc = inc[p]
         /\ \A c \in Pids : /\ ForkLine(p, c).inc = inc[c]
                            /\ ForkLine(p, c).by = p /\ ForkLine(p, c).byInc = inc[p]
         /\ ExitBlock(p).inc = inc[p]
BY DEF Line, ForkLine, ExitBlock

(* The part of the invariant that speaks of the kernel alone. *)
LEMMA StopsStep ==
  ASSUME TypeOK, OrderInv, PromiseInv, ~PidReuse, NEW p \in Pids,
         Workload(p) \/ Tracer(p)
  PROVE  /\ StopsAlive'
         /\ \A q \in Pids : inc'[q] = IF life'[q] = "unborn" THEN 0 ELSE 1
<1>0. /\ stop \in [Pids -> Stops] /\ life \in [Pids -> Lives] /\ msg \in [Pids -> Pids]
      /\ inc \in [Pids -> Nat]
      /\ StopsAlive
      /\ \A q \in Pids : inc[q] = IF life[q] = "unborn" THEN 0 ELSE 1
  BY DEF TypeOK, KernelTypeOK, PromiseInv, OneProcessPerPid
<1>1. ASSUME NEW c \in Pids, Fork(p, c)
      PROVE  /\ StopsAlive'
             /\ \A q \in Pids : inc'[q] = IF life'[q] = "unborn" THEN 0 ELSE 1
  <2>1. /\ life[p] = "alive" /\ life[c] = "unborn" /\ p # c
        /\ stop' = [stop EXCEPT ![p] = "fork", ![c] = "sigstop"]
        /\ life' = [life EXCEPT ![c] = "alive"]
        /\ msg' = [msg EXCEPT ![p] = c] /\ inc' = [inc EXCEPT ![c] = @ + 1]
    BY <1>1 DEF Fork, Running, Free
  <2>2. StopsAlive'
    BY <1>0, <2>1 DEF StopsAlive
  <2>3. inc[c] + 1 = 1
    BY <1>0, <2>1
  <2>4. \A q \in Pids : inc'[q] = IF life'[q] = "unborn" THEN 0 ELSE 1
    BY <1>0, <2>1, <2>3
  <2>5. QED
    BY <2>2, <2>4
<1>2. ASSUME Exec(p) \/ Noise(p) \/ Exit(p) \/ Die(p) \/ Kill(p) \/ Tracer(p)
      PROVE  /\ StopsAlive'
             /\ \A q \in Pids : inc'[q] = IF life'[q] = "unborn" THEN 0 ELSE 1
  <2>1. /\ msg' = msg /\ inc' = inc
        /\ \A q \in Pids : q # p => life'[q] = life[q] /\ stop'[q] = stop[q]
        /\ (life'[p] = "unborn") = (life[p] = "unborn")
        /\ \/ stop'[p] \notin {"fork", "exec"}
           \/ stop'[p] = "exec" /\ life'[p] = "alive"
           \/ stop'[p] = stop[p] /\ life'[p] = life[p]
    <3>1. CASE Exec(p) \/ Noise(p) \/ Exit(p) \/ Die(p)
      BY <1>0, <3>1 DEF Exec, Noise, Exit, Die, Running
    <3>2. CASE Kill(p)
      BY <1>0, <3>2 DEF Kill
    <3>3. CASE FlushPending(p)
      BY <3>3 DEF FlushPending, kernelVars
    <3>4. CASE \/ HandleFork(p) \/ HandleExit(p) \/ HandleExec(p) \/ HandleUnknown(p)
               \/ HandleNewPid(p) \/ HandleSignal(p)
      BY <1>0, <3>4 DEF HandleFork, HandleExit, HandleExec, HandleUnknown,
                        HandleNewPid, HandleSignal, Resume
    <3>5. CASE HandleExited(p) \/ HandleSignaled(p)
      <4>1. Reap(p) /\ stop[p] # "none"
        BY <3>5 DEF HandleExited, HandleSignaled, Waited
      <4>2. life[p] # "unborn"
        BY <4>1 DEF OrderInv, Births
      <4>3. QED
        BY <1>0, <4>1, <4>2 DEF Reap
    <3>6. QED
      BY <1>2, <3>1, <3>2, <3>3, <3>4, <3>5 DEF Tracer
  <2>2. QED
    BY <1>0, <2>1 DEF StopsAlive
<1>3. QED
  BY <1>1, <1>2 DEF Workload

(* The part that speaks of the file and the table, and the step of TreeFile. *)
FileInv ==
  /\ FirstIn(file)
  /\ \A p \in Pids : pending[p] # <<>> => pending[p][1].inc = 1
  /\ \A p \in Pids : known[p] <=> NamesIn(file, p)

Allowed == [Promised!Write({file'[i] : i \in DOMAIN file'})]_(Promised!treeVars)

LEMMA InvParts ==
  /\ PromiseInv => FileInv /\ StopsAlive
  /\ FileInv /\ StopsAlive
       /\ (\A q \in Pids : inc[q] = IF life[q] = "unborn" THEN 0 ELSE 1) => PromiseInv
BY DEF PromiseInv, FileInv, OneProcessPerPid, KnownIsNamed, NamesIn, FirstIn

(* TreeFile's sets of processes, in terms of the table. *)
LEMMA ProcessSets ==
  ASSUME TypeOK, OrderInv, PromiseInv, NEW p \in Pids
  PROVE  /\ <<p, 1>> \in Promised!Named <=> known[p]
         /\ <<p, 1>> \in Promised!Finished <=> \E i \in LinesOf("exit") : file[i].pid = p
         /\ loop = "wait" /\ <<p, 1>> \in Promised!Finished => known[p]
<1>1. FirstIn(file) /\ (known[p] <=> NamesIn(file, p))
  BY InvParts DEF FileInv
<1>2. <<p, 1>> \in Promised!Named <=> NamesIn(file, p)
  BY <1>1 DEF Promised!Named, Promised!Lines, Promised!Process, NamesIn, FirstIn
<1>3. <<p, 1>> \in Promised!Finished <=> \E i \in LinesOf("exit") : file[i].pid = p
  BY <1>1 DEF Promised!Finished, Promised!Lines, Promised!Process, LinesOf, LinesIn,
              FirstIn
<1>4. QED
  BY <1>1, <1>2, <1>3 DEF OrderInv, WrittenIfKnown

(* A line that is no root, fork or exit line may come at any time while the *)
(* loop waits, an exec one before the exit block of its process.            *)
LEMMA PlainAllowed ==
  ASSUME TypeOK, OrderInv, PromiseInv, NEW l \in Lines,
         l.kind \notin {"root", "fork", "exit"}, l.inc = 1,
         l.kind = "exec" => life[l.pid] = "alive",
         loop = "wait", loop' = "wait", file' = Append(file, l),
         known' = known, pending' = pending
  PROVE  FileInv' /\ Allowed
<1>1. FileInv /\ file \in Seq(Lines)
  BY InvParts DEF TypeOK, TracerTypeOK
<1>2. FileInv'
  BY <1>1, OneMoreLine DEF FileInv
<1>3. l \in {file'[i] : i \in DOMAIN file'}
  BY <1>1, OneMoreLine
<1>4. l.kind = "exec" => Promised!Process(l) \notin Promised!Finished
  <2>1. SUFFICES ASSUME l.kind = "exec" PROVE <<l.pid, 1>> \notin Promised!Finished
    BY DEF Promised!Process
  <2>2. l.pid \in Pids /\ life[l.pid] = "alive"
    BY <2>1 DEF Lines
  <2>3. \A i \in LinesOf("exit") : file[i].pid # l.pid
    BY <2>2 DEF OrderInv, ExitPlace
  <2>4. QED
    BY <2>2, <2>3, ProcessSets
<1>5. \A x \in Promised!Named : x[2] <= l.inc
  BY <1>1 DEF Promised!Named, Promised!Lines, Promised!Process, FileInv, FirstIn
<1>6. Promised!Other(l)
  BY <1>4, <1>5 DEF Promised!Other
<1>7. QED
  BY <1>2, <1>3, <1>6 DEF Allowed, Promised!Write

LEMMA PlainStepAllowed ==
  ASSUME TypeOK, OrderInv, PromiseInv, NEW p \in Pids,
         HandleExec(p) \/ HandleUnknown(p) \/ HandleSignal(p)
           \/ HandleExited(p) \/ HandleSignaled(p)
  PROVE  FileInv' /\ Allowed
<1>1. PICK kind \in LineKinds \ {"root", "fork", "exit"} :
        /\ file' = Append(file, Line(kind, p))
        /\ kind = "exec" => stop[p] = "exec"
  BY DEF HandleExec, HandleUnknown, HandleSignal, HandleExited, HandleSignaled,
         LineKinds, Waited
<1>2. /\ stop[p] # "none" /\ loop = "wait" /\ loop' = "wait"
      /\ known' = known /\ pending' = pending
  BY DEF HandleExec, HandleUnknown, HandleSignal, HandleExited, HandleSignaled, Waited
<1>3. life[p] # "unborn"
  BY <1>2 DEF OrderInv, Births
<1>4. inc[p] = 1
  BY <1>3 DEF PromiseInv, OneProcessPerPid
<1>5. kind = "exec" => life[p] = "alive"
  BY <1>1 DEF PromiseInv, StopsAlive
<1>6. /\ Line(kind, p) \in Lines /\ Line(kind, p).kind = kind
      /\ Line(kind, p).pid = p /\ Line(kind, p).inc = 1
  BY <1>4, LineType, LineProcess
<1>7. QED
  BY <1>1, <1>2, <1>5, <1>6, PlainAllowed

(* An exit block goes into the file of a process named there, or is deferred. *)
LEMMA ExitAllowed ==
  ASSUME TypeOK, OrderInv, PromiseInv, NEW p \in Pids, HandleExit(p)
  PROVE  FileInv' /\ Allowed
<1> DEFINE l == ExitBlock(p)
<1>1. /\ FileInv /\ file \in Seq(Lines) /\ pending \in [Pids -> Seq(Lines)]
      /\ loop = "wait" /\ loop' = "wait" /\ stop[p] = "exit" /\ known' = known
      /\ \/ known[p] /\ file' = Append(file, l) /\ pending' = pending
         \/ file' = file /\ pending' = [pending EXCEPT ![p] = <<l>>]
  BY InvParts DEF HandleExit, Waited, IsKnown, DeferExit, TypeOK, TracerTypeOK
<1>2. life[p] = "exiting"
  BY <1>1 DEF OrderInv, Births
<1>3. inc[p] = 1
  BY <1>2 DEF PromiseInv, OneProcessPerPid
<1>4. l \in Lines /\ l.kind = "exit" /\ l.pid = p /\ l.inc = 1
  BY <1>3, LineType, LineProcess
<1> HIDE DEF l
<1>5. CASE known[p] /\ file' = Append(file, l) /\ pending' = pending
  <2>1. FileInv'
    BY <1>1, <1>4, <1>5, OneMoreLine DEF FileInv
  <2>2. l \in {file'[i] : i \in DOMAIN file'}
    BY <1>1, <1>4, <1>5, OneMoreLine
  <2>3. \A i \in LinesOf("exit") : file[i].pid # p
    BY <1>1 DEF OrderInv, ExitPlace
  <2>4. Promised!Process(l) \in Promised!Named \ Promised!Finished
    BY <1>4, <1>5, <2>3, ProcessSets DEF Promised!Process
  <2>5. Promised!Finish(l)
    BY <1>1, <1>4, <1>5, <2>4 DEF Promised!Finish
  <2>6. QED
    BY <2>1, <2>2, <2>5 DEF Allowed, Promised!Write
<1>6. CASE file' = file /\ pending' = [pending EXCEPT ![p] = <<l>>]
  <2>1. <<l>>[1] = l
    OBVIOUS
  <2>2. ASSUME NEW q \in Pids, pending'[q] # <<>>
        PROVE  pending'[q][1].inc = 1
    <3>1. pending'[q] = pending[q] \/ pending'[q] = <<l>>
      BY <1>1, <1>6
    <3>2. QED
      BY <1>1, <1>4, <2>1, <2>2, <3>1 DEF FileInv
  <2>3. FileInv'
    BY <1>1, <1>6, <2>2 DEF FileInv
  <2>4. QED
    BY <1>1, <1>6, <2>3 DEF Allowed, Promised!treeVars
<1>7. QED
  BY <1>1, <1>5, <1>6

(* A fork stop names a new child of a process yet to exit; what was deferred *)
(* for the child follows at once.                                            *)
LEMMA ForkAllowed ==
  ASSUME TypeOK, OrderInv, PromiseInv, NEW p \in Pids, HandleFork(p)
  PROVE  FileInv' /\ Allowed
<1> DEFINE c == msg[p]
           l == ForkLine(p, c)
           b == pending[c][1]
           f == Append(file, l)
<1>1. /\ FileInv /\ file \in Seq(Lines) /\ pending \in [Pids -> Seq(Lines)]
      /\ known \in [Pids -> BOOLEAN] /\ c \in Pids
      /\ loop = "wait" /\ loop' = "wait" /\ stop[p] = "fork"
      /\ file' = f \o pending[c]
      /\ known' = [known EXCEPT ![c] = TRUE]
      /\ pending' = [pending EXCEPT ![c] = <<>>]
  BY InvParts DEF HandleFork, Waited, MarkKnown, TypeOK, TracerTypeOK, KernelTypeOK
<1>2. ~known[c] /\ life[c] # "unborn" /\ life[p] = "alive" /\ c # p
  BY <1>1 DEF OrderInv, ForkStops, PromiseInv, StopsAlive
<1>3. inc[c] = 1 /\ inc[p] = 1
  BY <1>1, <1>2 DEF PromiseInv, OneProcessPerPid
<1>4. /\ l \in Lines /\ l.kind = "fork" /\ l.pid = c /\ l.inc = 1
      /\ l.by = p /\ l.byInc = 1
  BY <1>1, <1>3, LineType, LineProcess
<1>5. Len(pending[c]) <= 1 /\ (pending[c] # <<>> => b.kind = "exit" /\ b.pid = c /\ b.inc = 1)
  BY <1>1 DEF OrderInv, Deferred, FileInv
<1> HIDE DEF l
\* The two processes are as TreeFile wants them.
<1>6. Promised!Fresh(<<c, 1>>)
  BY <1>1, <1>2, ProcessSets DEF Promised!Fresh
<1>7. Promised!Fresh(<<p, 1>>) \/ <<p, 1>> \in Promised!Named \ Promised!Finished
  <2>1. \A i \in LinesOf("exit") : file[i].pid # p
    BY <1>2 DEF OrderInv, ExitPlace
  <2>2. <<p, 1>> \notin Promised!Finished
    BY <2>1, ProcessSets
  <2>3. QED
    BY <2>2 DEF Promised!Fresh
<1>8. Promised!Name(l)
  BY <1>1, <1>2, <1>4, <1>6, <1>7
  DEF Promised!Name, Promised!Process, Promised!Parent
\* The file with the fork line, then with the block.
<1>9. /\ f \in Seq(Lines) /\ FirstIn(f)
      /\ \A q \in Pids : NamesIn(f, q) <=> known'[q]
      /\ l \in {f[i] : i \in DOMAIN f}
  <2>1. FirstIn(file) /\ \A q \in Pids : known[q] <=> NamesIn(file, q)
    BY <1>1 DEF FileInv
  <2>2. /\ f \in Seq(Lines)
        /\ \A q : NamesIn(f, q) <=> NamesIn(file, q) \/ (l.kind \in {"root", "fork"} /\ l.pid = q)
        /\ FirstIn(file) /\ l.inc = 1 => FirstIn(f)
        /\ Len(f) \in DOMAIN f /\ f[Len(f)] = l
    <3>1. file \in Seq(Lines) /\ l \in Lines
      BY <1>1, <1>4
    <3>2. QED
      BY ONLY <3>1, OneMoreLine
  <2> HIDE DEF f
  <2>3. FirstIn(f)
    BY <2>1, <2>2, <1>4
  <2>4. \A q \in Pids : NamesIn(f, q) <=> known'[q]
    <3>1. \A q \in Pids : NamesIn(f, q) <=> NamesIn(file, q) \/ q = c
      BY <2>2, <1>4
    <3>2. QED
      BY <1>1, <2>1, <3>1
  <2>5. l \in {f[i] : i \in DOMAIN f}
    BY <2>2
  <2>6. QED
    BY <2>2, <2>3, <2>4, <2>5
<1> HIDE DEF f
<1>10. \A q \in Pids : pending'[q] # <<>> => pending'[q][1].inc = 1
  BY <1>1 DEF FileInv
<1>11. CASE pending[c] = <<>>
  <2>1. file' = f
    BY <1>1, <1>9, <1>11
  <2>2. FileInv'
    BY <1>9, <1>10, <2>1 DEF FileInv
  <2>3. Promised!NameOnly(l)
    BY <1>8, <2>1 DEF Promised!NameOnly, f
  <2>4. QED
    BY <1>9, <2>1, <2>2, <2>3 DEF Allowed, Promised!Write
<1>12. CASE pending[c] # <<>>
  <2>1. b \in Lines /\ file' = Append(f, b)
    BY <1>1, <1>5, <1>9, <1>12, JoinBlock
  <2>2. b.kind = "exit" /\ b.pid = c /\ b.inc = 1
    BY <1>5, <1>12
  <2> HIDE DEF b
  <2>3. /\ \A q \in Pids : NamesIn(file', q) <=> NamesIn(f, q)
        /\ FirstIn(file')
        /\ b \in {file'[i] : i \in DOMAIN file'}
        /\ \A i \in DOMAIN f : i \in DOMAIN file' /\ file'[i] = f[i]
    BY <1>9, <2>1, <2>2, OneMoreLine
  <2>4. l \in {file'[i] : i \in DOMAIN file'}
    BY <1>9, <2>3
  <2>5. FileInv'
    BY <1>9, <1>10, <2>3 DEF FileInv
  <2>6. Promised!Process(b) = Promised!Process(l)
    BY <1>4, <2>2 DEF Promised!Process
  <2>7. Promised!NameAndFinish(l, b)
    BY <1>8, <2>1, <2>2, <2>6 DEF Promised!NameAndFinish, f
  <2>8. QED
    BY <2>3, <2>4, <2>5, <2>7 DEF Allowed, Promised!Write
<1>13. QED
  BY <1>11, <1>12

(* The final flush writes blocks of processes that were never named. *)
LEMMA FlushAllowed ==
  ASSUME TypeOK, OrderInv, PromiseInv, NEW p \in Pids, FlushPending(p)
  PROVE  FileInv' /\ Allowed
<1> DEFINE b == pending[p][1]
<1>1. /\ FileInv /\ file \in Seq(Lines) /\ pending \in [Pids -> Seq(Lines)]
      /\ loop = "flush" /\ loop' = "flush" /\ known' = known
      /\ pending[p] # <<>> /\ file' = file \o pending[p]
      /\ pending' = [pending EXCEPT ![p] = <<>>]
  BY InvParts DEF FlushPending, TypeOK, TracerTypeOK
<1>2. /\ Len(pending[p]) <= 1 /\ b.kind = "exit" /\ b.pid = p /\ b.inc = 1 /\ ~known[p]
      /\ \A i \in LinesOf("exit") : file[i].pid # p
  BY <1>1 DEF OrderInv, Deferred, ExitPlace, FileInv
<1>3. b \in Lines /\ file' = Append(file, b)
  BY <1>1, <1>2, JoinBlock
<1> HIDE DEF b
<1>4. FileInv'
  <2>1. FirstIn(file') /\ \A q \in Pids : NamesIn(file', q) <=> NamesIn(file, q)
    <3>1. file \in Seq(Lines) /\ FirstIn(file)
      BY <1>1 DEF FileInv
    <3>2. b \in Lines /\ b.kind = "exit" /\ b.inc = 1 /\ file' = Append(file, b)
      BY <1>2, <1>3
    <3>3. QED
      BY <3>1, <3>2, OneMoreLine
  <2>2. \A q \in Pids : pending'[q] # <<>> => pending'[q][1].inc = 1
    BY <1>1 DEF FileInv
  <2>3. QED
    BY <1>1, <2>1, <2>2 DEF FileInv
<1>5. b \in {file'[i] : i \in DOMAIN file'}
  BY <1>1, <1>3, OneMoreLine
<1>6. <<p, 1>> \notin Promised!Named \cup Promised!Finished
  BY <1>2, ProcessSets
<1>7. Promised!Orphan(b)
  BY <1>1, <1>2, <1>3, <1>6 DEF Promised!Orphan, Promised!Process
<1>8. QED
  BY <1>4, <1>5, <1>7 DEF Allowed, Promised!Write

LEMMA QuietAllowed ==
  ASSUME PromiseInv, UNCHANGED <<file, known, pending>>,
         loop' = loop \/ (loop = "wait" /\ loop' # "wait")
           \/ (loop # "wait" /\ loop' # "wait")
  PROVE  FileInv' /\ Allowed
<1>1. FileInv'
  BY InvParts DEF FileInv
<1>2. Allowed
  BY DEF Allowed, Promised!Write, Promised!Close, Promised!treeVars
<1>3. QED
  BY <1>1, <1>2

-----------------------------------------------------------------------------
LEMMA PromiseInit ==
  Init => PromiseInv /\ Promised!Init
<1> SUFFICES ASSUME Init PROVE PromiseInv /\ Promised!Init
  OBVIOUS
<1> DEFINE l == Line("root", Root)
<1>1. /\ file = <<l>> /\ l.kind = "root" /\ l.pid = Root /\ l.inc = 1
      /\ loop = "wait"
  BY RootAssumption DEF Init, Line
<1> HIDE DEF l
<1>2. DOMAIN file = {1} /\ file[1] = l /\ Len(file) = 1
  BY <1>1
<1>3. OneProcessPerPid
  BY <1>1, <1>2 DEF Init, OneProcessPerPid
<1>4. KnownIsNamed
  <2>1. known = [p \in Pids |-> p = Root]
    BY DEF Init
  <2>2. QED
    BY <1>1, <1>2, <2>1 DEF KnownIsNamed
<1>5. StopsAlive
  BY DEF Init, StopsAlive
<1>6. Promised!Init
  BY <1>1, <1>2 DEF Promised!Init, Promised!Process
<1>7. QED
  BY <1>3, <1>4, <1>5, <1>6 DEF PromiseInv

LEMMA PromiseStep ==
  ASSUME TypeOK, OrderInv, PromiseInv, ~PidReuse, [Next]_vars
  PROVE  PromiseInv' /\ Allowed
<1>1. ASSUME NEW p \in Pids, Workload(p)
      PROVE  PromiseInv' /\ Allowed
  <2>1. UNCHANGED <<file, known, pending>> /\ loop' = loop
    BY <1>1 DEF Workload, Fork, Exec, Noise, Exit, Die, Kill, tracerVars
  <2>2. FileInv' /\ Allowed
    BY <2>1, QuietAllowed
  <2>3. StopsAlive' /\ \A q \in Pids : inc'[q] = IF life'[q] = "unborn" THEN 0 ELSE 1
    BY <1>1, StopsStep
  <2>4. QED
    BY <2>2, <2>3 DEF FileInv, PromiseInv, OneProcessPerPid, KnownIsNamed, NamesIn, FirstIn
<1>2. ASSUME NEW p \in Pids, Tracer(p)
      PROVE  PromiseInv' /\ Allowed
  <2>1. FileInv' /\ Allowed
    <3>1. CASE HandleNewPid(p)
      BY <3>1, QuietAllowed DEF HandleNewPid, tracerVars
    <3>2. QED
      BY <1>2, <3>1, ForkAllowed, ExitAllowed, FlushAllowed, PlainStepAllowed DEF Tracer
  <2>2. StopsAlive' /\ \A q \in Pids : inc'[q] = IF life'[q] = "unborn" THEN 0 ELSE 1
    BY <1>2, StopsStep
  <2>3. QED
    BY <2>1, <2>2 DEF FileInv, PromiseInv, OneProcessPerPid, KnownIsNamed, NamesIn, FirstIn
<1>3. CASE NoMoreChildren \/ WriteSummary \/ UNCHANGED vars
  <2>1. /\ UNCHANGED <<file, known, pending>>
        /\ loop' = loop \/ (loop = "wait" /\ loop' # "wait")
             \/ (loop # "wait" /\ loop' # "wait")
        /\ life' = life /\ stop' = stop /\ msg' = msg /\ inc' = inc
    BY <1>3 DEF NoMoreChildren, WriteSummary, vars, kernelVars, tracerVars
  <2>2. FileInv' /\ Allowed
    BY <2>1, QuietAllowed
  <2>3. StopsAlive' /\ \A q \in Pids : inc'[q] = IF life'[q] = "unborn" THEN 0 ELSE 1
    BY <2>1 DEF PromiseInv, StopsAlive, OneProcessPerPid
  <2>4. QED
    BY <2>2, <2>3 DEF FileInv, PromiseInv, OneProcessPerPid, KnownIsNamed, NamesIn, FirstIn
<1>4. QED
  BY <1>1, <1>2, <1>3 DEF Next, Finished

(* The tree tracer implements TreeFile: whatever the order of its stops, the  *)
(* signals and the kills, a reader may rely on what TreeFile says of the file. *)
THEOREM Refines ==
  ASSUME ~PidReuse
  PROVE  Spec => KeepsPromise
<1>1. TypeOK /\ OrderInv /\ PromiseInv /\ [Next]_vars => PromiseInv' /\ Allowed
  BY PromiseStep
<1>2. Spec => []TypeOK /\ []OrderInv
  BY TypeCorrect, OrderCorrect, PTL
<1>3. Spec => []PromiseInv /\ [][Promised!Write({file'[i] : i \in DOMAIN file'})]_(Promised!treeVars)
  BY <1>1, <1>2, PromiseInit, PTL DEF Spec, Allowed
<1>4. QED
  BY <1>3, PromiseInit, PTL DEF KeepsPromise, Promised!Spec, Spec
-----------------------------------------------------------------------------
(***************************************************************************)
(* With system call stops (SyscallWaits), for any pids, calls, options and *)
(* bounds, with or without SIGKILL and reused pids.                        *)
(*                                                                         *)
(* The flag of a pid's entry says inside or outside of a call as long as   *)
(* its first process lives (FlagInv).  That is so because the only way out *)
(* of a call without an exit stop is the way out of the process, and a     *)
(* stop for a system call is always that of a living one (KernelInv).      *)
(***************************************************************************)

Phases == {"user", "entry", "inside", "after", "exit"}
Buckets == {Bucket[n] : n \in DOMAIN Bucket}
Waits == [bucket : Buckets, from : Nat, to : Nat]

KernelTypes ==
  /\ life \in [Pids -> Lives] /\ stop \in [Pids -> Stops]
  /\ inc \in [Pids -> Nat] /\ parentOf \in [Pids -> Pids]
  /\ phase \in [Pids -> Phases] /\ call \in [Pids -> Kinds]
  /\ taken \in SUBSET Pids

KernelInv ==
  /\ KernelTypes
  /\ \A p \in Pids :
       /\ SysStopped(p) => Running(p)
       /\ stop[p] = "exit" => life[p] = "exiting"
       /\ life[p] # "unborn" => inc[p] > 0
       /\ life[p] = "unborn" => stop[p] = "none"

EntryTypes ==
  /\ since \in [Pids -> Nat] /\ clock \in Nat
  /\ done \in [Pids -> SUBSET [kind : Kinds, from : Nat, to : Nat]]
  /\ in_syscall \in [Pids -> BOOLEAN] /\ futex_is_wait \in [Pids -> BOOLEAN]
  /\ current_syscall \in [Pids -> Numbers \cup {"none"}]
  /\ syscall_entry_elapsed \in [Pids -> Nat]
  /\ waits \in [Pids -> SUBSET Waits]
  /\ printed \in [Pids -> {<<>>} \cup {<<w>> : w \in SUBSET Waits}]

\* The entry of p holds the call p is in.
Holds(p) ==
  /\ current_syscall[p] = Number(call[p])
  /\ syscall_entry_elapsed[p] = since[p]
  /\ Number(call[p]) = "futex" /\ "futex" \in Options =>
       (futex_is_wait[p] <=> call[p] = "futex_wait")

First(p) == inc[p] <= 1 /\ p \notin taken

FlagInv ==
  \A p \in Pids : First(p) =>
    /\ life[p] = "unborn" => ~in_syscall[p]
    /\ life[p] = "alive" => /\ in_syscall[p] <=> phase[p] \in {"inside", "after", "exit"}
                            /\ in_syscall[p] => Holds(p)
    /\ life[p] \in {"unborn", "alive"} \/ stop[p] = "exit" => printed[p] = <<>>

IInv == KernelInv /\ EntryTypes /\ FlagInv /\ WaitsAreOwn

-----------------------------------------------------------------------------
LEMMA RootIsAPid == Root \in Pids
  BY RootAssumption

LEMMA Start == WaitsInit => IInv
<1> SUFFICES ASSUME WaitsInit PROVE IInv
  OBVIOUS
<1>1. KernelInv
  BY RootIsAPid
  DEF WaitsInit, Init, KernelInv, KernelTypes, SysStopped, Running, Lives, Stops, Phases, Kinds, Numbers, Bucket
<1>2. EntryTypes
  BY DEF WaitsInit, EntryTypes
<1>3. FlagInv
  BY DEF WaitsInit, FlagInv
<1>4. WaitsAreOwn
  BY DEF WaitsInit, WaitsAreOwn, Owed
<1> QED
  BY <1>1, <1>2, <1>3, <1>4 DEF IInv

-----------------------------------------------------------------------------
(* The kernel's part. *)

LEMMA KernelStep ==
  ASSUME KernelInv, WaitsNext
  PROVE  KernelInv'
<1> USE DEF KernelInv, KernelTypes, SysStopped, Running
<1>1. ASSUME NEW p \in Pids, EnterCall(p) PROVE KernelInv'
  <2>1. PICK c \in Calls : call' = [call EXCEPT ![p] = c]
    BY <1>1 DEF EnterCall
  <2>2. UNCHANGED <<life, stop, inc, parentOf, taken>> /\ To(p, "entry") /\ Running(p)
    BY <1>1 DEF EnterCall, vars, kernelVars
  <2> QED
    BY <2>1, <2>2, CallAssumption DEF To, Phases
<1>2. ASSUME NEW p \in Pids, ReturnFromCall(p) PROVE KernelInv'
  <2>1. UNCHANGED <<life, stop, inc, parentOf, taken, call>> /\ To(p, "exit") /\ Running(p)
    BY <1>2 DEF ReturnFromCall, vars, kernelVars
  <2> QED
    BY <2>1 DEF To, Phases
<1>3. ASSUME NEW p \in Pids, ForkInCall(p) PROVE KernelInv'
  <2>1. PICK c \in Pids : Fork(p, c) /\ phase' = [phase EXCEPT ![p] = "after", ![c] = "user"]
    BY <1>3 DEF ForkInCall
  <2>2. UNCHANGED <<taken, call>>
    BY <1>3 DEF ForkInCall
  <2>3. /\ Running(p) /\ life' = [life EXCEPT ![c] = "alive"]
        /\ stop' = [stop EXCEPT ![p] = "fork", ![c] = "sigstop"]
        /\ inc' = [inc EXCEPT ![c] = @ + 1] /\ parentOf' = [parentOf EXCEPT ![c] = p]
    BY <2>1 DEF Fork
  <2>4. KernelTypes'
    BY <2>1, <2>2, <2>3 DEF Lives, Stops, Phases
  <2>5. ASSUME NEW q \in Pids
        PROVE  /\ SysStopped(q)' => Running(q)'
               /\ stop'[q] = "exit" => life'[q] = "exiting"
               /\ life'[q] # "unborn" => inc'[q] > 0
               /\ life'[q] = "unborn" => stop'[q] = "none"
    BY <2>1, <2>3
  <2> QED
    BY <2>4, <2>5
<1>4. ASSUME NEW p \in Pids, ExecInCall(p) PROVE KernelInv'
  <2>1. /\ UNCHANGED <<life, inc, parentOf, taken, call>> /\ To(p, "after") /\ Running(p)
        /\ stop' = [stop EXCEPT ![p] = "exec"]
    BY <1>4 DEF ExecInCall, Exec
  <2> QED
    BY <2>1 DEF To, Stops, Phases
<1>5. ASSUME NEW p \in Pids, ExecInThread(p) PROVE KernelInv'
  <2> DEFINE q == parentOf[p]
  <2>1. /\ UNCHANGED <<inc, parentOf>> /\ taken' = taken \cup {q} /\ Running(p)
        /\ q # p /\ life[q] = "exiting" /\ q \in Pids
        /\ life' = [life EXCEPT ![p] = "reaped", ![q] = "alive"]
        /\ stop' = [stop EXCEPT ![q] = "exec"]
        /\ phase' = [phase EXCEPT ![p] = "user", ![q] = "after"]
        /\ call' = [call EXCEPT ![q] = "execve"]
    BY <1>5 DEF ExecInThread
  <2>2. "execve" \in Kinds
    BY DEF Kinds, Numbers, Bucket
  <2>3. KernelTypes'
    BY <2>1, <2>2 DEF Lives, Stops, Phases
  <2>4. ASSUME NEW r \in Pids
        PROVE  /\ SysStopped(r)' => Running(r)'
               /\ stop'[r] = "exit" => life'[r] = "exiting"
               /\ life'[r] # "unborn" => inc'[r] > 0
               /\ life'[r] = "unborn" => stop'[r] = "none"
    BY <2>1
  <2> QED
    BY <2>3, <2>4
<1>6. ASSUME NEW p \in Pids, OtherKernel(p) PROVE KernelInv'
  <2>0. UNCHANGED <<taken, call>>
    BY <1>6 DEF OtherKernel
  <2>1. CASE Noise(p) /\ UNCHANGED phase /\ phase[p] = "user"
    BY <2>0, <2>1 DEF Noise, Stops
  <2>2. CASE Exit(p) /\ UNCHANGED phase /\ ~SysStopped(p)
    BY <2>0, <2>2 DEF Exit, Stops, Lives
  <2>3. CASE Die(p) /\ UNCHANGED phase
    BY <2>0, <2>3 DEF Die, Stops, Lives
  <2>4. CASE Kill(p) /\ To(p, "user")
    <3>1. /\ UNCHANGED <<inc, parentOf>> /\ life[p] \in {"alive", "exiting"}
          /\ phase' = [phase EXCEPT ![p] = "user"]
          /\ \/ life' = [life EXCEPT ![p] = "dead"] /\ stop' = [stop EXCEPT ![p] = "signaled"]
             \/ life' = [life EXCEPT ![p] = "exiting"] /\ stop' = [stop EXCEPT ![p] = "exit"]
      BY <2>4 DEF Kill, To
    <3>2. KernelTypes'
      BY <2>0, <3>1 DEF Lives, Stops, Phases
    <3>3. ASSUME NEW r \in Pids
          PROVE  /\ SysStopped(r)' => Running(r)'
                 /\ stop'[r] = "exit" => life'[r] = "exiting"
                 /\ life'[r] # "unborn" => inc'[r] > 0
                 /\ life'[r] = "unborn" => stop'[r] = "none"
      BY <3>1
    <3> QED
      BY <3>2, <3>3
  <2> QED
    BY <1>6, <2>1, <2>2, <2>3, <2>4 DEF OtherKernel
<1>7. ASSUME NEW p \in Pids, HandleSyscall(p) PROVE KernelInv'
  <2>1. UNCHANGED <<life, stop, inc, parentOf, taken, call>>
    BY <1>7 DEF HandleSyscall, vars, kernelVars
  <2>2. To(p, "inside") \/ To(p, "user")
    BY <1>7 DEF HandleSyscall, HandledEntry, HandledExit
  <2> QED
    BY <2>1, <2>2 DEF To, Phases
<1>8. ASSUME NEW p \in Pids, HandleExitWaits(p) PROVE KernelInv'
  BY <1>8 DEF HandleExitWaits, HandleExit, Resume, callVars, Stops
<1>9. ASSUME NEW p \in Pids, HandleOther(p) PROVE KernelInv'
  <2>1. UNCHANGED <<phase, call, taken>>
    BY <1>9 DEF HandleOther, sysVars, callVars
  <2>2. Resume(p) \/ (Reap(p) /\ stop[p] # "none") \/ UNCHANGED <<life, stop, inc, parentOf>>
    BY <1>9 DEF HandleOther, HandleFork, HandleExec, HandleUnknown, HandleNewPid, HandleSignal,
                HandleExited, HandleSignaled, Waited, FlushPending, kernelVars
  <2>3. CASE Resume(p)
    BY <2>1, <2>3 DEF Resume, Stops
  <2>4. CASE Reap(p) /\ stop[p] # "none"
    <3>1. /\ stop' = [stop EXCEPT ![p] = "none"] /\ life' = [life EXCEPT ![p] = "reaped"]
          /\ UNCHANGED <<inc, parentOf>>
      BY <2>4 DEF Reap
    <3>2. KernelTypes'
      BY <2>1, <3>1 DEF Lives, Stops
    <3>3. ASSUME NEW r \in Pids
          PROVE  /\ SysStopped(r)' => Running(r)'
                 /\ stop'[r] = "exit" => life'[r] = "exiting"
                 /\ life'[r] # "unborn" => inc'[r] > 0
                 /\ life'[r] = "unborn" => stop'[r] = "none"
      <4>1. CASE r = p
        <5>1. ~SysStopped(p) /\ phase'[p] = phase[p] /\ stop'[p] = "none" /\ life[p] # "unborn"
          BY <2>1, <2>4, <3>1
        <5> QED
          BY <4>1, <5>1, <3>1
      <4>2. CASE r # p
        BY <2>1, <3>1, <4>2
      <4> QED
        BY <4>1, <4>2
    <3> QED
      BY <3>2, <3>3
  <2>5. CASE UNCHANGED <<life, stop, inc, parentOf>>
    BY <2>1, <2>5
  <2> QED
    BY <2>2, <2>3, <2>4, <2>5
<1>10. CASE (NoMoreChildren \/ WriteSummary \/ Finished) /\ UNCHANGED sysVars
  <2>1. UNCHANGED <<life, stop, inc, parentOf>>
    BY <1>10 DEF NoMoreChildren, WriteSummary, Finished, vars, kernelVars
  <2> QED
    BY <1>10, <2>1 DEF sysVars, callVars
<1> QED
  BY <1>1, <1>2, <1>3, <1>4, <1>5, <1>6, <1>7, <1>8, <1>9, <1>10 DEF WaitsNext

-----------------------------------------------------------------------------
(* The tracer's part.  All steps but those on a system call stop leave the      *)
(* entries, and what they should hold, as they are.                             *)
Still == UNCHANGED <<entryVars, since, done, clock>>

\* What a step of p may do to a process r that is and stays the first of its pid,
\* if it is not on a system call stop.
Allows(r) ==
  \/ UNCHANGED <<life[r], stop[r], phase[r], call[r], printed[r]>>
  \/ \* a new process
     /\ life[r] = "unborn" /\ phase'[r] = "user" /\ stop'[r] = "sigstop"
     /\ UNCHANGED printed[r]
  \/ \* a process that lives and goes on
     /\ life[r] = "alive" /\ life'[r] = "alive" /\ stop'[r] # "exit"
     /\ \/ UNCHANGED <<phase[r], call[r]>>
        \/ phase[r] = "user" /\ phase'[r] = "entry"
        \/ phase[r] = "inside" /\ phase'[r] = "after" /\ UNCHANGED call[r]
        \/ phase[r] \in {"inside", "after"} /\ phase'[r] = "exit" /\ UNCHANGED call[r]
     /\ UNCHANGED printed[r]
  \/ \* a process that begins to exit, dies or is dead
     /\ life[r] # "unborn" /\ life'[r] \notin {"unborn", "alive"}
     /\ stop'[r] = "exit" => life[r] = "alive" \/ stop[r] = "exit"
     /\ UNCHANGED printed[r]
  \/ \* its exit block
     /\ life[r] = "exiting" /\ life'[r] = "exiting" /\ stop'[r] = "none"
     /\ printed'[r] = <<waits[r]>>

LEMMA StillStep ==
  ASSUME IInv, KernelInv', Still, taken \subseteq taken',
         \A r \in Pids : inc[r] <= inc'[r],
         \A r \in Pids : First(r)' => Allows(r)
  PROVE  (FlagInv /\ WaitsAreOwn)'
<1>1. ASSUME NEW r \in Pids, First(r)' PROVE First(r) /\ Allows(r)
  <2>1. inc[r] \in Nat /\ inc'[r] \in Nat /\ inc'[r] <= 1 /\ inc[r] <= inc'[r]
    BY <1>1 DEF IInv, KernelInv, KernelTypes, First
  <2>2. inc[r] <= 1
    BY <2>1
  <2> QED
    BY <1>1, <2>2 DEF First
<1>2. ASSUME NEW r \in Pids, First(r)'
      PROVE  /\ life'[r] = "unborn" => ~in_syscall'[r]
             /\ life'[r] = "alive" => /\ in_syscall'[r] <=> phase'[r] \in {"inside", "after", "exit"}
                                      /\ in_syscall'[r] => Holds(r)'
             /\ life'[r] \in {"unborn", "alive"} \/ stop'[r] = "exit" => printed'[r] = <<>>
  <2>1. First(r) /\ Allows(r) /\ in_syscall'[r] = in_syscall[r]
    BY <1>1, <1>2 DEF Still, entryVars
  <2>2. /\ life[r] = "unborn" => ~in_syscall[r]
        /\ life[r] = "alive" => /\ in_syscall[r] <=> phase[r] \in {"inside", "after", "exit"}
                                /\ in_syscall[r] => Holds(r)
        /\ life[r] \in {"unborn", "alive"} \/ stop[r] = "exit" => printed[r] = <<>>
    BY <2>1 DEF IInv, FlagInv
  <2>3. call'[r] = call[r] /\ Holds(r) => Holds(r)'
    BY DEF Holds, Still, entryVars
  <2>4. CASE UNCHANGED <<life[r], stop[r], phase[r], call[r], printed[r]>>
    BY <2>1, <2>2, <2>3, <2>4
  <2>5. CASE life[r] = "unborn" /\ phase'[r] = "user" /\ stop'[r] = "sigstop" /\ UNCHANGED printed[r]
    BY <2>1, <2>2, <2>5
  <2>6. CASE /\ life[r] = "alive" /\ life'[r] = "alive" /\ stop'[r] # "exit"
             /\ \/ UNCHANGED <<phase[r], call[r]>>
                \/ phase[r] = "user" /\ phase'[r] = "entry"
                \/ phase[r] = "inside" /\ phase'[r] = "after" /\ UNCHANGED call[r]
                \/ phase[r] \in {"inside", "after"} /\ phase'[r] = "exit" /\ UNCHANGED call[r]
             /\ UNCHANGED printed[r]
    BY <2>1, <2>2, <2>3, <2>6
  <2>7. CASE \/ /\ life[r] # "unborn" /\ life'[r] \notin {"unborn", "alive"}
                /\ stop'[r] = "exit" => life[r] = "alive" \/ stop[r] = "exit"
                /\ UNCHANGED printed[r]
             \/ /\ life[r] = "exiting" /\ life'[r] = "exiting" /\ stop'[r] = "none"
                /\ printed'[r] = <<waits[r]>>
    BY <2>2, <2>7
  <2> QED
    BY <2>1, <2>4, <2>5, <2>6, <2>7 DEF Allows
<1>3. ASSUME NEW r \in Pids, First(r)'
      PROVE  waits'[r] = Owed(r)' /\ printed'[r] \in {<<>>, <<Owed(r)'>>}
  <2>1. waits[r] = Owed(r) /\ printed[r] \in {<<>>, <<Owed(r)>>}
    BY <1>1, <1>3 DEF IInv, WaitsAreOwn, First
  <2>2. waits'[r] = waits[r] /\ Owed(r)' = Owed(r)
    BY DEF Still, entryVars, Owed
  <2>3. printed'[r] = printed[r] \/ printed'[r] = <<waits[r]>>
    BY <1>1, <1>3 DEF Allows
  <2> QED
    BY <2>1, <2>2, <2>3
<1> QED
  BY <1>2, <1>3 DEF FlagInv, WaitsAreOwn, First

-----------------------------------------------------------------------------
(* A system call stop: while the flag is right, an exit stop adds to the waits  *)
(* what the call adds to Owed.                                                  *)
Counted(s) ==
  /\ s.kind # "futex_wake" /\ Number(s.kind) \in DOMAIN Bucket
  /\ Requested(Bucket[Number(s.kind)])
AsWait(s) == [bucket |-> Bucket[Number(s.kind)], from |-> s.from, to |-> s.to]

LEMMA OneMoreOwed ==
  ASSUME NEW p \in Pids, NEW s, done'[p] = done[p] \cup {s}
  PROVE  Owed(p)' = Owed(p) \cup (IF Counted(s) THEN {AsWait(s)} ELSE {})
<1>1. /\ Owed(p) = {AsWait(t) : t \in {u \in done[p] : Counted(u)}}
      /\ Owed(p)' = {AsWait(t) : t \in {u \in done'[p] : Counted(u)}}
  BY DEF Owed, AsWait, Counted
<1>2. {u \in done'[p] : Counted(u)} =
        {u \in done[p] : Counted(u)} \cup (IF Counted(s) THEN {s} ELSE {})
  OBVIOUS
<1> QED
  BY <1>1, <1>2

LEMMA NumberOfKind ==
  ASSUME NEW c \in Kinds
  PROVE  /\ Number(c) \in Numbers
         /\ Number(c) = "futex" <=> c \in {"futex_wait", "futex_wake"}
  BY DEF Kinds, Numbers, Number, Bucket

LEMMA StopTypes ==
  ASSUME IInv, NEW p \in Pids, HandleSyscall(p)
  PROVE  EntryTypes'
<1>1. /\ KernelTypes /\ EntryTypes /\ clock' = clock + 1 /\ UNCHANGED printed
      /\ EntryStop(p, call[p]) \/ ExitStop(p)
      /\ HandledEntry(p) \/ HandledExit(p)
  BY DEF IInv, KernelInv, HandleSyscall, EntryOf
<1>2. clock \in Nat /\ clock' \in Nat /\ call[p] \in Kinds /\ since[p] \in Nat
  BY <1>1 DEF EntryTypes, KernelTypes
<1>3. since' \in [Pids -> Nat] /\ done' \in [Pids -> SUBSET [kind : Kinds, from : Nat, to : Nat]]
  <2>1. CASE HandledEntry(p)
    BY <1>1, <1>2, <2>1 DEF HandledEntry, EntryTypes
  <2>2. CASE HandledExit(p)
    <3>1. [kind |-> call[p], from |-> since[p], to |-> clock] \in [kind : Kinds, from : Nat, to : Nat]
      BY <1>2
    <3>2. UNCHANGED since /\
          done' = [done EXCEPT ![p] = @ \cup {[kind |-> call[p], from |-> since[p], to |-> clock]}]
      BY <2>2 DEF HandledExit
    <3> QED
      BY <1>1, <3>1, <3>2 DEF EntryTypes
  <2> QED
    BY <1>1, <2>1, <2>2
<1>4. /\ in_syscall' \in [Pids -> BOOLEAN] /\ futex_is_wait' \in [Pids -> BOOLEAN]
      /\ current_syscall' \in [Pids -> Numbers \cup {"none"}]
      /\ syscall_entry_elapsed' \in [Pids -> Nat]
  <2>1. CASE EntryStop(p, call[p])
    <3>1. Number(call[p]) \in Numbers /\ (call[p] = "futex_wait") \in BOOLEAN
      BY <1>2, NumberOfKind
    <3> QED
      BY <1>1, <1>2, <2>1, <3>1 DEF EntryStop, EntryTypes
  <2>2. CASE ExitStop(p)
    BY <1>1, <2>2 DEF ExitStop, EntryTypes
  <2> QED
    BY <1>1, <2>1, <2>2
<1>5. waits' \in [Pids -> SUBSET Waits]
  <2>1. CASE EntryStop(p, call[p])
    BY <1>1, <2>1 DEF EntryStop, EntryTypes
  <2>2. CASE ExitStop(p)
    <3> DEFINE nr == current_syscall[p]
               wait == [bucket |-> Bucket[nr], from |-> syscall_entry_elapsed[p], to |-> clock]
    <3>1. nr \in DOMAIN Bucket => wait \in Waits
      BY <1>1, <1>2 DEF Waits, Buckets, EntryTypes
    <3>2. \/ waits' = waits
          \/ nr \in DOMAIN Bucket /\ waits' = [waits EXCEPT ![p] = @ \cup {wait}]
      BY <2>2 DEF ExitStop
    <3>3. waits \in [Pids -> SUBSET Waits]
      BY <1>1 DEF EntryTypes
    <3> HIDE DEF wait, nr
    <3>4. CASE waits' = waits
      BY <3>3, <3>4
    <3>5. CASE nr \in DOMAIN Bucket /\ waits' = [waits EXCEPT ![p] = @ \cup {wait}]
      <4>1. wait \in Waits
        BY <3>1, <3>5
      <4>2. waits[p] \cup {wait} \in SUBSET Waits
        BY <3>3, <4>1
      <4> QED
        BY <3>3, <3>5, <4>2
    <3> QED
      BY <3>2, <3>4, <3>5
  <2> QED
    BY <1>1, <2>1, <2>2
<1> QED
  BY <1>1, <1>2, <1>3, <1>4, <1>5 DEF EntryTypes

LEMMA StopStep ==
  ASSUME IInv, NEW p \in Pids, HandleSyscall(p)
  PROVE  (EntryTypes /\ FlagInv /\ WaitsAreOwn)'
<1>1. /\ KernelTypes /\ EntryTypes /\ SysStopped(p) /\ Running(p)
      /\ IF in_syscall[p] THEN ExitStop(p) ELSE EntryStop(p, call[p])
      /\ IF phase[p] = "entry" THEN HandledEntry(p) ELSE HandledExit(p)
      /\ UNCHANGED <<life, stop, inc, call, taken, printed>>
  BY DEF IInv, KernelInv, HandleSyscall, EntryOf, vars, kernelVars
<1>2. ASSUME NEW r \in Pids
      PROVE  First(r)' = First(r)
  BY <1>1 DEF First
<1>3. ASSUME NEW r \in Pids, r # p
      PROVE  /\ UNCHANGED <<in_syscall[r], current_syscall[r], syscall_entry_elapsed[r], futex_is_wait[r]>>
             /\ UNCHANGED <<waits[r], since[r], done[r], phase[r]>>
  BY <1>1, <1>3 DEF EntryTypes, KernelTypes, ExitStop, EntryStop, HandledEntry, HandledExit, To
<1>4. ASSUME NEW r \in Pids, r # p, First(r)
      PROVE  /\ life'[r] = "unborn" => ~in_syscall'[r]
             /\ life'[r] = "alive" => /\ in_syscall'[r] <=> phase'[r] \in {"inside", "after", "exit"}
                                      /\ in_syscall'[r] => Holds(r)'
             /\ life'[r] \in {"unborn", "alive"} \/ stop'[r] = "exit" => printed'[r] = <<>>
             /\ waits'[r] = Owed(r)' /\ printed'[r] \in {<<>>, <<Owed(r)'>>}
  <2>1. /\ life[r] = "unborn" => ~in_syscall[r]
        /\ life[r] = "alive" => /\ in_syscall[r] <=> phase[r] \in {"inside", "after", "exit"}
                                /\ in_syscall[r] => Holds(r)
        /\ life[r] \in {"unborn", "alive"} \/ stop[r] = "exit" => printed[r] = <<>>
        /\ waits[r] = Owed(r) /\ printed[r] \in {<<>>, <<Owed(r)>>}
    BY <1>4 DEF IInv, FlagInv, WaitsAreOwn, First
  <2>2. Holds(r)' = Holds(r) /\ Owed(r)' = Owed(r)
    BY <1>1, <1>3, <1>4 DEF Holds, Owed
  <2> QED
    BY <1>1, <1>3, <1>4, <2>1, <2>2
<1>5. ASSUME First(p)
      PROVE  /\ in_syscall'[p] <=> phase'[p] \in {"inside", "after", "exit"}
             /\ in_syscall'[p] => Holds(p)'
             /\ printed'[p] = <<>> /\ waits'[p] = Owed(p)'
  <2>1. /\ in_syscall[p] <=> phase[p] = "exit"
        /\ in_syscall[p] => Holds(p)
        /\ printed[p] = <<>> /\ waits[p] = Owed(p)
    BY <1>1, <1>5 DEF IInv, FlagInv, WaitsAreOwn, First, SysStopped, Running
  <2>2. CASE phase[p] = "entry"
    <3>1. EntryStop(p, call[p]) /\ HandledEntry(p)
      BY <1>1, <2>1, <2>2
    <3>2. in_syscall'[p] /\ phase'[p] = "inside" /\ waits'[p] = waits[p] /\ UNCHANGED done
      BY <1>1, <3>1 DEF EntryStop, HandledEntry, To, EntryTypes, KernelTypes
    <3>3. Owed(p)' = Owed(p)
      BY <3>2 DEF Owed
    <3>4. /\ current_syscall'[p] = Number(call[p]) /\ syscall_entry_elapsed'[p] = clock
          /\ since'[p] = clock
          /\ "futex" \in Options /\ Number(call[p]) = "futex" => futex_is_wait'[p] = (call[p] = "futex_wait")
      BY <1>1, <3>1 DEF EntryStop, HandledEntry, EntryTypes
    <3>5. Holds(p)'
      BY <1>1, <3>4 DEF Holds
    <3> QED
      BY <1>1, <2>1, <3>2, <3>3, <3>5
  <2>3. CASE phase[p] = "exit"
    <3> DEFINE s == [kind |-> call[p], from |-> since[p], to |-> clock]
    <3>1. ExitStop(p) /\ HandledExit(p) /\ Holds(p)
      BY <1>1, <2>1, <2>3
    <3>2. ~in_syscall'[p] /\ phase'[p] = "user" /\ done'[p] = done[p] \cup {s}
      BY <1>1, <3>1 DEF ExitStop, HandledExit, To, EntryTypes, KernelTypes
    <3>3. Owed(p)' = Owed(p) \cup (IF Counted(s) THEN {AsWait(s)} ELSE {})
      BY <3>2, OneMoreOwed
    <3>4. /\ Number(call[p]) = "futex" <=> call[p] \in {"futex_wait", "futex_wake"}
          /\ Number(call[p]) \in Numbers
      BY <1>1, NumberOfKind DEF KernelTypes
    <3>5. Counted(s) <=> /\ call[p] # "futex_wake" /\ Number(call[p]) \in DOMAIN Bucket
                         /\ Requested(Bucket[Number(call[p])])
      BY DEF Counted
    <3>6. Number(call[p]) = "futex" =>
            (Requested(Bucket[Number(call[p])]) <=> "futex" \in Options)
      BY DEF Requested, Bucket
    <3>7. Counted(s) <=> /\ Number(call[p]) \in DOMAIN Bucket /\ Requested(Bucket[Number(call[p])])
                         /\ Number(call[p]) = "futex" => futex_is_wait[p]
      <4>1. Number(call[p]) = "futex" /\ "futex" \in Options => (futex_is_wait[p] <=> call[p] = "futex_wait")
        BY <3>1 DEF Holds
      <4> QED
        BY <3>4, <3>5, <3>6, <4>1
    <3>8. AsWait(s) = [bucket |-> Bucket[current_syscall[p]], from |-> syscall_entry_elapsed[p], to |-> clock]
      BY <3>1 DEF AsWait, Holds
    <3>9. waits'[p] = waits[p] \cup (IF Counted(s) THEN {AsWait(s)} ELSE {})
      <4> HIDE DEF s
      <4>1. waits' = IF Counted(s) THEN [waits EXCEPT ![p] = @ \cup {AsWait(s)}] ELSE waits
        BY <3>1, <3>7, <3>8 DEF ExitStop, Holds
      <4> QED
        BY <1>1, <4>1 DEF EntryTypes
    <3> QED
      BY <1>1, <2>1, <3>2, <3>3, <3>9
  <2> QED
    BY <1>1, <2>2, <2>3 DEF SysStopped
<1>6. life'[p] = "alive"
  BY <1>1 DEF Running
<1>7. FlagInv' /\ WaitsAreOwn'
  BY <1>2, <1>4, <1>5, <1>6 DEF FlagInv, WaitsAreOwn, First
<1> QED
  BY <1>7, StopTypes

-----------------------------------------------------------------------------
\* Every other step leaves the entries as they are, but for the exit block.
LEMMA OtherSteps ==
  ASSUME IInv, KernelInv', WaitsNext, \A p \in Pids : ~HandleSyscall(p)
  PROVE  (EntryTypes /\ FlagInv /\ WaitsAreOwn)'
<1> DEFINE Quiet == /\ Still /\ taken \subseteq taken' /\ UNCHANGED printed
                    /\ \A r \in Pids : inc[r] <= inc'[r]
                    /\ \A r \in Pids : First(r)' => Allows(r)
<1>0. ASSUME Quiet PROVE (EntryTypes /\ FlagInv /\ WaitsAreOwn)'
  <2>1. (FlagInv /\ WaitsAreOwn)'
    BY <1>0, StillStep
  <2>2. EntryTypes'
    BY <1>0 DEF IInv, EntryTypes, Still, entryVars
  <2> QED
    BY <2>1, <2>2
<1> USE DEF IInv, KernelInv, KernelTypes, SysStopped, Running
<1>1. ASSUME NEW p \in Pids, EnterCall(p) PROVE Quiet
  <2>1. Still /\ UNCHANGED <<taken, inc, printed, life, stop>> /\ To(p, "entry") /\ Running(p)
        /\ phase[p] = "user" /\ \E c \in Calls : call' = [call EXCEPT ![p] = c]
    BY <1>1 DEF EnterCall, vars, kernelVars, Still
  <2> QED
    BY <2>1 DEF To, Allows
<1>2. ASSUME NEW p \in Pids, ReturnFromCall(p) PROVE Quiet
  <2>1. Still /\ UNCHANGED <<taken, inc, printed, life, stop, call>> /\ To(p, "exit") /\ Running(p)
        /\ phase[p] \in {"inside", "after"}
    BY <1>2 DEF ReturnFromCall, vars, kernelVars, Still
  <2> QED
    BY <2>1 DEF To, Allows
<1>3. ASSUME NEW p \in Pids, ForkInCall(p) PROVE Quiet
  <2>1. PICK c \in Pids : Fork(p, c) /\ phase' = [phase EXCEPT ![p] = "after", ![c] = "user"]
    BY <1>3 DEF ForkInCall
  <2>2. Still /\ UNCHANGED <<taken, printed, call>> /\ phase[p] = "inside"
    BY <1>3 DEF ForkInCall, Still
  <2>3. /\ Running(p) /\ life' = [life EXCEPT ![c] = "alive"] /\ (life[c] = "unborn" \/ life[c] = "reaped")
        /\ stop' = [stop EXCEPT ![p] = "fork", ![c] = "sigstop"]
        /\ inc' = [inc EXCEPT ![c] = @ + 1]
    BY <2>1 DEF Fork, Free
  <2>4. \A r \in Pids : inc[r] <= inc'[r]
    BY <2>3
  <2>5. ASSUME NEW r \in Pids, First(r)' PROVE Allows(r)
    <3>1. CASE r = c
      <4>1. life[c] = "unborn"
        BY <2>3, <2>5, <3>1 DEF First
      <4> QED
        BY <2>1, <2>2, <2>3, <3>1, <4>1 DEF Allows
    <3>2. CASE r = p /\ r # c
      BY <2>1, <2>2, <2>3, <3>2 DEF Allows
    <3>3. CASE r # p /\ r # c
      BY <2>1, <2>2, <2>3, <3>3 DEF Allows
    <3> QED
      BY <3>1, <3>2, <3>3
  <2> QED
    BY <2>2, <2>4, <2>5
<1>4. ASSUME NEW p \in Pids, ExecInCall(p) PROVE Quiet
  <2>1. /\ Still /\ UNCHANGED <<taken, inc, printed, life, call>> /\ To(p, "after") /\ Running(p)
        /\ stop' = [stop EXCEPT ![p] = "exec"] /\ phase[p] = "inside"
    BY <1>4 DEF ExecInCall, Exec, Still
  <2> QED
    BY <2>1 DEF To, Allows
<1>5. ASSUME NEW p \in Pids, ExecInThread(p) PROVE Quiet
  <2> DEFINE q == parentOf[p]
  <2>1. /\ Still /\ UNCHANGED <<inc, printed>> /\ taken' = taken \cup {q} /\ Running(p)
        /\ q # p /\ q \in Pids
        /\ life' = [life EXCEPT ![p] = "reaped", ![q] = "alive"]
        /\ stop' = [stop EXCEPT ![q] = "exec"]
        /\ phase' = [phase EXCEPT ![p] = "user", ![q] = "after"]
        /\ call' = [call EXCEPT ![q] = "execve"]
    BY <1>5 DEF ExecInThread, Still
  <2> QED
    BY <2>1 DEF Allows, First
<1>6. ASSUME NEW p \in Pids, OtherKernel(p) PROVE Quiet
  <2>0. Still /\ UNCHANGED <<taken, call, printed>>
    BY <1>6 DEF OtherKernel, Still
  <2>1. CASE Noise(p) /\ UNCHANGED phase /\ phase[p] = "user"
    BY <2>0, <2>1 DEF Noise, Allows
  <2>2. CASE Exit(p) /\ UNCHANGED phase /\ ~SysStopped(p)
    BY <2>0, <2>2 DEF Exit, Allows
  <2>3. CASE Die(p) /\ UNCHANGED phase
    BY <2>0, <2>3 DEF Die, Allows
  <2>4. CASE Kill(p) /\ To(p, "user")
    <3>1. /\ UNCHANGED inc /\ life[p] \in {"alive", "exiting"}
          /\ phase' = [phase EXCEPT ![p] = "user"]
          /\ \/ life' = [life EXCEPT ![p] = "dead"] /\ stop' = [stop EXCEPT ![p] = "signaled"]
             \/ life[p] = "alive" /\ life' = [life EXCEPT ![p] = "exiting"] /\ stop' = [stop EXCEPT ![p] = "exit"]
      BY <2>4 DEF Kill, To
    <3> QED
      BY <2>0, <3>1 DEF Allows
  <2> QED
    BY <1>6, <2>1, <2>2, <2>3, <2>4 DEF OtherKernel
<1>7. ASSUME NEW p \in Pids, HandleOther(p) PROVE Quiet
  <2>1. Still /\ UNCHANGED <<phase, call, taken, printed>>
    BY <1>7 DEF HandleOther, sysVars, callVars, Still
  <2>2. \/ Resume(p) /\ stop[p] # "exit" /\ stop[p] # "none"
        \/ Reap(p) /\ stop[p] \in {"exited", "signaled"}
        \/ UNCHANGED <<life, stop, inc, parentOf>>
    BY <1>7 DEF HandleOther, HandleFork, HandleExec, HandleUnknown, HandleNewPid, HandleSignal,
                HandleExited, HandleSignaled, Waited, FlushPending, kernelVars
  <2>3. CASE Resume(p) /\ stop[p] # "exit" /\ stop[p] # "none"
    <3>1. UNCHANGED <<life, inc>> /\ stop' = [stop EXCEPT ![p] = "none"] /\ life[p] # "unborn"
      BY <2>3 DEF Resume
    <3> QED
      BY <2>1, <3>1 DEF Allows
  <2>4. CASE Reap(p) /\ stop[p] \in {"exited", "signaled"}
    <3>1. /\ UNCHANGED inc /\ stop' = [stop EXCEPT ![p] = "none"]
          /\ life' = [life EXCEPT ![p] = "reaped"] /\ life[p] # "unborn"
      BY <2>4 DEF Reap
    <3> QED
      BY <2>1, <3>1 DEF Allows
  <2>5. CASE UNCHANGED <<life, stop, inc, parentOf>>
    BY <2>1, <2>5 DEF Allows
  <2> QED
    BY <2>2, <2>3, <2>4, <2>5
<1>8. CASE (NoMoreChildren \/ WriteSummary \/ Finished) /\ UNCHANGED sysVars
  <2>1. UNCHANGED <<life, stop, inc>>
    BY <1>8 DEF NoMoreChildren, WriteSummary, Finished, vars, kernelVars
  <2>2. Still /\ UNCHANGED <<phase, call, taken, printed>>
    BY <1>8 DEF sysVars, callVars, Still
  <2>3. \A r \in Pids : inc[r] <= inc'[r]
    BY <2>1
  <2>4. ASSUME NEW r \in Pids PROVE Allows(r)
    BY <2>1, <2>2 DEF Allows
  <2>5. Quiet
    BY <2>2, <2>3, <2>4
  <2> QED
    BY <1>0, <2>5
<1>10. ASSUME NEW p \in Pids, HandleExitWaits(p) PROVE (EntryTypes /\ FlagInv /\ WaitsAreOwn)'
  <2>1. /\ Still /\ UNCHANGED <<phase, call, taken, life, inc>>
        /\ stop[p] = "exit" /\ stop' = [stop EXCEPT ![p] = "none"]
        /\ printed' = [printed EXCEPT ![p] = <<waits[p]>>]
    BY <1>10 DEF HandleExitWaits, HandleExit, Waited, Resume, callVars, Still
  <2>2. EntryTypes'
    BY <2>1 DEF EntryTypes, Still, entryVars
  <2>3. ASSUME NEW r \in Pids PROVE Allows(r)
    BY <2>1 DEF Allows, EntryTypes
  <2>4. \A r \in Pids : inc[r] <= inc'[r]
    BY <2>1
  <2>5. \A r \in Pids : First(r)' => Allows(r)
    BY <2>3
  <2>6. IInv /\ KernelInv' /\ Still /\ taken \subseteq taken'
    BY <2>1
  <2>7. (FlagInv /\ WaitsAreOwn)'
    <3> HIDE DEF IInv, KernelInv
    <3> QED
      BY ONLY <2>4, <2>5, <2>6, StillStep
  <2> QED
    BY <2>2, <2>7
<1> QED
  BY <1>1, <1>2, <1>3, <1>4, <1>5, <1>6, <1>7, <1>8, <1>0, <1>10 DEF WaitsNext

-----------------------------------------------------------------------------
\* The first process of a pid is charged with its own waits, each from its own
\* entry to its own return, whatever stops come between, for any pids, calls and
\* options, with kills, reused pids and execs in threads.
THEOREM WaitsCharged == WaitsSpec => []WaitsAreOwn
<1>1. WaitsInit => IInv
  BY Start
<1>2. IInv /\ [WaitsNext]_waitVars => IInv'
  <2> SUFFICES ASSUME IInv, [WaitsNext]_waitVars PROVE IInv'
    OBVIOUS
  <2>1. CASE WaitsNext
    <3>1. KernelInv'
      BY <2>1, KernelStep DEF IInv
    <3>2. (EntryTypes /\ FlagInv /\ WaitsAreOwn)'
      BY <2>1, <3>1, StopStep, OtherSteps
    <3> QED
      BY <3>1, <3>2 DEF IInv
  <2>2. CASE UNCHANGED waitVars
    BY <2>2 DEF IInv, KernelInv, KernelTypes, SysStopped, Running, EntryTypes, FlagInv, Holds, First,
                WaitsAreOwn, Owed, waitVars, vars, kernelVars, sysVars, callVars, entryVars
  <2> QED
    BY <2>1, <2>2
<1>3. IInv => WaitsAreOwn
  BY DEF IInv
<1> QED
  BY <1>1, <1>2, <1>3, PTL DEF WaitsSpec

-----------------------------------------------------------------------------
(* The tree. *)

(* A line and the processes it is about: the one it names or reports, and for *)
(* a fork line the parent.  A process is mentioned where it is spoken of as   *)
(* one that has not exited.                                                   *)
ProcIn(f, i) == <<f[i].pid, f[i].inc>>
ByIn(f, i)   == <<f[i].by, f[i].byInc>>
NamesOf(f)   == {i \in DOMAIN f : f[i].kind \in {"root", "fork"}}
Mentions(f, i, x) ==
  \/ i \in NamesOf(f) /\ ProcIn(f, i) = x
  \/ i \in LinesIn(f, "fork") /\ ByIn(f, i) = x

NamedOnce(f) ==
  \A i, j \in NamesOf(f) : ProcIn(f, i) = ProcIn(f, j) => i = j
ExitedOnce(f) ==
  \A i, j \in LinesIn(f, "exit") : ProcIn(f, i) = ProcIn(f, j) => i = j
MentionedAlive(f) ==
  \A i \in DOMAIN f, j \in LinesIn(f, "exit") : Mentions(f, i, ProcIn(f, j)) => i < j

\* A pid belongs to its processes one after the other.
PidInTurn(f) ==
  \A i \in DOMAIN f, p \in Pids, n \in Nat : Mentions(f, i, <<p, n>>) =>
    /\ n >= 1
    /\ \A m \in 1 .. n - 1 : \E j \in LinesIn(f, "exit") : j < i /\ ProcIn(f, j) = <<p, m>>

\* Blocks of processes that no line names come after every fork line.
NamedExits(f, limit) ==
  \A j \in LinesIn(f, "exit") : j < limit => \E k \in NamesOf(f) : ProcIn(f, k) = ProcIn(f, j)
OrphansLast(f) == \A i \in LinesIn(f, "fork") : NamedExits(f, i)

RootFirst(f) ==
  /\ 1 \in DOMAIN f /\ f[1].kind = "root" /\ ProcIn(f, 1) = <<Root, 1>>
  /\ \A i \in DOMAIN f : f[i].kind = "root" => i = 1
NotOwnParent(f) == \A i \in LinesIn(f, "fork") : f[i].pid # f[i].by

\* What TreeFile makes of a file.
OrderedIn(f) ==
  /\ f \in Seq(Lines)
  /\ NamedOnce(f) /\ ExitedOnce(f) /\ MentionedAlive(f) /\ PidInTurn(f)
  /\ OrphansLast(f) /\ RootFirst(f) /\ NotOwnParent(f)

-----------------------------------------------------------------------------
(* What one more line adds to each of these sets. *)
LEMMA LineAdded ==
  ASSUME NEW f \in Seq(Lines), NEW l \in Lines, NEW g, g = Append(f, l)
  PROVE  /\ g \in Seq(Lines)
         /\ Len(f) \in Nat /\ DOMAIN f = 1 .. Len(f) /\ DOMAIN g = 1 .. Len(f) + 1
         /\ \A i \in DOMAIN f : i \in DOMAIN g /\ i # Len(f) + 1 /\ i < Len(f) + 1
         /\ \A i \in DOMAIN g : i \in DOMAIN f \/ i = Len(f) + 1
         /\ \A i \in DOMAIN f : g[i] = f[i]
         /\ g[Len(f) + 1] = l
<1>1. /\ g \in Seq(Lines) /\ Len(f) \in Nat
      /\ DOMAIN f = 1 .. Len(f) /\ DOMAIN g = 1 .. Len(f) + 1
      /\ \A i \in 1 .. Len(f) : g[i] = f[i]
      /\ g[Len(f) + 1] = l
  BY Appended
<1>2. QED
  BY <1>1

NamesGrow(f, l, g, e) ==
  /\ \A i \in NamesOf(g) :
       \/ i \in NamesOf(f) /\ ProcIn(g, i) = ProcIn(f, i)
       \/ i = e /\ l.kind \in {"root", "fork"} /\ ProcIn(g, i) = <<l.pid, l.inc>>
  /\ \A i \in NamesOf(f) : i \in NamesOf(g) /\ ProcIn(g, i) = ProcIn(f, i)
ExitsGrow(f, l, g, e) ==
  /\ \A i \in LinesIn(g, "exit") :
       \/ i \in LinesIn(f, "exit") /\ ProcIn(g, i) = ProcIn(f, i)
       \/ i = e /\ l.kind = "exit" /\ ProcIn(g, i) = <<l.pid, l.inc>>
  /\ \A i \in LinesIn(f, "exit") : i \in LinesIn(g, "exit") /\ ProcIn(g, i) = ProcIn(f, i)
ForksGrow(f, l, g, e) ==
  \A i \in LinesIn(g, "fork") :
    \/ i \in LinesIn(f, "fork") /\ g[i] = f[i]
    \/ i = e /\ l.kind = "fork" /\ g[i] = l
MentionsGrow(f, l, g, e) ==
  \A i \in DOMAIN g : \A x : Mentions(g, i, x) =>
    \/ i \in DOMAIN f /\ Mentions(f, i, x)
    \/ i = e /\ l.kind \in {"root", "fork"} /\ x = <<l.pid, l.inc>>
    \/ i = e /\ l.kind = "fork" /\ x = <<l.by, l.byInc>>

LEMMA SetsAdded ==
  ASSUME NEW f \in Seq(Lines), NEW l \in Lines, NEW g, g = Append(f, l),
         NEW e, e = Len(f) + 1
  PROVE  /\ NamesGrow(f, l, g, e) /\ ExitsGrow(f, l, g, e)
         /\ ForksGrow(f, l, g, e) /\ MentionsGrow(f, l, g, e)
<1>1. /\ \A i \in DOMAIN f : i \in DOMAIN g /\ i # e
      /\ \A i \in DOMAIN g : i \in DOMAIN f \/ i = e
      /\ \A i \in DOMAIN f : g[i] = f[i]
      /\ g[e] = l /\ e \in DOMAIN g
  BY LineAdded
<1>2. /\ \A i \in NamesOf(g) :
           \/ i \in NamesOf(f) /\ ProcIn(g, i) = ProcIn(f, i)
           \/ i = e /\ l.kind \in {"root", "fork"} /\ ProcIn(g, i) = <<l.pid, l.inc>>
      /\ \A i \in NamesOf(f) : i \in NamesOf(g) /\ ProcIn(g, i) = ProcIn(f, i)
  BY ONLY <1>1 DEF NamesOf, ProcIn
<1>3. /\ \A i \in LinesIn(g, "exit") :
           \/ i \in LinesIn(f, "exit") /\ ProcIn(g, i) = ProcIn(f, i)
           \/ i = e /\ l.kind = "exit" /\ ProcIn(g, i) = <<l.pid, l.inc>>
      /\ \A i \in LinesIn(f, "exit") : i \in LinesIn(g, "exit") /\ ProcIn(g, i) = ProcIn(f, i)
  BY ONLY <1>1 DEF LinesIn, ProcIn
<1>4. \A i \in LinesIn(g, "fork") :
        \/ i \in LinesIn(f, "fork") /\ g[i] = f[i]
        \/ i = e /\ l.kind = "fork" /\ g[i] = l
  BY ONLY <1>1 DEF LinesIn
<1>5. \A i \in DOMAIN g : \A x : Mentions(g, i, x) =>
        \/ i \in DOMAIN f /\ Mentions(f, i, x)
        \/ i = e /\ l.kind \in {"root", "fork"} /\ x = <<l.pid, l.inc>>
        \/ i = e /\ l.kind = "fork" /\ x = <<l.by, l.byInc>>
  <2> SUFFICES ASSUME NEW i \in DOMAIN g, NEW x, Mentions(g, i, x)
               PROVE  \/ i \in DOMAIN f /\ Mentions(f, i, x)
                      \/ i = e /\ l.kind \in {"root", "fork"} /\ x = <<l.pid, l.inc>>
                      \/ i = e /\ l.kind = "fork" /\ x = <<l.by, l.byInc>>
    OBVIOUS
  <2>1. CASE i \in NamesOf(g) /\ ProcIn(g, i) = x
    BY <1>2, <2>1 DEF Mentions, NamesOf
  <2>2. CASE i \in LinesIn(g, "fork") /\ ByIn(g, i) = x
    BY <1>4, <2>2 DEF Mentions, ByIn, LinesIn
  <2>3. QED
    BY <2>1, <2>2 DEF Mentions
<1>6. QED
  BY <1>2, <1>3, <1>4, <1>5 DEF NamesGrow, ExitsGrow, ForksGrow, MentionsGrow

(* What TreeFile asks of a process that is to be named, in terms of lines. *)
AllNamed(f) == \A j \in LinesIn(f, "exit") : \E k \in NamesOf(f) : ProcIn(f, k) = ProcIn(f, j)
NoName(f, x) == \A k \in NamesOf(f) : ProcIn(f, k) # x
NoExit(f, x) == \A j \in LinesIn(f, "exit") : ProcIn(f, j) # x
FreshIn(f, p, n) ==
  /\ NoName(f, <<p, n>>) /\ NoExit(f, <<p, n>>)
  /\ n = 1 \/ (n > 1 /\ \E j \in LinesIn(f, "exit") : ProcIn(f, j) = <<p, n - 1>>)

\* The processes of a pid before this one have all had their block.
InTurn(f, p, n) ==
  /\ n >= 1
  /\ \A m \in 1 .. n - 1 : \E j \in LinesIn(f, "exit") : ProcIn(f, j) = <<p, m>>

LEMMA FreshInTurn ==
  ASSUME NEW f, PidInTurn(f), AllNamed(f), NEW p \in Pids, NEW n \in Nat,
         FreshIn(f, p, n) \/ \E k \in NamesOf(f) : ProcIn(f, k) = <<p, n>>
  PROVE  InTurn(f, p, n)
<1>1. ASSUME NEW k \in NamesOf(f), NEW q \in Nat, ProcIn(f, k) = <<p, q>> PROVE InTurn(f, p, q)
  <2>1. k \in DOMAIN f /\ Mentions(f, k, <<p, q>>)
    BY <1>1 DEF Mentions, NamesOf
  <2>2. QED
    BY <2>1 DEF PidInTurn, InTurn
<1>2. CASE FreshIn(f, p, n) /\ n > 1
  <2>1. PICK j \in LinesIn(f, "exit") : ProcIn(f, j) = <<p, n - 1>>
    BY <1>2 DEF FreshIn
  <2>2. PICK k \in NamesOf(f) : ProcIn(f, k) = <<p, n - 1>>
    BY <2>1 DEF AllNamed
  <2>3. n - 1 \in Nat
    BY <1>2
  <2>4. InTurn(f, p, n - 1)
    BY <1>1, <2>2, <2>3
  <2>5. \A m \in 1 .. n - 1 : m = n - 1 \/ m \in 1 .. (n - 1) - 1
    BY <2>3
  <2>6. QED
    BY <1>2, <2>1, <2>4, <2>5 DEF InTurn
<1>3. CASE FreshIn(f, p, n) /\ n = 1
  BY <1>3 DEF InTurn
<1>4. QED
  BY <1>1, <1>2, <1>3 DEF FreshIn

(* A fork line TreeFile allows keeps the order. *)
LEMMA NameKeeps ==
  ASSUME NEW f, OrderedIn(f), AllNamed(f), NEW l \in Lines, NEW g, g = Append(f, l),
         l.kind = "fork", l.pid # l.by, FreshIn(f, l.pid, l.inc),
         \/ FreshIn(f, l.by, l.byInc)
         \/ /\ \E k \in NamesOf(f) : ProcIn(f, k) = <<l.by, l.byInc>>
            /\ NoExit(f, <<l.by, l.byInc>>)
  PROVE  OrderedIn(g) /\ AllNamed(g)
<1> DEFINE e == Len(f) + 1
           x == <<l.pid, l.inc>>
           y == <<l.by, l.byInc>>
<1>1. /\ f \in Seq(Lines)
      /\ l.pid \in Pids /\ l.inc \in Nat /\ l.by \in Pids /\ l.byInc \in Nat
  BY DEF OrderedIn, Lines
<1>2. /\ g \in Seq(Lines) /\ e \in Nat
      /\ DOMAIN f \subseteq Nat /\ DOMAIN g \subseteq Nat
      /\ \A i \in DOMAIN f : i \in DOMAIN g /\ i < e
      /\ \A i \in DOMAIN g : i \in DOMAIN f \/ i = e
      /\ \A i \in DOMAIN f : g[i] = f[i]
      /\ g[e] = l
  BY <1>1, LineAdded
<1>0. /\ NamesGrow(f, l, g, e) /\ ExitsGrow(f, l, g, e)
      /\ ForksGrow(f, l, g, e) /\ MentionsGrow(f, l, g, e)
  BY <1>1, SetsAdded
<1>3. /\ \A i \in NamesOf(g) :
           \/ i \in NamesOf(f) /\ ProcIn(g, i) = ProcIn(f, i)
           \/ i = e /\ ProcIn(g, i) = x
      /\ \A i \in NamesOf(f) : i \in NamesOf(g) /\ ProcIn(g, i) = ProcIn(f, i)
  BY ONLY <1>0, l.kind = "fork" DEF NamesGrow
<1>4. /\ \A i \in LinesIn(g, "exit") : i \in LinesIn(f, "exit") /\ ProcIn(g, i) = ProcIn(f, i)
      /\ \A i \in LinesIn(f, "exit") : i \in LinesIn(g, "exit") /\ ProcIn(g, i) = ProcIn(f, i)
  BY ONLY <1>0, l.kind = "fork" DEF ExitsGrow
<1>5. \A i \in LinesIn(g, "fork") : \/ i \in LinesIn(f, "fork") /\ g[i] = f[i]
                                    \/ i = e /\ g[i] = l
  BY ONLY <1>0, l.kind = "fork" DEF ForksGrow
<1>6. \A i \in DOMAIN g : \A z : Mentions(g, i, z) =>
           (i \in DOMAIN f /\ Mentions(f, i, z)) \/ (i = e /\ (z = x \/ z = y))
  BY ONLY <1>0, l.kind = "fork" DEF MentionsGrow
<1>7. NoName(f, x) /\ NoExit(f, x) /\ NoExit(f, y)
  BY DEF FreshIn
<1>8. InTurn(f, l.pid, l.inc) /\ InTurn(f, l.by, l.byInc)
  BY <1>1, FreshInTurn DEF OrderedIn
<1>9. \A i : i \in LinesIn(f, "exit") \/ i \in NamesOf(f) \/ i \in LinesIn(f, "fork") => i \in DOMAIN f
  BY DEF LinesIn, NamesOf
<1> HIDE DEF e
<1>10. NamedOnce(g)
  BY <1>3, <1>7 DEF NamedOnce, NoName, OrderedIn
<1>11. ExitedOnce(g)
  BY <1>4 DEF ExitedOnce, OrderedIn
<1>12. MentionedAlive(g)
  <2> SUFFICES ASSUME NEW i \in DOMAIN g, NEW j \in LinesIn(g, "exit"), Mentions(g, i, ProcIn(g, j))
               PROVE  i < j
    BY DEF MentionedAlive
  <2>1. j \in LinesIn(f, "exit") /\ ProcIn(g, j) = ProcIn(f, j)
    BY <1>4
  <2>2. ProcIn(f, j) # x /\ ProcIn(f, j) # y
    BY <1>7, <2>1 DEF NoExit
  <2>3. i \in DOMAIN f /\ Mentions(f, i, ProcIn(f, j))
    BY <1>6, <2>1, <2>2
  <2>4. QED
    BY <2>1, <2>3 DEF OrderedIn, MentionedAlive
<1>13. PidInTurn(g)
  <2> SUFFICES ASSUME NEW i \in DOMAIN g, NEW p \in Pids, NEW n \in Nat, Mentions(g, i, <<p, n>>)
               PROVE  /\ n >= 1
                      /\ \A m \in 1 .. n - 1 : \E j \in LinesIn(g, "exit") :
                                               j < i /\ ProcIn(g, j) = <<p, m>>
    BY DEF PidInTurn
  <2>1. CASE i \in DOMAIN f /\ Mentions(f, i, <<p, n>>)
    <3>1. /\ n >= 1
          /\ \A m \in 1 .. n - 1 : \E j \in LinesIn(f, "exit") : j < i /\ ProcIn(f, j) = <<p, m>>
      BY <2>1 DEF OrderedIn, PidInTurn
    <3>2. QED
      BY <1>4, <3>1
  <2>2. CASE i = e /\ (<<p, n>> = x \/ <<p, n>> = y)
    <3>1. InTurn(f, p, n)
      BY <1>8, <2>2
    <3>2. QED
      BY <1>2, <1>4, <1>9, <2>2, <3>1 DEF InTurn
  <2>3. QED
    BY <1>6, <2>1, <2>2
<1>14. AllNamed(g)
  BY <1>3, <1>4 DEF AllNamed
<1>15. OrphansLast(g)
  BY <1>14 DEF AllNamed, OrphansLast, NamedExits
<1>16. RootFirst(g)
  <2>1. RootFirst(f)
    BY DEF OrderedIn
  <2>2. QED
    BY <1>2, <2>1 DEF RootFirst, ProcIn
<1>17. NotOwnParent(g)
  BY <1>5 DEF NotOwnParent, OrderedIn
<1>18. QED
  BY <1>2, <1>10, <1>11, <1>12, <1>13, <1>14, <1>15, <1>16, <1>17 DEF OrderedIn

(* So does any other line that is no second exit block of its process. *)
LEMMA OtherKeeps ==
  ASSUME NEW f, OrderedIn(f), NEW l \in Lines, NEW g, g = Append(f, l),
         l.kind \notin {"root", "fork"}, l.kind = "exit" => NoExit(f, <<l.pid, l.inc>>)
  PROVE  /\ OrderedIn(g)
         /\ AllNamed(f) /\ (l.kind = "exit" => ~NoName(f, <<l.pid, l.inc>>)) => AllNamed(g)
<1> DEFINE e == Len(f) + 1
           x == <<l.pid, l.inc>>
<1>1. f \in Seq(Lines)
  BY DEF OrderedIn
<1>2. /\ g \in Seq(Lines) /\ e \in Nat
      /\ DOMAIN f \subseteq Nat /\ DOMAIN g \subseteq Nat
      /\ \A i \in DOMAIN f : i \in DOMAIN g /\ i < e
      /\ \A i \in DOMAIN g : i \in DOMAIN f \/ i = e
      /\ \A i \in DOMAIN f : g[i] = f[i]
      /\ g[e] = l
  BY <1>1, LineAdded
<1>0. /\ NamesGrow(f, l, g, e) /\ ExitsGrow(f, l, g, e)
      /\ ForksGrow(f, l, g, e) /\ MentionsGrow(f, l, g, e)
  BY <1>1, SetsAdded
<1>3. /\ \A i \in NamesOf(g) : i \in NamesOf(f) /\ ProcIn(g, i) = ProcIn(f, i)
      /\ \A i \in NamesOf(f) : i \in NamesOf(g) /\ ProcIn(g, i) = ProcIn(f, i)
  BY ONLY <1>0, l.kind \notin {"root", "fork"} DEF NamesGrow
<1>4. /\ \A i \in LinesIn(g, "exit") :
           \/ i \in LinesIn(f, "exit") /\ ProcIn(g, i) = ProcIn(f, i)
           \/ i = e /\ l.kind = "exit" /\ ProcIn(g, i) = x
      /\ \A i \in LinesIn(f, "exit") : i \in LinesIn(g, "exit") /\ ProcIn(g, i) = ProcIn(f, i)
  BY ONLY <1>0, l.kind \notin {"root", "fork"} DEF ExitsGrow
<1>5. \A i \in LinesIn(g, "fork") : i \in LinesIn(f, "fork") /\ g[i] = f[i]
  BY ONLY <1>0, l.kind \notin {"root", "fork"} DEF ForksGrow
<1>6. \A i \in DOMAIN g : \A z : Mentions(g, i, z) => i \in DOMAIN f /\ Mentions(f, i, z)
  BY ONLY <1>0, l.kind \notin {"root", "fork"} DEF MentionsGrow
<1>9. \A i : i \in LinesIn(f, "exit") \/ i \in NamesOf(f) \/ i \in LinesIn(f, "fork") => i \in DOMAIN f
  BY DEF LinesIn, NamesOf
<1> HIDE DEF e
<1>10. NamedOnce(g)
  BY <1>3 DEF NamedOnce, OrderedIn
<1>11. ExitedOnce(g)
  BY <1>4 DEF ExitedOnce, OrderedIn, NoExit
<1>12. MentionedAlive(g)
  BY <1>2, <1>4, <1>6 DEF MentionedAlive, OrderedIn
<1>13. PidInTurn(g)
  BY <1>4, <1>6 DEF PidInTurn, OrderedIn
<1>14. OrphansLast(g)
  <2> SUFFICES ASSUME NEW i \in LinesIn(g, "fork"), NEW j \in LinesIn(g, "exit"), j < i
               PROVE  \E k \in NamesOf(g) : ProcIn(g, k) = ProcIn(g, j)
    BY DEF OrphansLast, NamedExits
  <2>1. i \in LinesIn(f, "fork") /\ i < e /\ i \in Nat
    BY <1>2, <1>5, <1>9
  <2>2. j \in LinesIn(f, "exit") /\ ProcIn(g, j) = ProcIn(f, j)
    BY <1>2, <1>4, <2>1
  <2>3. QED
    BY <1>3, <2>1, <2>2 DEF OrderedIn, OrphansLast, NamedExits
<1>15. RootFirst(g)
  <2>1. RootFirst(f)
    BY DEF OrderedIn
  <2>2. QED
    BY <1>2, <2>1 DEF RootFirst, ProcIn
<1>16. NotOwnParent(g)
  BY <1>5 DEF NotOwnParent, OrderedIn
<1>17. AllNamed(f) /\ (l.kind = "exit" => ~NoName(f, x)) => AllNamed(g)
  BY <1>3, <1>4 DEF AllNamed, NoName
<1>18. QED
  BY <1>2, <1>10, <1>11, <1>12, <1>13, <1>14, <1>15, <1>16, <1>17 DEF OrderedIn

-----------------------------------------------------------------------------
(* TreeFile keeps its file in this order, and names every process that has a *)
(* block as long as the tracer waits for tracees.                            *)
Order == OrderedIn(file) /\ (loop = "wait" => AllNamed(file))

LEMMA PromiseTerms ==
  ASSUME NEW x
  PROVE  /\ x \in Promised!Named <=> ~NoName(file, x)
         /\ x \in Promised!Finished <=> ~NoExit(file, x)
BY DEF Promised!Named, Promised!Finished, Promised!Lines, Promised!Process, NoName, NoExit,
       NamesOf, LinesIn, ProcIn

LEMMA FreshTerms ==
  ASSUME NEW p, NEW n \in Nat, Promised!Fresh(<<p, n>>)
  PROVE  FreshIn(file, p, n)
<1>1. <<p, n>>[1] = p /\ <<p, n>>[2] = n
  OBVIOUS
<1>2. NoName(file, <<p, n>>) /\ NoExit(file, <<p, n>>)
  BY PromiseTerms DEF Promised!Fresh
<1>3. n = 1 \/ (n > 1 /\ <<p, n - 1>> \in Promised!Finished)
  BY <1>1 DEF Promised!Fresh
<1>4. QED
  BY <1>2, <1>3, PromiseTerms DEF FreshIn, NoExit

LEMMA FirstLineInOrder ==
  ASSUME Promised!Init, file \in Seq(Lines)
  PROVE  Order
<1>1. /\ Len(file) = 1 /\ DOMAIN file = 1 .. Len(file) /\ file[1].kind = "root"
      /\ ProcIn(file, 1) = <<Root, 1>>
  BY DEF Promised!Init, Promised!Process, ProcIn
<1>2. DOMAIN file = {1}
  BY <1>1
<1>3. LinesIn(file, "exit") = {} /\ LinesIn(file, "fork") = {} /\ NamesOf(file) \subseteq {1}
  BY <1>1, <1>2 DEF LinesIn, NamesOf
<1>4. \A i, p, n : Mentions(file, i, <<p, n>>) => n = 1
  BY <1>1, <1>3 DEF Mentions
<1>5. PidInTurn(file)
  BY <1>4 DEF PidInTurn
<1>6. AllNamed(file) /\ OrphansLast(file) /\ NotOwnParent(file) /\ ExitedOnce(file)
      /\ MentionedAlive(file) /\ NamedOnce(file)
  BY <1>3 DEF AllNamed, OrphansLast, NotOwnParent, ExitedOnce, MentionedAlive, NamedOnce
<1>7. RootFirst(file)
  BY <1>1, <1>2 DEF RootFirst
<1>8. QED
  BY <1>5, <1>6, <1>7 DEF Order, OrderedIn

LEMMA LinesKeepOrder ==
  ASSUME Order, file' \in Seq(Lines), Allowed
  PROVE  Order'
<1>0. OrderedIn(file) /\ (loop = "wait" => AllNamed(file)) /\ file \in Seq(Lines)
  BY DEF Order, OrderedIn
<1>1. \A l \in {file'[i] : i \in DOMAIN file'} : l \in Lines
  OBVIOUS
<1> DEFINE written == {file'[i] : i \in DOMAIN file'}
<1>2. ASSUME NEW l \in Lines, Promised!Name(l)
      PROVE  /\ loop = "wait" /\ loop' = "wait" /\ l.kind = "fork"
             /\ NoExit(file, <<l.pid, l.inc>>)
             /\ OrderedIn(Append(file, l)) /\ AllNamed(Append(file, l))
  <2>1. /\ loop = "wait" /\ loop' = "wait"
        /\ l.kind = "fork" /\ l.pid # l.by
        /\ l.inc \in Nat /\ l.byInc \in Nat
        /\ Promised!Fresh(<<l.pid, l.inc>>)
        /\ \/ Promised!Fresh(<<l.by, l.byInc>>)
           \/ <<l.by, l.byInc>> \in Promised!Named \ Promised!Finished
    BY <1>2 DEF Promised!Name, Promised!Process, Promised!Parent, Lines
  <2>2. FreshIn(file, l.pid, l.inc)
    BY <2>1, FreshTerms
  <2>3. \/ FreshIn(file, l.by, l.byInc)
        \/ /\ \E k \in NamesOf(file) : ProcIn(file, k) = <<l.by, l.byInc>>
           /\ NoExit(file, <<l.by, l.byInc>>)
    <3>1. CASE Promised!Fresh(<<l.by, l.byInc>>)
      BY <2>1, <3>1, FreshTerms
    <3>2. CASE <<l.by, l.byInc>> \in Promised!Named \ Promised!Finished
      BY <3>2, PromiseTerms DEF NoName
    <3>3. QED
      BY <2>1, <3>1, <3>2
  <2>4. NoExit(file, <<l.pid, l.inc>>)
    BY <2>2 DEF FreshIn
  <2>5. OrderedIn(Append(file, l)) /\ AllNamed(Append(file, l))
    BY <1>0, <2>1, <2>2, <2>3, NameKeeps
  <2>6. QED
    BY <2>1, <2>4, <2>5
<1>3. ASSUME NEW l \in Lines, Promised!NameOnly(l) PROVE Order'
  <2>1. Promised!Name(l) /\ file' = Append(file, l)
    BY <1>3 DEF Promised!NameOnly
  <2>2. OrderedIn(file') /\ AllNamed(file')
    BY <1>2, <2>1
  <2>3. QED
    BY <2>2 DEF Order
<1>4. ASSUME NEW l \in Lines, NEW b \in Lines, Promised!NameAndFinish(l, b) PROVE Order'
  <2> DEFINE g == Append(file, l)
  <2>1. /\ Promised!Name(l) /\ b.kind = "exit" /\ <<b.pid, b.inc>> = <<l.pid, l.inc>>
        /\ file' = Append(g, b)
    BY <1>4 DEF Promised!NameAndFinish, Promised!Process
  <2>2. /\ l.kind = "fork" /\ OrderedIn(g) /\ AllNamed(g)
        /\ NoExit(file, <<l.pid, l.inc>>)
    BY <1>2, <2>1
  <2>3. NamesGrow(file, l, g, Len(file) + 1) /\ ExitsGrow(file, l, g, Len(file) + 1)
    BY <1>0, SetsAdded
  <2>4. NoExit(g, <<b.pid, b.inc>>)
    BY <2>1, <2>2, <2>3 DEF ExitsGrow, NoExit
  <2>5. ~NoName(g, <<b.pid, b.inc>>)
    <3>1. Len(file) + 1 \in DOMAIN g /\ g[Len(file) + 1] = l
      BY <1>0, LineAdded
    <3> HIDE DEF g
    <3>2. QED
      BY <2>1, <2>2, <3>1 DEF NoName, NamesOf, ProcIn
  <2> HIDE DEF g
  <2>6. OrderedIn(file') /\ AllNamed(file')
    BY <2>1, <2>2, <2>4, <2>5, OtherKeeps
  <2>7. QED
    BY <2>6 DEF Order
<1>5. ASSUME NEW l \in Lines, Promised!Finish(l) \/ Promised!Other(l) \/ Promised!Orphan(l) PROVE Order'
  <2>2. /\ file' = Append(file, l) /\ (loop = "wait") = (loop' = "wait")
        /\ l.kind \notin {"root", "fork"}
        /\ l.kind = "exit" => <<l.pid, l.inc>> \notin Promised!Finished
        /\ l.kind = "exit" /\ loop = "wait" => <<l.pid, l.inc>> \in Promised!Named
    BY <1>5 DEF Promised!Finish, Promised!Other, Promised!Orphan, Promised!Process
  <2>3. l.kind = "exit" => NoExit(file, <<l.pid, l.inc>>)
    BY <2>2, PromiseTerms
  <2>4. l.kind = "exit" /\ loop = "wait" => ~NoName(file, <<l.pid, l.inc>>)
    BY <2>2, PromiseTerms
  <2>5. /\ OrderedIn(file')
        /\ AllNamed(file) /\ (l.kind = "exit" => ~NoName(file, <<l.pid, l.inc>>)) => AllNamed(file')
    BY <1>0, <2>2, <2>3, OtherKeeps
  <2>6. QED
    BY <1>0, <2>2, <2>4, <2>5 DEF Order
<1>6. CASE Promised!Close
  BY <1>0, <1>6 DEF Promised!Close, Order
<1>7. CASE UNCHANGED Promised!treeVars
  BY <1>0, <1>7 DEF Promised!treeVars, Order
<1>8. QED
  BY <1>1, <1>3, <1>4, <1>5, <1>6, <1>7 DEF Allowed, Promised!Write

(* Whoever keeps the promise of TreeFile writes the lines in this order: each *)
(* process is named once, has one exit block at most, and is not spoken of    *)
(* after it, and a pid is one process at a time.                              *)
THEOREM PromiseOrders == KeepsPromise /\ [](file \in Seq(Lines)) => []Order
<1>1. Promised!Init /\ file \in Seq(Lines) => Order
  BY FirstLineInOrder
<1>2. Order /\ (file \in Seq(Lines))' /\ Allowed => Order'
  BY LinesKeepOrder
<1>3. QED
  BY <1>1, <1>2, PTL DEF KeepsPromise, Promised!Spec, Allowed

-----------------------------------------------------------------------------
(* proctree.  What its table and its nodes are between two lines: the table *)
(* holds nodes of the pid it holds them for that have not exited, no two    *)
(* nodes are of one process, and parent and children say the same.          *)
NodeType ==
  [pid : Pids, inc : Nat, parent : Nat, children : Seq(Nat), start : Nat, finish : Nat,
   exited : BOOLEAN, comm : {"none", "exec", "comm"}, groups : Nat]
Dbs == [table : [Pids -> Nat], nodes : Seq(NodeType)]
Of(nd) == <<nd.pid, nd.inc>>

TableValid(d) ==
  \A p \in Pids : d.table[p] # 0 =>
    d.table[p] \in DOMAIN d.nodes /\ d.nodes[d.table[p]].pid = p /\ ~d.nodes[d.table[p]].exited
OneNode(d) == \A m, n \in DOMAIN d.nodes : Of(d.nodes[m]) = Of(d.nodes[n]) => m = n
Linked(d) ==
  \A n \in DOMAIN d.nodes :
    /\ d.nodes[n].parent = 0 \/ d.nodes[n].parent \in DOMAIN d.nodes
    /\ Reading!IsInjective(d.nodes[n].children)
    /\ \A m \in DOMAIN d.nodes :
         m \in Reading!Range(d.nodes[n].children) <=> d.nodes[m].parent = n
    /\ Reading!Range(d.nodes[n].children) \subseteq DOMAIN d.nodes

Shape(d) == d \in Dbs /\ TableValid(d) /\ OneNode(d) /\ Linked(d)

\* The handlers only add nodes, and change no process of one.
Extends(e, d) ==
  /\ DOMAIN d.nodes \subseteq DOMAIN e.nodes
  /\ \A n \in DOMAIN d.nodes : Of(e.nodes[n]) = Of(d.nodes[n])

LEMMA NodesGrow ==
  ASSUME NEW ns \in Seq(NodeType), NEW nd \in NodeType
  PROVE  /\ Append(ns, nd) \in Seq(NodeType)
         /\ Len(ns) \in Nat /\ Len(ns) + 1 # 0
         /\ DOMAIN ns = 1 .. Len(ns)
         /\ Len(ns) + 1 \notin DOMAIN ns
         /\ DOMAIN Append(ns, nd) = DOMAIN ns \cup {Len(ns) + 1}
         /\ \A n \in DOMAIN ns : Append(ns, nd)[n] = ns[n]
         /\ Append(ns, nd)[Len(ns) + 1] = nd
<1>1. /\ Append(ns, nd) \in Seq(NodeType)
      /\ Len(ns) \in Nat
      /\ DOMAIN ns = 1 .. Len(ns)
      /\ DOMAIN Append(ns, nd) = 1 .. Len(ns) + 1
      /\ \A n \in 1 .. Len(ns) : Append(ns, nd)[n] = ns[n]
      /\ Append(ns, nd)[Len(ns) + 1] = nd
  OBVIOUS
<1> HIDE DEF NodeType
<1>2. QED
  BY <1>1

(* lookup_pid(pid,1) keeps the shape, for a process without a node or the one *)
(* the table holds.                                                           *)
Fits(d, p, i) ==
  /\ d.table[p] = 0 => \A n \in DOMAIN d.nodes : Of(d.nodes[n]) # <<p, i>>
  /\ d.table[p] # 0 => Of(d.nodes[d.table[p]]) = <<p, i>>
InsertedAs(e, d, p, i) ==
  /\ Shape(e) /\ Extends(e, d)
  /\ e.table[p] \in DOMAIN e.nodes /\ Of(e.nodes[e.table[p]]) = <<p, i>>
  /\ \A q \in Pids : q # p => e.table[q] = d.table[q]
  /\ \A n \in DOMAIN e.nodes : n \notin DOMAIN d.nodes =>
       /\ n = e.table[p] /\ d.table[p] = 0
       /\ e.nodes[n].parent = 0 /\ e.nodes[n].exited = FALSE
  /\ \A n \in DOMAIN d.nodes : e.nodes[n] = d.nodes[n]

LEMMA InsertedKeeps ==
  ASSUME NEW d, Shape(d), NEW p \in Pids, NEW i \in Nat, Fits(d, p, i),
         NEW e, e = Reading!Inserted(d, p, i)
  PROVE  InsertedAs(e, d, p, i)
<1>0. /\ d.table[p] = 0 => \A n \in DOMAIN d.nodes : Of(d.nodes[n]) # <<p, i>>
      /\ d.table[p] # 0 => Of(d.nodes[d.table[p]]) = <<p, i>>
  BY DEF Fits
<1> DEFINE k == Len(d.nodes) + 1
           nd == Reading!NewNode(p, i)
<1>1. d \in Dbs /\ TableValid(d) /\ OneNode(d) /\ Linked(d)
  BY DEF Shape
<1>2. d.table \in [Pids -> Nat] /\ d.nodes \in Seq(NodeType)
  BY <1>1 DEF Dbs
<1>3. CASE d.table[p] # 0
  <2>1. e = d
    BY <1>3 DEF Reading!Inserted, Reading!NoNode
  <2>2. QED
    BY <1>0, <1>1, <1>3, <2>1 DEF Extends, Shape, TableValid, InsertedAs
<1>4. CASE d.table[p] = 0
  <2>1. /\ nd \in NodeType /\ Of(nd) = <<p, i>> /\ nd.pid = p /\ nd.parent = 0 /\ nd.children = <<>>
        /\ ~nd.exited /\ nd.exited = FALSE
    BY DEF NodeType, Of, Reading!NewNode, Reading!NoNode
  <2> HIDE DEF nd
  <2>2. e = [table |-> [d.table EXCEPT ![p] = k], nodes |-> Append(d.nodes, nd)]
    BY <1>4 DEF Reading!Inserted, Reading!NoNode, nd
  <2>3. /\ Append(d.nodes, nd) \in Seq(NodeType)
        /\ k \in Nat /\ k # 0 /\ k \notin DOMAIN d.nodes
        /\ DOMAIN Append(d.nodes, nd) = DOMAIN d.nodes \cup {k}
        /\ \A n \in DOMAIN d.nodes : Append(d.nodes, nd)[n] = d.nodes[n]
        /\ Append(d.nodes, nd)[k] = nd
        /\ 0 \notin DOMAIN d.nodes
    BY <1>2, <2>1, NodesGrow
  <2> HIDE DEF k
  <2>4. /\ e \in Dbs
        /\ e.table = [d.table EXCEPT ![p] = k]
        /\ DOMAIN e.nodes = DOMAIN d.nodes \cup {k}
        /\ \A n \in DOMAIN d.nodes : e.nodes[n] = d.nodes[n]
        /\ e.nodes[k] = nd
    BY <1>2, <2>2, <2>3 DEF Dbs
  <2>5. e.table[p] = k /\ \A q \in Pids : q # p => e.table[q] = d.table[q]
    BY <1>2, <2>4
  <2>6. TableValid(e)
    BY <1>1, <2>1, <2>4, <2>5 DEF TableValid
  <2>7. OneNode(e)
    BY <1>0, <1>1, <1>4, <2>1, <2>4 DEF OneNode
  <2>8. Linked(e)
    <3>1. /\ Reading!IsInjective(nd.children) /\ Reading!Range(nd.children) = {}
      BY <2>1 DEF Reading!IsInjective, Reading!Range
    <3>2. ASSUME NEW n \in DOMAIN d.nodes
          PROVE  /\ d.nodes[n].parent = 0 \/ d.nodes[n].parent \in DOMAIN d.nodes
                 /\ d.nodes[n].parent # k
                 /\ Reading!IsInjective(d.nodes[n].children)
                 /\ \A m \in DOMAIN d.nodes :
                      m \in Reading!Range(d.nodes[n].children) <=> d.nodes[m].parent = n
                 /\ Reading!Range(d.nodes[n].children) \subseteq DOMAIN d.nodes
                 /\ k \notin Reading!Range(d.nodes[n].children) /\ n # 0
      BY <1>1, <2>3 DEF Linked
    <3>3. QED
      BY <2>1, <2>3, <2>4, <3>1, <3>2 DEF Linked
  <2>9. QED
    BY <1>4, <2>1, <2>3, <2>4, <2>5, <2>6, <2>7, <2>8 DEF Shape, Extends, InsertedAs
<1>5. QED
  BY <1>3, <1>4

(* A node keeps its place in the tree whatever else of it changes. *)
SamePlace(nd, old) ==
  /\ nd.pid = old.pid /\ nd.inc = old.inc
  /\ nd.parent = old.parent /\ nd.children = old.children

LEMMA ReplacedKeeps ==
  ASSUME NEW d, d \in Dbs, OneNode(d), Linked(d), NEW k \in DOMAIN d.nodes,
         NEW nd \in NodeType, SamePlace(nd, d.nodes[k]),
         NEW e, e \in Dbs, e.nodes = [d.nodes EXCEPT ![k] = nd]
  PROVE  /\ OneNode(e) /\ Linked(e) /\ Extends(e, d) /\ DOMAIN e.nodes = DOMAIN d.nodes
         /\ e.nodes[k] = nd /\ \A n \in DOMAIN d.nodes : n # k => e.nodes[n] = d.nodes[n]
         /\ \A n \in DOMAIN d.nodes : SamePlace(e.nodes[n], d.nodes[n])
<1>1. d.nodes \in Seq(NodeType)
  BY DEF Dbs
<1>2. /\ DOMAIN e.nodes = DOMAIN d.nodes /\ e.nodes[k] = nd
      /\ \A n \in DOMAIN d.nodes : n # k => e.nodes[n] = d.nodes[n]
  BY <1>1
<1>3. \A n \in DOMAIN d.nodes : SamePlace(e.nodes[n], d.nodes[n])
  BY <1>2 DEF SamePlace
<1>4. OneNode(e) /\ Extends(e, d)
  BY <1>2, <1>3 DEF OneNode, Extends, Of, SamePlace
<1>5. Linked(e)
  BY <1>2, <1>3 DEF Linked, SamePlace
<1>6. QED
  BY <1>2, <1>3, <1>4, <1>5

(* What lookup_pid(pid,0) finds may change as long as it stays in its place. *)
UpdatedAs(e, d, p) ==
  /\ Shape(e) /\ Extends(e, d) /\ e.table = d.table /\ DOMAIN e.nodes = DOMAIN d.nodes
  /\ \A n \in DOMAIN d.nodes : SamePlace(e.nodes[n], d.nodes[n])
  /\ \A n \in DOMAIN d.nodes : e.nodes[n].exited = d.nodes[n].exited
  /\ \A n \in DOMAIN d.nodes : n # d.table[p] => e.nodes[n] = d.nodes[n]

LEMMA UpdatedKeeps ==
  ASSUME NEW d, Shape(d), NEW p \in Pids, NEW nd,
         d.table[p] # 0 => /\ nd \in NodeType /\ SamePlace(nd, d.nodes[d.table[p]])
                          /\ nd.exited = d.nodes[d.table[p]].exited,
         NEW e, e = Reading!Updated(d, p, nd)
  PROVE  UpdatedAs(e, d, p)
<1>1. d \in Dbs /\ TableValid(d) /\ OneNode(d) /\ Linked(d)
  BY DEF Shape
<1>2. d.table \in [Pids -> Nat] /\ d.nodes \in Seq(NodeType)
  BY <1>1 DEF Dbs
<1>3. CASE d.table[p] = 0
  <2>1. e = d
    BY <1>3 DEF Reading!Updated, Reading!NoNode
  <2>2. QED
    BY <2>1 DEF Extends, SamePlace, UpdatedAs
<1>4. CASE d.table[p] # 0
  <2> DEFINE k == d.table[p]
  <2>1. k \in DOMAIN d.nodes
    BY <1>1, <1>4 DEF TableValid
  <2>2. e = [d EXCEPT !.nodes[k] = nd]
    BY <1>4 DEF Reading!Updated, Reading!NoNode
  <2>3. [d.nodes EXCEPT ![k] = nd] \in Seq(NodeType)
    BY <1>2, <1>4, <2>1
  <2>4. /\ e \in Dbs /\ e.table = d.table /\ e.nodes = [d.nodes EXCEPT ![k] = nd]
    BY <1>1, <1>2, <2>2, <2>3 DEF Dbs
  <2>5. nd \in NodeType /\ SamePlace(nd, d.nodes[k]) /\ nd.exited = d.nodes[k].exited
    BY <1>4
  <2> HIDE DEF k
  <2>6. /\ OneNode(e) /\ Linked(e) /\ Extends(e, d) /\ DOMAIN e.nodes = DOMAIN d.nodes
        /\ e.nodes[k] = nd /\ \A n \in DOMAIN d.nodes : n # k => e.nodes[n] = d.nodes[n]
        /\ \A n \in DOMAIN d.nodes : SamePlace(e.nodes[n], d.nodes[n])
    BY <1>1, <2>1, <2>4, <2>5, ReplacedKeeps
  <2>7. \A n \in DOMAIN d.nodes : e.nodes[n].exited = d.nodes[n].exited
    BY <2>5, <2>6
  <2>8. TableValid(e)
    BY <1>1, <2>4, <2>6, <2>7 DEF TableValid, SamePlace
  <2>9. QED
    BY <2>4, <2>6, <2>7, <2>8 DEF Shape, k, UpdatedAs
<1>5. QED
  BY <1>3, <1>4

(* handle_exit() marks the node of the pid, and remove_pid() takes it out of *)
(* the table.                                                                *)
ExitedAs(e, d, p, nd) ==
  /\ Shape(e) /\ Extends(e, d) /\ e.table = [d.table EXCEPT ![p] = 0]
  /\ DOMAIN e.nodes = DOMAIN d.nodes
  /\ \A n \in DOMAIN d.nodes : SamePlace(e.nodes[n], d.nodes[n])
  /\ d.table[p] # 0 => e.nodes[d.table[p]] = nd
  /\ \A n \in DOMAIN d.nodes : n # d.table[p] => e.nodes[n] = d.nodes[n]

LEMMA ExitedKeeps ==
  ASSUME NEW d, Shape(d), NEW p \in Pids, NEW nd,
         d.table[p] # 0 => nd \in NodeType /\ SamePlace(nd, d.nodes[d.table[p]]),
         NEW e, e = Reading!Removed(Reading!Updated(d, p, nd), p)
  PROVE  ExitedAs(e, d, p, nd)
<1>1. d \in Dbs /\ TableValid(d) /\ OneNode(d) /\ Linked(d)
  BY DEF Shape
<1>2. d.table \in [Pids -> Nat] /\ d.nodes \in Seq(NodeType)
  BY <1>1 DEF Dbs
<1>3. CASE d.table[p] = 0
  <2>1. e = [d EXCEPT !.table[p] = 0]
    BY <1>3 DEF Reading!Updated, Reading!Removed, Reading!NoNode
  <2>2. e \in Dbs /\ e.table = [d.table EXCEPT ![p] = 0] /\ e.nodes = d.nodes
    BY SMTT(30), <1>1, <1>2, <2>1 DEF Dbs
  <2>3. e.table = d.table
    BY <1>2, <1>3, <2>2
  <2>4. QED
    BY <1>1, <1>3, <2>2, <2>3 DEF Shape, TableValid, OneNode, Linked, Extends, SamePlace, ExitedAs
<1>4. CASE d.table[p] # 0
  <2> DEFINE k == d.table[p]
  <2>1. k \in DOMAIN d.nodes
    BY <1>1, <1>4 DEF TableValid
  <2> DEFINE u == [d EXCEPT !.nodes[k] = nd]
  <2>2. e = [u EXCEPT !.table[p] = 0]
    BY <1>4 DEF Reading!Updated, Reading!Removed, Reading!NoNode
  <2>3. [d.nodes EXCEPT ![k] = nd] \in Seq(NodeType)
    BY <1>2, <1>4, <2>1
  <2>10. u \in Dbs /\ u.table = d.table /\ u.nodes = [d.nodes EXCEPT ![k] = nd]
    BY <1>1, <1>2, <2>3 DEF Dbs
  <2> HIDE DEF u
  <2>11. e = [table |-> [u.table EXCEPT ![p] = 0], nodes |-> u.nodes]
    BY <2>2, <2>10 DEF Dbs
  <2>4. /\ e \in Dbs /\ e.table = [d.table EXCEPT ![p] = 0]
        /\ e.nodes = [d.nodes EXCEPT ![k] = nd]
    BY <1>2, <2>3, <2>10, <2>11 DEF Dbs
  <2>5. nd \in NodeType /\ SamePlace(nd, d.nodes[k])
    BY <1>4
  <2>6. \A q \in Pids : d.table[q] = k => q = p
    BY <1>1, <1>4 DEF TableValid
  <2> HIDE DEF k
  <2>7. /\ OneNode(e) /\ Linked(e) /\ Extends(e, d) /\ DOMAIN e.nodes = DOMAIN d.nodes
        /\ e.nodes[k] = nd /\ \A n \in DOMAIN d.nodes : n # k => e.nodes[n] = d.nodes[n]
        /\ \A n \in DOMAIN d.nodes : SamePlace(e.nodes[n], d.nodes[n])
    BY <1>1, <2>1, <2>4, <2>5, ReplacedKeeps
  <2>8. TableValid(e)
    BY <1>1, <1>2, <2>4, <2>6, <2>7 DEF TableValid, SamePlace
  <2>9. QED
    BY <2>4, <2>7, <2>8 DEF Shape, k, ExitedAs
<1>5. QED
  BY <1>3, <1>4

(* The fields of a node one at a time. *)
LEMMA ParentSet ==
  ASSUME NEW nd \in NodeType, NEW h \in Nat, NEW md, md = [nd EXCEPT !.parent = h]
  PROVE  /\ md \in NodeType /\ md.parent = h
         /\ md.pid = nd.pid /\ md.inc = nd.inc /\ md.exited = nd.exited /\ md.comm = nd.comm
         /\ md.children = nd.children
BY DEF NodeType

LEMMA ChildrenSet ==
  ASSUME NEW nd \in NodeType, NEW k \in Nat, NEW md,
         md = [nd EXCEPT !.children = Append(@, k)]
  PROVE  /\ md \in NodeType /\ md.children = Append(nd.children, k)
         /\ md.pid = nd.pid /\ md.inc = nd.inc /\ md.exited = nd.exited /\ md.comm = nd.comm
         /\ md.parent = nd.parent
<1>1. nd.children \in Seq(Nat)
  BY DEF NodeType
<1>2. Append(nd.children, k) \in Seq(Nat)
  BY <1>1
<1>3. QED
  BY <1>2 DEF NodeType

(* handle_fork() hangs a child without a parent under the node of another pid. *)
LEMMA AttachedKeeps ==
  ASSUME NEW d, Shape(d), NEW c \in Pids, NEW b \in Pids, c # b,
         d.table[c] # 0, d.table[b] # 0, d.nodes[d.table[c]].parent = 0,
         NEW e, e = Reading!Attached(d, c, b)
  PROVE  /\ Shape(e) /\ Extends(e, d) /\ e.table = d.table /\ DOMAIN e.nodes = DOMAIN d.nodes
         /\ e.nodes[d.table[c]].parent = d.table[b]
         /\ \A n \in DOMAIN d.nodes : n # d.table[c] => e.nodes[n].parent = d.nodes[n].parent
         /\ \A n \in DOMAIN d.nodes : /\ e.nodes[n].exited = d.nodes[n].exited
                                    /\ e.nodes[n].comm = d.nodes[n].comm
<1> DEFINE k == d.table[c]
           h == d.table[b]
           f == [d.nodes EXCEPT ![k].parent = h]
           g == [f EXCEPT ![h].children = Append(@, k)]
<1>1. d \in Dbs /\ TableValid(d) /\ OneNode(d) /\ Linked(d)
  BY DEF Shape
<1>2. d.table \in [Pids -> Nat] /\ d.nodes \in Seq(NodeType) /\ k \in Nat /\ h \in Nat
  BY <1>1 DEF Dbs
<1>3. k \in DOMAIN d.nodes /\ h \in DOMAIN d.nodes /\ k # h
  BY <1>1 DEF TableValid
<1>4. e = [d EXCEPT !.nodes = g]
  BY DEF Reading!Attached, Reading!NoNode
<1>5. /\ f \in Seq(NodeType) /\ DOMAIN f = DOMAIN d.nodes
      /\ f[k] = [d.nodes[k] EXCEPT !.parent = h]
      /\ \A n \in DOMAIN d.nodes : n # k => f[n] = d.nodes[n]
  <2>1. d.nodes[k] \in NodeType
    BY <1>2, <1>3
  <2>2. [d.nodes[k] EXCEPT !.parent = h] \in NodeType
    BY <1>2, <2>1, ParentSet
  <2> HIDE DEF k, h
  <2>3. QED
    BY <1>2, <1>3, <2>2
<1>6. /\ g \in Seq(NodeType) /\ DOMAIN g = DOMAIN d.nodes
      /\ g[h] = [d.nodes[h] EXCEPT !.children = Append(@, k)]
      /\ \A n \in DOMAIN d.nodes : n # h => g[n] = f[n]
  <2> HIDE DEF f, k, h
  <2>1. f[h] = d.nodes[h] /\ d.nodes[h] \in NodeType
    BY <1>2, <1>3, <1>5
  <2>2. [f[h] EXCEPT !.children = Append(@, k)] \in NodeType
    BY <1>2, <2>1, ChildrenSet
  <2>3. QED
    BY <1>3, <1>5, <2>1, <2>2
<1>7. e \in Dbs /\ e.table = d.table /\ e.nodes = g
  <2> HIDE DEF k, h
  <2> HIDE DEF g
  <2>1. e = [table |-> d.table, nodes |-> g]
    BY <1>1, <1>4 DEF Dbs
  <2>2. QED
    BY <1>2, <1>6, <2>1 DEF Dbs
<1> HIDE DEF g, f, k, h
<1>8. DOMAIN g = DOMAIN d.nodes
  BY <1>6
<1>9. /\ \A n \in DOMAIN d.nodes : /\ g[n].pid = d.nodes[n].pid /\ g[n].inc = d.nodes[n].inc
                                  /\ g[n].exited = d.nodes[n].exited
                                  /\ g[n].comm = d.nodes[n].comm
      /\ g[k].parent = h /\ \A n \in DOMAIN d.nodes : n # k => g[n].parent = d.nodes[n].parent
      /\ g[h].children = Append(d.nodes[h].children, k)
      /\ \A n \in DOMAIN d.nodes : n # h => g[n].children = d.nodes[n].children
  <2>1. d.nodes[k] \in NodeType /\ d.nodes[h] \in NodeType
    BY <1>2, <1>3
  <2>2. g[k] = [d.nodes[k] EXCEPT !.parent = h]
    BY <1>3, <1>5, <1>6
  <2>3. /\ g[k].pid = d.nodes[k].pid /\ g[k].inc = d.nodes[k].inc /\ g[k].exited = d.nodes[k].exited
        /\ g[k].comm = d.nodes[k].comm
        /\ g[k].parent = h /\ g[k].children = d.nodes[k].children
    BY <1>2, <2>1, <2>2, ParentSet
  <2>4. /\ g[h].pid = d.nodes[h].pid /\ g[h].inc = d.nodes[h].inc /\ g[h].exited = d.nodes[h].exited
        /\ g[h].comm = d.nodes[h].comm
        /\ g[h].parent = d.nodes[h].parent /\ g[h].children = Append(d.nodes[h].children, k)
    <3>1. g[h] = [d.nodes[h] EXCEPT !.children = Append(@, k)]
      BY <1>6
    <3>2. QED
      BY SMTT(30), <1>2, <2>1, <3>1, ChildrenSet
  <2>5. \A n \in DOMAIN d.nodes : n # k /\ n # h => g[n] = d.nodes[n]
    BY <1>5, <1>6
  <2>6. QED
    BY <1>3, <2>3, <2>4, <2>5
<1>10. TableValid(e)
  BY <1>1, <1>7, <1>8, <1>9 DEF TableValid
<1>11. OneNode(e) /\ Extends(e, d)
  BY <1>1, <1>7, <1>8, <1>9 DEF OneNode, Extends, Of
<1>12. Linked(e)
  <2> DEFINE s == d.nodes[h].children
  <2>1. /\ s \in Seq(Nat) /\ Reading!IsInjective(s)
        /\ Reading!Range(s) \subseteq DOMAIN d.nodes /\ k \notin Reading!Range(s)
    <3>1. d.nodes[h] \in NodeType /\ h # 0
      BY <1>2, <1>3
    <3>2. QED
      BY <1>1, <1>3, <3>1 DEF Linked, NodeType, k
  <2>2. /\ Reading!Range(Append(s, k)) = Reading!Range(s) \cup {k}
        /\ Reading!IsInjective(Append(s, k))
    <3> HIDE DEF s
    <3>1. /\ DOMAIN s = 1 .. Len(s) /\ Len(s) \in Nat
          /\ DOMAIN Append(s, k) = 1 .. Len(s) + 1
          /\ \A i \in 1 .. Len(s) : Append(s, k)[i] = s[i]
          /\ Append(s, k)[Len(s) + 1] = k
      BY <1>2, <2>1
    <3>2. \A i \in DOMAIN s : s[i] # k
      BY <2>1 DEF Reading!Range
    <3>3. /\ \A i \in DOMAIN Append(s, k) : i \in DOMAIN s \/ i = Len(s) + 1
          /\ \A i \in DOMAIN s : i \in DOMAIN Append(s, k) /\ Append(s, k)[i] = s[i]
          /\ Len(s) + 1 \in DOMAIN Append(s, k)
      BY <3>1
    <3>4. Reading!IsInjective(Append(s, k))
      BY <2>1, <3>1, <3>2, <3>3 DEF Reading!IsInjective
    <3>5. Reading!Range(Append(s, k)) = Reading!Range(s) \cup {k}
      BY <3>1, <3>3 DEF Reading!Range
    <3>6. QED
      BY <3>4, <3>5
  <2>3. ASSUME NEW n \in DOMAIN d.nodes
        PROVE  /\ g[n].parent = 0 \/ g[n].parent \in DOMAIN d.nodes
               /\ Reading!IsInjective(g[n].children)
               /\ \A m \in DOMAIN d.nodes :
                    m \in Reading!Range(g[n].children) <=> g[m].parent = n
               /\ Reading!Range(g[n].children) \subseteq DOMAIN d.nodes
    <3>0. /\ d.nodes[n].parent = 0 \/ d.nodes[n].parent \in DOMAIN d.nodes
          /\ Reading!IsInjective(d.nodes[n].children)
          /\ \A m \in DOMAIN d.nodes :
               m \in Reading!Range(d.nodes[n].children) <=> d.nodes[m].parent = n
          /\ Reading!Range(d.nodes[n].children) \subseteq DOMAIN d.nodes
      BY <1>1 DEF Linked
    <3>1. d.nodes[k].parent = 0 /\ n # 0
      BY <1>2 DEF k
    <3>2. CASE n = h
      <4>1. g[n].children = Append(s, k)
        BY <1>9, <3>2
      <4>2. \A m \in DOMAIN d.nodes : m \in Reading!Range(s) \cup {k} <=> g[m].parent = h
        BY <1>9, <3>0, <3>1, <3>2
      <4> HIDE DEF s
      <4>3. /\ Reading!IsInjective(g[n].children)
            /\ Reading!Range(g[n].children) = Reading!Range(s) \cup {k}
        BY <2>2, <4>1
      <4>4. Reading!Range(g[n].children) \subseteq DOMAIN d.nodes
        BY <1>3, <2>1, <4>3
      <4>5. g[n].parent = 0 \/ g[n].parent \in DOMAIN d.nodes
        BY <1>3, <1>9, <3>0, <3>2
      <4>6. QED
        BY <3>2, <4>2, <4>3, <4>4, <4>5
    <3>3. CASE n # h
      BY <1>3, <1>9, <3>0, <3>1, <3>3
    <3>4. QED
      BY <3>2, <3>3
  <2>4. QED
    BY <1>7, <1>8, <2>3 DEF Linked
<1>13. QED
  BY <1>7, <1>8, <1>9, <1>10, <1>11, <1>12 DEF Shape, k, h

-----------------------------------------------------------------------------
(* What the table and the nodes are after q lines of the file. *)

\* No node in the table is one whose exit block has been read.
TableAlive(d, q) ==
  \A p \in Pids, j \in LinesIn(file, "exit") :
    d.table[p] # 0 /\ j <= q => ProcIn(file, j) # Of(d.nodes[d.table[p]])
\* Every node is there because a line spoke of its process.
NodesMentioned(d, q) ==
  \A n \in DOMAIN d.nodes : \E i \in DOMAIN file : i <= q /\ Mentions(file, i, Of(d.nodes[n]))
\* A node leaves the table at its exit block, or when no fork line can follow.
LeftTable(d, q) ==
  \A n \in DOMAIN d.nodes : d.table[d.nodes[n].pid] # n =>
    \E j \in LinesIn(file, "exit") :
      j <= q /\ (ProcIn(file, j) = Of(d.nodes[n]) \/ NoName(file, ProcIn(file, j)))
\* The edges of the tree are those of the fork lines.
ParentsForked(d, q) ==
  \A n \in DOMAIN d.nodes : d.nodes[n].parent # 0 =>
    \E i \in LinesIn(file, "fork") :
      /\ i <= q /\ ProcIn(file, i) = Of(d.nodes[n])
      /\ ByIn(file, i) = Of(d.nodes[d.nodes[n].parent])
EdgesRead(d, q) ==
  \A i \in LinesIn(file, "fork") : i <= q =>
    \E n \in DOMAIN d.nodes :
      /\ Of(d.nodes[n]) = ProcIn(file, i) /\ d.nodes[n].parent # 0
      /\ Of(d.nodes[d.nodes[n].parent]) = ByIn(file, i)
\* Once every block is that of a named process, each marks a node.
ExitsRead(d, q) ==
  \A n \in DOMAIN d.nodes, j \in LinesIn(file, "exit") :
    AllNamed(file) /\ j <= q /\ ProcIn(file, j) = Of(d.nodes[n]) => d.nodes[n].exited
CommKept(d) == \A n \in DOMAIN d.nodes : d.nodes[n].exited => d.nodes[n].comm = "comm"

ReadSoFar(d, q) ==
  /\ TableAlive(d, q) /\ NodesMentioned(d, q) /\ LeftTable(d, q)
  /\ ParentsForked(d, q) /\ EdgesRead(d, q) /\ ExitsRead(d, q) /\ CommKept(d)

\* The root line is the first one, and its node the root of the tree.
RootRead ==
  /\ pos = 0 => nodes = <<>> /\ \A p \in Pids : proc_table[p] = 0
  /\ pos > 0 => root_process \in DOMAIN nodes /\ Of(nodes[root_process]) = <<Root, 1>>

ReadInv ==
  pos \in 0 .. Len(file) /\ Shape(Reading!db) /\ ReadSoFar(Reading!db, pos) /\ RootRead

LEMMA IsLine ==
  ASSUME OrderedIn(file), NEW q \in Nat, q < Len(file)
  PROVE  /\ q + 1 \in DOMAIN file /\ DOMAIN file \subseteq Nat
         /\ file[q + 1] \in Lines
         /\ \A i \in DOMAIN file : i <= q + 1 <=> i <= q \/ i = q + 1
         /\ \A i \in DOMAIN file : i >= 1
BY DEF OrderedIn

(* The process a fork line, or the root line, speaks of is the one the table *)
(* holds for its pid, or one without a node.                                 *)
LEMMA AliveNode ==
  ASSUME OrderedIn(file), NEW d, Shape(d), NEW q \in Nat, q < Len(file), ReadSoFar(d, q),
         file[q + 1].kind \in {"root", "fork"},
         NEW p \in Pids, NEW n \in Nat, Mentions(file, q + 1, <<p, n>>)
  PROVE  Fits(d, p, n)
<1> DEFINE i == q + 1
<1>1. /\ i \in DOMAIN file /\ DOMAIN file \subseteq Nat /\ \A j \in DOMAIN file : j >= 1
      /\ \A j \in DOMAIN file : j <= q <=> j < i
  BY IsLine
<1>2. /\ \A j \in LinesIn(file, "exit") : j \in DOMAIN file
      /\ \A j \in LinesIn(file, "fork") : j \in DOMAIN file
  BY DEF LinesIn
<1>3. /\ n >= 1
      /\ \A m \in 1 .. n - 1 : \E j \in LinesIn(file, "exit") : j < i /\ ProcIn(file, j) = <<p, m>>
  BY <1>1 DEF OrderedIn, PidInTurn
<1>4. \A j \in LinesIn(file, "exit") : ProcIn(file, j) = <<p, n>> => i < j
  BY <1>1 DEF OrderedIn, MentionedAlive
<1> HIDE DEF i
<1>5. ASSUME d.table[p] # 0 PROVE Of(d.nodes[d.table[p]]) = <<p, n>>
  <2> DEFINE k == d.table[p]
             m == d.nodes[k].inc
  <2>1. /\ k \in DOMAIN d.nodes /\ d.nodes \in Seq(NodeType) /\ d.nodes[k].pid = p
    BY <1>5 DEF Shape, TableValid, Dbs
  <2>2. d.nodes[k] \in NodeType
    BY <2>1
  <2>3. m \in Nat /\ Of(d.nodes[k]) = <<p, m>>
    BY <2>1, <2>2 DEF NodeType, Of
  <2>4. \A j \in LinesIn(file, "exit") : j <= q => ProcIn(file, j) # <<p, m>>
    BY <1>5, <2>3 DEF ReadSoFar, TableAlive
  <2>5. PICK h \in DOMAIN file : h <= q /\ Mentions(file, h, <<p, m>>)
    BY <2>1, <2>3 DEF ReadSoFar, NodesMentioned
  <2>6. /\ m >= 1
        /\ \A o \in 1 .. m - 1 : \E j \in LinesIn(file, "exit") : j < h /\ ProcIn(file, j) = <<p, o>>
    BY <2>3, <2>5 DEF OrderedIn, PidInTurn
  <2> HIDE DEF m, k
  <2>7. CASE m < n
    <3>1. PICK j \in LinesIn(file, "exit") : j < i /\ ProcIn(file, j) = <<p, m>>
      BY <1>3, <2>3, <2>6, <2>7
    <3>2. QED
      BY <1>1, <1>2, <2>4, <3>1
  <2>8. CASE n < m
    <3>1. PICK j \in LinesIn(file, "exit") : j < h /\ ProcIn(file, j) = <<p, n>>
      BY <1>3, <2>3, <2>6, <2>8
    <3>2. i < j
      BY <1>4, <3>1
    <3>3. QED
      BY <1>1, <1>2, <2>5, <3>1, <3>2
  <2>9. CASE m = n
    BY <2>3, <2>9 DEF k
  <2>10. QED
    BY <2>3, <2>7, <2>8, <2>9
<1>6. ASSUME d.table[p] = 0, NEW k \in DOMAIN d.nodes, Of(d.nodes[k]) = <<p, n>> PROVE FALSE
  <2>1. d.nodes[k].pid = p /\ k # 0
    BY <1>6 DEF Of, Shape, Dbs
  <2>2. PICK j \in LinesIn(file, "exit") :
          j <= q /\ (ProcIn(file, j) = <<p, n>> \/ NoName(file, ProcIn(file, j)))
    BY <1>6, <2>1 DEF ReadSoFar, LeftTable
  <2>3. j \in DOMAIN file /\ j < i
    BY <1>1, <1>2, <2>2
  <2>4. NoName(file, ProcIn(file, j))
    BY <1>1, <1>4, <2>2, <2>3
  <2>5. i \notin LinesIn(file, "fork")
    BY <2>2, <2>3, <2>4 DEF OrderedIn, OrphansLast, NamedExits, NoName
  <2>6. i = 1
    BY <1>1, <2>5 DEF OrderedIn, RootFirst, LinesIn, i
  <2>7. QED
    BY <1>1, <2>3, <2>6
<1>7. QED
  BY <1>5, <1>6 DEF Fits

(* What handle_fork() makes of the nodes: those of the child and the parent *)
(* are there, found or new, and the one hangs under the other.              *)
ForkedAs(e, d, l) ==
  /\ Shape(e) /\ Extends(e, d)
  /\ \A p \in Pids : p # l.pid /\ p # l.by => e.table[p] = d.table[p]
  /\ \A p \in {l.pid, l.by} :
       e.table[p] \in DOMAIN e.nodes /\ (d.table[p] # 0 => e.table[p] = d.table[p])
  /\ Of(e.nodes[e.table[l.pid]]) = <<l.pid, l.inc>>
  /\ Of(e.nodes[e.table[l.by]]) = <<l.by, l.byInc>>
  /\ e.table[l.pid] \in DOMAIN d.nodes => d.nodes[e.table[l.pid]].parent = 0
  /\ e.nodes[e.table[l.pid]].parent = e.table[l.by]
  /\ \A n \in DOMAIN e.nodes : n \notin DOMAIN d.nodes =>
       /\ n \in {e.table[l.pid], e.table[l.by]}
       /\ n # e.table[l.pid] => e.nodes[n].parent = 0
       /\ ~e.nodes[n].exited
  /\ \A n \in DOMAIN d.nodes :
       /\ n # e.table[l.pid] => e.nodes[n].parent = d.nodes[n].parent
       /\ e.nodes[n].exited = d.nodes[n].exited
       /\ d.nodes[n].exited => e.nodes[n].comm = d.nodes[n].comm

LEMMA ForkedNodes ==
  ASSUME OrderedIn(file), NEW d, d = Reading!db, Shape(d), NEW q \in Nat, q < Len(file),
         ReadSoFar(d, q), NEW l, l = file[q + 1], l.kind = "fork",
         NEW e, e = Reading!Forked(l)
  PROVE  ForkedAs(e, d, l)
<1> DEFINE c == l.pid
           b == l.by
           d1 == Reading!Inserted(d, c, l.inc)
           d2 == Reading!Inserted(d1, b, l.byInc)
           nd == [Reading!NodeOf(d2, c) EXCEPT !.start = l.at]
           d3 == Reading!Updated(d2, c, nd)
<1>1. /\ l \in Lines /\ q + 1 \in DOMAIN file
      /\ c \in Pids /\ b \in Pids /\ l.inc \in Nat /\ l.byInc \in Nat /\ l.at \in Nat
      /\ q + 1 \in LinesIn(file, "fork") /\ q + 1 \in NamesOf(file)
      /\ c # b
  BY IsLine DEF Lines, LinesIn, NamesOf, OrderedIn, NotOwnParent
<1>2. Mentions(file, q + 1, <<c, l.inc>>) /\ Mentions(file, q + 1, <<b, l.byInc>>)
  BY <1>1 DEF Mentions, ProcIn, ByIn
<1>3. /\ d.table[c] = 0 => \A k \in DOMAIN d.nodes : Of(d.nodes[k]) # <<c, l.inc>>
      /\ d.table[c] # 0 => Of(d.nodes[d.table[c]]) = <<c, l.inc>>
      /\ d.table[b] = 0 => \A k \in DOMAIN d.nodes : Of(d.nodes[k]) # <<b, l.byInc>>
      /\ d.table[b] # 0 => Of(d.nodes[d.table[b]]) = <<b, l.byInc>>
  <2>1. Fits(d, c, l.inc) /\ Fits(d, b, l.byInc)
    BY <1>1, <1>2, AliveNode
  <2>2. QED
    BY ONLY <2>1 DEF Fits
<1>4. e = Reading!Attached(d3, c, b)
  BY DEF Reading!Forked
<1> HIDE DEF c, b
\* The child.
<1>5. /\ Shape(d1) /\ Extends(d1, d)
      /\ d1.table[c] \in DOMAIN d1.nodes /\ Of(d1.nodes[d1.table[c]]) = <<c, l.inc>>
      /\ \A p \in Pids : p # c => d1.table[p] = d.table[p]
      /\ \A n \in DOMAIN d1.nodes : n \notin DOMAIN d.nodes =>
           /\ n = d1.table[c] /\ d.table[c] = 0
           /\ d1.nodes[n].parent = 0 /\ d1.nodes[n].exited = FALSE
      /\ \A n \in DOMAIN d.nodes : d1.nodes[n] = d.nodes[n]
  <2>1. Fits(d, c, l.inc)
    BY ONLY <1>3 DEF Fits
  <2>2. InsertedAs(d1, d, c, l.inc)
    BY <1>1, <2>1, InsertedKeeps
  <2> HIDE DEF d1
  <2>3. QED
    BY ONLY <2>2 DEF InsertedAs
<1>6. d.table[c] # 0 => d1.table[c] = d.table[c]
  BY DEF Reading!Inserted, Reading!NoNode
<1> HIDE DEF d1
\* The parent.
<1>7. /\ d1.table[b] = 0 => \A k \in DOMAIN d1.nodes : Of(d1.nodes[k]) # <<b, l.byInc>>
      /\ d1.table[b] # 0 => Of(d1.nodes[d1.table[b]]) = <<b, l.byInc>>
  <2>1. d1.table[b] = d.table[b]
    BY <1>1, <1>5
  <2>2. d.table[b] # 0 => d.table[b] \in DOMAIN d.nodes
    BY <1>1 DEF Shape, TableValid
  <2>3. <<c, l.inc>> # <<b, l.byInc>>
    BY <1>1
  <2>4. QED
    BY <1>3, <1>5, <2>1, <2>2, <2>3
<1>8. /\ Shape(d2) /\ Extends(d2, d1)
      /\ d2.table[b] \in DOMAIN d2.nodes /\ Of(d2.nodes[d2.table[b]]) = <<b, l.byInc>>
      /\ \A p \in Pids : p # b => d2.table[p] = d1.table[p]
      /\ \A n \in DOMAIN d2.nodes : n \notin DOMAIN d1.nodes =>
           /\ n = d2.table[b] /\ d1.table[b] = 0
           /\ d2.nodes[n].parent = 0 /\ d2.nodes[n].exited = FALSE
      /\ \A n \in DOMAIN d1.nodes : d2.nodes[n] = d1.nodes[n]
  <2>1. Fits(d1, b, l.byInc)
    BY ONLY <1>7 DEF Fits
  <2>2. InsertedAs(d2, d1, b, l.byInc)
    BY <1>1, <1>5, <2>1, InsertedKeeps
  <2> HIDE DEF d2
  <2>3. QED
    BY ONLY <2>2 DEF InsertedAs
<1>9. d1.table[b] # 0 => d2.table[b] = d1.table[b]
  BY DEF Reading!Inserted, Reading!NoNode
<1> HIDE DEF d2
<1>10. /\ d2.table[c] = d1.table[c] /\ d2.table[c] \in DOMAIN d2.nodes
       /\ Of(d2.nodes[d2.table[c]]) = <<c, l.inc>>
  BY <1>1, <1>5, <1>8 DEF Extends
\* Its start time.
<1>11. /\ nd \in NodeType /\ SamePlace(nd, d2.nodes[d2.table[c]])
       /\ nd.exited = d2.nodes[d2.table[c]].exited /\ nd.comm = d2.nodes[d2.table[c]].comm
  <2>1. d2.nodes[d2.table[c]] \in NodeType
    BY <1>8, <1>10 DEF Shape, Dbs
  <2>2. QED
    BY <1>1, <2>1 DEF NodeType, SamePlace, Reading!NodeOf
<1> HIDE DEF nd
<1>12. /\ Shape(d3) /\ Extends(d3, d2) /\ d3.table = d2.table /\ DOMAIN d3.nodes = DOMAIN d2.nodes
       /\ \A n \in DOMAIN d2.nodes : SamePlace(d3.nodes[n], d2.nodes[n])
       /\ \A n \in DOMAIN d2.nodes : d3.nodes[n].exited = d2.nodes[n].exited
       /\ \A n \in DOMAIN d2.nodes : n # d2.table[c] => d3.nodes[n] = d2.nodes[n]
  <2>1. UpdatedAs(d3, d2, c)
    BY <1>1, <1>8, <1>11, UpdatedKeeps
  <2>2. QED
    BY ONLY <2>1 DEF UpdatedAs
<1> HIDE DEF d3
\* The edge: no fork line has named the child before.
<1>13. d2.table[c] \in DOMAIN d.nodes => d.nodes[d2.table[c]].parent = 0
  <2> SUFFICES ASSUME d2.table[c] \in DOMAIN d.nodes, d.nodes[d2.table[c]].parent # 0 PROVE FALSE
    OBVIOUS
  <2>1. Of(d.nodes[d2.table[c]]) = <<c, l.inc>>
    BY <1>5, <1>8, <1>10
  <2>2. PICK i \in LinesIn(file, "fork") : i <= q /\ ProcIn(file, i) = <<c, l.inc>>
    BY <2>1 DEF ReadSoFar, ParentsForked
  <2>3. i \in NamesOf(file) /\ ProcIn(file, q + 1) = <<c, l.inc>>
    BY DEF LinesIn, NamesOf, ProcIn, c
  <2>4. i = q + 1
    BY <1>1, <2>2, <2>3 DEF OrderedIn, NamedOnce
  <2>5. QED
    BY <2>2, <2>4
<1>14. /\ d3.nodes[d3.table[c]].parent = 0
       /\ d3.table[c] # 0 /\ d3.table[b] # 0
  <2>1. d2.nodes[d2.table[c]].parent = 0
    BY <1>5, <1>8, <1>10, <1>13
  <2>2. 0 \notin DOMAIN d2.nodes
    BY <1>8 DEF Shape, Dbs
  <2>3. QED
    BY <1>8, <1>10, <1>12, <2>1, <2>2 DEF SamePlace
<1>15. /\ Shape(e) /\ Extends(e, d3) /\ e.table = d3.table /\ DOMAIN e.nodes = DOMAIN d3.nodes
       /\ e.nodes[d3.table[c]].parent = d3.table[b]
       /\ \A n \in DOMAIN d3.nodes : n # d3.table[c] => e.nodes[n].parent = d3.nodes[n].parent
       /\ \A n \in DOMAIN d3.nodes : /\ e.nodes[n].exited = d3.nodes[n].exited
                                    /\ e.nodes[n].comm = d3.nodes[n].comm
  BY <1>1, <1>4, <1>12, <1>14, AttachedKeeps
\* Together.
<1>16. e.table = d2.table /\ DOMAIN e.nodes = DOMAIN d2.nodes
  BY <1>12, <1>15
<1>17. Extends(e, d)
  BY <1>5, <1>8, <1>12, <1>15 DEF Extends
<1>18. \A p \in Pids : p # c /\ p # b => e.table[p] = d.table[p]
  BY <1>5, <1>8, <1>16
<1>19. \A p \in {c, b} : e.table[p] \in DOMAIN e.nodes /\ (d.table[p] # 0 => e.table[p] = d.table[p])
  BY <1>1, <1>5, <1>6, <1>8, <1>9, <1>10, <1>16
<1>20. Of(e.nodes[e.table[c]]) = <<c, l.inc>> /\ Of(e.nodes[e.table[b]]) = <<b, l.byInc>>
  BY <1>8, <1>10, <1>12, <1>15 DEF Extends
<1>21. /\ e.table[c] \in DOMAIN d.nodes => d.nodes[e.table[c]].parent = 0
       /\ e.nodes[e.table[c]].parent = e.table[b]
  BY <1>12, <1>13, <1>15
<1>22. \A n \in DOMAIN e.nodes : n \notin DOMAIN d.nodes =>
         /\ n \in {e.table[c], e.table[b]}
         /\ n # e.table[c] => e.nodes[n].parent = 0
         /\ ~e.nodes[n].exited
  <2> SUFFICES ASSUME NEW n \in DOMAIN e.nodes, n \notin DOMAIN d.nodes
               PROVE  /\ n \in {e.table[c], e.table[b]}
                      /\ n # e.table[c] => e.nodes[n].parent = 0
                      /\ ~e.nodes[n].exited
    OBVIOUS
  <2>1. /\ n \in {e.table[c], e.table[b]}
        /\ d2.nodes[n].parent = 0 /\ ~d2.nodes[n].exited
    BY <1>5, <1>8, <1>10, <1>16
  <2>2. d3.nodes[n].parent = 0 /\ ~d3.nodes[n].exited
    BY <1>12, <1>16, <2>1 DEF SamePlace
  <2>3. QED
    BY <1>12, <1>15, <1>16, <2>1, <2>2
<1>23. \A n \in DOMAIN d.nodes :
         /\ n # e.table[c] => e.nodes[n].parent = d.nodes[n].parent
         /\ e.nodes[n].exited = d.nodes[n].exited
         /\ d.nodes[n].exited => e.nodes[n].comm = d.nodes[n].comm
  <2> SUFFICES ASSUME NEW n \in DOMAIN d.nodes
               PROVE  /\ n # e.table[c] => e.nodes[n].parent = d.nodes[n].parent
                      /\ e.nodes[n].exited = d.nodes[n].exited
                      /\ d.nodes[n].exited => e.nodes[n].comm = d.nodes[n].comm
    OBVIOUS
  <2>1. n \in DOMAIN d2.nodes /\ d2.nodes[n] = d.nodes[n]
    BY <1>5, <1>8 DEF Extends
  <2>2. ~d2.nodes[d2.table[c]].exited
    BY <1>1, <1>8, <1>12, <1>14 DEF Shape, TableValid
  <2>3. QED
    BY <1>12, <1>15, <1>16, <2>1, <2>2 DEF SamePlace
<1>24. QED
  BY <1>15, <1>17, <1>18, <1>19, <1>20, <1>21, <1>22, <1>23 DEF c, b, ForkedAs

(* A fork line is read: everything said of the lines so far is said of it too. *)
LEMMA ForkRead ==
  ASSUME OrderedIn(file), NEW d, d = Reading!db, Shape(d), NEW q \in Nat, q < Len(file),
         ReadSoFar(d, q), NEW l, l = file[q + 1], l.kind = "fork",
         NEW e, e = Reading!Forked(l)
  PROVE  Shape(e) /\ Extends(e, d) /\ ReadSoFar(e, q + 1)
<1> DEFINE c == l.pid
           b == l.by
           cn == e.table[c]
           bn == e.table[b]
<1>1. ForkedAs(e, d, l)
  BY ForkedNodes
<1>2. /\ q + 1 \in DOMAIN file /\ DOMAIN file \subseteq Nat
      /\ \A i \in DOMAIN file : i <= q + 1 <=> i <= q \/ i = q + 1
      /\ l \in Lines
  BY IsLine
<1>3. /\ q + 1 \in LinesIn(file, "fork") /\ c \in Pids /\ b \in Pids
      /\ ProcIn(file, q + 1) = <<c, l.inc>> /\ ByIn(file, q + 1) = <<b, l.byInc>>
      /\ Mentions(file, q + 1, <<c, l.inc>>) /\ Mentions(file, q + 1, <<b, l.byInc>>)
  BY <1>2 DEF LinesIn, Lines, ProcIn, ByIn, Mentions, NamesOf
<1>4. /\ \A j \in LinesIn(file, "exit") : j \in DOMAIN file /\ (j <= q + 1 => j <= q)
      /\ \A j \in LinesIn(file, "fork") : j \in DOMAIN file /\ (j <= q + 1 => j <= q \/ j = q + 1)
  BY <1>2 DEF LinesIn
<1>5. \A j \in LinesIn(file, "exit") :
        j <= q => ProcIn(file, j) # <<c, l.inc>> /\ ProcIn(file, j) # <<b, l.byInc>>
  <2>1. \A j \in LinesIn(file, "exit") : ~(j <= q /\ q + 1 < j)
    BY <1>2, <1>4
  <2>2. QED
    BY <1>2, <1>3, <2>1 DEF OrderedIn, MentionedAlive
<1>6. /\ Shape(e) /\ Extends(e, d)
      /\ \A p \in Pids : p # c /\ p # b => e.table[p] = d.table[p]
      /\ \A p \in {c, b} : e.table[p] \in DOMAIN e.nodes /\ (d.table[p] # 0 => e.table[p] = d.table[p])
      /\ Of(e.nodes[cn]) = <<c, l.inc>> /\ Of(e.nodes[bn]) = <<b, l.byInc>>
      /\ cn \in DOMAIN d.nodes => d.nodes[cn].parent = 0
      /\ e.nodes[cn].parent = bn
  BY ONLY <1>1 DEF ForkedAs
<1>7. \A n \in DOMAIN e.nodes : n \notin DOMAIN d.nodes =>
        n \in {cn, bn} /\ (n # cn => e.nodes[n].parent = 0) /\ ~e.nodes[n].exited
  BY ONLY <1>1 DEF ForkedAs
<1>8. \A n \in DOMAIN d.nodes :
        /\ n # cn => e.nodes[n].parent = d.nodes[n].parent
        /\ e.nodes[n].exited = d.nodes[n].exited
        /\ d.nodes[n].exited => e.nodes[n].comm = d.nodes[n].comm
  BY ONLY <1>1 DEF ForkedAs
<1>9. /\ \A n \in DOMAIN d.nodes : n \in DOMAIN e.nodes /\ Of(e.nodes[n]) = Of(d.nodes[n])
      /\ \A n \in DOMAIN d.nodes : n # 0 /\ d.nodes[n].pid \in Pids
      /\ \A p \in Pids : d.table[p] # 0 => d.table[p] \in DOMAIN d.nodes
      /\ \A n \in DOMAIN d.nodes : d.nodes[n].parent # 0 => d.nodes[n].parent \in DOMAIN d.nodes
      /\ cn \in DOMAIN e.nodes /\ bn \in DOMAIN e.nodes
      /\ cn # 0 /\ bn # 0
  <2>1. \A n \in DOMAIN d.nodes : n # 0 /\ d.nodes[n].pid \in Pids
    <3>1. d.nodes \in Seq(NodeType)
      BY DEF Shape, Dbs
    <3>2. \A n \in DOMAIN d.nodes : n # 0 /\ d.nodes[n] \in NodeType
      BY <3>1
    <3>3. QED
      BY <3>2 DEF NodeType
  <2>2. cn \in DOMAIN e.nodes /\ bn \in DOMAIN e.nodes
    BY <1>6
  <2>3. 0 \notin DOMAIN e.nodes
    <3>1. e.nodes \in Seq(NodeType)
      BY <1>6 DEF Shape, Dbs
    <3>2. QED
      BY ONLY <3>1
  <2>4. \A n \in DOMAIN d.nodes : n \in DOMAIN e.nodes /\ Of(e.nodes[n]) = Of(d.nodes[n])
    BY <1>6 DEF Extends
  <2>5. \A p \in Pids : d.table[p] # 0 => d.table[p] \in DOMAIN d.nodes
    BY DEF Shape, TableValid
  <2>6. \A n \in DOMAIN d.nodes : d.nodes[n].parent # 0 => d.nodes[n].parent \in DOMAIN d.nodes
    BY DEF Shape, Linked
  <2>7. QED
    BY ONLY <2>1, <2>2, <2>3, <2>4, <2>5, <2>6
<1> HIDE DEF c, b, cn, bn
<1>10. /\ TableAlive(d, q) /\ NodesMentioned(d, q) /\ LeftTable(d, q)
       /\ ParentsForked(d, q) /\ EdgesRead(d, q) /\ ExitsRead(d, q) /\ CommKept(d)
  BY DEF ReadSoFar
<1>11. TableAlive(e, q + 1)
  <2> SUFFICES ASSUME NEW p \in Pids, NEW j \in LinesIn(file, "exit"), e.table[p] # 0, j <= q
               PROVE  ProcIn(file, j) # Of(e.nodes[e.table[p]])
    BY <1>4 DEF TableAlive
  <2>1. CASE p = c \/ p = b
    BY <1>5, <1>6, <2>1 DEF cn, bn
  <2>2. CASE p # c /\ p # b
    BY <1>6, <1>9, <1>10, <2>2 DEF TableAlive
  <2>3. QED
    BY <2>1, <2>2
<1>12. NodesMentioned(e, q + 1)
  <2> SUFFICES ASSUME NEW n \in DOMAIN e.nodes
               PROVE  \E i \in DOMAIN file : i <= q + 1 /\ Mentions(file, i, Of(e.nodes[n]))
    BY DEF NodesMentioned
  <2>1. CASE n \in DOMAIN d.nodes
    BY <1>2, <1>9, <1>10, <2>1 DEF NodesMentioned
  <2>2. CASE n \in {cn, bn}
    BY <1>2, <1>3, <1>6, <2>2
  <2>3. QED
    BY <1>7, <2>1, <2>2
<1>13. LeftTable(e, q + 1)
  <2> SUFFICES ASSUME NEW n \in DOMAIN e.nodes, e.table[e.nodes[n].pid] # n
               PROVE  \E j \in LinesIn(file, "exit") :
                        /\ j <= q + 1
                        /\ ProcIn(file, j) = Of(e.nodes[n]) \/ NoName(file, ProcIn(file, j))
    BY DEF LeftTable
  <2>1. n \in DOMAIN d.nodes
    <3>1. e.nodes[cn].pid = c /\ e.nodes[bn].pid = b
      BY <1>6 DEF Of
    <3>2. QED
      BY <1>7, <3>1 DEF cn, bn
  <2>2. e.nodes[n].pid = d.nodes[n].pid
    BY <1>9, <2>1 DEF Of
  <2>3. d.table[d.nodes[n].pid] # n
    BY <1>6, <1>9, <2>1, <2>2
  <2>4. PICK j \in LinesIn(file, "exit") :
          j <= q /\ (ProcIn(file, j) = Of(d.nodes[n]) \/ NoName(file, ProcIn(file, j)))
    BY <1>10, <2>1, <2>3 DEF LeftTable
  <2>5. j <= q + 1
    BY <1>2, <1>4, <2>4
  <2>6. QED
    BY <1>9, <2>1, <2>4, <2>5
<1>14. ParentsForked(e, q + 1)
  <2> SUFFICES ASSUME NEW n \in DOMAIN e.nodes, e.nodes[n].parent # 0
               PROVE  \E i \in LinesIn(file, "fork") :
                        /\ i <= q + 1 /\ ProcIn(file, i) = Of(e.nodes[n])
                        /\ ByIn(file, i) = Of(e.nodes[e.nodes[n].parent])
    BY DEF ParentsForked
  <2>1. CASE n = cn
    <3>1. q + 1 <= q + 1
      OBVIOUS
    <3>2. QED
      BY <1>3, <1>6, <2>1, <3>1
  <2>2. CASE n # cn
    <3>1. n \in DOMAIN d.nodes /\ e.nodes[n].parent = d.nodes[n].parent
      BY <1>7, <1>8, <2>2
    <3>2. PICK i \in LinesIn(file, "fork") :
            /\ i <= q /\ ProcIn(file, i) = Of(d.nodes[n])
            /\ ByIn(file, i) = Of(d.nodes[d.nodes[n].parent])
      BY <1>10, <3>1 DEF ParentsForked
    <3>3. i <= q + 1
      BY <1>2, <1>4, <3>2
    <3>4. QED
      BY <1>9, <3>1, <3>2, <3>3
  <2>3. QED
    BY <2>1, <2>2
<1>15. EdgesRead(e, q + 1)
  <2> SUFFICES ASSUME NEW i \in LinesIn(file, "fork"), i <= q + 1
               PROVE  \E n \in DOMAIN e.nodes :
                        /\ Of(e.nodes[n]) = ProcIn(file, i) /\ e.nodes[n].parent # 0
                        /\ Of(e.nodes[e.nodes[n].parent]) = ByIn(file, i)
    BY DEF EdgesRead
  <2>1. CASE i = q + 1
    BY <1>3, <1>6, <1>9, <2>1
  <2>2. CASE i <= q
    <3>1. PICK n \in DOMAIN d.nodes :
            /\ Of(d.nodes[n]) = ProcIn(file, i) /\ d.nodes[n].parent # 0
            /\ Of(d.nodes[d.nodes[n].parent]) = ByIn(file, i)
      BY <1>10, <2>2 DEF EdgesRead
    <3>2. n # cn /\ e.nodes[n].parent = d.nodes[n].parent
      BY <1>6, <1>8, <3>1
    <3>3. QED
      BY <1>9, <3>1, <3>2
  <2>3. QED
    BY <1>4, <2>1, <2>2
<1>16. ExitsRead(e, q + 1)
  <2> SUFFICES ASSUME NEW n \in DOMAIN e.nodes, NEW j \in LinesIn(file, "exit"), AllNamed(file),
                      j <= q, ProcIn(file, j) = Of(e.nodes[n])
               PROVE  e.nodes[n].exited
    BY <1>4 DEF ExitsRead
  <2>1. n \in DOMAIN d.nodes
    BY <1>5, <1>6, <1>7
  <2>2. QED
    BY <1>8, <1>9, <1>10, <2>1 DEF ExitsRead
<1>17. CommKept(e)
  BY <1>7, <1>8, <1>10 DEF CommKept
<1>18. QED
  BY <1>6, <1>11, <1>12, <1>13, <1>14, <1>15, <1>16, <1>17 DEF ReadSoFar

(* What every handler but handle_fork() leaves as it was. *)
Kept(e, d) ==
  /\ Shape(e) /\ DOMAIN e.nodes = DOMAIN d.nodes
  /\ \A n \in DOMAIN d.nodes : SamePlace(e.nodes[n], d.nodes[n])

LEMMA KeptRead ==
  ASSUME OrderedIn(file), NEW d, Shape(d), NEW q \in Nat, q < Len(file), ReadSoFar(d, q),
         file[q + 1].kind # "fork", NEW e, Kept(e, d)
  PROVE  NodesMentioned(e, q + 1) /\ ParentsForked(e, q + 1) /\ EdgesRead(e, q + 1)
<1>1. /\ q + 1 \in DOMAIN file /\ DOMAIN file \subseteq Nat
      /\ \A i \in DOMAIN file : i <= q + 1 <=> i <= q \/ i = q + 1
  BY IsLine
<1>2. \A j \in LinesIn(file, "fork") : j \in DOMAIN file /\ (j <= q + 1 <=> j <= q)
  BY <1>1 DEF LinesIn
<1>3. /\ DOMAIN e.nodes = DOMAIN d.nodes
      /\ \A n \in DOMAIN d.nodes : Of(e.nodes[n]) = Of(d.nodes[n])
      /\ \A n \in DOMAIN d.nodes : e.nodes[n].parent = d.nodes[n].parent
      /\ \A n \in DOMAIN d.nodes : d.nodes[n].parent # 0 => d.nodes[n].parent \in DOMAIN d.nodes
  BY DEF Kept, SamePlace, Of, Shape, Linked
<1>4. NodesMentioned(e, q + 1)
  BY <1>1, <1>3 DEF ReadSoFar, NodesMentioned
<1>5. ParentsForked(e, q + 1)
  <2> SUFFICES ASSUME NEW n \in DOMAIN e.nodes, e.nodes[n].parent # 0
               PROVE  \E i \in LinesIn(file, "fork") :
                        /\ i <= q + 1 /\ ProcIn(file, i) = Of(e.nodes[n])
                        /\ ByIn(file, i) = Of(e.nodes[e.nodes[n].parent])
    BY DEF ParentsForked
  <2>1. PICK i \in LinesIn(file, "fork") :
          /\ i <= q /\ ProcIn(file, i) = Of(d.nodes[n])
          /\ ByIn(file, i) = Of(d.nodes[d.nodes[n].parent])
    BY <1>3 DEF ReadSoFar, ParentsForked
  <2>2. QED
    BY <1>2, <1>3, <2>1
<1>6. EdgesRead(e, q + 1)
  <2> SUFFICES ASSUME NEW i \in LinesIn(file, "fork"), i <= q
               PROVE  \E n \in DOMAIN e.nodes :
                        /\ Of(e.nodes[n]) = ProcIn(file, i) /\ e.nodes[n].parent # 0
                        /\ Of(e.nodes[e.nodes[n].parent]) = ByIn(file, i)
    BY <1>2 DEF EdgesRead
  <2>1. PICK n \in DOMAIN d.nodes :
          /\ Of(d.nodes[n]) = ProcIn(file, i) /\ d.nodes[n].parent # 0
          /\ Of(d.nodes[d.nodes[n].parent]) = ByIn(file, i)
    BY DEF ReadSoFar, EdgesRead
  <2>2. QED
    BY <1>3, <2>1
<1>7. QED
  BY <1>4, <1>5, <1>6

(* The exit block of a process finds its node in the table, if a line names it: *)
(* the pid belongs to no other process meanwhile.                               *)
LEMMA BlockNode ==
  ASSUME OrderedIn(file), NEW d, Shape(d), NEW q \in Nat, q < Len(file), ReadSoFar(d, q),
         NEW l, l = file[q + 1], l.kind = "exit", d.table[l.pid] # 0
  PROVE  \/ Of(d.nodes[d.table[l.pid]]) = <<l.pid, l.inc>>
         \/ NoName(file, <<l.pid, l.inc>>)
<1> DEFINE p == l.pid
           n == l.inc
           k == d.table[p]
           m == d.nodes[k].inc
<1>1. /\ q + 1 \in DOMAIN file /\ DOMAIN file \subseteq Nat /\ l \in Lines
  BY IsLine
<1>2. /\ p \in Pids /\ n \in Nat
      /\ q + 1 \in LinesIn(file, "exit") /\ ProcIn(file, q + 1) = <<p, n>>
      /\ \A j \in LinesIn(file, "exit") : j \in DOMAIN file
      /\ \A j \in NamesOf(file) : j \in DOMAIN file
  BY <1>1 DEF Lines, LinesIn, ProcIn, NamesOf
<1> SUFFICES ASSUME NEW i \in NamesOf(file), ProcIn(file, i) = <<p, n>>
             PROVE  Of(d.nodes[k]) = <<p, n>>
  BY DEF NoName
<1>3. i \in DOMAIN file /\ Mentions(file, i, <<p, n>>)
  BY <1>2 DEF Mentions
<1>4. i < q + 1
  BY <1>2, <1>3 DEF OrderedIn, MentionedAlive
<1>5. /\ n >= 1
      /\ \A o \in 1 .. n - 1 : \E j \in LinesIn(file, "exit") : j < i /\ ProcIn(file, j) = <<p, o>>
  BY <1>2, <1>3 DEF OrderedIn, PidInTurn
<1>6. /\ k \in DOMAIN d.nodes /\ d.nodes \in Seq(NodeType) /\ d.nodes[k].pid = p
  BY <1>2 DEF Shape, TableValid, Dbs
<1>7. d.nodes[k] \in NodeType
  BY <1>6
<1>8. m \in Nat /\ Of(d.nodes[k]) = <<p, m>>
  BY <1>6, <1>7 DEF NodeType, Of
<1>9. \A j \in LinesIn(file, "exit") : j <= q => ProcIn(file, j) # <<p, m>>
  BY <1>2, <1>8 DEF ReadSoFar, TableAlive
<1>10. PICK h \in DOMAIN file : h <= q /\ Mentions(file, h, <<p, m>>)
  BY <1>6, <1>8 DEF ReadSoFar, NodesMentioned
<1>11. /\ m >= 1
       /\ \A o \in 1 .. m - 1 : \E j \in LinesIn(file, "exit") : j < h /\ ProcIn(file, j) = <<p, o>>
  BY <1>2, <1>8, <1>10 DEF OrderedIn, PidInTurn
<1> HIDE DEF m, k, n, p
<1>12. CASE m < n
  <2>1. PICK j \in LinesIn(file, "exit") : j < i /\ ProcIn(file, j) = <<p, m>>
    BY <1>2, <1>5, <1>8, <1>11, <1>12
  <2>2. QED
    BY <1>1, <1>2, <1>3, <1>4, <1>9, <2>1
<1>13. CASE n < m
  <2>1. PICK j \in LinesIn(file, "exit") : j < h /\ ProcIn(file, j) = <<p, n>>
    BY <1>2, <1>5, <1>8, <1>11, <1>13
  <2>2. j = q + 1
    BY <1>2, <2>1 DEF OrderedIn, ExitedOnce
  <2>3. QED
    BY <1>1, <1>10, <2>1, <2>2
<1>14. QED
  BY <1>2, <1>8, <1>12, <1>13

(* An exit block is read. *)
LEMMA ExitRead ==
  ASSUME OrderedIn(file), NEW d, Shape(d), NEW q \in Nat, q < Len(file), ReadSoFar(d, q),
         NEW l, l = file[q + 1], l.kind = "exit",
         NEW e, e = Reading!Removed(Reading!Updated(d, l.pid,
                                      Reading!Exited(Reading!NodeOf(d, l.pid), l)), l.pid)
  PROVE  Kept(e, d) /\ ReadSoFar(e, q + 1)
<1> DEFINE p == l.pid
           k == d.table[p]
           nd == Reading!Exited(Reading!NodeOf(d, p), l)
<1>1. /\ q + 1 \in DOMAIN file /\ DOMAIN file \subseteq Nat /\ l \in Lines
      /\ \A i \in DOMAIN file : i <= q + 1 <=> i <= q \/ i = q + 1
  BY IsLine
<1>2. /\ p \in Pids /\ l.at \in Nat /\ l.groups \in Nat
      /\ q + 1 \in LinesIn(file, "exit") /\ ProcIn(file, q + 1) = <<p, l.inc>>
      /\ \A j \in LinesIn(file, "exit") : j \in DOMAIN file /\ (j <= q + 1 <=> j <= q \/ j = q + 1)
  BY <1>1 DEF Lines, LinesIn, ProcIn
<1>3. k # 0 => /\ k \in DOMAIN d.nodes /\ nd \in NodeType /\ SamePlace(nd, d.nodes[k])
              /\ nd.exited /\ nd.comm = "comm"
  <2> SUFFICES ASSUME k # 0
               PROVE  /\ k \in DOMAIN d.nodes /\ nd \in NodeType /\ SamePlace(nd, d.nodes[k])
                      /\ nd.exited /\ nd.comm = "comm"
    OBVIOUS
  <2>1. k \in DOMAIN d.nodes /\ d.nodes \in Seq(NodeType)
    BY <1>2 DEF Shape, TableValid, Dbs
  <2>2. d.nodes[k] \in NodeType
    BY <2>1
  <2>3. d.nodes[k].groups + l.groups \in Nat
    <3>1. d.nodes[k].groups \in Nat
      BY <2>2 DEF NodeType
    <3>2. l.groups \in Nat
      BY <1>2
    <3>3. QED
      BY ONLY <3>1, <3>2
  <2>4. nd = [d.nodes[k] EXCEPT !.comm = "comm", !.groups = d.nodes[k].groups + l.groups,
                                !.finish = l.at, !.exited = TRUE]
    BY <2>2 DEF NodeType, Reading!Exited, Reading!NodeOf
  <2> HIDE DEF nd, k, p
  <2>5. QED
    BY <1>2, <2>1, <2>2, <2>3, <2>4 DEF NodeType, SamePlace
<1> HIDE DEF nd
<1>4. /\ Shape(e) /\ e.table = [d.table EXCEPT ![p] = 0] /\ DOMAIN e.nodes = DOMAIN d.nodes
      /\ \A n \in DOMAIN d.nodes : SamePlace(e.nodes[n], d.nodes[n])
      /\ k # 0 => e.nodes[k] = nd
      /\ \A n \in DOMAIN d.nodes : n # k => e.nodes[n] = d.nodes[n]
  <2>1. e = Reading!Removed(Reading!Updated(d, p, nd), p)
    BY DEF nd
  <2>2. d.table[p] # 0 => nd \in NodeType /\ SamePlace(nd, d.nodes[d.table[p]])
    BY <1>3
  <2> HIDE DEF k, p
  <2>3. /\ Shape(e) /\ e.table = [d.table EXCEPT ![p] = 0] /\ DOMAIN e.nodes = DOMAIN d.nodes
        /\ \A n \in DOMAIN d.nodes : SamePlace(e.nodes[n], d.nodes[n])
        /\ d.table[p] # 0 => e.nodes[d.table[p]] = nd
        /\ \A n \in DOMAIN d.nodes : n # d.table[p] => e.nodes[n] = d.nodes[n]
    <3>1. ExitedAs(e, d, p, nd)
      BY <1>2, <2>1, <2>2, ExitedKeeps
    <3>2. QED
      BY ONLY <3>1 DEF ExitedAs
  <2>4. QED
    BY <2>3 DEF k
<1>5. Kept(e, d)
  BY <1>4 DEF Kept
<1>6. NodesMentioned(e, q + 1) /\ ParentsForked(e, q + 1) /\ EdgesRead(e, q + 1)
  BY <1>5, KeptRead
<1>7. k # 0 => Of(d.nodes[k]) = <<p, l.inc>> \/ NoName(file, <<p, l.inc>>)
  BY BlockNode
<1>8. /\ \A n \in DOMAIN d.nodes : Of(e.nodes[n]) = Of(d.nodes[n]) /\ e.nodes[n].pid = d.nodes[n].pid
      /\ e.table[p] = 0 /\ \A o \in Pids : o # p => e.table[o] = d.table[o]
      /\ \A o \in Pids : d.table[o] # 0 => d.table[o] \in DOMAIN d.nodes /\ d.nodes[d.table[o]].pid = o
      /\ \A n \in DOMAIN d.nodes : n # 0 /\ d.nodes[n].pid \in Pids
  <2>1. d.table \in [Pids -> Nat] /\ d.nodes \in Seq(NodeType)
    BY DEF Shape, Dbs
  <2>2. \A n \in DOMAIN d.nodes : n # 0 /\ d.nodes[n] \in NodeType
    BY <2>1
  <2>3. \A n \in DOMAIN d.nodes : n # 0 /\ d.nodes[n].pid \in Pids
    BY <2>2 DEF NodeType
  <2>4. \A n \in DOMAIN d.nodes : Of(e.nodes[n]) = Of(d.nodes[n]) /\ e.nodes[n].pid = d.nodes[n].pid
    BY <1>4 DEF SamePlace, Of
  <2>5. e.table[p] = 0 /\ \A o \in Pids : o # p => e.table[o] = d.table[o]
    BY <1>2, <1>4, <2>1
  <2>6. QED
    BY <2>3, <2>4, <2>5 DEF Shape, TableValid
<1> HIDE DEF k, p
<1>9. TableAlive(e, q + 1)
  <2> SUFFICES ASSUME NEW o \in Pids, NEW j \in LinesIn(file, "exit"), e.table[o] # 0, j <= q + 1
               PROVE  ProcIn(file, j) # Of(e.nodes[e.table[o]])
    BY DEF TableAlive
  <2>1. /\ o # p /\ d.table[o] # 0 /\ e.table[o] = d.table[o]
        /\ Of(e.nodes[e.table[o]]) = Of(d.nodes[d.table[o]])
        /\ d.nodes[d.table[o]].pid = o
    BY <1>8
  <2>2. CASE j <= q
    BY <2>1, <2>2 DEF ReadSoFar, TableAlive
  <2>3. CASE j = q + 1
    BY <1>2, <2>1, <2>3 DEF Of
  <2>4. QED
    BY <1>2, <2>2, <2>3
<1>10. LeftTable(e, q + 1)
  <2>0. /\ DOMAIN e.nodes = DOMAIN d.nodes
        /\ \A n \in DOMAIN d.nodes : Of(e.nodes[n]) = Of(d.nodes[n]) /\ e.nodes[n].pid = d.nodes[n].pid
    BY <1>4, <1>8
  <2> DEFINE Gone(o) == \E j \in LinesIn(file, "exit") :
                          j <= q + 1 /\ (ProcIn(file, j) = o \/ NoName(file, ProcIn(file, j)))
  <2>1. ASSUME NEW n \in DOMAIN d.nodes, e.table[d.nodes[n].pid] # n
        PROVE  Gone(Of(d.nodes[n]))
    <3>1. CASE d.table[d.nodes[n].pid] # n
      BY <1>2, <3>1 DEF ReadSoFar, LeftTable
    <3>2. CASE d.table[d.nodes[n].pid] = n
      <4>1. d.nodes[n].pid = p /\ k = n /\ k # 0
        BY <1>8, <2>1, <3>2 DEF k
      <4>2. q + 1 <= q + 1
        OBVIOUS
      <4>3. QED
        BY <1>2, <1>7, <4>1, <4>2
    <3>3. QED
      BY <3>1, <3>2
  <2>2. ASSUME NEW n \in DOMAIN e.nodes, e.table[e.nodes[n].pid] # n
        PROVE  Gone(Of(e.nodes[n]))
    <3> HIDE DEF Gone
    <3>1. n \in DOMAIN d.nodes /\ Of(e.nodes[n]) = Of(d.nodes[n]) /\ e.table[d.nodes[n].pid] # n
      BY <2>0, <2>2
    <3>2. Gone(Of(d.nodes[n]))
      BY <2>1, <3>1
    <3>3. QED
      BY <3>1, <3>2
  <2>3. QED
    BY <2>2 DEF LeftTable
<1>11. ExitsRead(e, q + 1)
  <2>0. DOMAIN e.nodes = DOMAIN d.nodes /\ \A n \in DOMAIN d.nodes : Of(e.nodes[n]) = Of(d.nodes[n])
    BY <1>4, <1>8
  <2> SUFFICES ASSUME NEW n \in DOMAIN d.nodes, NEW j \in LinesIn(file, "exit"), AllNamed(file),
                      j <= q + 1, ProcIn(file, j) = Of(d.nodes[n])
               PROVE  e.nodes[n].exited
    BY <2>0 DEF ExitsRead
  <2>1. CASE j <= q
    <3>1. d.nodes[n].exited
      BY <2>1 DEF ReadSoFar, ExitsRead
    <3>2. QED
      BY <1>3, <1>4, <1>8, <3>1
  <2>2. CASE j = q + 1
    <3>1. d.nodes[n].pid = p
      BY <1>2, <2>2 DEF Of
    <3>2. d.table[p] = n
      <4> SUFFICES ASSUME d.table[p] # n PROVE FALSE
        OBVIOUS
      <4>1. PICK h \in LinesIn(file, "exit") :
              h <= q /\ (ProcIn(file, h) = Of(d.nodes[n]) \/ NoName(file, ProcIn(file, h)))
        BY <3>1 DEF ReadSoFar, LeftTable
      <4>2. ~NoName(file, ProcIn(file, h))
        BY DEF AllNamed, NoName
      <4>3. h = q + 1
        BY <2>2, <4>1, <4>2 DEF OrderedIn, ExitedOnce
      <4>4. QED
        BY <4>1, <4>3
    <3>3. QED
      BY <1>3, <1>4, <1>8, <3>2 DEF k
  <2>3. QED
    BY <1>2, <2>1, <2>2
<1>12. CommKept(e)
  BY <1>3, <1>4, <1>8 DEF CommKept, ReadSoFar
<1>13. QED
  BY <1>5, <1>6, <1>9, <1>10, <1>11, <1>12 DEF ReadSoFar

(* Any other line changes the comm of a running process at most. *)
LEMMA QuietRead ==
  ASSUME OrderedIn(file), NEW d, Shape(d), NEW q \in Nat, q < Len(file), ReadSoFar(d, q),
         file[q + 1].kind \notin {"root", "fork", "exit"},
         NEW e, Kept(e, d), e.table = d.table,
         \A n \in DOMAIN d.nodes : e.nodes[n].exited = d.nodes[n].exited,
         \A n \in DOMAIN d.nodes : d.nodes[n].exited => e.nodes[n].comm = d.nodes[n].comm
  PROVE  ReadSoFar(e, q + 1)
<1>1. /\ q + 1 \in DOMAIN file
      /\ \A i \in DOMAIN file : i <= q + 1 <=> i <= q \/ i = q + 1
  BY IsLine
<1>2. \A j \in LinesIn(file, "exit") : j \in DOMAIN file /\ (j <= q + 1 <=> j <= q)
  BY <1>1 DEF LinesIn
<1>3. NodesMentioned(e, q + 1) /\ ParentsForked(e, q + 1) /\ EdgesRead(e, q + 1)
  BY KeptRead
<1>4. /\ DOMAIN e.nodes = DOMAIN d.nodes
      /\ \A n \in DOMAIN d.nodes : Of(e.nodes[n]) = Of(d.nodes[n]) /\ e.nodes[n].pid = d.nodes[n].pid
      /\ \A p \in Pids : d.table[p] # 0 => d.table[p] \in DOMAIN d.nodes
  BY DEF Kept, SamePlace, Of, Shape, TableValid
<1>5. TableAlive(e, q + 1)
  BY <1>2, <1>4 DEF ReadSoFar, TableAlive
<1>6. LeftTable(e, q + 1)
  BY <1>2, <1>4 DEF ReadSoFar, LeftTable
<1>7. ExitsRead(e, q + 1)
  BY <1>2, <1>4 DEF ReadSoFar, ExitsRead
<1>8. CommKept(e)
  BY <1>4 DEF ReadSoFar, CommKept
<1>9. QED
  BY <1>3, <1>5, <1>6, <1>7, <1>8 DEF ReadSoFar

(* The root line is read, before any other. *)
LEMMA RootLineRead ==
  ASSUME OrderedIn(file), NEW d, Shape(d), d.nodes = <<>>, \A p \in Pids : d.table[p] = 0,
         NEW e, e = Reading!Inserted(d, Root, 1)
  PROVE  /\ Shape(e) /\ ReadSoFar(e, 1)
         /\ e.table[Root] \in DOMAIN e.nodes /\ Of(e.nodes[e.table[Root]]) = <<Root, 1>>
<1>1. /\ 1 \in DOMAIN file /\ file[1].kind = "root" /\ ProcIn(file, 1) = <<Root, 1>>
      /\ DOMAIN file \subseteq Nat /\ \A i \in DOMAIN file : i >= 1
  BY DEF OrderedIn, RootFirst
<1>2. Root \in Pids
  <2>1. file[1] \in Lines
    BY <1>1 DEF OrderedIn
  <2>2. QED
    BY <1>1, <2>1 DEF ProcIn, Lines
<1>3. Fits(d, Root, 1)
  BY <1>2 DEF Fits
<1>4. InsertedAs(e, d, Root, 1)
  BY <1>2, <1>3, InsertedKeeps
<1>5. /\ Shape(e) /\ e.table[Root] \in DOMAIN e.nodes /\ Of(e.nodes[e.table[Root]]) = <<Root, 1>>
      /\ \A p \in Pids : p # Root => e.table[p] = 0
      /\ \A n \in DOMAIN e.nodes : n = e.table[Root] /\ e.nodes[n].parent = 0 /\ ~e.nodes[n].exited
  <2>1. DOMAIN d.nodes = {}
    OBVIOUS
  <2>2. QED
    BY <1>4, <2>1 DEF InsertedAs
<1>6. /\ \A j \in LinesIn(file, "exit") : ~(j <= 1)
      /\ \A j \in LinesIn(file, "fork") : ~(j <= 1)
  <2>1. \A j \in DOMAIN file : j <= 1 => j = 1
    BY <1>1
  <2>2. QED
    BY <1>1, <2>1 DEF LinesIn
<1>7. Mentions(file, 1, <<Root, 1>>) /\ 1 <= 1
  BY <1>1 DEF Mentions, NamesOf
<1>8. TableAlive(e, 1) /\ EdgesRead(e, 1) /\ ExitsRead(e, 1)
  BY <1>6 DEF TableAlive, EdgesRead, ExitsRead
<1>9. NodesMentioned(e, 1)
  BY <1>1, <1>5, <1>7 DEF NodesMentioned
<1>10. LeftTable(e, 1)
  BY <1>5 DEF LeftTable, Of
<1>11. ParentsForked(e, 1) /\ CommKept(e)
  BY <1>5 DEF ParentsForked, CommKept
<1>12. QED
  BY <1>5, <1>8, <1>9, <1>10, <1>11 DEF ReadSoFar

(* One line is read. *)
LEMMA LineRead ==
  ASSUME ReadInv, pos < Len(file), pos' = pos + 1, file' = file,
         NEW e, Shape(e), ReadSoFar(e, pos + 1), Reading!Store(e),
         root_process' \in DOMAIN e.nodes, Of(e.nodes[root_process']) = <<Root, 1>>
  PROVE  ReadInv'
<1>1. Reading!db' = e
  BY DEF Reading!Store, Reading!db, Shape, Dbs
<1>2. nodes' = e.nodes
  BY DEF Reading!Store
<1>3. pos \in 0 .. Len(file) /\ pos \in Nat
  BY DEF ReadInv
<1>4. pos' \in 0 .. Len(file') /\ pos' # 0
  BY <1>3
<1>5. Shape(Reading!db)'
  BY <1>1
<1>6. ReadSoFar(Reading!db, pos)'
  BY <1>1 DEF ReadSoFar, TableAlive, NodesMentioned, LeftTable, ParentsForked, EdgesRead, ExitsRead
<1>7. RootRead'
  BY <1>2, <1>4 DEF RootRead
<1>8. QED
  BY <1>4, <1>5, <1>6, <1>7 DEF ReadInv

LEMMA ReaderKeeps ==
  ASSUME OrderedIn(file), ReadInv, Reading!Reader
  PROVE  ReadInv'
<1> DEFINE d == Reading!db
           l == file[pos + 1]
<1>1. /\ pos \in Nat /\ Shape(d) /\ ReadSoFar(d, pos) /\ RootRead
      /\ d.nodes = nodes /\ d.table = proc_table
  BY DEF ReadInv, Reading!db
<1>2. ASSUME Reading!Next1("root") \/ (\E kind \in {"fork", "exec", "exit", "killed", "exited", "unknown", "signal"} :
                                      Reading!Next1(kind))
      PROVE  /\ pos < Len(file) /\ pos' = pos + 1 /\ l \in Lines
             /\ l.kind = "root" <=> pos = 0
  <2>1. pos < Len(file) /\ pos' = pos + 1
    BY <1>2 DEF Reading!Next1
  <2>2. /\ pos + 1 \in DOMAIN file /\ l \in Lines
    BY <1>1, <2>1, IsLine
  <2>3. RootFirst(file)
    BY DEF OrderedIn
  <2>4. QED
    BY <1>1, <2>1, <2>2, <2>3 DEF RootFirst
<1>3. ASSUME NEW e, pos # 0, Shape(e), Extends(e, d), root_process' = root_process
      PROVE  root_process' \in DOMAIN e.nodes /\ Of(e.nodes[root_process']) = <<Root, 1>>
  <2>1. root_process \in DOMAIN nodes /\ Of(nodes[root_process]) = <<Root, 1>>
    BY <1>1, <1>3 DEF RootRead
  <2>2. QED
    BY <1>1, <1>3, <2>1 DEF Extends
<1>4. ASSUME NEW e, Kept(e, d) PROVE Shape(e) /\ Extends(e, d)
  BY <1>4 DEF Kept, Extends, SamePlace, Of
<1> HIDE DEF d
<1>5. ASSUME Reading!ReadRoot PROVE ReadInv'
  <2>1. l.kind = "root" /\ pos < Len(file) /\ pos' = pos + 1 /\ pos = 0
    BY <1>2, <1>5 DEF Reading!ReadRoot, Reading!Next1
  <2>2. l.pid = Root /\ l.inc = 1
    BY <2>1 DEF OrderedIn, RootFirst, ProcIn
  <2> DEFINE e == Reading!Inserted(d, Root, 1)
  <2>3. file' = file /\ Reading!Store(e) /\ root_process' = e.table[Root]
    BY <1>5, <2>2 DEF Reading!ReadRoot, Reading!Read, d
  <2>4. /\ Shape(e) /\ ReadSoFar(e, 1)
        /\ e.table[Root] \in DOMAIN e.nodes /\ Of(e.nodes[e.table[Root]]) = <<Root, 1>>
    BY <1>1, <2>1, RootLineRead DEF RootRead
  <2> HIDE DEF e
  <2>5. pos + 1 = 1
    BY <2>1
  <2>6. QED
    BY <2>1, <2>3, <2>4, <2>5, LineRead
<1>6. ASSUME Reading!ReadFork PROVE ReadInv'
  <2>1. l.kind = "fork" /\ pos < Len(file) /\ pos' = pos + 1 /\ pos # 0
    BY <1>2, <1>6 DEF Reading!ReadFork, Reading!Next1
  <2> DEFINE e == Reading!Forked(l)
  <2>2. file' = file /\ Reading!Store(e) /\ root_process' = root_process
    BY <1>6 DEF Reading!ReadFork, Reading!Read
  <2>3. Shape(e) /\ Extends(e, d) /\ ReadSoFar(e, pos + 1)
    BY <1>1, <2>1, ForkRead DEF d
  <2> HIDE DEF e
  <2>4. QED
    BY <1>3, <2>1, <2>2, <2>3, LineRead
<1>7. ASSUME Reading!ReadExit PROVE ReadInv'
  <2>1. l.kind = "exit" /\ pos < Len(file) /\ pos' = pos + 1 /\ pos # 0
    BY <1>2, <1>7 DEF Reading!ReadExit, Reading!Next1
  <2> DEFINE e == Reading!Removed(Reading!Updated(d, l.pid,
                                     Reading!Exited(Reading!NodeOf(d, l.pid), l)), l.pid)
  <2>2. file' = file /\ Reading!Store(e) /\ root_process' = root_process
    BY <1>7 DEF Reading!ReadExit, Reading!Read, d
  <2>3. Kept(e, d) /\ ReadSoFar(e, pos + 1)
    BY <1>1, <2>1, ExitRead
  <2> HIDE DEF e
  <2>4. QED
    BY <1>3, <1>4, <2>1, <2>2, <2>3, LineRead
\* The comm of a node that has not exited.
<1>8. ASSUME NEW nd, l.kind \in {"exec", "killed"}, l \in Lines, pos < Len(file),
             \E c \in {"exec", "comm"} : nd = [Reading!NodeOf(d, l.pid) EXCEPT !.comm = c],
             NEW e, e = Reading!Updated(d, l.pid, nd)
      PROVE  Kept(e, d) /\ ReadSoFar(e, pos + 1)
  <2> DEFINE p == l.pid
             k == d.table[p]
  <2>1. p \in Pids
    BY <1>8 DEF Lines
  <2>2. k # 0 => nd \in NodeType /\ SamePlace(nd, d.nodes[k]) /\ nd.exited = d.nodes[k].exited
    <3> SUFFICES ASSUME k # 0
                 PROVE  nd \in NodeType /\ SamePlace(nd, d.nodes[k]) /\ nd.exited = d.nodes[k].exited
      OBVIOUS
    <3>1. k \in DOMAIN d.nodes /\ d.nodes \in Seq(NodeType)
      BY <1>1, <2>1 DEF Shape, TableValid, Dbs
    <3>2. d.nodes[k] \in NodeType
      BY <3>1
    <3>3. QED
      BY <1>8, <3>2 DEF NodeType, SamePlace, Reading!NodeOf
  <2>3. /\ Shape(e) /\ e.table = d.table /\ DOMAIN e.nodes = DOMAIN d.nodes
        /\ \A n \in DOMAIN d.nodes : SamePlace(e.nodes[n], d.nodes[n])
        /\ \A n \in DOMAIN d.nodes : e.nodes[n].exited = d.nodes[n].exited
        /\ \A n \in DOMAIN d.nodes : n # k => e.nodes[n] = d.nodes[n]
    <3>1. e = Reading!Updated(d, p, nd)
      BY <1>8
    <3>2. d.table[p] # 0 => /\ nd \in NodeType /\ SamePlace(nd, d.nodes[d.table[p]])
                           /\ nd.exited = d.nodes[d.table[p]].exited
      BY <2>2
    <3> HIDE DEF p
    <3>3. UpdatedAs(e, d, p)
      BY <1>1, <2>1, <3>1, <3>2, UpdatedKeeps
    <3>4. QED
      BY ONLY <3>3 DEF UpdatedAs, k
  <2>4. Kept(e, d)
    BY <2>3 DEF Kept
  <2>5. 0 \notin DOMAIN d.nodes
    BY <1>1 DEF Shape, Dbs
  <2>6. \A n \in DOMAIN d.nodes : d.nodes[n].exited => e.nodes[n].comm = d.nodes[n].comm
    BY <1>1, <2>1, <2>3, <2>5 DEF Shape, TableValid
  <2>7. QED
    BY <1>1, <1>8, <2>3, <2>4, <2>6, QuietRead
<1>9. ASSUME Reading!ReadExec \/ Reading!ReadKilled PROVE ReadInv'
  <2>1. /\ l.kind \in {"exec", "killed"} /\ pos < Len(file) /\ pos' = pos + 1 /\ pos # 0 /\ l \in Lines
    BY <1>2, <1>9 DEF Reading!ReadExec, Reading!ReadKilled, Reading!Next1
  <2>2. PICK c \in {"exec", "comm"} :
          /\ Reading!Store(Reading!Updated(d, l.pid, [Reading!NodeOf(d, l.pid) EXCEPT !.comm = c]))
          /\ file' = file /\ root_process' = root_process
    BY <1>9 DEF Reading!ReadExec, Reading!ReadKilled, Reading!Read, d
  <2> DEFINE nd == [Reading!NodeOf(d, l.pid) EXCEPT !.comm = c]
             e == Reading!Updated(d, l.pid, nd)
  <2>3. Kept(e, d) /\ ReadSoFar(e, pos + 1)
    BY <1>8, <2>1
  <2> HIDE DEF e
  <2>4. Reading!Store(e)
    BY <2>2 DEF e
  <2>5. QED
    BY <1>3, <1>4, <2>1, <2>2, <2>3, <2>4, LineRead
<1>10. ASSUME Reading!ReadIgnored PROVE ReadInv'
  <2>1. /\ l.kind \in {"exited", "unknown", "signal"}
        /\ pos < Len(file) /\ pos' = pos + 1 /\ pos # 0 /\ l \in Lines
    BY <1>2, <1>10 DEF Reading!ReadIgnored, Reading!Next1
  <2>2. file' = file /\ root_process' = root_process /\ Reading!Store(d)
    BY <1>1, <1>10 DEF Reading!ReadIgnored, Reading!Store
  <2>3. Kept(d, d)
    BY <1>1 DEF Kept, SamePlace
  <2>4. ReadSoFar(d, pos + 1)
    BY <1>1, <2>1, <2>3, QuietRead
  <2>5. QED
    BY <1>1, <1>3, <1>4, <2>1, <2>2, <2>3, <2>4, LineRead
<1>11. QED
  BY <1>5, <1>6, <1>7, <1>9, <1>10 DEF Reading!Reader

LEMMA ReaderStarts ==
  ASSUME Reading!ReaderInit, OrderedIn(file)
  PROVE  ReadInv
<1> DEFINE d == Reading!db
<1>1. /\ pos = 0 /\ nodes = <<>> /\ proc_table = [p \in Pids |-> 0]
      /\ d.nodes = <<>> /\ d.table = [p \in Pids |-> 0]
      /\ d = [table |-> d.table, nodes |-> d.nodes] /\ DOMAIN d.nodes = {}
  BY DEF Reading!ReaderInit, Reading!db, Reading!NoNode
<1>2. Shape(d)
  <2>1. d.nodes \in Seq(NodeType) /\ d.table \in [Pids -> Nat]
    BY <1>1
  <2>2. d \in Dbs
    BY <1>1, <2>1 DEF Dbs
  <2>3. TableValid(d) /\ OneNode(d) /\ Linked(d)
    BY <1>1 DEF TableValid, OneNode, Linked
  <2>4. QED
    BY <2>2, <2>3 DEF Shape
<1>3. \A i \in DOMAIN file : ~(i <= 0)
  BY DEF OrderedIn
<1>4. ReadSoFar(d, 0)
  BY <1>1, <1>3 DEF ReadSoFar, TableAlive, NodesMentioned, LeftTable, ParentsForked, EdgesRead,
                    ExitsRead, CommKept, LinesIn
<1>5. pos \in 0 .. Len(file) /\ RootRead
  BY <1>1 DEF RootRead, OrderedIn
<1>6. QED
  BY <1>1, <1>2, <1>4, <1>5 DEF ReadInv

LEMMA ReadEdges ==
  ASSUME ReadInv, OrderedIn(file)
  PROVE  Reading!EdgesKept
<1>1. OneNode(Reading!db) /\ EdgesRead(Reading!db, pos) /\ Reading!db.nodes = nodes
  BY DEF ReadInv, Shape, ReadSoFar, Reading!db
<1>2. pos \in Nat /\ pos <= Len(file)
  BY DEF ReadInv
<1>3. \A i \in 1 .. pos : i <= pos /\ (file[i].kind = "fork" => i \in LinesIn(file, "fork"))
  BY <1>2 DEF LinesIn, OrderedIn
<1>4. QED
  BY <1>1, <1>3 DEF OneNode, EdgesRead, Of, ProcIn, ByIn, Reading!EdgesKept, Reading!ProcessOf,
                    Reading!NoNode

(* proctree makes one node of each process of any file in this order, and hangs *)
(* it where the fork lines say, whatever blocks and lines come in between and   *)
(* however often a pid is used again.                                           *)
THEOREM ReaderKeepsEdges ==
  OrderedIn(file) /\ Reading!ReaderInit /\ [][Reading!Reader]_<<file, readerVars>>
    => []Reading!EdgesKept
<1>1. OrderedIn(file) /\ Reading!ReaderInit => ReadInv
  BY ReaderStarts
<1>2. OrderedIn(file) /\ ReadInv /\ [Reading!Reader]_<<file, readerVars>> => (OrderedIn(file) /\ ReadInv)'
  <2>1. ASSUME OrderedIn(file), ReadInv, Reading!Reader PROVE (OrderedIn(file) /\ ReadInv)'
    <3>1. file' = file
      BY <2>1 DEF Reading!Reader, Reading!ReadRoot, Reading!ReadFork, Reading!ReadExec,
                  Reading!ReadExit, Reading!ReadKilled, Reading!ReadIgnored
    <3>2. OrderedIn(file')
      BY <2>1, <3>1
    <3>3. ReadInv'
      BY <2>1, ReaderKeeps
    <3>4. QED
      BY <3>2, <3>3
  <2>2. ASSUME OrderedIn(file), ReadInv, UNCHANGED <<file, readerVars>>
        PROVE  (OrderedIn(file) /\ ReadInv)'
    BY <2>2 DEF readerVars, ReadInv, RootRead, Reading!db, ReadSoFar, TableAlive, NodesMentioned,
                LeftTable, ParentsForked, EdgesRead, ExitsRead
  <2>3. QED
    BY <2>1, <2>2
<1>3. ReadInv /\ OrderedIn(file) => Reading!EdgesKept
  BY ReadEdges
<1>4. QED
  BY <1>1, <1>2, <1>3, PTL

(* To the tracer, nothing happens while its file is read. *)
LEMMA PipelineTraces == PipelineSpec => Spec
<1>1. PipelineInit => Init
  BY DEF PipelineInit
<1>2. [PipelineNext]_allVars => [Next]_vars
  BY DEF PipelineNext, Trace, Rebuild, Shown, allVars
<1>3. QED
  BY <1>1, <1>2, PTL DEF PipelineSpec, Spec

(* The reader starts when the tracer is done, and is nowhere until then. *)
LEMMA PipelineReads ==
  ASSUME ~PidReuse
  PROVE  PipelineSpec => [](Order /\ TypeOK /\ ReadInv)
<1>1. PipelineSpec => Spec
  BY PipelineTraces
<1>2. Spec => []TypeOK
  BY TypeCorrect, PTL
<1>3. TypeOK => file \in Seq(Lines)
  BY DEF TypeOK, TracerTypeOK
<1>4. Spec => []Order
  BY <1>2, <1>3, Refines, PromiseOrders, PTL
<1>5. PipelineInit => loop = "wait" /\ Reading!ReaderInit
  BY DEF PipelineInit, Init
<1>6. Reading!ReaderInit /\ Order => ReadInv
  BY ReaderStarts DEF Order
<1>7. (loop # "done" => Reading!ReaderInit) /\ [PipelineNext]_allVars
        => (loop # "done" => Reading!ReaderInit)'
  <2>1. ASSUME loop # "done", Reading!ReaderInit, UNCHANGED readerVars PROVE Reading!ReaderInit'
    BY <2>1 DEF readerVars, Reading!ReaderInit
  <2>2. ASSUME UNCHANGED vars PROVE loop' = loop
    BY <2>2 DEF vars, tracerVars
  <2>3. QED
    BY <2>1, <2>2 DEF PipelineNext, Trace, Rebuild, Shown, allVars
<1>8. ReadInv /\ Order /\ (loop # "done" => Reading!ReaderInit) /\ [PipelineNext]_allVars
        => ReadInv' \/ Reading!ReaderInit'
  <2> SUFFICES ASSUME ReadInv, Order, loop # "done" => Reading!ReaderInit, [PipelineNext]_allVars
               PROVE  ReadInv' \/ Reading!ReaderInit'
    OBVIOUS
  <2>1. CASE Trace
    BY <2>1 DEF Trace, readerVars, Reading!ReaderInit
  <2>2. CASE Rebuild
    BY <2>2, ReaderKeeps DEF Rebuild, Order
  <2>3. CASE UNCHANGED allVars
    BY <2>3 DEF allVars, vars, tracerVars, readerVars, ReadInv, RootRead, Reading!db, ReadSoFar, TableAlive,
                NodesMentioned, LeftTable, ParentsForked, EdgesRead, ExitsRead
  <2>4. QED
    BY <2>1, <2>2, <2>3 DEF PipelineNext, Shown
<1>9. loop = "wait" => loop # "done"
  OBVIOUS
<1>10. QED
  BY <1>1, <1>2, <1>4, <1>5, <1>6, <1>7, <1>8, <1>9, PTL DEF PipelineSpec

(* Every edge the tracer wrote is in the tree proctree builds, under the one *)
(* node of its process, at every moment of the reading.                      *)
THEOREM EdgesCorrect ==
  ASSUME ~PidReuse
  PROVE  PipelineSpec => []EdgesKept
<1>1. ReadInv /\ Order => EdgesKept
  BY ReadEdges DEF Order, EdgesKept
<1>2. QED
  BY <1>1, PipelineReads, PTL

-----------------------------------------------------------------------------
(* Induction over the natural numbers, with a set in the place of a predicate: *)
(* every set of naturals that is not empty has a least element.                *)
LEMMA Smallest ==
  ASSUME NEW T, T \subseteq Nat, T # {}
  PROVE  \E n \in T : \A m \in T : n <= m
<1> DEFINE R == {ss \in Nat \X Nat : ss[1] < ss[2]}
<1>1. IsWellFoundedOn(R, Nat)
  BY NatLessThanWellFounded DEF OpToRel
<1> HIDE DEF R
<1>2. PICK n \in T : \A m \in T : ~(<<m, n>> \in R)
  BY <1>1, WFMin
<1>3. ASSUME NEW m \in T PROVE n <= m
  <2>1. ~(<<m, n>> \in R)
    BY <1>2
  <2>2. QED
    BY <2>1 DEF R
<1>4. QED
  BY <1>3

LEMMA SetInduction ==
  ASSUME NEW S, 0 \in S, \A n \in Nat : n \in S => n + 1 \in S
  PROVE  Nat \subseteq S
<1> SUFFICES ASSUME Nat \ S # {} PROVE FALSE
  OBVIOUS
<1>1. PICK n \in Nat \ S : \A m \in Nat \ S : n <= m
  BY Smallest
<1>2. n - 1 \in Nat
  BY <1>1
<1>3. QED
  BY <1>1, <1>2

(* print_tree() follows children round by round: what it has reached after k *)
(* rounds is well defined, and after the last round it is Below.             *)
Round(seen) == seen \cup UNION {Reading!Range(nodes[m].children) : m \in seen}
Rounds(g, n, k) == g = [i \in 0 .. k |-> IF i = 0 THEN {n} ELSE Round(g[i - 1])]

LEMMA RoundsExist ==
  ASSUME NEW n, NEW N \in Nat
  PROVE  \E g : Rounds(g, n, N)
<1> DEFINE S == {k \in Nat : \E g : Rounds(g, n, k)}
<1>1. 0 \in S
  <2>1. Rounds([i \in 0 .. 0 |-> {n}], n, 0)
    BY DEF Rounds
  <2>2. QED
    BY <2>1
<1>2. ASSUME NEW k \in Nat, k \in S PROVE k + 1 \in S
  <2>1. PICK g : Rounds(g, n, k)
    BY <1>2
  <2> DEFINE h == [i \in 0 .. k + 1 |-> IF i = k + 1 THEN Round(g[k]) ELSE g[i]]
  <2>2. ASSUME NEW i \in 0 .. k + 1
        PROVE  h[i] = IF i = 0 THEN {n} ELSE Round(h[i - 1])
    <3>1. CASE i = k + 1
      <4>1. h[i - 1] = g[k] /\ i # 0 /\ h[i] = Round(g[k])
        BY <3>1
      <4> HIDE DEF h
      <4>2. QED
        BY <4>1
    <3>2. CASE i # k + 1
      <4>1. i \in 0 .. k /\ h[i] = g[i] /\ (i # 0 => h[i - 1] = g[i - 1])
        BY <3>2
      <4>2. g[i] = IF i = 0 THEN {n} ELSE Round(g[i - 1])
        BY <2>1, <4>1 DEF Rounds
      <4> HIDE DEF h
      <4>3. QED
        BY <4>1, <4>2
    <3>3. QED
      BY <3>1, <3>2
  <2> DEFINE hh == [i \in 0 .. k + 1 |-> IF i = 0 THEN {n} ELSE Round(h[i - 1])]
  <2>3. h = hh
    BY <2>2
  <2>4. Rounds(h, n, k + 1)
    BY <2>3 DEF Rounds
  <2>5. QED
    BY <2>4
<1>3. Nat \subseteq S
  <2> HIDE DEF S
  <2>1. QED
    BY <1>1, <1>2, SetInduction
<1>4. QED
  BY <1>3

LEMMA BelowIsLast ==
  ASSUME NEW n, nodes \in Seq(NodeType)
  PROVE  \E g : /\ Reading!Below(n) = g[Len(nodes)] /\ g[0] = {n}
               /\ \A k \in 0 .. Len(nodes) - 1 : g[k + 1] = Round(g[k])
<1> DEFINE N == Len(nodes)
           G == CHOOSE g : g = [i \in 0 .. N |->
                  IF i = 0 THEN {n}
                  ELSE g[i - 1] \cup UNION {Reading!Range(nodes[m].children) : m \in g[i - 1]}]
<1>1. N \in Nat
  OBVIOUS
<1>2. PICK g : Rounds(g, n, N)
  BY <1>1, RoundsExist
<1>3. g = [i \in 0 .. N |->
             IF i = 0 THEN {n}
             ELSE g[i - 1] \cup UNION {Reading!Range(nodes[m].children) : m \in g[i - 1]}]
  BY <1>2, Zenon DEF Rounds, Round
<1>4. G = [i \in 0 .. N |->
             IF i = 0 THEN {n}
             ELSE G[i - 1] \cup UNION {Reading!Range(nodes[m].children) : m \in G[i - 1]}]
  BY <1>3, Zenon
<1>5. Reading!Below(n) = G[N]
  BY Zenon DEF Reading!Below
<1> HIDE DEF G, N
<1>6. Rounds(G, n, N)
  BY <1>4, Zenon DEF Rounds, Round
<1>7. G[0] = {n} /\ \A k \in 0 .. N - 1 : G[k + 1] = Round(G[k])
  <2>1. G[0] = {n}
    BY <1>1, <1>6 DEF Rounds
  <2>2. ASSUME NEW k \in 0 .. N - 1 PROVE G[k + 1] = Round(G[k])
    <3>1. k + 1 \in 0 .. N /\ k + 1 # 0 /\ (k + 1) - 1 = k
      BY <1>1
    <3>2. QED
      BY <1>6, <3>1 DEF Rounds
  <2>3. QED
    BY <2>1, <2>2
<1>8. QED
  BY <1>5, <1>7 DEF N

(* Nodes whose parents are all of lower rank, but one that has none, are a tree. *)
TreeRank(r) ==
  /\ r \in [DOMAIN nodes -> Nat]
  /\ \A n \in DOMAIN nodes : r[n] < Len(nodes)
  /\ root_process \in DOMAIN nodes /\ nodes[root_process].parent = 0
  /\ \A n \in DOMAIN nodes \ {root_process} :
       nodes[n].parent \in DOMAIN nodes /\ r[nodes[n].parent] < r[n]

LEMMA RankedIsTree ==
  ASSUME Shape(Reading!db), NEW r, TreeRank(r)
  PROVE  Reading!Forest /\ Reading!Below(root_process) = DOMAIN nodes
<1> DEFINE N == Len(nodes)
           Kids(m) == Reading!Range(nodes[m].children)
<1>1. /\ nodes \in Seq(NodeType) /\ N \in Nat /\ 0 \notin DOMAIN nodes
      /\ \A n \in DOMAIN nodes :
           /\ Reading!IsInjective(nodes[n].children)
           /\ \A m \in DOMAIN nodes : m \in Kids(n) <=> nodes[m].parent = n
           /\ Kids(n) \subseteq DOMAIN nodes
  BY DEF Shape, Dbs, Linked, Reading!db
<1>2. /\ \A n \in DOMAIN nodes : r[n] \in Nat /\ r[n] < N
      /\ root_process \in DOMAIN nodes /\ nodes[root_process].parent = 0
      /\ \A n \in DOMAIN nodes : n # root_process =>
           nodes[n].parent \in DOMAIN nodes /\ r[nodes[n].parent] < r[n]
  BY DEF TreeRank
<1> HIDE DEF N, Kids
<1>3. \A n \in DOMAIN nodes : \A m : m \in Kids(n) => m \in DOMAIN nodes /\ r[n] < r[m]
  BY <1>1, <1>2
<1>4. ASSUME NEW m \in DOMAIN nodes
      PROVE  \A x \in Reading!Below(m) : x \in DOMAIN nodes /\ r[m] <= r[x]
  <2>1. PICK g : /\ Reading!Below(m) = g[N] /\ g[0] = {m}
                 /\ \A k \in 0 .. N - 1 : g[k + 1] = Round(g[k])
    BY <1>1, BelowIsLast DEF N
  <2> DEFINE S == {k \in Nat : k <= N => \A x \in g[k] : x \in DOMAIN nodes /\ r[m] <= r[x]}
  <2>2. 0 \in S
    BY <1>2, <2>1
  <2>3. ASSUME NEW k \in Nat, k \in S PROVE k + 1 \in S
    <3> SUFFICES ASSUME k + 1 <= N, NEW x \in g[k + 1]
                 PROVE  x \in DOMAIN nodes /\ r[m] <= r[x]
      OBVIOUS
    <3>1. k \in 0 .. N - 1 /\ k <= N
      BY <1>1
    <3>2. x \in Round(g[k]) /\ \A y \in g[k] : y \in DOMAIN nodes /\ r[m] <= r[y]
      BY <2>1, <2>3, <3>1
    <3>3. CASE x \in g[k]
      BY <3>2, <3>3
    <3>4. CASE \E y \in g[k] : x \in Kids(y)
      <4>1. PICK y \in g[k] : x \in Kids(y)
        BY <3>4
      <4>2. /\ y \in DOMAIN nodes /\ r[m] <= r[y] /\ x \in DOMAIN nodes /\ r[y] < r[x]
        BY <1>3, <3>2, <4>1
      <4>3. QED
        BY <1>2, <4>2
    <3>5. QED
      BY <3>2, <3>3, <3>4 DEF Round, Kids
  <2>4. Nat \subseteq S
    <3> HIDE DEF S
    <3>1. QED
      BY <2>2, <2>3, SetInduction
  <2>5. N \in S
    BY <1>1, <2>4
  <2>6. QED
    BY <1>1, <2>1, <2>5
<1>5. Reading!Forest
  <2> SUFFICES ASSUME NEW n \in DOMAIN nodes
               PROVE  /\ Reading!IsInjective(nodes[n].children)
                      /\ \A m \in DOMAIN nodes : m \in Kids(n) <=> nodes[m].parent = n
                      /\ \A m \in Kids(n) : n \notin Reading!Below(m)
    BY DEF Reading!Forest, Kids
  <2>1. ASSUME NEW m \in Kids(n), n \in Reading!Below(m) PROVE FALSE
    <3>1. m \in DOMAIN nodes /\ r[n] < r[m]
      BY <1>3
    <3>2. r[m] <= r[n]
      BY <1>4, <2>1, <3>1
    <3>3. QED
      BY <1>2, <3>1, <3>2
  <2>2. QED
    BY <1>1, <2>1
<1>6. DOMAIN nodes \subseteq Reading!Below(root_process)
  <2>1. PICK g : /\ Reading!Below(root_process) = g[N] /\ g[0] = {root_process}
                 /\ \A k \in 0 .. N - 1 : g[k + 1] = Round(g[k])
    BY <1>1, BelowIsLast DEF N
  <2> DEFINE S == {k \in Nat : k <= N =>
                     root_process \in g[k] /\ \A x \in DOMAIN nodes : r[x] <= k => x \in g[k]}
  <2>2. 0 \in S
    <3>1. \A x \in DOMAIN nodes : r[x] <= 0 => x = root_process
      BY <1>2
    <3>2. QED
      BY <2>1, <3>1
  <2>3. ASSUME NEW k \in Nat, k \in S PROVE k + 1 \in S
    <3> SUFFICES ASSUME k + 1 <= N
                 PROVE  /\ root_process \in g[k + 1]
                        /\ \A x \in DOMAIN nodes : r[x] <= k + 1 => x \in g[k + 1]
      OBVIOUS
    <3>1. k \in 0 .. N - 1 /\ k <= N
      BY <1>1
    <3>2. /\ g[k + 1] = Round(g[k]) /\ root_process \in g[k]
          /\ \A x \in DOMAIN nodes : r[x] <= k => x \in g[k]
      BY <2>1, <2>3, <3>1
    <3>3. root_process \in g[k + 1]
      BY <3>2 DEF Round
    <3>4. ASSUME NEW x \in DOMAIN nodes, r[x] <= k + 1, x # root_process PROVE x \in g[k + 1]
      <4>1. /\ nodes[x].parent \in DOMAIN nodes /\ r[nodes[x].parent] < r[x]
            /\ r[nodes[x].parent] \in Nat /\ r[x] \in Nat
        BY <1>2, <3>4
      <4>2. nodes[x].parent \in g[k]
        BY <3>2, <3>4, <4>1
      <4>3. x \in Kids(nodes[x].parent)
        BY <1>1, <4>1
      <4>4. QED
        BY <3>2, <4>2, <4>3 DEF Round, Kids
    <3>5. QED
      BY <3>3, <3>4
  <2>4. Nat \subseteq S
    <3> HIDE DEF S
    <3>1. QED
      BY <2>2, <2>3, SetInduction
  <2>5. N \in S
    BY <1>1, <2>4
  <2>6. \A x \in DOMAIN nodes : r[x] <= N
    BY <1>1, <1>2
  <2>7. QED
    BY <1>1, <2>1, <2>5, <2>6
<1>7. QED
  BY <1>2, <1>4, <1>5, <1>6

-----------------------------------------------------------------------------
(* The kernel's side: what the lines of the file say of the processes it ran, *)
(* as long as it reuses no pid.                                               *)
LineSet(f) == {f[i] : i \in DOMAIN f}
Born == {p \in Pids : life[p] # "unborn"}

\* A fork line names the parent the kernel knows.
LineTrue(l) ==
  /\ l.kind \in {"fork", "exit"} => life[l.pid] # "unborn"
  /\ l.kind = "fork" => l.by = parentOf[l.pid] /\ l.byInc = 1 /\ life[l.by] # "unborn"
FileTrue == \A l \in LineSet(file) : LineTrue(l)
StopsTrue == \A p \in Pids : stop[p] = "fork" => parentOf[msg[p]] = p

BirthsCounted == Root \in Born /\ IsFiniteSet(Born) /\ Cardinality(Born) = births

\* Processes are older than their children: the kernel ran a tree.
Older(rank, born, births_, parent) ==
  /\ \A c \in born : rank[c] < births_
  /\ \A c \in born \ {Root} : parent[c] \in born /\ rank[parent[c]] < rank[c]
Ranked == \E rank \in [Pids -> Nat] : Older(rank, Born, births, parentOf)

Kernel == FileTrue /\ StopsTrue /\ BirthsCounted /\ Ranked

LEMMA LineSetAdded ==
  ASSUME NEW f \in Seq(Lines), NEW l \in Lines
  PROVE  LineSet(Append(f, l)) = LineSet(f) \cup {l}
<1> DEFINE g == Append(f, l)
<1>1. /\ Len(f) \in Nat /\ DOMAIN f = 1 .. Len(f) /\ DOMAIN g = 1 .. Len(f) + 1
      /\ \A i \in 1 .. Len(f) : g[i] = f[i]
      /\ g[Len(f) + 1] = l
  BY Appended
<1> HIDE DEF g
<1>2. DOMAIN g = DOMAIN f \cup {Len(f) + 1} /\ \A i \in DOMAIN f : g[i] = f[i]
  BY <1>1
<1>3. LineSet(g) = LineSet(f) \cup {l}
  BY <1>1, <1>2 DEF LineSet
<1>4. QED
  BY <1>3 DEF g

(* The lines a step of the tracer writes, and what becomes of a deferred block. *)
Reported(p) == pending[p] # <<>> \/ \E l \in LineSet(file) : l.kind = "exit" /\ l.pid = p
WrittenBy(p, l) ==
  \/ l.kind \notin {"fork", "exit"}
  \/ l.kind = "exit" /\ l.pid \in Born
  \/ l.kind = "fork" /\ stop[p] = "fork" /\ l.pid = msg[p] /\ l.by = p /\ l.byInc = 1
Writes(p) ==
  /\ LineSet(file) \subseteq LineSet(file')
  /\ \A l \in LineSet(file') : l \in LineSet(file) \/ WrittenBy(p, l)
  /\ \A q \in Pids : Reported(q) => Reported(q)'
  /\ HandleExit(p) => Reported(p)'
  /\ HandleFork(p) => known'[msg[p]]
  /\ \A q \in Pids : known[q] => known'[q]

LEMMA TracerWrites ==
  ASSUME TypeOK, OrderInv, PromiseInv, NEW p \in Pids, Tracer(p)
  PROVE  Writes(p)
<1>1. /\ file \in Seq(Lines) /\ pending \in [Pids -> Seq(Lines)] /\ known \in [Pids -> BOOLEAN]
      /\ msg[p] \in Pids
  BY DEF TypeOK, KernelTypeOK, TracerTypeOK
<1>2. \A q \in Pids : pending[q] # <<>> =>
        /\ Len(pending[q]) <= 1 /\ pending[q][1].kind = "exit" /\ pending[q][1].pid = q
        /\ life[q] # "unborn"
  BY DEF OrderInv, Deferred, NothingDeferred
<1>3. CASE HandleFork(p)
  <2> DEFINE c == msg[p]
             l == ForkLine(p, c)
             f == Append(file, l)
             b == pending[c][1]
  <2>1. /\ stop[p] = "fork" /\ file' = f \o pending[c]
        /\ known' = [known EXCEPT ![c] = TRUE] /\ pending' = [pending EXCEPT ![c] = <<>>]
    BY <1>3 DEF HandleFork, Waited, MarkKnown
  <2>2. inc[p] = 1
    <3>1. life[p] = "alive"
      BY <2>1 DEF PromiseInv, StopsAlive
    <3>2. QED
      BY <3>1 DEF PromiseInv, OneProcessPerPid
  <2>3. l \in Lines /\ l.kind = "fork" /\ l.pid = c /\ l.by = p /\ l.byInc = 1
    BY <1>1, <2>2, LineType, LineProcess
  <2> HIDE DEF l
  <2>4. f \in Seq(Lines) /\ LineSet(f) = LineSet(file) \cup {l}
    BY <1>1, <2>3, LineSetAdded
  <2> HIDE DEF f
  <2>5. WrittenBy(p, l)
    BY <2>1, <2>3 DEF WrittenBy
  <2>6. /\ ~HandleExit(p) /\ known'[c] /\ \A q \in Pids : known[q] => known'[q]
    BY <1>1, <2>1 DEF HandleExit, Waited
  <2>7. CASE pending[c] = <<>>
    <3>1. file' = f /\ pending' = pending
      BY <1>1, <2>1, <2>4, <2>7
    <3>2. QED
      BY <2>4, <2>5, <2>6, <3>1 DEF Writes, Reported
  <2>8. CASE pending[c] # <<>>
    <3>1. b \in Lines /\ file' = Append(f, b) /\ b.kind = "exit" /\ b.pid = c /\ life[c] # "unborn"
      BY <1>1, <1>2, <2>1, <2>4, <2>8, JoinBlock
    <3> HIDE DEF b
    <3>2. LineSet(file') = LineSet(file) \cup {l, b}
      BY <2>4, <3>1, LineSetAdded
    <3>3. WrittenBy(p, b)
      BY <1>1, <3>1 DEF WrittenBy, Born
    <3>4. \A q \in Pids : q # c => pending'[q] = pending[q]
      BY <1>1, <2>1
    <3>5. \A q \in Pids : Reported(q) => Reported(q)'
      BY <3>1, <3>2, <3>4 DEF Reported
    <3>6. QED
      BY <2>5, <2>6, <3>2, <3>3, <3>5 DEF Writes
  <2>9. QED
    BY <2>7, <2>8
<1>4. CASE HandleExit(p)
  <2> DEFINE l == ExitBlock(p)
  <2>1. /\ stop[p] = "exit" /\ known' = known
        /\ \/ file' = Append(file, l) /\ pending' = pending
           \/ file' = file /\ pending' = [pending EXCEPT ![p] = <<l>>]
    BY <1>4 DEF HandleExit, Waited, DeferExit
  <2>2. life[p] # "unborn"
    BY <2>1 DEF OrderInv, Births
  <2>3. l \in Lines /\ l.kind = "exit" /\ l.pid = p
    BY LineType
  <2> HIDE DEF l
  <2>4. WrittenBy(p, l) /\ ~HandleFork(p)
    BY <2>1, <2>2, <2>3 DEF WrittenBy, HandleFork, Waited, Born
  <2>5. CASE file' = Append(file, l) /\ pending' = pending
    <3>1. LineSet(file') = LineSet(file) \cup {l}
      BY <1>1, <2>3, <2>5, LineSetAdded
    <3>2. QED
      BY <2>1, <2>3, <2>4, <2>5, <3>1 DEF Writes, Reported
  <2>6. CASE file' = file /\ pending' = [pending EXCEPT ![p] = <<l>>]
    <3>1. pending'[p] # <<>> /\ \A q \in Pids : pending[q] # <<>> => pending'[q] # <<>>
      BY <1>1, <2>6
    <3>2. QED
      BY <2>1, <2>4, <2>6, <3>1 DEF Writes, Reported
  <2>7. QED
    BY <2>1, <2>5, <2>6
<1>5. CASE FlushPending(p)
  <2> DEFINE b == pending[p][1]
  <2>1. /\ loop = "flush" /\ pending[p] # <<>> /\ file' = file \o pending[p]
        /\ pending' = [pending EXCEPT ![p] = <<>>] /\ known' = known
    BY <1>5 DEF FlushPending
  <2>2. b \in Lines /\ file' = Append(file, b) /\ b.kind = "exit" /\ b.pid = p /\ life[p] # "unborn"
    BY <1>1, <1>2, <2>1, JoinBlock
  <2> HIDE DEF b
  <2>3. LineSet(file') = LineSet(file) \cup {b}
    BY <1>1, <2>2, LineSetAdded
  <2>4. WrittenBy(p, b) /\ ~HandleFork(p) /\ ~HandleExit(p)
    BY <2>1, <2>2 DEF WrittenBy, HandleFork, HandleExit, Waited, Born
  <2>5. \A q \in Pids : q # p => pending'[q] = pending[q]
    BY <1>1, <2>1
  <2>6. \A q \in Pids : Reported(q) => Reported(q)'
    BY <2>2, <2>3, <2>5 DEF Reported
  <2>7. QED
    BY <2>1, <2>3, <2>4, <2>6 DEF Writes
<1>6. CASE HandleNewPid(p)
  BY <1>6 DEF HandleNewPid, tracerVars, Writes, Reported, Waited, HandleFork, HandleExit
<1>7. CASE HandleExec(p) \/ HandleUnknown(p) \/ HandleSignal(p) \/ HandleExited(p) \/ HandleSignaled(p)
  <2>1. PICK kind \in LineKinds \ {"fork", "exit"} :
          /\ file' = Append(file, Line(kind, p)) /\ pending' = pending /\ known' = known
          /\ stop[p] \notin {"fork", "exit"}
    BY <1>7 DEF HandleExec, HandleUnknown, HandleSignal, HandleExited, HandleSignaled, LineKinds, Waited
  <2>2. /\ LineSet(file') = LineSet(file) \cup {Line(kind, p)}
        /\ Line(kind, p).kind \notin {"fork", "exit"}
    BY <1>1, <2>1, LineType, LineSetAdded
  <2>3. ~HandleFork(p) /\ ~HandleExit(p)
    BY <2>1 DEF HandleFork, HandleExit, Waited
  <2>4. QED
    BY <2>1, <2>2, <2>3 DEF Writes, Reported, WrittenBy
<1>8. QED
  BY <1>3, <1>4, <1>5, <1>6, <1>7 DEF Tracer

(* Every step but a fork leaves the processes that were born as they are. *)
BornSame(p) ==
  /\ msg' = msg /\ parentOf' = parentOf /\ births' = births
  /\ \A q \in Pids : (life'[q] = "unborn") = (life[q] = "unborn")
  /\ \A q \in Pids \ {p} : life'[q] = life[q] /\ stop'[q] = stop[q]
  /\ stop'[p] = "fork" => stop[p] = "fork"

LEMMA OthersBorn ==
  ASSUME TypeOK, OrderInv, NEW p \in Pids,
         Exec(p) \/ Noise(p) \/ Exit(p) \/ Die(p) \/ Kill(p) \/ Tracer(p)
  PROVE  BornSame(p)
<1>0. stop \in [Pids -> Stops] /\ life \in [Pids -> Lives]
  BY DEF TypeOK, KernelTypeOK
<1>1. CASE Exec(p) \/ Noise(p) \/ Exit(p) \/ Die(p)
  BY <1>0, <1>1 DEF Exec, Noise, Exit, Die, Running, bounds, BornSame
<1>2. CASE Kill(p)
  BY <1>0, <1>2 DEF Kill, bounds, BornSame
<1>3. CASE FlushPending(p)
  BY <1>3 DEF FlushPending, kernelVars, bounds, BornSame
<1>4. CASE \/ HandleFork(p) \/ HandleExit(p) \/ HandleExec(p) \/ HandleUnknown(p)
           \/ HandleNewPid(p) \/ HandleSignal(p)
  BY <1>0, <1>4 DEF HandleFork, HandleExit, HandleExec, HandleUnknown, HandleNewPid, HandleSignal,
                    Resume, bounds, BornSame
<1>5. CASE HandleExited(p) \/ HandleSignaled(p)
  <2>1. Reap(p) /\ stop[p] # "none"
    BY <1>5 DEF HandleExited, HandleSignaled, Waited
  <2>2. life[p] # "unborn"
    BY <2>1 DEF OrderInv, Births
  <2>3. QED
    BY <1>0, <2>1, <2>2 DEF Reap, bounds, BornSame
<1>6. QED
  BY <1>1, <1>2, <1>3, <1>4, <1>5 DEF Tracer

LEMMA KernelFork ==
  ASSUME TypeOK, OrderInv, Kernel, ~PidReuse, NEW p \in Pids, NEW c \in Pids, Fork(p, c)
  PROVE  Kernel'
<1>1. /\ life \in [Pids -> Lives] /\ stop \in [Pids -> Stops] /\ msg \in [Pids -> Pids]
      /\ parentOf \in [Pids -> Pids] /\ births \in Nat /\ file \in Seq(Lines)
  BY DEF TypeOK, KernelTypeOK, TracerTypeOK
<1>2. /\ life[p] = "alive" /\ life[c] = "unborn" /\ p # c /\ file' = file
      /\ life' = [life EXCEPT ![c] = "alive"]
      /\ stop' = [stop EXCEPT ![p] = "fork", ![c] = "sigstop"]
      /\ msg' = [msg EXCEPT ![p] = c] /\ parentOf' = [parentOf EXCEPT ![c] = p]
      /\ births' = births + 1
  BY DEF Fork, Running, Free, tracerVars
<1>3. Born' = Born \cup {c} /\ c \notin Born /\ p \in Born
  BY <1>1, <1>2 DEF Born
<1>4. /\ \A x \in Pids : x # c => life'[x] = life[x] /\ parentOf'[x] = parentOf[x]
      /\ parentOf'[c] = p
  BY <1>1, <1>2
<1>5. FileTrue'
  <2> SUFFICES ASSUME NEW l \in LineSet(file) PROVE LineTrue(l)'
    BY <1>2 DEF FileTrue
  <2>1. LineTrue(l) /\ l \in Lines
    BY <1>1 DEF Kernel, FileTrue, LineSet
  <2>2. l.pid \in Pids /\ l.by \in Pids
    BY <2>1 DEF Lines
  <2>3. QED
    BY <1>2, <1>4, <2>1, <2>2 DEF LineTrue
<1>6. StopsTrue'
  <2> SUFFICES ASSUME NEW q \in Pids, stop'[q] = "fork" PROVE parentOf'[msg'[q]] = q
    BY DEF StopsTrue
  <2>1. CASE q = p
    BY <1>1, <1>2, <1>4, <2>1
  <2>2. CASE q # p
    <3>1. stop[q] = "fork" /\ msg'[q] = msg[q]
      BY <1>1, <1>2, <2>2
    <3>2. life[msg[q]] # "unborn"
      BY <3>1 DEF OrderInv, ForkStops
    <3>3. QED
      BY <1>1, <1>2, <1>4, <3>1, <3>2 DEF Kernel, StopsTrue
  <2>3. QED
    BY <2>1, <2>2
<1>7. BirthsCounted'
  BY <1>2, <1>3, FS_AddElement DEF Kernel, BirthsCounted
<1>8. Ranked'
  <2>1. PICK rank \in [Pids -> Nat] : Older(rank, Born, births, parentOf)
    BY DEF Kernel, Ranked
  <2> DEFINE new == [rank EXCEPT ![c] = rank[p] + 1]
  <2>2. /\ new \in [Pids -> Nat] /\ new[c] = rank[p] + 1
        /\ \A x \in Pids : x # c => new[x] = rank[x]
    BY <1>1
  <2> HIDE DEF new
  <2>3. /\ \A x \in Born : x \in Pids /\ x # c /\ rank[x] \in Nat /\ rank[x] < births
        /\ \A x \in Born \ {Root} : parentOf[x] \in Born /\ rank[parentOf[x]] < rank[x]
        /\ c # Root
    BY <1>3, <2>1 DEF Older, Born, Kernel, BirthsCounted
  <2>4. \A x \in Born' : new[x] < births'
    BY <1>1, <1>2, <1>3, <2>2, <2>3
  <2>5. \A x \in Born' \ {Root} : parentOf'[x] \in Born' /\ new[parentOf'[x]] < new[x]
    <3>1. new[p] = rank[p] /\ rank[p] \in Nat
      BY <1>3, <2>2, <2>3
    <3>2. parentOf'[c] \in Born' /\ new[parentOf'[c]] < new[c]
      BY <1>3, <1>4, <2>2, <3>1
    <3>3. \A x \in Born \ {Root} : parentOf'[x] \in Born' /\ new[parentOf'[x]] < new[x]
      BY <1>3, <1>4, <2>2, <2>3
    <3>4. QED
      BY <1>3, <3>2, <3>3
  <2>6. Older(new, Born', births', parentOf')
    BY <2>4, <2>5 DEF Older
  <2>7. QED
    BY <2>2, <2>6 DEF Ranked
<1>9. QED
  BY <1>5, <1>6, <1>7, <1>8 DEF Kernel

LEMMA KernelKept ==
  ASSUME TypeOK, OrderInv, PromiseInv, Kernel, NEW p \in Pids, BornSame(p),
         file' = file \/ Writes(p)
  PROVE  Kernel'
<1>1. /\ msg \in [Pids -> Pids] /\ parentOf \in [Pids -> Pids] /\ file \in Seq(Lines)
      /\ \A l \in LineSet(file) : l.pid \in Pids /\ l.by \in Pids
  <2>1. file \in Seq(Lines)
    BY DEF TypeOK, TracerTypeOK
  <2>2. \A l \in LineSet(file) : l \in Lines
    BY <2>1 DEF LineSet
  <2>3. QED
    BY <2>1, <2>2 DEF TypeOK, KernelTypeOK, Lines
<1>2. /\ msg' = msg /\ parentOf' = parentOf /\ births' = births
      /\ \A q \in Pids : (life'[q] = "unborn") = (life[q] = "unborn")
      /\ \A q \in Pids : stop'[q] = "fork" => stop[q] = "fork"
  BY DEF BornSame
<1>3. Born' = Born
  BY <1>2 DEF Born
<1>4. FileTrue'
  <2> SUFFICES ASSUME NEW l \in LineSet(file') PROVE LineTrue(l)'
    BY DEF FileTrue
  <2>1. CASE l \in LineSet(file)
    BY <1>1, <1>2, <2>1 DEF Kernel, FileTrue, LineTrue
  <2>2. CASE WrittenBy(p, l)
    <3>1. CASE l.kind = "fork"
      <4>1. /\ stop[p] = "fork" /\ l.pid = msg[p] /\ l.by = p /\ l.byInc = 1
        BY <2>2, <3>1 DEF WrittenBy
      <4>2. parentOf[msg[p]] = p /\ life[msg[p]] # "unborn"
        BY <4>1 DEF Kernel, StopsTrue, OrderInv, ForkStops
      <4>3. life[p] # "unborn"
        BY <4>1 DEF OrderInv, Births
      <4>4. QED
        BY <1>1, <1>2, <3>1, <4>1, <4>2, <4>3 DEF LineTrue
    <3>2. CASE l.kind = "exit" /\ l.pid \in Born
      BY <1>2, <3>2 DEF LineTrue, Born
    <3>3. QED
      BY <2>2, <3>1, <3>2 DEF WrittenBy, LineTrue
  <2>3. QED
    BY <2>1, <2>2 DEF Writes
<1>5. StopsTrue'
  BY <1>1, <1>2 DEF Kernel, StopsTrue
<1>6. BirthsCounted' /\ Ranked'
  BY <1>2, <1>3 DEF Kernel, BirthsCounted, Ranked
<1>7. QED
  BY <1>4, <1>5, <1>6 DEF Kernel

LEMMA KernelInit == Init => Kernel
<1> SUFFICES ASSUME Init PROVE Kernel
  OBVIOUS
<1>1. /\ file = <<Line("root", Root)>> /\ births = 1 /\ parentOf = [p \in Pids |-> Root]
      /\ \A p \in Pids : life[p] = IF p = Root THEN "alive" ELSE "unborn"
      /\ \A p \in Pids : stop[p] = "none"
  BY DEF Init
<1>2. Born = {Root}
  BY <1>1, RootAssumption DEF Born
<1>3. FileTrue
  <2>1. LineSet(file) = {Line("root", Root)}
    BY <1>1 DEF LineSet
  <2>2. QED
    BY <2>1 DEF FileTrue, LineTrue, Line
<1>4. StopsTrue
  BY <1>1 DEF StopsTrue
<1>5. BirthsCounted
  BY <1>1, <1>2, FS_Singleton DEF BirthsCounted
<1>6. Ranked
  <2> DEFINE rank == [p \in Pids |-> 0]
  <2>1. rank \in [Pids -> Nat] /\ Older(rank, Born, births, parentOf)
    BY <1>1, <1>2, RootAssumption DEF Older
  <2> HIDE DEF rank
  <2>2. QED
    BY <2>1 DEF Ranked
<1>7. QED
  BY <1>3, <1>4, <1>5, <1>6 DEF Kernel

LEMMA FileStep ==
  ASSUME TypeOK, OrderInv, PromiseInv, Kernel, ~PidReuse, [Next]_vars
  PROVE  Kernel'
<1>1. ASSUME NEW p \in Pids, NEW c \in Pids, Fork(p, c) PROVE Kernel'
  BY <1>1, KernelFork
<1>2. ASSUME NEW p \in Pids, Exec(p) \/ Noise(p) \/ Exit(p) \/ Die(p) \/ Kill(p) PROVE Kernel'
  <2>1. BornSame(p)
    BY <1>2, OthersBorn
  <2>2. file' = file
    BY <1>2 DEF Exec, Noise, Exit, Die, Kill, tracerVars
  <2>3. QED
    BY <2>1, <2>2, KernelKept
<1>3. ASSUME NEW p \in Pids, Tracer(p) PROVE Kernel'
  BY <1>3, OthersBorn, TracerWrites, KernelKept
<1>4. CASE NoMoreChildren \/ WriteSummary \/ UNCHANGED vars
  <2>1. UNCHANGED kernelVars /\ file' = file
    BY <1>4 DEF NoMoreChildren, WriteSummary, vars, tracerVars
  <2>2. /\ stop' = stop /\ life' = life /\ msg' = msg /\ parentOf' = parentOf /\ births' = births
    BY <2>1 DEF kernelVars, bounds
  <2>3. Born' = Born
    BY <2>2 DEF Born
  <2>4. FileTrue' /\ StopsTrue'
    BY <2>1, <2>2 DEF Kernel, FileTrue, LineTrue, StopsTrue
  <2>5. BirthsCounted' /\ Ranked'
    BY <2>2, <2>3 DEF Kernel, BirthsCounted, Ranked
  <2>6. QED
    BY <2>4, <2>5 DEF Kernel
<1>5. QED
  BY <1>1, <1>2, <1>3, <1>4 DEF Next, Workload, Finished

(* Without SIGKILL no stop is lost: a new process is named, or its parent is *)
(* in the stop that will name it, and one that is past its exit stop has its *)
(* block in the file or in the table.                                        *)
ForkSeen == \A c \in Born : known[c] \/ \E p \in Pids : stop[p] = "fork" /\ msg[p] = c
PastExit(p) == life[p] \in {"dead", "reaped"} \/ (life[p] = "exiting" /\ stop[p] # "exit")
ExitSeen == \A p \in Pids : PastExit(p) => Reported(p)
DeathSeen == \A p \in Pids : stop[p] \in {"exited", "signaled"} => life[p] = "dead"
NothingLost == ForkSeen /\ ExitSeen /\ DeathSeen

LEMMA LostFork ==
  ASSUME TypeOK, OrderInv, NothingLost, ~PidReuse, NEW p \in Pids, NEW c \in Pids, Fork(p, c)
  PROVE  NothingLost'
<1>1. /\ life \in [Pids -> Lives] /\ stop \in [Pids -> Stops] /\ msg \in [Pids -> Pids]
  BY DEF TypeOK, KernelTypeOK
<1>2. /\ life[p] = "alive" /\ life[c] = "unborn" /\ p # c /\ stop[p] = "none"
      /\ life' = [life EXCEPT ![c] = "alive"]
      /\ stop' = [stop EXCEPT ![p] = "fork", ![c] = "sigstop"]
      /\ msg' = [msg EXCEPT ![p] = c]
      /\ file' = file /\ pending' = pending /\ known' = known
  BY DEF Fork, Running, Free, tracerVars
<1>3. stop[c] = "none"
  BY <1>2 DEF OrderInv, Births
<1>4. /\ Born' = Born \cup {c} /\ stop'[p] = "fork" /\ msg'[p] = c
      /\ \A q \in Pids \ {p, c} : stop'[q] = stop[q] /\ msg'[q] = msg[q] /\ life'[q] = life[q]
      /\ life'[p] = "alive" /\ life'[c] = "alive" /\ stop'[c] = "sigstop"
  BY <1>1, <1>2 DEF Born
<1>5. ForkSeen'
  <2> SUFFICES ASSUME NEW x \in Born
               PROVE  known[x] \/ \E q \in Pids : stop'[q] = "fork" /\ msg'[q] = x
    <3>1. p \in Pids /\ stop'[p] = "fork" /\ msg'[p] = c /\ known' = known /\ Born' = Born \cup {c}
      BY <1>2, <1>4
    <3>2. QED
      BY <3>1 DEF ForkSeen
  <2>1. CASE known[x]
    BY <2>1
  <2>2. CASE \E q \in Pids : stop[q] = "fork" /\ msg[q] = x
    <3>1. PICK q \in Pids : stop[q] = "fork" /\ msg[q] = x
      BY <2>2
    <3>2. q # p /\ q # c
      BY <1>2, <1>3, <3>1
    <3>3. QED
      BY <1>4, <3>1, <3>2
  <2>3. QED
    BY <2>1, <2>2 DEF NothingLost, ForkSeen
<1>6. ExitSeen'
  BY <1>2, <1>4 DEF NothingLost, ExitSeen, PastExit, Reported
<1>7. DeathSeen'
  BY <1>4 DEF NothingLost, DeathSeen
<1>8. QED
  BY <1>5, <1>6, <1>7 DEF NothingLost

LEMMA LostWorkload ==
  ASSUME TypeOK, OrderInv, NothingLost, NEW p \in Pids, Exec(p) \/ Noise(p) \/ Exit(p) \/ Die(p)
  PROVE  NothingLost'
<1>1. /\ life \in [Pids -> Lives] /\ stop \in [Pids -> Stops]
  BY DEF TypeOK, KernelTypeOK
<1>2. /\ msg' = msg /\ file' = file /\ pending' = pending /\ known' = known
      /\ stop[p] = "none" /\ stop'[p] # "fork"
      /\ \A q \in Pids \ {p} : life'[q] = life[q] /\ stop'[q] = stop[q]
      /\ \A q \in Pids : (life'[q] = "unborn") = (life[q] = "unborn")
  BY <1>1 DEF Exec, Noise, Exit, Die, Running, tracerVars
<1>3. ForkSeen'
  <2>1. Born' = Born
    BY <1>2 DEF Born
  <2> SUFFICES ASSUME NEW x \in Born
               PROVE  known[x] \/ \E q \in Pids : stop'[q] = "fork" /\ msg[q] = x
    BY <1>2, <2>1 DEF ForkSeen
  <2>2. QED
    BY <1>2 DEF NothingLost, ForkSeen
<1>4. \A q \in Pids : Reported(q) => Reported(q)'
  BY <1>2 DEF Reported
<1>5. /\ PastExit(p)' => PastExit(p)
      /\ stop'[p] \in {"exited", "signaled"} => life'[p] = "dead"
  <2>1. CASE Exec(p) \/ Noise(p)
    BY <1>1, <2>1 DEF Exec, Noise, Running, PastExit
  <2>2. CASE Exit(p)
    BY <1>1, <2>2 DEF Exit, Running, PastExit
  <2>3. CASE Die(p)
    BY <1>1, <2>3 DEF Die, PastExit
  <2>4. QED
    BY <2>1, <2>2, <2>3
<1>6. \A q \in Pids : PastExit(q)' => PastExit(q)
  BY <1>2, <1>5 DEF PastExit
<1>7. ExitSeen' /\ DeathSeen'
  BY <1>2, <1>4, <1>5, <1>6 DEF NothingLost, ExitSeen, DeathSeen
<1>8. QED
  BY <1>3, <1>7 DEF NothingLost

LEMMA LostTracer ==
  ASSUME TypeOK, OrderInv, PromiseInv, NothingLost, NEW p \in Pids, Tracer(p)
  PROVE  NothingLost'
<1>1. /\ life \in [Pids -> Lives] /\ stop \in [Pids -> Stops]
  BY DEF TypeOK, KernelTypeOK
<1>2. BornSame(p) /\ Writes(p)
  BY OthersBorn, TracerWrites
<1>3. Born' = Born
  BY <1>2 DEF BornSame, Born
<1>4. \/ stop' = stop /\ life' = life
      \/ /\ stop'[p] = "none" /\ life'[p] = life[p]
         /\ stop[p] = "fork" => HandleFork(p)
         /\ stop[p] = "exit" => HandleExit(p)
         /\ stop[p] \notin {"exited", "signaled"}
      \/ stop'[p] = "none" /\ life[p] = "dead" /\ stop[p] \in {"exited", "signaled"}
  <2>1. CASE FlushPending(p)
    BY <2>1 DEF FlushPending, kernelVars
  <2>2. CASE HandleFork(p) \/ HandleExit(p) \/ HandleExec(p) \/ HandleUnknown(p) \/ HandleNewPid(p) \/ HandleSignal(p)
    <3>1. Resume(p) /\ stop[p] \in {"fork", "exit", "exec", "trap", "sigstop", "signal"}
      BY <2>2 DEF HandleFork, HandleExit, HandleExec, HandleUnknown, HandleNewPid, HandleSignal, Waited
    <3>2. stop'[p] = "none" /\ life'[p] = life[p]
      BY <1>1, <3>1 DEF Resume
    <3>3. /\ stop[p] = "fork" => HandleFork(p)
          /\ stop[p] = "exit" => HandleExit(p)
      BY <2>2 DEF HandleFork, HandleExit, HandleExec, HandleUnknown, HandleNewPid, HandleSignal, Waited
    <3>4. QED
      BY <3>1, <3>2, <3>3
  <2>3. CASE HandleExited(p) \/ HandleSignaled(p)
    <3>1. stop[p] \in {"exited", "signaled"} /\ Reap(p)
      BY <2>3 DEF HandleExited, HandleSignaled, Waited
    <3>2. stop'[p] = "none" /\ life[p] = "dead"
      BY <1>1, <3>1 DEF Reap, NothingLost, DeathSeen
    <3>3. QED
      BY <3>1, <3>2
  <2>4. QED
    BY <2>1, <2>2, <2>3 DEF Tracer
<1>5. ForkSeen'
  <2> SUFFICES ASSUME NEW x \in Born, ~known'[x]
               PROVE  \E q \in Pids : stop'[q] = "fork" /\ msg'[q] = x
    BY <1>3 DEF ForkSeen
  <2>1. PICK q \in Pids : stop[q] = "fork" /\ msg[q] = x
    BY <1>2 DEF NothingLost, ForkSeen, Writes, Born
  <2>2. msg' = msg
    BY <1>2 DEF BornSame
  <2>3. CASE q # p
    BY <1>2, <2>1, <2>2, <2>3 DEF BornSame
  <2>4. CASE q = p
    <3>1. ~HandleFork(p)
      BY <1>2, <2>1, <2>4 DEF Writes
    <3>2. stop' = stop
      BY <1>4, <2>1, <2>4, <3>1
    <3>3. QED
      BY <2>1, <2>2, <3>2
  <2>5. QED
    BY <2>3, <2>4
<1>6. ExitSeen'
  <2> SUFFICES ASSUME NEW q \in Pids, PastExit(q)' PROVE Reported(q)'
    BY DEF ExitSeen
  <2>1. CASE PastExit(q)
    BY <1>2, <2>1 DEF NothingLost, ExitSeen, Writes
  <2>2. CASE ~PastExit(q)
    <3>1. q = p
      BY <1>2, <2>2 DEF BornSame, PastExit
    <3>2. stop[p] = "exit" /\ HandleExit(p)
      BY <1>4, <2>2, <3>1 DEF PastExit
    <3>3. QED
      BY <1>2, <3>1, <3>2 DEF Writes
  <2>3. QED
    BY <2>1, <2>2
<1>7. DeathSeen'
  BY <1>2, <1>4 DEF NothingLost, DeathSeen, BornSame
<1>8. QED
  BY <1>5, <1>6, <1>7 DEF NothingLost

LEMMA NothingLostInit == Init => NothingLost
<1> SUFFICES ASSUME Init PROVE NothingLost
  OBVIOUS
<1>1. /\ \A p \in Pids : life[p] = IF p = Root THEN "alive" ELSE "unborn"
      /\ \A p \in Pids : stop[p] = "none"
      /\ \A p \in Pids : known[p] = (p = Root)
  BY DEF Init
<1>2. ForkSeen
  BY <1>1 DEF ForkSeen, Born
<1>3. ExitSeen /\ DeathSeen
  BY <1>1 DEF ExitSeen, PastExit, DeathSeen
<1>4. QED
  BY <1>2, <1>3 DEF NothingLost

LEMMA NothingLostStep ==
  ASSUME TypeOK, OrderInv, PromiseInv, NothingLost, ~PidReuse, ~SigKill, [Next]_vars
  PROVE  NothingLost'
<1>1. ASSUME NEW p \in Pids, Workload(p) PROVE NothingLost'
  BY <1>1, LostFork, LostWorkload DEF Workload, Kill
<1>2. ASSUME NEW p \in Pids, Tracer(p) PROVE NothingLost'
  BY <1>2, LostTracer
<1>3. CASE NoMoreChildren \/ WriteSummary \/ UNCHANGED vars
  <2>1. UNCHANGED <<kernelVars, file, pending, known>>
    BY <1>3 DEF NoMoreChildren, WriteSummary, vars, tracerVars
  <2>2. stop' = stop /\ life' = life /\ msg' = msg
    BY <2>1 DEF kernelVars
  <2>3. Born' = Born
    BY <2>2 DEF Born
  <2>4. ForkSeen'
    BY <2>1, <2>2, <2>3 DEF NothingLost, ForkSeen
  <2>5. ExitSeen' /\ DeathSeen'
    BY <2>1, <2>2 DEF NothingLost, ExitSeen, PastExit, Reported, DeathSeen
  <2>6. QED
    BY <2>4, <2>5 DEF NothingLost
<1>4. QED
  BY <1>1, <1>2, <1>3 DEF Next, Finished

\* The footer is written when no block is left in the table.
TableEmpty == loop = "done" => \A p \in Pids : pending[p] = <<>>

LEMMA TraceFacts ==
  ASSUME ~PidReuse, ~SigKill
  PROVE  Spec => [](TypeOK /\ OrderInv /\ PromiseInv /\ Kernel /\ NothingLost /\ TableEmpty)
<1>1. Spec => []TypeOK /\ []OrderInv
  BY TypeCorrect, OrderCorrect, PTL
<1>2. Init => PromiseInv /\ Kernel /\ NothingLost
  BY PromiseInit, KernelInit, NothingLostInit
<1>3. TypeOK /\ OrderInv /\ PromiseInv /\ [Next]_vars => PromiseInv'
  BY PromiseStep
<1>4. TypeOK /\ OrderInv /\ PromiseInv /\ Kernel /\ [Next]_vars => Kernel'
  BY FileStep
<1>5. TypeOK /\ OrderInv /\ PromiseInv /\ NothingLost /\ [Next]_vars => NothingLost'
  BY NothingLostStep
<1>6. Init => TableEmpty
  BY DEF Init, TableEmpty
<1>7. TableEmpty /\ [Next]_vars => TableEmpty'
  <2> SUFFICES ASSUME TableEmpty, [Next]_vars PROVE TableEmpty'
    OBVIOUS
  <2>1. ASSUME NEW p \in Pids, Workload(p) PROVE UNCHANGED <<loop, pending>>
    BY <2>1 DEF Workload, Fork, Exec, Noise, Exit, Die, Kill, tracerVars
  <2>2. ASSUME NEW p \in Pids, Tracer(p) PROVE loop' # "done"
    BY <2>2 DEF Tracer, HandleFork, HandleExit, HandleExec, HandleUnknown, HandleNewPid, HandleSignal,
                HandleExited, HandleSignaled, FlushPending, Waited, tracerVars
  <2>3. CASE NoMoreChildren \/ WriteSummary
    BY <2>3 DEF NoMoreChildren, WriteSummary, TableEmpty
  <2>4. CASE UNCHANGED vars
    BY <2>4 DEF vars, tracerVars, TableEmpty
  <2>5. QED
    BY <2>1, <2>2, <2>3, <2>4 DEF Next, Finished, TableEmpty
<1>8. QED
  BY <1>1, <1>2, <1>3, <1>4, <1>5, <1>6, <1>7, PTL DEF Spec
-----------------------------------------------------------------------------
(* What all this makes of a run that has ended, once its file is read. *)
Settled ==
  /\ TypeOK /\ OrderInv /\ PromiseInv /\ Kernel /\ NothingLost /\ TableEmpty
  /\ Order /\ ReadInv
Ended == loop = "done" /\ pos = Len(file) /\ \A p \in Pids : life[p] \in {"unborn", "reaped"}

(* Every process the kernel ran is named and has its block, and every line is *)
(* about one of them.                                                         *)
AllLines ==
  /\ \A p \in Born : \E i \in NamesOf(file) : file[i].pid = p
  /\ \A p \in Born : \E i \in LinesIn(file, "exit") : file[i].pid = p
  /\ \A i \in NamesOf(file) : file[i].pid \in Born
  /\ \A i \in LinesIn(file, "fork") :
       file[i].by = parentOf[file[i].pid] /\ file[i].byInc = 1 /\ file[i].by \in Born
  /\ \A i \in DOMAIN file : file[i].inc = 1
  /\ AllNamed(file)

LEMMA EndedLines ==
  ASSUME Settled, Ended
  PROVE  AllLines
<1>1. /\ file \in Seq(Lines) /\ life \in [Pids -> Lives] /\ known \in [Pids -> BOOLEAN]
      /\ stop \in [Pids -> Stops]
  BY DEF Settled, TypeOK, KernelTypeOK, TracerTypeOK
<1>2. \A i \in DOMAIN file : file[i] \in Lines /\ file[i].pid \in Pids /\ file[i].by \in Pids
  <2>1. \A i \in DOMAIN file : file[i] \in Lines
    BY <1>1
  <2>2. \A l \in Lines : l.pid \in Pids /\ l.by \in Pids
    BY DEF Lines
  <2>3. QED
    BY <2>1, <2>2
<1>3. \A i \in DOMAIN file : LineTrue(file[i])
  BY DEF Settled, Kernel, FileTrue, LineSet
<1>4. \A i \in DOMAIN file : file[i].inc = 1
  BY DEF Settled, PromiseInv, OneProcessPerPid
<1>5. ASSUME NEW p \in Born PROVE \E i \in NamesOf(file) : file[i].pid = p
  <2>1. p \in Pids /\ \A q \in Pids : stop[q] # "fork"
    <3>1. \A q \in Pids : stop[q] = "none"
      BY DEF Ended, Settled, OrderInv, Births
    <3>2. QED
      BY <3>1 DEF Born
  <2>2. known[p]
    BY <1>5, <2>1 DEF Settled, NothingLost, ForkSeen
  <2>3. QED
    BY <2>1, <2>2 DEF Settled, PromiseInv, KnownIsNamed, NamesOf
<1>6. ASSUME NEW p \in Born PROVE \E i \in LinesIn(file, "exit") : file[i].pid = p
  <2>1. p \in Pids /\ PastExit(p)
    BY DEF Born, Ended, PastExit
  <2>2. Reported(p) /\ pending[p] = <<>>
    BY <2>1 DEF Settled, NothingLost, ExitSeen, TableEmpty, Ended
  <2>3. QED
    BY <2>2 DEF Reported, LineSet, LinesIn
<1>7. ASSUME NEW i \in NamesOf(file) PROVE file[i].pid \in Born
  <2>1. i \in DOMAIN file /\ file[i].pid \in Pids
    BY <1>2 DEF NamesOf
  <2>2. CASE file[i].kind = "fork"
    BY <1>3, <2>1, <2>2 DEF LineTrue, Born
  <2>3. CASE file[i].kind = "root"
    <3>1. file[i].pid = Root
      BY <2>1, <2>3 DEF Settled, Order, OrderedIn, RootFirst, ProcIn
    <3>2. QED
      BY <3>1 DEF Settled, Kernel, BirthsCounted
  <2>4. QED
    BY <2>2, <2>3 DEF NamesOf
<1>8. ASSUME NEW i \in LinesIn(file, "fork")
      PROVE  file[i].by = parentOf[file[i].pid] /\ file[i].byInc = 1 /\ file[i].by \in Born
  BY <1>2, <1>3 DEF LinesIn, LineTrue, Born
<1>9. AllNamed(file)
  <2> SUFFICES ASSUME NEW j \in LinesIn(file, "exit")
               PROVE  \E k \in NamesOf(file) : ProcIn(file, k) = ProcIn(file, j)
    BY DEF AllNamed
  <2>1. j \in DOMAIN file /\ file[j].pid \in Born
    BY <1>2, <1>3 DEF LinesIn, LineTrue, Born
  <2>2. PICK k \in NamesOf(file) : file[k].pid = file[j].pid
    BY <1>5, <2>1
  <2>3. QED
    BY <1>4, <2>1, <2>2 DEF ProcIn, NamesOf
<1>10. QED
  BY <1>4, <1>5, <1>6, <1>7, <1>8, <1>9 DEF AllLines

(* So there is one node for each of them, exited and named as it ended, under *)
(* the node of its parent.                                                    *)
AllNodes ==
  /\ \A n \in DOMAIN nodes : nodes[n].pid \in Born /\ nodes[n].inc = 1
  /\ \A p \in Born : \E n \in DOMAIN nodes : nodes[n].pid = p
  /\ \A m, n \in DOMAIN nodes : nodes[m].pid = nodes[n].pid => m = n
  /\ \A n \in DOMAIN nodes : nodes[n].exited /\ nodes[n].comm = "comm"
  /\ root_process \in DOMAIN nodes
  /\ nodes[root_process].pid = Root /\ nodes[root_process].parent = 0
  /\ \A n \in DOMAIN nodes \ {root_process} :
       /\ nodes[n].parent # 0 /\ nodes[n].parent \in DOMAIN nodes
       /\ nodes[nodes[n].parent].pid = parentOf[nodes[n].pid]
       /\ nodes[n].pid # Root

LEMMA EndedNodes ==
  ASSUME Settled, Ended, AllLines
  PROVE  AllNodes
<1>1. /\ Shape(Reading!db) /\ ReadSoFar(Reading!db, pos) /\ RootRead
      /\ Reading!db.nodes = nodes /\ OrderedIn(file) /\ pos = Len(file) /\ file \in Seq(Lines)
  BY DEF Settled, Ended, ReadInv, Reading!db, Order, OrderedIn
<1>2. \A i \in DOMAIN file : i <= pos /\ i >= 1
  BY <1>1
<1>3. nodes \in Seq(NodeType)
  BY <1>1 DEF Shape, Dbs
<1>4. ASSUME NEW n \in DOMAIN nodes PROVE nodes[n].pid \in Born /\ nodes[n].inc = 1
  <2>1. PICK i \in DOMAIN file : Mentions(file, i, Of(nodes[n]))
    BY <1>1, <1>4 DEF ReadSoFar, NodesMentioned
  <2>2. QED
    BY <2>1 DEF Mentions, Of, ProcIn, ByIn, AllLines, LinesIn, NamesOf
<1>5. \A m, n \in DOMAIN nodes : nodes[m].pid = nodes[n].pid => m = n
  BY <1>1, <1>4 DEF Shape, OneNode, Of
<1>6. RootFirst(file) /\ 1 \in DOMAIN file /\ NamedOnce(file)
  BY <1>1 DEF OrderedIn, RootFirst
<1>7. /\ root_process \in DOMAIN nodes /\ nodes[root_process].pid = Root
  <2>1. pos > 0
    BY <1>1, <1>2, <1>6
  <2>2. QED
    BY <1>1, <2>1 DEF RootRead, Of
<1>8. ASSUME NEW i \in LinesIn(file, "fork")
      PROVE  \E n \in DOMAIN nodes :
               /\ nodes[n].pid = file[i].pid /\ nodes[n].parent # 0
               /\ nodes[nodes[n].parent].pid = file[i].by
  BY <1>1, <1>2, <1>8 DEF ReadSoFar, EdgesRead, Of, ProcIn, ByIn, LinesIn
<1>9. ASSUME NEW p \in Born, p # Root
      PROVE  \E i \in LinesIn(file, "fork") : file[i].pid = p
  <2>1. PICK i \in NamesOf(file) : file[i].pid = p
    BY DEF AllLines
  <2>2. file[i].kind # "root"
    BY <1>6, <1>9, <2>1 DEF RootFirst, ProcIn, NamesOf
  <2>3. QED
    BY <2>1, <2>2 DEF NamesOf, LinesIn
<1>10. \A p \in Born : \E n \in DOMAIN nodes : nodes[n].pid = p
  BY <1>7, <1>8, <1>9
<1>11. ASSUME NEW n \in DOMAIN nodes PROVE nodes[n].exited /\ nodes[n].comm = "comm"
  <2>1. PICK j \in LinesIn(file, "exit") : file[j].pid = nodes[n].pid
    BY <1>4 DEF AllLines
  <2>2. ProcIn(file, j) = Of(nodes[n]) /\ j <= pos
    BY <1>2, <1>4, <2>1 DEF AllLines, ProcIn, Of, LinesIn
  <2>3. nodes[n].exited
    BY <1>1, <2>2 DEF ReadSoFar, ExitsRead, AllLines
  <2>4. QED
    BY <1>1, <2>3 DEF ReadSoFar, CommKept
<1>12. nodes[root_process].parent = 0
  <2> SUFFICES ASSUME nodes[root_process].parent # 0 PROVE FALSE
    OBVIOUS
  <2>1. PICK i \in LinesIn(file, "fork") : ProcIn(file, i) = Of(nodes[root_process])
    BY <1>1, <1>7 DEF ReadSoFar, ParentsForked
  <2>2. ProcIn(file, i) = ProcIn(file, 1)
    BY <1>4, <1>6, <1>7, <2>1 DEF RootFirst, Of, ProcIn
  <2>3. i \in NamesOf(file) /\ 1 \in NamesOf(file) /\ file[i].kind = "fork" /\ file[1].kind = "root"
    BY <1>6 DEF NamesOf, LinesIn, RootFirst
  <2>4. QED
    BY <1>6, <2>2, <2>3 DEF NamedOnce
<1>13. ASSUME NEW n \in DOMAIN nodes, n # root_process
       PROVE  /\ nodes[n].parent # 0 /\ nodes[n].parent \in DOMAIN nodes
              /\ nodes[nodes[n].parent].pid = parentOf[nodes[n].pid]
              /\ nodes[n].pid # Root
  <2>1. nodes[n].pid # Root
    BY <1>5, <1>7, <1>13
  <2>2. PICK i \in LinesIn(file, "fork") : file[i].pid = nodes[n].pid
    BY <1>4, <1>9, <2>1
  <2>3. PICK m \in DOMAIN nodes :
          /\ nodes[m].pid = file[i].pid /\ nodes[m].parent # 0
          /\ nodes[nodes[m].parent].pid = file[i].by
    BY <1>8
  <2>4. m = n
    BY <1>5, <2>2, <2>3
  <2>5. nodes[n].parent \in DOMAIN nodes
    BY <1>1, <2>3, <2>4 DEF Shape, Linked
  <2>6. QED
    BY <2>1, <2>2, <2>3, <2>4, <2>5 DEF AllLines
<1>14. QED
  BY <1>4, <1>5, <1>7, <1>10, <1>11, <1>12, <1>13 DEF AllNodes

(* And there are as many nodes as the kernel ran processes, in a tree. *)
LEMMA EndedTree ==
  ASSUME Settled, AllNodes
  PROVE  /\ Len(nodes) = births
         /\ Reading!Forest /\ Reading!Below(root_process) = DOMAIN nodes
<1>1. Shape(Reading!db) /\ nodes \in Seq(NodeType)
  BY DEF Settled, ReadInv, Shape, Dbs, Reading!db
<1>2. DOMAIN nodes = 1 .. Len(nodes) /\ Len(nodes) \in Nat
  BY <1>1
<1> HIDE DEF NodeType
<1>3. Len(nodes) = births
  <2> DEFINE f == [n \in DOMAIN nodes |-> nodes[n].pid]
  <2>1. /\ f \in [DOMAIN nodes -> Born]
        /\ \A m, n \in DOMAIN nodes : f[m] = f[n] => m = n
        /\ \A p \in Born : \E n \in DOMAIN nodes : f[n] = p
    BY DEF AllNodes
  <2> HIDE DEF f
  <2>2. ExistsBijection(DOMAIN nodes, Born)
    BY <2>1 DEF ExistsBijection, Bijection, Injection, Surjection, IsInjective
  <2>3. IsFiniteSet(DOMAIN nodes) /\ Cardinality(DOMAIN nodes) = Len(nodes)
    <3>1. IsFiniteSet(1 .. Len(nodes)) /\ Cardinality(1 .. Len(nodes)) = IF 1 > Len(nodes) THEN 0 ELSE Len(nodes) - 1 + 1
      BY <1>2, FS_Interval, 1 \in Int, Len(nodes) \in Int
    <3>2. QED
      BY <1>2, <3>1
  <2>4. Cardinality(Born) = Cardinality(DOMAIN nodes)
    BY <2>2, <2>3, FS_Bijection
  <2>5. QED
    BY <2>3, <2>4 DEF Settled, Kernel, BirthsCounted
<1>4. PICK rank \in [Pids -> Nat] : Older(rank, Born, births, parentOf)
  BY DEF Settled, Kernel, Ranked
<1> DEFINE r == [n \in DOMAIN nodes |-> rank[nodes[n].pid]]
<1>5. TreeRank(r)
  <2>1. \A n \in DOMAIN nodes : nodes[n].pid \in Born /\ nodes[n].pid \in Pids
    BY DEF AllNodes, Born
  <2>2. \A c \in Born : rank[c] < births
    BY <1>4 DEF Older
  <2>3. \A c \in Born : c # Root => rank[parentOf[c]] < rank[c]
    BY <1>4 DEF Older
  <2>4. r \in [DOMAIN nodes -> Nat] /\ \A n \in DOMAIN nodes : r[n] < Len(nodes)
    BY <1>3, <1>4, <2>1, <2>2
  <2>5. ASSUME NEW n \in DOMAIN nodes, n # root_process
        PROVE  nodes[n].parent \in DOMAIN nodes /\ r[nodes[n].parent] < r[n]
    <3>1. /\ nodes[n].parent \in DOMAIN nodes /\ nodes[n].pid # Root
          /\ nodes[nodes[n].parent].pid = parentOf[nodes[n].pid]
      BY <2>5 DEF AllNodes
    <3>2. r[nodes[n].parent] = rank[parentOf[nodes[n].pid]] /\ r[n] = rank[nodes[n].pid]
      BY <3>1
    <3> HIDE DEF r
    <3>3. QED
      BY <2>1, <2>3, <3>1, <3>2
  <2> HIDE DEF r
  <2>6. QED
    BY <2>4, <2>5 DEF AllNodes, TreeRank
<1> HIDE DEF r
<1>6. QED
  BY <1>1, <1>3, <1>5, RankedIsTree

(* However wait4 reordered the stops, the tree proctree shows of a workload *)
(* that ended, with no tracee killed in a stop, is the tree of processes    *)
(* the kernel ran.                                                          *)
THEOREM TreeCorrect ==
  ASSUME ~PidReuse
  PROVE  PipelineSpec => []TreeRebuilt
<1>1. CASE SigKill
  <2>1. TreeRebuilt
    BY <1>1 DEF TreeRebuilt, Complete
  <2>2. QED
    BY <2>1, PTL
<1>2. CASE ~SigKill
  <2>1. PipelineSpec => Spec
    BY PipelineTraces
  <2>2. Settled => TreeRebuilt
    <3> SUFFICES ASSUME Settled, Complete PROVE TreeRebuilt
      BY DEF TreeRebuilt
    <3>1. Ended
      BY DEF Complete, Ended, Reading!AllRead
    <3>2. AllNodes
      BY <3>1, EndedLines, EndedNodes
    <3>3. Reading!EdgesKept
      BY ReadEdges DEF Settled, Order
    <3>4. QED
      BY <3>2, <3>3, EndedTree DEF AllNodes, TreeRebuilt
  <2>3. Spec => [](TypeOK /\ OrderInv /\ PromiseInv /\ Kernel /\ NothingLost /\ TableEmpty)
    BY <1>2, TraceFacts
  <2>4. PipelineSpec => [](Order /\ TypeOK /\ ReadInv)
    BY PipelineReads
  <2>5. TypeOK /\ OrderInv /\ PromiseInv /\ Kernel /\ NothingLost /\ TableEmpty
          /\ Order /\ ReadInv => Settled
    BY DEF Settled
  <2>6. QED
    BY <2>1, <2>2, <2>3, <2>4, <2>5, PTL
<1>3. QED
  BY <1>1, <1>2
=================================================================================
