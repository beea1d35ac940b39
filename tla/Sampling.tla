-------------------------------- MODULE Sampling --------------------------------
(***************************************************************************)
(* wspy --interval N: while main() waits for the workload, SIGALRM runs    *)
(* timer_callback() every N seconds, which reads the counters, asks the    *)
(* phase detector, prints a row and arms the alarm again.  When the        *)
(* workload has ended main() reads the counters once more and prints the   *)
(* tail row itself.  The handler can run between any two steps of main()   *)
(* and touches what main() touches: the counters' last readings, the       *)
(* detector, the output.                                                   *)
(*                                                                         *)
(* One counter stands for all.  It counts Rate events in every unit of     *)
(* time it is on the PMU, so that what a row should say is known; the      *)
(* kernel may take it off the PMU at any time (multiplexing).              *)
(* The detector is enabled; disabled it does nothing.                      *)
(*                                                                         *)
(* The variables told, seen and heard are history.                         *)
(***************************************************************************)
EXTENDS PhaseDetector

CONSTANTS
  Intervals,   \* values of --interval; 0: not given
  Rate,        \* events per unit of time
  MaxTime      \* bound on the clock

ASSUME SamplingAssumption ==
  /\ Intervals \subseteq Nat
  /\ Rate \in Nat \ {0}
  /\ MaxTime \in Nat

VARIABLES
  interval,
  now,        \* the clock
  child,      \* "none", "ready" (blocked on the pipe), "running", "ended"
  pc,         \* where main() is
  running,    \* is_still_running
  alarm,      \* when the alarm goes off; 0: disarmed
  pending,    \* SIGALRM raised and not yet handled
  blocked,    \* SIGALRM is blocked
  counter,    \* the kernel's counter: events, time enabled, time running
  last,       \* what read_counters() saw last
  value,      \* cinfo->value
  pd,         \* phase_state
  out,        \* what has been printed: whole rows, and the two parts of the tail row
  told,       \* all rows together: time enabled, time running, value
  seen,       \* time enabled of the windows in which the counter was on the PMU
  heard       \* the last usable samples, each with the phase it met

mainVars == <<interval, child, pc, running, blocked>>
clockVars == <<now, alarm, pending, counter>>
sampleVars == <<last, value, pd, told, seen, heard>>
vars == <<mainVars, clockVars, sampleVars, out>>

Reading == [raw : Nat, enabled : Nat, ran : Nat]
Zero == [raw |-> 0, enabled |-> 0, ran |-> 0]

Init ==
  /\ interval \in Intervals
  /\ now = 0
  /\ child = "none" /\ pc = "launch" /\ running = FALSE
  /\ alarm = 0 /\ pending = FALSE /\ blocked = FALSE
  /\ counter = Zero /\ last = Zero /\ value = 0
  /\ pd = DetectorInit
  /\ out = <<>>
  /\ told = [enabled |-> 0, ran |-> 0, value |-> 0]
  /\ seen = 0 /\ heard = <<>>

-----------------------------------------------------------------------------
(* The kernel. *)

\* A unit of time: the counter may be on the PMU, or off it, or the tasks it
\* counts may not run at all.
Counted(c, how) ==
  CASE how = "on"   -> [raw |-> c.raw + Rate, enabled |-> c.enabled + 1, ran |-> c.ran + 1]
    [] how = "off"  -> [c EXCEPT !.enabled = @ + 1]
    [] how = "idle" -> c

TimePasses ==
  /\ now < MaxTime /\ pc \notin {"done", "dead"}
  /\ now' = now + 1
  /\ \E how \in {"on", "off", "idle"} : counter' = Counted(counter, how)
  /\ IF alarm # 0 /\ now' >= alarm
       THEN pending' = TRUE /\ alarm' = 0
       ELSE UNCHANGED <<pending, alarm>>
  /\ UNCHANGED <<mainVars, sampleVars, out>>

ChildExits ==
  /\ child = "running"
  /\ child' = "ended"
  /\ UNCHANGED <<interval, pc, running, blocked, clockVars, sampleVars, out>>

-----------------------------------------------------------------------------
(* A sample, by the handler or by main(). *)

\* slip: the cumulative running time is not remembered, only the count is
RememberCount(c) == [c EXCEPT !.ran = last.ran]
\* What is kept of a reading: perf's times are cumulative, like its count.
Remember(c) == c

\* A window in which the counter was multiplexed is extrapolated, rounding.
Scaled(raw, enabled, ran) ==
  IF 0 < ran /\ ran < enabled THEN (2 * raw * enabled + ran) \div (2 * ran) ELSE raw

LastOf(s) == IF Len(s) <= PersistSamples THEN s ELSE SubSeq(s, Len(s) - PersistSamples + 1, Len(s))

\* read_counters(), then phase_current_ipc() and phase_detector_update().
Sample ==
  LET raw == counter.raw - last.raw
      enabled == counter.enabled - last.enabled
      ran == counter.ran - last.ran
      v == Scaled(raw, enabled, ran)
  IN /\ last' = Remember(counter)
     /\ value' = v
     /\ told' = [enabled |-> told.enabled + enabled, ran |-> told.ran + ran, value |-> told.value + v]
     /\ seen' = IF ran > 0 THEN seen + enabled ELSE seen
     /\ IF ran = 0 \/ v = 0
          THEN UNCHANGED <<pd, heard>>
          ELSE \E verdict \in Verdicts(pd.phase) :
                 /\ pd' = DetectorUpdate(pd, verdict)
                 /\ heard' = LastOf(Append(heard, [verdict |-> verdict, phase |-> pd.phase]))

-----------------------------------------------------------------------------
(* timer_callback(), delivered between two steps of main(). *)

\* slip: the alarm is armed again only if main() has not yet been told to wait
RearmEarly == alarm' = IF running /\ pc = "go" THEN now + interval ELSE alarm
Rearm == alarm' = IF running THEN now + interval ELSE alarm

TimerCallback ==
  /\ pending /\ ~blocked /\ pc \notin {"done", "dead"}
  /\ pending' = FALSE
  /\ Sample
  /\ out' = Append(out, "row")
  /\ Rearm
  /\ UNCHANGED <<mainVars, now, counter>>

-----------------------------------------------------------------------------
(* main() *)

Step(from, to) == pc = from /\ pc' = to

Launch ==
  /\ Step("launch", "arm")
  /\ child' = "ready" /\ running' = TRUE
  /\ UNCHANGED <<interval, blocked, clockVars, sampleVars, out>>

\* fork() or pipe() fails: fatal().
LaunchFails ==
  /\ Step("launch", "dead")
  /\ UNCHANGED <<interval, child, running, blocked, clockVars, sampleVars, out>>

Arm ==
  /\ Step("arm", "go")
  /\ alarm' = IF interval # 0 THEN now + interval ELSE alarm
  /\ UNCHANGED <<interval, child, running, blocked, now, pending, counter, sampleVars, out>>

Go ==
  /\ Step("go", "wait")
  /\ child' = "running"
  /\ UNCHANGED <<interval, running, blocked, clockVars, sampleVars, out>>

\* wait4() or ptrace_loop(); signal() restarts the system call a tick interrupts.
WaitReturns ==
  /\ Step("wait", "ended") /\ child = "ended"
  /\ UNCHANGED <<interval, child, running, blocked, clockVars, sampleVars, out>>

StopRunning ==
  /\ Step("ended", "block")
  /\ running' = FALSE
  /\ UNCHANGED <<interval, child, blocked, clockVars, sampleVars, out>>

\* slip: the alarm is disarmed, but one already raised is not held back
NotBlocked == UNCHANGED blocked
BlockAlarm == blocked' = (interval # 0)

Block ==
  /\ Step("block", "disarm")
  /\ BlockAlarm
  /\ UNCHANGED <<interval, child, running, clockVars, sampleVars, out>>

Disarm ==
  /\ Step("disarm", "read")
  /\ alarm' = IF interval # 0 THEN 0 ELSE alarm
  /\ UNCHANGED <<interval, child, running, blocked, now, pending, counter, sampleVars, out>>

FinalSample ==
  /\ Step("read", "head")
  /\ Sample
  /\ UNCHANGED <<interval, child, running, blocked, clockVars, out>>

\* The tail row takes many fprintf()s; two stand for them.
PrintHead ==
  /\ Step("head", "rest")
  /\ out' = Append(out, "head")
  /\ UNCHANGED <<interval, child, running, blocked, clockVars, sampleVars>>

PrintRest ==
  /\ Step("rest", "done")
  /\ out' = Append(out, "rest")
  /\ UNCHANGED <<interval, child, running, blocked, clockVars, sampleVars>>

Finished == pc \in {"done", "dead"} /\ UNCHANGED vars

Main ==
  \/ Launch \/ LaunchFails \/ Arm \/ Go \/ WaitReturns \/ StopRunning
  \/ Block \/ Disarm \/ FinalSample \/ PrintHead \/ PrintRest

Next == TimePasses \/ ChildExits \/ TimerCallback \/ Main \/ Finished

Spec == Init /\ [][Next]_vars

-----------------------------------------------------------------------------
(* Properties. *)

\* No periodic row is spliced into the tail row, and none follows it: once the
\* tail row is begun, the only thing printed is the rest of it
\* (wspy.c:2098-2123).
TailRowWhole ==
  \A k \in DOMAIN out : out[k] = "head" => \A j \in k + 1 .. Len(out) : out[j] = "rest"

\* The rows' windows tile the run: every unit of time the counter was enabled or
\* on the PMU up to the last reading is in exactly one row, whichever of handler
\* and main() took it, and the tail row leaves nothing to an earlier one.  So a
\* counter that counts at a constant rate is reported at that rate for every
\* window it had a share of, however the windows were multiplexed.
WindowsTile ==
  /\ told.enabled = last.enabled /\ told.ran = last.ran
  /\ last.enabled <= counter.enabled /\ last.ran <= counter.ran
  /\ told.value = Rate * seen

\* While main() waits for the workload the next tick is on its way: armed, or
\* raised.  One tick that does not arm the next would silence all others.
NeverSilent == pc \in {"go", "wait"} /\ interval # 0 => alarm # 0 \/ pending

Twice(v, phase) == [k \in 1..PersistSamples |-> [verdict |-> v, phase |-> phase]]

\* Between steady and degraded the phase changes with the second of two
\* consecutive usable samples beyond the threshold, and with no other, whatever
\* unusable samples came between and whatever was seen before the last change.
TwoSamplesChange ==
  [][/\ pd.phase = "steady" => (pd'.phase = "degraded" <=> heard' = Twice("low", "steady"))
     /\ pd.phase = "degraded" => (pd'.phase = "steady" <=> heard' = Twice("high", "degraded"))
     /\ pd'.phase = "warmup" => pd.phase = "warmup"]_vars
=============================================================================
