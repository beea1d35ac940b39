----------------------------- MODULE SamplingProofs -----------------------------
(***************************************************************************)
(* Proofs about Sampling, for every interval, rate and bound on the clock, *)
(* and about SampleRing, for every size of the ring and of what is in it.  *)
(*                                                                         *)
(* TailRowStaysWhole and TicksGoOn are about what the handler can meet:    *)
(* IInv says, for each stretch of main(), which of is_still_running, the   *)
(* signal mask and the alarm hold there.  is_still_running is set before   *)
(* the first alarm, and the mask before the first character of the tail    *)
(* row.  RowsTile adds what the counter has counted (TileInv), and         *)
(* PhaseNeedsTwo what the detector remembers of the last samples           *)
(* (PhaseInv).                                                             *)
(*                                                                         *)
(* DrainAccounts is about the ring: Layout says what stands in it, as long *)
(* as nothing has wrapped around, and Draining how far the drain has got,  *)
(* what it has decoded and what the LOST records so far have told.         *)
(***************************************************************************)
EXTENDS Sampling, SampleRing, SequenceTheorems, FiniteSetTheorems, WellFoundedInduction, TLAPS

Types ==
  /\ interval \in Nat /\ now \in Nat /\ alarm \in Nat
  /\ running \in BOOLEAN /\ pending \in BOOLEAN /\ blocked \in BOOLEAN
  /\ out \in Seq({"row", "head", "rest"})

\* Without --interval there is never an alarm.
AlarmInv ==
  /\ interval = 0 => alarm = 0 /\ ~pending
  /\ pc \in {"arm", "go", "wait", "ended"} => running
  /\ pc \in {"disarm", "read", "head", "rest"} => blocked = (interval # 0)

NoHead == \A k \in 1..Len(out) : out[k] # "head"

HeadThenRest ==
  \A k, j \in 1..Len(out) : out[k] = "head" /\ k < j => out[j] = "rest"

TailInv == HeadThenRest /\ (pc \notin {"rest", "done"} => NoHead)

IInv == Types /\ AlarmInv /\ NeverSilent /\ TailInv

-----------------------------------------------------------------------------
(* What each step does to the variables the invariant speaks of. *)

LEMMA TypesInit == Init => Types
<1> SUFFICES ASSUME Init PROVE Types
  OBVIOUS
<1>1. interval \in Intervals /\ now = 0 /\ alarm = 0 /\ out = <<>>
  BY DEF Init
<1>2. running = FALSE /\ pending = FALSE /\ blocked = FALSE
  BY DEF Init
<1>3. interval \in Nat
  BY <1>1, SamplingAssumption
<1>4. out \in Seq({"row", "head", "rest"})
  BY <1>1
<1> QED
  BY <1>1, <1>2, <1>3, <1>4 DEF Types

\* Time: the alarm that goes off is raised.
LEMMA TimeKeeps ==
  ASSUME IInv, TimePasses
  PROVE  IInv'
<1>1. /\ now' = now + 1
      /\ UNCHANGED <<interval, pc, running, blocked, out>>
  <2>1. now' = now + 1 /\ UNCHANGED mainVars /\ UNCHANGED out
    BY DEF TimePasses
  <2> QED
    BY <2>1 DEF mainVars
<1>2. \/ pending' = TRUE /\ alarm' = 0 /\ alarm # 0
      \/ UNCHANGED <<pending, alarm>>
  BY DEF TimePasses
<1>3. Types'
  <2>1. now' \in Nat
    BY <1>1 DEF IInv, Types
  <2>2. alarm' \in Nat
    BY <1>2 DEF IInv, Types
  <2>3. pending' \in BOOLEAN
    <3>1. pending' = TRUE \/ pending' = pending
      BY <1>2
    <3> QED
      BY <3>1 DEF IInv, Types
  <2> QED
    BY <1>1, <2>1, <2>2, <2>3 DEF IInv, Types
<1>4. AlarmInv' /\ NeverSilent'
  BY <1>1, <1>2 DEF IInv, AlarmInv, NeverSilent
<1>5. TailInv'
  BY <1>1 DEF IInv, TailInv, HeadThenRest, NoHead
<1> QED
  BY <1>3, <1>4, <1>5 DEF IInv

\* A tick: its row comes before the tail row, and the next alarm is armed for
\* as long as main() waits.
LEMMA TickKeeps ==
  ASSUME IInv, TimerCallback
  PROVE  IInv'
<1>1. /\ pending /\ ~blocked /\ pc \notin {"done", "dead"}
      /\ pending' = FALSE
      /\ out' = Append(out, "row")
      /\ alarm' = IF running THEN now + interval ELSE alarm
      /\ UNCHANGED <<interval, pc, running, blocked, now>>
  BY DEF TimerCallback, Rearm, mainVars
<1>2. interval # 0
  BY <1>1 DEF IInv, AlarmInv
<1>3. pc \notin {"disarm", "read", "head", "rest"}
  BY <1>1, <1>2 DEF IInv, AlarmInv
<1>4. NoHead
  BY <1>1, <1>3 DEF IInv, TailInv
<1>5. /\ Len(out') = Len(out) + 1 /\ Len(out) \in Nat
      /\ \A k \in 1..Len(out) : out'[k] = out[k]
      /\ out'[Len(out) + 1] = "row"
  BY <1>1 DEF IInv, Types
<1>6. NoHead'
  BY <1>4, <1>5 DEF NoHead
<1>7. TailInv'
  BY <1>6 DEF TailInv, HeadThenRest, NoHead
<1>8. Types'
  <2>1. out' \in Seq({"row", "head", "rest"})
    <3>1. out \in Seq({"row", "head", "rest"}) /\ "row" \in {"row", "head", "rest"}
      BY DEF IInv, Types
    <3> QED
      BY <1>1, <3>1
  <2>2. alarm' \in Nat
    BY <1>1 DEF IInv, Types
  <2> QED
    BY <1>1, <2>1, <2>2 DEF IInv, Types
<1>9. AlarmInv' /\ NeverSilent'
  BY <1>1, <1>2 DEF IInv, Types, AlarmInv, NeverSilent
<1> QED
  BY <1>7, <1>8, <1>9 DEF IInv

\* The steps of main() that print nothing.
LEMMA MainKeeps ==
  ASSUME IInv, Launch \/ LaunchFails \/ Arm \/ Go \/ WaitReturns \/ StopRunning \/ Block \/ Disarm
               \/ FinalSample \/ ChildExits
  PROVE  IInv'
<1>1. UNCHANGED <<interval, now, pending, out>>
  BY DEF Launch, LaunchFails, Arm, Go, WaitReturns, StopRunning, Block, Disarm, FinalSample,
         ChildExits, clockVars
<1>2. \/ pc = "launch" /\ pc' = "arm" /\ running' = TRUE /\ UNCHANGED <<alarm, blocked>>
      \/ pc = "launch" /\ pc' = "dead" /\ UNCHANGED <<running, alarm, blocked>>
      \/ /\ pc = "arm" /\ pc' = "go" /\ UNCHANGED <<running, blocked>>
         /\ alarm' = IF interval # 0 THEN now + interval ELSE alarm
      \/ pc = "go" /\ pc' = "wait" /\ UNCHANGED <<running, alarm, blocked>>
      \/ pc = "wait" /\ pc' = "ended" /\ UNCHANGED <<running, alarm, blocked>>
      \/ pc = "ended" /\ pc' = "block" /\ running' = FALSE /\ UNCHANGED <<alarm, blocked>>
      \/ pc = "block" /\ pc' = "disarm" /\ blocked' = (interval # 0) /\ UNCHANGED <<running, alarm>>
      \/ /\ pc = "disarm" /\ pc' = "read" /\ UNCHANGED <<running, blocked>>
         /\ alarm' = IF interval # 0 THEN 0 ELSE alarm
      \/ pc = "read" /\ pc' = "head" /\ UNCHANGED <<running, alarm, blocked>>
      \/ UNCHANGED <<pc, running, alarm, blocked>>
  BY DEF Launch, LaunchFails, Arm, Go, WaitReturns, StopRunning, Block, BlockAlarm, Disarm,
         FinalSample, ChildExits, Step, clockVars
<1>3. Types'
  <2>1. alarm' \in Nat
    BY <1>2 DEF IInv, Types
  <2>2. running' \in BOOLEAN /\ blocked' \in BOOLEAN
    BY <1>2 DEF IInv, Types
  <2> QED
    BY <1>1, <2>1, <2>2 DEF IInv, Types
<1>4. AlarmInv'
  BY <1>1, <1>2 DEF IInv, Types, AlarmInv
<1>5. NeverSilent'
  BY <1>1, <1>2 DEF IInv, Types, NeverSilent
<1>6. pc \notin {"rest", "done"} \/ UNCHANGED pc
  BY <1>2
<1>7. TailInv'
  BY <1>1, <1>6 DEF IInv, TailInv, HeadThenRest, NoHead
<1> QED
  BY <1>3, <1>4, <1>5, <1>7 DEF IInv

\* The tail row itself.
LEMMA PrintKeeps ==
  ASSUME IInv, PrintHead \/ PrintRest
  PROVE  IInv'
<1>1. UNCHANGED <<interval, now, alarm, pending, running, blocked>>
  BY DEF PrintHead, PrintRest, clockVars
<1>2. \/ pc = "head" /\ pc' = "rest" /\ out' = Append(out, "head")
      \/ pc = "rest" /\ pc' = "done" /\ out' = Append(out, "rest")
  BY DEF PrintHead, PrintRest, Step
<1>3. /\ Len(out') = Len(out) + 1 /\ Len(out) \in Nat
      /\ \A k \in 1..Len(out) : out'[k] = out[k]
      /\ out'[Len(out) + 1] = IF pc = "head" THEN "head" ELSE "rest"
  BY <1>2 DEF IInv, Types
<1>4. HeadThenRest'
  <2>1. CASE pc = "head"
    BY <1>3, <2>1 DEF IInv, TailInv, NoHead, HeadThenRest
  <2>2. CASE pc = "rest"
    BY <1>3, <2>2 DEF IInv, TailInv, HeadThenRest
  <2> QED
    BY <1>2, <2>1, <2>2
<1>5. Types'
  <2>1. out' \in Seq({"row", "head", "rest"})
    BY <1>2 DEF IInv, Types
  <2> QED
    BY <1>1, <2>1 DEF IInv, Types
<1>6. AlarmInv' /\ NeverSilent'
  BY <1>1, <1>2 DEF IInv, AlarmInv, NeverSilent
<1> QED
  BY <1>2, <1>4, <1>5, <1>6 DEF IInv, TailInv

-----------------------------------------------------------------------------
(* The invariant and the theorems. *)

LEMMA InvInit == Init => IInv
<1> SUFFICES ASSUME Init PROVE IInv
  OBVIOUS
<1>1. pc = "launch" /\ alarm = 0 /\ pending = FALSE /\ out = <<>>
  BY DEF Init
<1>2. AlarmInv /\ NeverSilent
  BY <1>1 DEF AlarmInv, NeverSilent
<1>3. TailInv
  BY <1>1 DEF TailInv, HeadThenRest, NoHead
<1> QED
  BY <1>2, <1>3, TypesInit DEF IInv

LEMMA InvNext == IInv /\ [Next]_vars => IInv'
<1> SUFFICES ASSUME IInv, [Next]_vars PROVE IInv'
  OBVIOUS
<1>1. CASE UNCHANGED vars
  <2>1. UNCHANGED <<interval, now, alarm, running, pending, blocked, out, pc>>
    BY <1>1 DEF vars, mainVars, clockVars
  <2> QED
    BY <2>1 DEF IInv, Types, AlarmInv, NeverSilent, TailInv, HeadThenRest, NoHead
<1>2. CASE Next
  BY <1>1, <1>2, TimeKeeps, TickKeeps, MainKeeps, PrintKeeps DEF Next, Main, Finished
<1> QED
  BY <1>1, <1>2

LEMMA Inv == Spec => []IInv
<1> QED
  BY InvInit, InvNext, PTL DEF Spec

\* However the signal is timed, no row is spliced into the tail row or follows it.
THEOREM TailRowStaysWhole == Spec => []TailRowWhole
<1>1. IInv => TailRowWhole
  <2> SUFFICES ASSUME IInv PROVE TailRowWhole
    OBVIOUS
  <2>1. DOMAIN out = 1..Len(out) /\ Len(out) \in Nat
    BY DEF IInv, Types
  <2> QED
    BY <2>1 DEF IInv, TailInv, HeadThenRest, TailRowWhole
<1> QED
  BY <1>1, Inv, PTL

\* However the signal is timed, the next tick is armed or raised while main() waits.
THEOREM TicksGoOn == Spec => []NeverSilent
<1>1. IInv => NeverSilent
  BY DEF IInv
<1> QED
  BY <1>1, Inv, PTL

-----------------------------------------------------------------------------
(* The rows: a counter has counted Rate for every unit of time on the PMU, at *)
(* the last reading as now, so the count of a window can be told from its     *)
(* time, and extrapolation gives the time the window lasted.                  *)
TileInv ==
  /\ counter \in Reading /\ last \in Reading
  /\ told \in [enabled : Nat, ran : Nat, value : Nat] /\ seen \in Nat
  /\ counter.raw = Rate * counter.ran /\ last.raw = Rate * last.ran
  /\ counter.ran - last.ran <= counter.enabled - last.enabled
  /\ WindowsTile

LEMMA Distributes ==
  ASSUME NEW a \in Nat, NEW b \in Nat, NEW c \in Nat
  PROVE  /\ a * (b + c) = a * b + a * c
         /\ b <= c => a * (c - b) = a * c - a * b
         /\ a * b \in Nat
OBVIOUS

\* A remainder is dropped.
LEMMA Quotient ==
  ASSUME NEW x \in Nat, NEW y \in Nat, NEW z \in Nat, z < y
  PROVE  (x * y + z) \div y = x
<1> DEFINE n == x * y + z
           q == n \div y
<1>1. n \in Nat /\ y > 0
  OBVIOUS
<1>2. q \in Int /\ y * q <= n /\ n < y * q + y
  <2> HIDE DEF n
  <2>1. n \div y \in Int /\ n % y \in 0..y - 1 /\ n = y * (n \div y) + (n % y)
    BY <1>1
  <2> QED
    BY <1>1, <2>1 DEF q
<1> HIDE DEF q
<1>3. CASE q >= x + 1
  <2>1. y * q >= y * (x + 1)
    BY <1>2, <1>3
  <2> QED
    BY <1>2, <2>1
<1>4. CASE q <= x - 1
  <2>1. y * q <= y * (x - 1)
    BY <1>2, <1>4
  <2> QED
    BY <1>2, <2>1
<1>5. q = x
  BY <1>2, <1>3, <1>4
<1> QED
  BY <1>5 DEF q

\* The count of a window in which the counter was on the PMU for a time r of e
\* is extrapolated to what it would have been all the time, without a rest.
LEMMA ScaledIsRate ==
  ASSUME NEW r \in Nat, NEW e \in Nat, r <= e
  PROVE  Scaled(Rate * r, e, r) = IF r > 0 THEN Rate * e ELSE 0
<1>1. Rate \in Nat
  BY SamplingAssumption
<1>2. CASE 0 < r /\ r < e
  <2> DEFINE q == Rate * e
             d == 2 * r
  <2>1. q \in Nat /\ d \in Nat /\ r < d
    BY <1>1, <1>2
  <2>2. 2 * (Rate * r) * e = q * d
    BY <1>1
  <2> HIDE DEF q, d
  <2>3. (q * d + r) \div d = q
    BY <2>1, Quotient
  <2> QED
    BY <1>2, <2>2, <2>3 DEF Scaled, q, d
<1>3. CASE r = 0
  <2>1. Rate * r = 0
    BY <1>1, <1>3
  <2> QED
    BY <1>3, <2>1 DEF Scaled
<1>4. CASE r > 0 /\ r = e
  BY <1>4 DEF Scaled
<1> QED
  BY <1>2, <1>3, <1>4

LEMMA SampleTiles ==
  ASSUME TileInv, Sample, counter' = counter
  PROVE  TileInv'
<1> DEFINE raw == counter.raw - last.raw
           enabled == counter.enabled - last.enabled
           ran == counter.ran - last.ran
           v == Scaled(raw, enabled, ran)
<1>1. /\ counter.raw \in Nat /\ counter.enabled \in Nat /\ counter.ran \in Nat
      /\ last.raw \in Nat /\ last.enabled \in Nat /\ last.ran \in Nat
  BY DEF TileInv, Reading
<1>2. told.enabled \in Nat /\ told.ran \in Nat /\ told.value \in Nat /\ seen \in Nat /\ Rate \in Nat
  BY SamplingAssumption DEF TileInv
<1>3. /\ last' = counter
      /\ told' = [enabled |-> told.enabled + enabled, ran |-> told.ran + ran, value |-> told.value + v]
      /\ seen' = IF ran > 0 THEN seen + enabled ELSE seen
  BY DEF Sample, Remember
<1>4. enabled \in Nat /\ ran \in Nat /\ ran <= enabled
  BY <1>1 DEF TileInv, WindowsTile
<1>5. raw = Rate * ran
  <2>1. Rate * (counter.ran - last.ran) = Rate * counter.ran - Rate * last.ran
    BY <1>1, <1>2, Distributes DEF TileInv, WindowsTile
  <2> QED
    BY <2>1 DEF TileInv
<1>6. v = IF ran > 0 THEN Rate * enabled ELSE 0
  BY <1>4, <1>5, ScaledIsRate
<1>7. Rate * enabled \in Nat /\ Rate * (seen + enabled) = Rate * seen + Rate * enabled
  BY <1>2, <1>4, Distributes
<1>8. told.enabled + enabled = counter.enabled /\ told.ran + ran = counter.ran
  BY <1>1 DEF TileInv, WindowsTile
<1>9. told.value = Rate * seen
  BY DEF TileInv, WindowsTile
<1> HIDE DEF raw, enabled, ran, v
<1>10. v \in Nat /\ seen' \in Nat /\ told.value + v = Rate * seen'
  <2>1. CASE ran > 0
    BY <1>2, <1>3, <1>4, <1>6, <1>7, <1>9, <2>1
  <2>2. CASE ~(ran > 0)
    BY <1>2, <1>3, <1>6, <1>9, <2>2
  <2> QED
    BY <2>1, <2>2
<1>11. told' \in [enabled : Nat, ran : Nat, value : Nat]
  BY <1>2, <1>3, <1>4, <1>10
<1>12. WindowsTile'
  <2>1. told'.enabled = last'.enabled /\ told'.ran = last'.ran /\ told'.value = Rate * seen'
    BY <1>3, <1>8, <1>10
  <2> QED
    BY <1>1, <1>3, <2>1 DEF WindowsTile
<1>13. counter'.ran - last'.ran <= counter'.enabled - last'.enabled
  BY <1>1, <1>3
<1> QED
  BY <1>3, <1>10, <1>11, <1>12, <1>13 DEF TileInv

LEMMA TimeTiles ==
  ASSUME TileInv, TimePasses
  PROVE  TileInv'
<1>1. PICK how \in {"on", "off", "idle"} : counter' = Counted(counter, how)
  BY DEF TimePasses
<1>2. UNCHANGED <<last, told, seen>>
  BY DEF TimePasses, sampleVars
<1>3. /\ counter \in Reading /\ counter.raw \in Nat /\ counter.enabled \in Nat /\ counter.ran \in Nat
      /\ last.enabled \in Nat /\ last.ran \in Nat /\ Rate \in Nat
  BY SamplingAssumption DEF TileInv, Reading
<1>4. \/ counter' = [raw |-> counter.raw + Rate, enabled |-> counter.enabled + 1, ran |-> counter.ran + 1]
      \/ counter' = [counter EXCEPT !.enabled = @ + 1]
      \/ counter' = counter
  BY <1>1 DEF Counted
<1>5. Rate * (counter.ran + 1) = Rate * counter.ran + Rate
  BY <1>3
<1>6. /\ counter' \in Reading /\ counter'.raw = Rate * counter'.ran
      /\ counter.enabled <= counter'.enabled /\ counter.ran <= counter'.ran
      /\ counter'.ran - counter.ran <= counter'.enabled - counter.enabled
  <2>1. CASE counter' = [raw |-> counter.raw + Rate, enabled |-> counter.enabled + 1, ran |-> counter.ran + 1]
    <3>1. counter.raw = Rate * counter.ran
      BY DEF TileInv
    <3> QED
      BY <1>3, <1>5, <2>1, <3>1 DEF Reading
  <2>2. CASE counter' = [counter EXCEPT !.enabled = @ + 1]
    <3>1. counter.raw = Rate * counter.ran
      BY DEF TileInv
    <3> QED
      BY <1>3, <2>2, <3>1 DEF Reading
  <2>3. CASE counter' = counter
    BY <1>3, <2>3 DEF TileInv
  <2> QED
    BY <1>4, <2>1, <2>2, <2>3
<1>7. counter'.enabled \in Nat /\ counter'.ran \in Nat
  BY <1>6 DEF Reading
<1>8. WindowsTile'
  BY <1>2, <1>3, <1>6, <1>7 DEF TileInv, WindowsTile
<1>9. counter'.ran - last'.ran <= counter'.enabled - last'.enabled
  BY <1>2, <1>3, <1>6, <1>7 DEF TileInv
<1> QED
  BY <1>2, <1>6, <1>8, <1>9 DEF TileInv

LEMMA TileNext == TileInv /\ [Next]_vars => TileInv'
<1> SUFFICES ASSUME TileInv, [Next]_vars PROVE TileInv'
  OBVIOUS
<1>1. CASE TimePasses
  BY <1>1, TimeTiles
<1>2. CASE TimerCallback \/ FinalSample
  BY <1>2, SampleTiles DEF TimerCallback, FinalSample, clockVars
<1>3. CASE UNCHANGED <<counter, last, told, seen>>
  BY <1>3 DEF TileInv, WindowsTile
<1>4. ASSUME Next, ~TimePasses, ~TimerCallback, ~FinalSample
      PROVE  UNCHANGED <<counter, last, told, seen>>
  BY <1>4 DEF Next, Main, ChildExits, Finished, Launch, LaunchFails, Arm, Go, WaitReturns, StopRunning,
              Block, Disarm, PrintHead, PrintRest, vars, clockVars, sampleVars
<1>5. UNCHANGED vars => UNCHANGED <<counter, last, told, seen>>
  BY DEF vars, clockVars, sampleVars
<1> QED
  BY <1>1, <1>2, <1>3, <1>4, <1>5

LEMMA TileInit == Init => TileInv
<1> SUFFICES ASSUME Init PROVE TileInv
  OBVIOUS
<1>1. /\ counter = Zero /\ last = Zero /\ seen = 0
      /\ told = [enabled |-> 0, ran |-> 0, value |-> 0]
  BY DEF Init
<1>2. Rate * 0 = 0
  BY SamplingAssumption
<1> QED
  BY <1>1, <1>2 DEF TileInv, WindowsTile, Zero, Reading

\* For any interval and rate, and however the counter is multiplexed, each unit
\* of time is in one row, and each row says what its window was worth.
THEOREM RowsTile == Spec => []WindowsTile
<1>1. TileInv => WindowsTile
  BY DEF TileInv
<1> QED
  BY <1>1, TileInit, TileNext, PTL DEF Spec

-----------------------------------------------------------------------------
(* The detector: between two phases its candidate is the phase the last       *)
(* usable sample asked for, so that the second such sample, and no other,     *)
(* finds a streak.                                                            *)
Usable(v, f) == [verdict |-> v, phase |-> f]
Samples == [verdict : {"settled", "unsettled", "low", "between", "high"}, phase : Phases]

Met(v, f) == Len(heard) > 0 /\ heard[Len(heard)] = Usable(v, f)

Asked(from, v, to) ==
  pd.phase = from =>
    /\ pd.candidate = to <=> Met(v, from)
    /\ pd.candidate = to => pd.streak = 1
    /\ heard # Twice(v, from)

PhaseInv ==
  /\ pd \in Detector
  /\ heard \in Seq(Samples) /\ Len(heard) <= PersistSamples
  /\ Asked("steady", "low", "degraded")
  /\ Asked("degraded", "high", "steady")

\* What is kept of the samples s when x is added: x, and the one before it.
TwoKept(s, x, t) ==
  /\ t \in Seq(Samples) /\ Len(t) \in 1..PersistSamples
  /\ t[Len(t)] = x
  /\ (Len(t) > 1) <=> (Len(s) > 0)
  /\ Len(s) > 0 => t[1] = s[Len(s)]

LEMMA LastTwo ==
  ASSUME NEW s \in Seq(Samples), NEW x \in Samples, Len(s) <= PersistSamples,
         NEW t, t = LastOf(Append(s, x))
  PROVE  TwoKept(s, x, t)
<1> DEFINE u == Append(s, x)
<1>1. /\ u \in Seq(Samples) /\ Len(u) = Len(s) + 1 /\ Len(s) \in Nat
      /\ \A k \in 1..Len(s) : u[k] = s[k]
      /\ u[Len(s) + 1] = x
  BY AppendProperties, LenProperties
<1> HIDE DEF u
<1>2. CASE Len(s) <= 1
  <2>1. t = u
    BY <1>1, <1>2 DEF LastOf, PersistSamples, u
  <2> QED
    BY <1>1, <1>2, <2>1 DEF TwoKept, PersistSamples
<1>3. CASE Len(s) = 2
  <2>1. t = SubSeq(u, 2, 3)
    BY <1>1, <1>3 DEF LastOf, PersistSamples, u
  <2>2. \A k \in 2..3 : u[k] \in Samples
    BY <1>1, <1>3, ElementOfSeq, SMTT(30)
  <2>3. /\ SubSeq(u, 2, 3) \in Seq(Samples)
        /\ Len(SubSeq(u, 2, 3)) = IF 2 <= 3 THEN 3 - 2 + 1 ELSE 0
        /\ \A k \in 1 .. 3 - 2 + 1 : SubSeq(u, 2, 3)[k] = u[2 + k - 1]
    BY <2>2, SubSeqProperties
  <2>4. t \in Seq(Samples) /\ Len(t) = 2 /\ t[1] = u[2] /\ t[2] = u[3]
    BY <2>1, <2>3
  <2> QED
    BY <1>1, <1>3, <2>4 DEF TwoKept, PersistSamples
<1>4. Len(s) <= 1 \/ Len(s) = 2
  <2>1. \A n \in Nat : n <= 2 => n <= 1 \/ n = 2
    OBVIOUS
  <2>2. Len(s) \in Nat /\ Len(s) <= 2
    BY <1>1 DEF PersistSamples
  <2> QED
    BY ONLY <2>1, <2>2, Zenon
<1> QED
  BY <1>2, <1>3, <1>4

LEMMA TwiceMeans ==
  ASSUME NEW v, NEW f, NEW S, NEW s \in Seq(S)
  PROVE  s = Twice(v, f) <=> Len(s) = 2 /\ s[1] = Usable(v, f) /\ s[2] = Usable(v, f)
<1> DEFINE T == Usable(v, f)
<1>1. Twice(v, f) = [k \in 1..2 |-> T]
  BY DEF Twice, PersistSamples, Usable
<1> HIDE DEF T
<1>2. s = [k \in 1..Len(s) |-> s[k]] /\ Len(s) \in Nat
  OBVIOUS
<1>3. ASSUME s = [k \in 1..2 |-> T]
      PROVE  Len(s) = 2 /\ s[1] = T /\ s[2] = T
  <2>1. DOMAIN s = 1..2 /\ DOMAIN s = 1..Len(s)
    BY <1>3
  <2>2. Len(s) = 2
    BY <1>2, <2>1
  <2> QED
    BY <1>3, <2>2
<1>4. ASSUME Len(s) = 2, s[1] = T, s[2] = T
      PROVE  s = [k \in 1..2 |-> T]
  <2>1. \A k \in 1..2 : s[k] = T
    BY <1>4
  <2> QED
    BY <1>2, <1>4, <2>1
<1> QED
  BY <1>1, <1>3, <1>4 DEF T

\* A sample: what is heard now, from what was met before.
LEMMA Heard ==
  ASSUME PhaseInv, NEW verdict \in Verdicts(pd.phase),
         heard' = LastOf(Append(heard, [verdict |-> verdict, phase |-> pd.phase]))
  PROVE  /\ heard' \in Seq(Samples) /\ Len(heard') <= PersistSamples
         /\ \A v, f : Met(v, f)' <=> verdict = v /\ pd.phase = f
         /\ \A v, f : heard' = Twice(v, f) <=> verdict = v /\ pd.phase = f /\ Met(v, f)
<1> DEFINE new == [verdict |-> verdict, phase |-> pd.phase]
<1>1. pd.phase \in Phases /\ heard \in Seq(Samples) /\ Len(heard) <= PersistSamples
  BY DEF PhaseInv, Detector
<1>2. new \in Samples
  BY <1>1 DEF Samples, Verdicts, Phases
<1>3. \A v, f : new = Usable(v, f) <=> verdict = v /\ pd.phase = f
  BY DEF Usable
<1>4. heard' = LastOf(Append(heard, new))
  OBVIOUS
<1> HIDE DEF new
<1>5. /\ heard' \in Seq(Samples) /\ Len(heard') \in 1..PersistSamples
      /\ heard'[Len(heard')] = new
      /\ (Len(heard') > 1) <=> (Len(heard) > 0)
      /\ Len(heard) > 0 => heard'[1] = heard[Len(heard)]
  <2>1. TwoKept(heard, new, heard')
    BY <1>1, <1>2, <1>4, LastTwo
  <2> QED
    BY <2>1 DEF TwoKept
<1>6. ASSUME NEW v, NEW f
      PROVE  Met(v, f)' <=> verdict = v /\ pd.phase = f
  BY <1>3, <1>5 DEF Met
<1>7. ASSUME NEW v, NEW f
      PROVE  heard' = Twice(v, f) <=> verdict = v /\ pd.phase = f /\ Met(v, f)
  <2>1. heard' = Twice(v, f)
          <=> Len(heard') = 2 /\ heard'[1] = Usable(v, f) /\ heard'[2] = Usable(v, f)
    BY <1>5, TwiceMeans
  <2>2. CASE Len(heard) > 0
    <3>1. Len(heard') = 2 /\ heard'[2] = new /\ heard'[1] = heard[Len(heard)]
      <4>1. \A n \in 1..PersistSamples : n > 1 => n = 2
        BY DEF PersistSamples
      <4>2. Len(heard') = 2
        BY ONLY <1>5, <2>2, <4>1, Zenon
      <4> QED
        BY <1>5, <2>2, <4>2
    <3> QED
      BY <1>3, <2>1, <2>2, <3>1 DEF Met
  <2>3. CASE ~(Len(heard) > 0)
    <3>1. Len(heard') # 2
      <4>1. \A n : n = 2 => n > 1
        OBVIOUS
      <4> QED
        BY ONLY <1>5, <2>3, <4>1, Zenon
    <3> QED
      BY <2>1, <2>3, <3>1 DEF Met
  <2> QED
    BY <2>2, <2>3
<1> QED
  <2>1. Len(heard') <= PersistSamples
    BY <1>5 DEF PersistSamples
  <2> QED
    BY <1>5, <1>6, <1>7, <2>1

\* phase_detector_update() for each of the phases.
LEMMA Updated ==
  ASSUME NEW d \in Detector, NEW verdict \in Verdicts(d.phase), NEW e, e = DetectorUpdate(d, verdict)
  PROVE  /\ e \in Detector
         /\ d.phase = "warmup" => \/ e.phase = "warmup"
                                  \/ e.phase = "steady" /\ e.candidate = "steady"
         /\ d.phase = "steady" /\ verdict # "low" => e.phase = "steady" /\ e.candidate = "steady"
         /\ d.phase = "degraded" /\ verdict # "high" => e.phase = "degraded" /\ e.candidate = "degraded"
         /\ d.phase = "steady" /\ verdict = "low" =>
              /\ d.candidate = "degraded" /\ d.streak = 1 => e.phase = "degraded" /\ e.candidate = "degraded"
              /\ d.candidate # "degraded" => /\ e.phase = "steady" /\ e.candidate = "degraded"
                                             /\ e.streak = 1
         /\ d.phase = "degraded" /\ verdict = "high" =>
              /\ d.candidate = "steady" /\ d.streak = 1 => e.phase = "steady" /\ e.candidate = "steady"
              /\ d.candidate # "steady" => /\ e.phase = "degraded" /\ e.candidate = "steady"
                                           /\ e.streak = 1
<1>1. /\ d.phase \in Phases /\ d.window \in 0..WarmupWindow /\ d.candidate \in Phases
      /\ d.streak \in 0..PersistSamples - 1
      /\ d = [phase |-> d.phase, window |-> d.window, candidate |-> d.candidate, streak |-> d.streak]
  BY DEF Detector
<1>2. ASSUME NEW g \in Phases, NEW w \in 0..WarmupWindow
      PROVE  Commit([d EXCEPT !.window = w], g)
               = [phase |-> g, window |-> w, candidate |-> g, streak |-> 0]
  <2>1. PICK c : c = [d EXCEPT !.window = w]
    OBVIOUS
  <2>2. /\ c.phase \in Phases /\ c.window = w /\ c.candidate \in Phases
        /\ c.streak \in 0..PersistSamples - 1
        /\ c = [phase |-> c.phase, window |-> c.window, candidate |-> c.candidate, streak |-> c.streak]
    BY <1>1, <2>1
  <2>3. PICK b : b = Commit(c, g)
    OBVIOUS
  <2>4. b = [phase |-> g, window |-> c.window, candidate |-> g, streak |-> 0]
    BY <2>2, <2>3 DEF Commit
  <2> QED
    BY <2>1, <2>2, <2>3, <2>4
<1>3. ASSUME NEW g \in Phases, NEW w \in 0..WarmupWindow, NEW h \in Phases,
             NEW s \in 0..PersistSamples - 1,
             e = [phase |-> g, window |-> w, candidate |-> h, streak |-> s]
      PROVE  e \in Detector /\ e.phase = g /\ e.candidate = h /\ e.streak = s
  BY <1>3 DEF Detector
<1>4. 0 \in 0..PersistSamples - 1 /\ 1 \in 0..PersistSamples - 1
  BY DEF PersistSamples
<1>5. CASE d.phase = "warmup"
  <2>1. e = Warm(d, verdict)
    BY <1>5 DEF DetectorUpdate
  <2>2. PICK w \in 0..WarmupWindow : w = IF d.window < WarmupWindow THEN d.window + 1 ELSE d.window
    BY <1>1 DEF WarmupWindow
  <2>3. [d EXCEPT !.window = w] = [phase |-> d.phase, window |-> w, candidate |-> d.candidate, streak |-> d.streak]
    BY <1>1
  <2>4. e = IF w = WarmupWindow /\ verdict = "settled"
            THEN Commit([d EXCEPT !.window = w], "steady") ELSE [d EXCEPT !.window = w]
    BY <2>1, <2>2, <2>3 DEF Warm
  <2>5. CASE w = WarmupWindow /\ verdict = "settled"
    <3>1. "steady" \in Phases
      BY DEF Phases
    <3>2. e = [phase |-> "steady", window |-> w, candidate |-> "steady", streak |-> 0]
      BY <1>2, <2>4, <2>5, <3>1
    <3> QED
      BY <1>3, <1>4, <1>5, <3>1, <3>2
  <2>6. CASE ~(w = WarmupWindow /\ verdict = "settled")
    <3>1. e = [phase |-> d.phase, window |-> w, candidate |-> d.candidate, streak |-> d.streak]
      BY <2>3, <2>4, <2>6
    <3>2. e \in Detector /\ e.phase = d.phase
      BY <1>1, <1>3, <3>1
    <3> QED
      BY <1>5, <3>2
  <2> QED
    BY <2>5, <2>6
<1>6. CASE d.phase # "warmup" /\ Target(d.phase, verdict) = d.phase
  <2>1. e = EndStreak(d)
    BY <1>6 DEF DetectorUpdate
  <2>2. ~(d.phase = "steady" /\ verdict = "low") /\ ~(d.phase = "degraded" /\ verdict = "high")
    BY <1>6 DEF Target
  <2>3. e = [phase |-> d.phase, window |-> d.window, candidate |-> d.phase, streak |-> 0]
    BY <1>1, <2>1 DEF EndStreak
  <2>4. e \in Detector /\ e.phase = d.phase /\ e.candidate = d.phase
    BY <1>1, <1>3, <1>4, <2>3
  <2> QED
    BY <1>6, <2>2, <2>4
<1>7. CASE d.phase # "warmup" /\ Target(d.phase, verdict) # d.phase
  <2> DEFINE to == Target(d.phase, verdict)
  <2>1. e = Persist(d, to)
    BY <1>7 DEF DetectorUpdate
  <2>2. \/ d.phase = "steady" /\ verdict = "low" /\ to = "degraded"
        \/ d.phase = "degraded" /\ verdict = "high" /\ to = "steady"
    BY <1>7 DEF Target
  <2>3. to \in Phases
    BY <2>2 DEF Phases
  <2> HIDE DEF to
  <2>4. CASE d.candidate = to /\ d.streak = 1
    <3>1. e = Commit(d, to)
      BY <2>1, <2>4 DEF Persist, PersistSamples
    <3>2. e = [phase |-> to, window |-> d.window, candidate |-> to, streak |-> 0]
      BY <1>1, <3>1 DEF Commit
    <3>3. e \in Detector /\ e.phase = to /\ e.candidate = to
      BY <1>1, <1>3, <1>4, <2>3, <3>2
    <3> QED
      BY <2>2, <2>4, <3>3
  <2>5. CASE ~(d.candidate = to /\ d.streak = 1)
    <3>1. d.candidate = to => d.streak = 0
      BY <1>1, <2>5 DEF PersistSamples
    <3>2. e = [d EXCEPT !.candidate = to, !.streak = 1]
      <4> DEFINE n == IF d.candidate = to THEN d.streak + 1 ELSE 1
      <4>1. n = 1
        BY <3>1
      <4>2. e = IF n >= PersistSamples THEN Commit(d, to)
                ELSE [d EXCEPT !.candidate = to, !.streak = n]
        BY <2>1 DEF Persist
      <4> HIDE DEF n
      <4> QED
        BY <4>1, <4>2 DEF PersistSamples
    <3>3. e = [phase |-> d.phase, window |-> d.window, candidate |-> to, streak |-> 1]
      BY <1>1, <3>2
    <3>4. e \in Detector /\ e.phase = d.phase /\ e.candidate = to /\ e.streak = 1
      BY <1>1, <1>3, <1>4, <2>3, <3>3
    <3> QED
      BY <2>2, <2>5, <3>4
  <2> QED
    BY <2>4, <2>5
<1> QED
  BY <1>5, <1>6, <1>7

\* What phase_detector_update() does to what PhaseInv says of the two phases.
LEMMA AskedNext ==
  ASSUME PhaseInv, NEW verdict \in Verdicts(pd.phase),
         pd' = DetectorUpdate(pd, verdict),
         heard' = LastOf(Append(heard, [verdict |-> verdict, phase |-> pd.phase]))
  PROVE  /\ PhaseInv'
         /\ pd.phase = "steady" => (pd'.phase = "degraded" <=> heard' = Twice("low", "steady"))
         /\ pd.phase = "degraded" => (pd'.phase = "steady" <=> heard' = Twice("high", "degraded"))
         /\ pd'.phase = "warmup" => pd.phase = "warmup"
<1>1. pd \in Detector /\ pd.phase \in Phases
  BY DEF PhaseInv, Detector
<1>2. PICK e : e = pd'
  OBVIOUS
<1>3. /\ e \in Detector
      /\ pd.phase = "warmup" => \/ e.phase = "warmup"
                                \/ e.phase = "steady" /\ e.candidate = "steady"
      /\ pd.phase = "steady" /\ verdict # "low" => e.phase = "steady" /\ e.candidate = "steady"
      /\ pd.phase = "degraded" /\ verdict # "high" => e.phase = "degraded" /\ e.candidate = "degraded"
      /\ pd.phase = "steady" /\ verdict = "low" =>
           /\ pd.candidate = "degraded" /\ pd.streak = 1 => e.phase = "degraded" /\ e.candidate = "degraded"
           /\ pd.candidate # "degraded" => /\ e.phase = "steady" /\ e.candidate = "degraded"
                                           /\ e.streak = 1
      /\ pd.phase = "degraded" /\ verdict = "high" =>
           /\ pd.candidate = "steady" /\ pd.streak = 1 => e.phase = "steady" /\ e.candidate = "steady"
           /\ pd.candidate # "steady" => /\ e.phase = "degraded" /\ e.candidate = "steady"
                                         /\ e.streak = 1
  BY <1>1, <1>2, Updated
<1>4. /\ heard' \in Seq(Samples) /\ Len(heard') <= PersistSamples
      /\ \A v, f : Met(v, f)' <=> verdict = v /\ pd.phase = f
      /\ \A v, f : heard' = Twice(v, f) <=> verdict = v /\ pd.phase = f /\ Met(v, f)
  BY Heard
<1>5. /\ Met("low", "steady")' <=> verdict = "low" /\ pd.phase = "steady"
      /\ Met("high", "degraded")' <=> verdict = "high" /\ pd.phase = "degraded"
      /\ heard' = Twice("low", "steady")
           <=> verdict = "low" /\ pd.phase = "steady" /\ Met("low", "steady")
      /\ heard' = Twice("high", "degraded")
           <=> verdict = "high" /\ pd.phase = "degraded" /\ Met("high", "degraded")
  BY ONLY <1>4, Zenon
<1>6. /\ pd.phase = "steady" => /\ pd.candidate = "degraded" <=> Met("low", "steady")
                                /\ pd.candidate = "degraded" => pd.streak = 1
      /\ pd.phase = "degraded" => /\ pd.candidate = "steady" <=> Met("high", "degraded")
                                  /\ pd.candidate = "steady" => pd.streak = 1
  BY DEF PhaseInv, Asked
<1>7. pd.phase = "warmup" \/ pd.phase = "steady" \/ pd.phase = "degraded"
  BY <1>1 DEF Phases
<1>8. /\ pd.phase = "steady" => (pd'.phase = "degraded" <=> heard' = Twice("low", "steady"))
      /\ pd.phase = "degraded" => (pd'.phase = "steady" <=> heard' = Twice("high", "degraded"))
      /\ pd'.phase = "warmup" => pd.phase = "warmup"
  BY <1>2, <1>3, <1>5, <1>6, <1>7
<1>9. Asked("steady", "low", "degraded")'
  BY <1>2, <1>3, <1>5, <1>6, <1>7 DEF Asked
<1>10. Asked("degraded", "high", "steady")'
  BY <1>2, <1>3, <1>5, <1>6, <1>7 DEF Asked
<1> QED
  BY <1>2, <1>3, <1>4, <1>8, <1>9, <1>10 DEF PhaseInv

\* The detector's part of TwoSamplesChange, in any step.
Changes ==
  /\ pd.phase = "steady" => (pd'.phase = "degraded" <=> heard' = Twice("low", "steady"))
  /\ pd.phase = "degraded" => (pd'.phase = "steady" <=> heard' = Twice("high", "degraded"))
  /\ pd'.phase = "warmup" => pd.phase = "warmup"

LEMMA PhaseNext == PhaseInv /\ [Next]_vars => PhaseInv' /\ Changes
<1> SUFFICES ASSUME PhaseInv, [Next]_vars PROVE PhaseInv' /\ Changes
  OBVIOUS
<1>1. ASSUME Sample
      PROVE  PhaseInv' /\ Changes
  <2>1. CASE UNCHANGED <<pd, heard>>
    BY <2>1 DEF PhaseInv, Asked, Met, Changes
  <2>2. CASE \E verdict \in Verdicts(pd.phase) :
               /\ pd' = DetectorUpdate(pd, verdict)
               /\ heard' = LastOf(Append(heard, [verdict |-> verdict, phase |-> pd.phase]))
    BY <2>2, AskedNext DEF Changes
  <2> QED
    BY <1>1, <2>1, <2>2 DEF Sample
<1>2. CASE UNCHANGED <<pd, heard>>
  BY <1>2 DEF PhaseInv, Asked, Met, Changes
<1>3. ASSUME Next, ~TimerCallback, ~FinalSample
      PROVE  UNCHANGED <<pd, heard>>
  BY <1>3 DEF Next, Main, TimePasses, ChildExits, Finished, Launch, LaunchFails, Arm, Go, WaitReturns,
              StopRunning, Block, Disarm, PrintHead, PrintRest, vars, sampleVars
<1>4. TimerCallback \/ FinalSample => Sample
  BY DEF TimerCallback, FinalSample
<1>5. UNCHANGED vars => UNCHANGED <<pd, heard>>
  BY DEF vars, sampleVars
<1> QED
  BY <1>1, <1>2, <1>3, <1>4, <1>5

LEMMA PhaseInit == Init => PhaseInv
<1> SUFFICES ASSUME Init PROVE PhaseInv
  OBVIOUS
<1>1. pd = [phase |-> "warmup", window |-> 0, candidate |-> "warmup", streak |-> 0] /\ heard = <<>>
  BY DEF Init, DetectorInit
<1>2. pd \in Detector /\ pd.phase = "warmup"
  BY <1>1 DEF Detector, Phases, WarmupWindow, PersistSamples
<1>3. heard \in Seq(Samples) /\ Len(heard) <= PersistSamples
  BY <1>1 DEF PersistSamples
<1> QED
  BY <1>2, <1>3 DEF PhaseInv, Asked

\* Between steady and degraded the phase changes with the second of two
\* consecutive usable samples beyond the threshold, and with no other.
THEOREM PhaseNeedsTwo == Spec => TwoSamplesChange
<1>1. PhaseInv /\ [Next]_vars =>
        [/\ pd.phase = "steady" => (pd'.phase = "degraded" <=> heard' = Twice("low", "steady"))
         /\ pd.phase = "degraded" => (pd'.phase = "steady" <=> heard' = Twice("high", "degraded"))
         /\ pd'.phase = "warmup" => pd.phase = "warmup"]_vars
  BY PhaseNext DEF Changes
<1>2. PhaseInv /\ [Next]_vars => PhaseInv'
  BY PhaseNext
<1> QED
  BY <1>1, <1>2, PhaseInit, PTL DEF Spec, TwoSamplesChange

-----------------------------------------------------------------------------
(* The ring.  It is drained once, so that what the drain reads was never      *)
(* wrapped around: until the drain publishes its tail, the ring holds, from   *)
(* place 0 to data_head, the records that are written, with LOST records in   *)
(* between (Layout).  The drain is at the start of one of them, and has       *)
(* decoded those before it (Draining).                                        *)

\* A place is itself as long as nothing wraps around.
LEMMA Remainder ==
  ASSUME NEW d \in Nat \ {0}, NEW x \in Int
  PROVE  /\ x \in 0 .. d - 1 => x % d = x
         /\ -d <= x /\ x < 0 => x % d = x + d
<1> DEFINE q == x \div d
<1>1. q \in Int /\ x % d \in 0 .. d - 1 /\ x = d * q + (x % d)
  OBVIOUS
<1> HIDE DEF q
<1>2. CASE q >= 1
  <2>1. d * q >= d
    BY <1>2, <1>1
  <2> QED
    BY <1>1, <2>1
<1>3. CASE q <= -2
  <2>1. d * q <= d * (-2)
    BY <1>3, <1>1
  <2> QED
    BY <1>1, <2>1
<1>4. CASE q = 0
  BY <1>1, <1>4
<1>5. CASE q = -1
  BY <1>1, <1>5
<1> QED
  BY <1>1, <1>2, <1>3, <1>4, <1>5

LEMMA RingSize == DataSize \in Nat \ {0}
BY RingAssumption

\* What a record of the kernel that wspy asks about is made of.
ContentOf(r) == IF r.type = "sample" THEN SampleOf(r.bits) ELSE Throttle
Size(r) == IF r.type # "sample" THEN 4 ELSE IF Ibs THEN nwords + 2 ELSE 2
End(i) == IF i = 0 THEN 0 ELSE written[i].at + Size(written[i])

BitSets == {{}} \cup UNION {Shapes[k] : k \in Kinds}
RecordType == [at : Nat, type : {"sample", "throttle"}, bits : BitSets]
RingTypes ==
  /\ kind \in Kinds /\ nwords \in Nat /\ (Ibs => nwords >= 5) /\ mapped \in BOOLEAN
  /\ written \in Seq(RecordType) /\ DOMAIN ring = 0 .. DataSize - 1
  /\ data_head \in Nat /\ missed \in Nat /\ refused \in Nat
  /\ \A i \in DOMAIN written : written[i].type = "sample" => written[i].bits \in Shapes[kind]

\* A LOST record stands before record i.
AfterLost(i) == written[i].at = End(i - 1) + 3
Layout ==
  /\ data_tail = 0 /\ data_head = End(Len(written)) /\ data_head < DataSize
  /\ \A i, j \in 0 .. Len(written) : i < j => End(i) < End(j)
  /\ \A i \in DOMAIN written :
       /\ written[i].at = End(i - 1) \/ AfterLost(i)
       /\ \A k \in 1 .. Size(written[i]) : ring[written[i].at + k - 1] = ContentOf(written[i])[k]
       /\ AfterLost(i) => /\ ring[End(i - 1)] = Word("lost", 3, {})
                          /\ ring[End(i - 1) + 2].size \in Nat

\* f[i] is what the LOST records before record i + 1 report.
LossOf(i) == IF AfterLost(i) THEN ring[End(i - 1) + 2].size ELSE 0
Losses(f) ==
  /\ f \in [Nat -> Nat] /\ f[0] = 0
  /\ \A i \in DOMAIN written : f[i] = f[i - 1] + LossOf(i)
  /\ \A i, j \in 0 .. Len(written) : i <= j => f[i] <= f[j]
  /\ f[Len(written)] + missed = refused

LEMMA SampleWords ==
  ASSUME RingTypes, NEW b
  PROVE  /\ Ibs => /\ Len(SampleOf(b)) = nwords + 2
                   /\ SampleOf(b)[1] = Word("sample", nwords + 2, {})
                   /\ SampleOf(b)[2] = Word("data", nwords, {})
                   /\ \A i \in 1 .. nwords :
                        SampleOf(b)[i + 2] = Word("data", 0, b \intersect Register(i))
         /\ ~Ibs => /\ Len(SampleOf(b)) = 2
                    /\ SampleOf(b)[1] = Word("sample", 2, {})
                    /\ SampleOf(b)[2] = Word("data", 0, b)
         /\ \E S : SampleOf(b) \in Seq(S)
<1>1. CASE Ibs
  <2> DEFINE W == {Word("data", nwords, {})} \cup {Word("data", 0, b \intersect Register(i)) : i \in 1 .. nwords}
             regs == [i \in 1 .. nwords |-> Word("data", 0, b \intersect Register(i))]
             rest == <<Word("data", nwords, {})>> \o regs
             all == <<Word("sample", nwords + 2, {})>> \o rest
  <2>1. nwords \in Nat
    BY DEF RingTypes
  <2>2. Len(regs) = nwords /\ regs \in Seq(W) /\ Word("data", nwords, {}) \in W
    <3>1. regs \in [1 .. nwords -> W] /\ Word("data", nwords, {}) \in W
      OBVIOUS
    <3> HIDE DEF regs, W
    <3> QED
      BY <2>1, <3>1
  <2>3. \A i \in 1 .. nwords : regs[i] = Word("data", 0, b \intersect Register(i))
    OBVIOUS
  <2> HIDE DEF regs, W
  <2>4. /\ Len(rest) = nwords + 1 /\ rest[1] = Word("data", nwords, {})
        /\ \A i \in 1 .. nwords : rest[i + 1] = regs[i]
    BY <2>1, <2>2
  <2>5. rest \in Seq(W)
    BY <2>1, <2>2
  <2> HIDE DEF rest
  <2>11. all \in Seq(W \cup {Word("sample", nwords + 2, {})})
    BY <2>5
  <2>6. /\ Len(all) = nwords + 2 /\ all[1] = Word("sample", nwords + 2, {})
        /\ \A i \in 1 .. nwords + 1 : all[i + 1] = rest[i]
    BY <2>1, <2>4, <2>5
  <2>7. (nwords + 1) + 1 = nwords + 2
    BY <2>1
  <2>8. SampleOf(b) = all
    BY <1>1, <2>4, <2>7 DEF SampleOf, Record, all, rest, regs
  <2> HIDE DEF all
  <2>9. \A i \in 1 .. nwords : (i + 1) \in 1 .. nwords + 1 /\ (i + 1) + 1 = i + 2
    BY <2>1
  <2>10. all[2] = rest[1] /\ \A i \in 1 .. nwords : all[i + 2] = rest[i + 1]
    <3>1. 1 \in 1 .. nwords + 1 /\ 1 + 1 = 2
      BY <2>1
    <3> QED
      BY <2>6, <2>9, <3>1
  <2> QED
    BY <1>1, <2>3, <2>4, <2>6, <2>8, <2>10, <2>11
<1>2. CASE ~Ibs
  <2>1. /\ Len(SampleOf(b)) = 2
        /\ SampleOf(b)[1] = Word("sample", 2, {}) /\ SampleOf(b)[2] = Word("data", 0, b)
        /\ SampleOf(b) \in Seq({Word("sample", 2, {}), Word("data", 0, b)})
    BY <1>2 DEF SampleOf, Record
  <2> QED
    BY <1>2, <2>1
<1> QED
  BY <1>1, <1>2

LEMMA ContentWords ==
  ASSUME RingTypes, NEW r, r.type \in {"sample", "throttle"}
  PROVE  /\ Len(ContentOf(r)) = Size(r) /\ Size(r) \in Nat /\ Size(r) >= 2
         /\ ContentOf(r)[1] = Word(r.type, Size(r), {})
         /\ \E S : ContentOf(r) \in Seq(S)
<1>1. CASE r.type = "sample"
  <2>1. /\ Ibs => /\ Len(SampleOf(r.bits)) = nwords + 2
                 /\ SampleOf(r.bits)[1] = Word("sample", nwords + 2, {})
        /\ ~Ibs => /\ Len(SampleOf(r.bits)) = 2
                  /\ SampleOf(r.bits)[1] = Word("sample", 2, {})
        /\ \E S : SampleOf(r.bits) \in Seq(S)
    BY SampleWords
  <2>2. nwords \in Nat
    BY DEF RingTypes
  <2>3. ContentOf(r) = SampleOf(r.bits) /\ Size(r) = IF Ibs THEN nwords + 2 ELSE 2
    BY <1>1 DEF ContentOf, Size
  <2>4. Size(r) \in Nat /\ Size(r) >= 2
    BY <2>2, <2>3
  <2>5. Len(SampleOf(r.bits)) = Size(r) /\ SampleOf(r.bits)[1] = Word("sample", Size(r), {})
    BY <2>1, <2>3
  <2> QED
    BY <1>1, <2>1, <2>3, <2>4, <2>5
<1>2. CASE r.type # "sample"
  <2> DEFINE d == Word("data", 0, {})
             h == Word("throttle", 4, {})
  <2>1. Throttle = <<h>> \o [i \in 1 .. 3 |-> d]
    BY DEF Throttle, Record
  <2>2. [i \in 1 .. 3 |-> d] \in Seq({d, h}) /\ Len([i \in 1 .. 3 |-> d]) = 3
    BY DEF Word
  <2> HIDE DEF d, h
  <2>3. Throttle \in Seq({d, h}) /\ Len(Throttle) = 4 /\ Throttle[1] = h
    BY <2>1, <2>2
  <2> QED
    BY <1>2, <2>3 DEF ContentOf, Size, h
<1> QED
  BY <1>1, <1>2
(* What the kernel puts in the ring goes behind what is there. *)
LEMMA PutInPlace ==
  ASSUME RingTypes, NEW all, NEW N \in Nat, N < DataSize - data_head,
         ring' = [p \in DOMAIN ring |->
                   LET i == (p - data_head) % DataSize
                   IN IF i < N THEN all[i + 1] ELSE ring[p]]
  PROVE  /\ DOMAIN ring' = 0 .. DataSize - 1
         /\ \A p \in 0 .. data_head - 1 : ring'[p] = ring[p]
         /\ \A k \in 1 .. N : ring'[data_head + k - 1] = all[k]
<1>1. data_head \in Nat /\ DOMAIN ring = 0 .. DataSize - 1 /\ DataSize \in Nat \ {0}
  BY RingSize DEF RingTypes
<1>2. ASSUME NEW p \in 0 .. data_head - 1 PROVE ring'[p] = ring[p]
  <2>1. p \in DOMAIN ring /\ p - data_head \in Int /\ -DataSize <= p - data_head /\ p - data_head < 0
    BY <1>1
  <2>2. (p - data_head) % DataSize = p - data_head + DataSize
    BY <1>1, <2>1, Remainder
  <2>3. ~((p - data_head) % DataSize < N)
    BY <1>1, <2>2
  <2> QED
    BY <2>1, <2>3
<1>3. ASSUME NEW k \in 1 .. N PROVE ring'[data_head + k - 1] = all[k]
  <2> DEFINE p == data_head + k - 1
  <2>1. p \in DOMAIN ring /\ p - data_head = k - 1 /\ k - 1 \in 0 .. DataSize - 1 /\ k - 1 \in Int
    BY <1>1
  <2>2. (p - data_head) % DataSize = k - 1
    BY <1>1, <2>1, Remainder
  <2>3. k - 1 < N /\ (k - 1) + 1 = k
    OBVIOUS
  <2> HIDE DEF p
  <2>4. ring'[p] = all[k]
    BY <2>1, <2>2, <2>3
  <2> QED
    BY <2>4 DEF p
<1> QED
  BY <1>1, <1>2, <1>3

LEMMA Concatenated ==
  ASSUME NEW T, NEW s \in Seq(T), NEW t \in Seq(T)
  PROVE  /\ Len(s \o t) = Len(s) + Len(t) /\ s \o t \in Seq(T)
         /\ \A i \in 1 .. Len(s) : (s \o t)[i] = s[i]
         /\ \A i \in 1 .. Len(t) : (s \o t)[i + Len(s)] = t[i]
<1>1. Len(s) \in Nat /\ Len(t) \in Nat /\ s \o t \in Seq(T) /\ Len(s \o t) = Len(s) + Len(t)
  OBVIOUS
<1>2. \A i \in 1 .. Len(s) + Len(t) : (s \o t)[i] = IF i <= Len(s) THEN s[i] ELSE t[i - Len(s)]
  OBVIOUS
<1>3. \A i \in 1 .. Len(t) : /\ i + Len(s) \in 1 .. Len(s) + Len(t)
                             /\ ~(i + Len(s) <= Len(s)) /\ i + Len(s) - Len(s) = i
  BY <1>1
<1> QED
  BY <1>1, <1>2, <1>3

LEMMA BehindThree ==
  ASSUME NEW T, NEW s \in Seq(T), NEW t \in Seq(T)
  PROVE  Len(s) = 3 =>
           /\ Len(s \o t) = Len(t) + 3 /\ (s \o t)[1] = s[1] /\ (s \o t)[3] = s[3]
           /\ \A k \in 1 .. Len(t) : (s \o t)[k + 3] = t[k]
<1> DEFINE c == s \o t
           n == Len(s)
<1>1. Len(t) \in Nat /\ Len(c) = n + Len(t) /\ n \in Nat
  OBVIOUS
<1>2. \A i \in 1 .. n + Len(t) : c[i] = IF i <= n THEN s[i] ELSE t[i - n]
  OBVIOUS
<1> HIDE DEF c, n
<1>3. n = 3 =>
           /\ Len(c) = Len(t) + 3 /\ c[1] = s[1] /\ c[3] = s[3]
           /\ \A k \in 1 .. Len(t) : c[k + 3] = t[k]
  <2> SUFFICES ASSUME n = 3
               PROVE  /\ Len(c) = Len(t) + 3 /\ c[1] = s[1] /\ c[3] = s[3]
                      /\ \A k \in 1 .. Len(t) : c[k + 3] = t[k]
    OBVIOUS
  <2>3. \A i \in 1 .. Len(t) : i + 3 \in 1 .. 3 + Len(t) /\ ~(i + 3 <= 3) /\ i + 3 - 3 = i
    BY <1>1
  <2>4. 1 \in 1 .. 3 + Len(t) /\ 3 \in 1 .. 3 + Len(t)
    BY <1>1
  <2> QED
    BY <1>1, <1>2, <2>3, <2>4
<1> QED
  BY <1>3 DEF c, n

\* A LOST record, when it stands before a record.
LEMMA BehindLost ==
  ASSUME NEW S, NEW r \in Seq(S), NEW n \in Nat
  PROVE  /\ Len(LostRecord(n) \o r) = Len(r) + 3
         /\ (LostRecord(n) \o r)[1] = Word("lost", 3, {})
         /\ (LostRecord(n) \o r)[3] = Word("data", n, {})
         /\ \A k \in 1 .. Len(r) : (LostRecord(n) \o r)[k + 3] = r[k]
<1> DEFINE x == Word("lost", 3, {})
           y == Word("data", 0, {})
           z == Word("data", n, {})
           T == S \cup {x, y, z}
           lost == LostRecord(n)
<1>1. lost = <<x>> \o <<y, z>>
  <2>1. LostRecord(n) = <<Word("lost", Len(<<y, z>>) + 1, {})>> \o <<y, z>>
    BY DEF LostRecord, Record
  <2>2. Len(<<y, z>>) + 1 = 3
    OBVIOUS
  <2> QED
    BY <2>1, <2>2
<1>3. r \in Seq(T) /\ x \in T /\ y \in T /\ z \in T
  <2>1. r \in [1 .. Len(r) -> T] /\ Len(r) \in Nat
    OBVIOUS
  <2> HIDE DEF T
  <2>2. r \in Seq(T)
    BY <2>1
  <2> QED
    BY <2>2 DEF T
<1> HIDE DEF T, x, y, z, lost
<1>4. <<x>> \in Seq(T) /\ <<y, z>> \in Seq(T) /\ Len(<<x>>) = 1 /\ Len(<<y, z>>) = 2
      /\ <<x>>[1] = x /\ <<y, z>>[1] = y /\ <<y, z>>[2] = z
  BY <1>3
<1>5. lost \in Seq(T) /\ Len(lost) = 3 /\ lost[1] = x /\ lost[3] = z
  <2>1. /\ <<x>> \o <<y, z>> \in Seq(T) /\ Len(<<x>> \o <<y, z>>) = 1 + 2
        /\ \A i \in 1 .. 1 : (<<x>> \o <<y, z>>)[i] = <<x>>[i]
        /\ \A i \in 1 .. 2 : (<<x>> \o <<y, z>>)[i + 1] = <<y, z>>[i]
    BY <1>4, Concatenated
  <2>2. (<<x>> \o <<y, z>>)[1] = x /\ (<<x>> \o <<y, z>>)[2 + 1] = z
    BY <1>4, <2>1
  <2> QED
    BY <1>1, <2>1, <2>2
<1>8. /\ Len(lost \o r) = Len(r) + 3 /\ (lost \o r)[1] = lost[1] /\ (lost \o r)[3] = lost[3]
      /\ \A k \in 1 .. Len(r) : (lost \o r)[k + 3] = r[k]
  BY <1>3, <1>5, BehindThree
<1> QED
  BY <1>5, <1>8 DEF x, z, lost

\* Where the records are.
LEMMA Places ==
  ASSUME RingTypes, Layout
  PROVE  /\ Len(written) \in Nat /\ DOMAIN written = 1 .. Len(written)
         /\ \A i \in 0 .. Len(written) : End(i) \in Nat /\ End(i) <= data_head
         /\ \A i \in 1 .. Len(written) :
              /\ i - 1 \in 0 .. Len(written) /\ i \in 0 .. Len(written)
              /\ Size(written[i]) \in Nat /\ Size(written[i]) >= 2
              /\ written[i].at \in Nat /\ written[i].type \in {"sample", "throttle"}
              /\ End(i - 1) <= written[i].at
              /\ End(i) = written[i].at + Size(written[i])
              /\ End(i - 1) < End(i)
<1>1. Len(written) \in Nat /\ DOMAIN written = 1 .. Len(written)
  BY DEF RingTypes
<1>2. ASSUME NEW i \in 1 .. Len(written)
      PROVE  /\ written[i].at \in Nat /\ written[i].type \in {"sample", "throttle"}
             /\ Size(written[i]) \in Nat /\ Size(written[i]) >= 2
             /\ End(i) = written[i].at + Size(written[i])
  <2>1. written[i] \in RecordType
    BY DEF RingTypes
  <2>2. written[i].at \in Nat /\ written[i].type \in {"sample", "throttle"}
    BY <2>1 DEF RecordType
  <2>3. Size(written[i]) \in Nat /\ Size(written[i]) >= 2
    BY <2>2, ContentWords
  <2> QED
    BY <2>2, <2>3 DEF End
<1>3. End(0) = 0
  BY DEF End
<1>4. ASSUME NEW i \in 0 .. Len(written) PROVE End(i) \in Nat /\ End(i) <= data_head
  <2>1. End(i) \in Nat
    BY <1>1, <1>2, <1>3
  <2>2. data_head = End(Len(written))
    BY DEF Layout
  <2>3. Len(written) \in 0 .. Len(written) /\ End(Len(written)) \in Nat
    BY <1>1, <1>2, <1>3
  <2>4. i < Len(written) => End(i) < End(Len(written))
    BY <2>3 DEF Layout
  <2> DEFINE n == Len(written)
  <2>5. i \in 0 .. n /\ n \in Nat
    BY <1>1
  <2> HIDE DEF n
  <2>6. i < n \/ i = n
    BY <2>5
  <2> QED
    BY <2>1, <2>2, <2>3, <2>4, <2>6 DEF n
<1>5. ASSUME NEW i \in 1 .. Len(written)
      PROVE  /\ i - 1 \in 0 .. Len(written) /\ i \in 0 .. Len(written)
             /\ End(i - 1) <= written[i].at /\ End(i - 1) < End(i)
  <2>1. i - 1 \in 0 .. Len(written) /\ i \in 0 .. Len(written) /\ i - 1 < i
    BY <1>1
  <2>2. End(i - 1) < End(i)
    BY <2>1 DEF Layout
  <2>3. written[i].at = End(i - 1) \/ written[i].at = End(i - 1) + 3
    BY <1>1 DEF Layout, AfterLost
  <2>4. End(i - 1) \in Nat
    BY <2>1, <1>4
  <2> QED
    BY <2>1, <2>2, <2>3, <2>4
<1> QED
  BY <1>1, <1>2, <1>4, <1>5

\* What is written stays, and what comes next is behind the head.
Grown ==
  /\ data_head <= data_head' /\ Len(written) <= Len(written')
  /\ \A i \in 1 .. Len(written) : written'[i] = written[i]
  /\ \A i \in 1 .. Len(written') : i > Len(written) => written'[i].at >= data_head
  /\ \A p \in 0 .. data_head - 1 : ring'[p] = ring[p]

Extended(f, g) == \A i \in 0 .. Len(written) : g[i] = f[i]

Refused ==
  missed' = missed + 1 /\ refused' = refused + 1 /\ UNCHANGED <<ring, data_head, written>>

\* The record that is written, where it is, and where it ends.
LEMMA PutWrites ==
  ASSUME RingTypes, data_tail \in Nat, data_tail <= data_head, NEW r \in RecordType,
         UNCHANGED <<kind, nwords, mapped>>,
         Put(ContentOf(r), r.bits), ~Refused
  PROVE  \E new \in RecordType :
           /\ new.type = r.type /\ new.bits = r.bits
           /\ new.at = data_head + (IF missed > 0 THEN 3 ELSE 0)
           /\ written' = Append(written, new)
           /\ data_head' = new.at + Size(r)
           /\ missed' = 0 /\ refused' = refused
           /\ DOMAIN ring' = 0 .. DataSize - 1
           /\ data_tail = 0 =>
                /\ data_head' < DataSize
                /\ \A p \in 0 .. data_head - 1 : ring'[p] = ring[p]
                /\ \A k \in 1 .. Size(r) : ring'[new.at + k - 1] = ContentOf(r)[k]
                /\ missed > 0 => /\ ring'[data_head] = Word("lost", 3, {})
                                 /\ ring'[data_head + 2] = Word("data", missed, {})
<1> DEFINE rec == ContentOf(r)
           all == (IF missed > 0 THEN LostRecord(missed) ELSE <<>>) \o rec
           at == data_head + Len(all) - Len(rec)
           gap == IF missed > 0 THEN 3 ELSE 0
           new == [at |-> at, type |-> rec[1].type, bits |-> r.bits]
<1>1. r.type \in {"sample", "throttle"} /\ r.bits \in BitSets
  BY DEF RecordType
<1>2. /\ Len(rec) = Size(r) /\ Size(r) \in Nat /\ Size(r) >= 2
      /\ rec[1] = Word(r.type, Size(r), {})
  BY <1>1, ContentWords
<1>3. data_head \in Nat /\ missed \in Nat /\ DataSize \in Nat
  BY RingSize DEF RingTypes
<1>4. /\ missed = 0 => all = rec
      /\ missed > 0 => /\ Len(all) = Len(rec) + 3 /\ all[1] = Word("lost", 3, {})
                       /\ all[3] = Word("data", missed, {})
                       /\ \A k \in 1 .. Len(rec) : all[k + 3] = rec[k]
  <2>1. PICK S : rec \in Seq(S)
    BY <1>1, ContentWords
  <2>2. missed > 0 => all = LostRecord(missed) \o rec
    OBVIOUS
  <2>3. missed = 0 => all = rec
    <3>1. missed = 0 => all = <<>> \o rec
      OBVIOUS
    <3> HIDE DEF all, rec
    <3>2. <<>> \o rec = rec
      BY <2>1
    <3> QED
      BY <3>1, <3>2
  <2> HIDE DEF all, rec
  <2>4. /\ Len(LostRecord(missed) \o rec) = Len(rec) + 3
        /\ (LostRecord(missed) \o rec)[1] = Word("lost", 3, {})
        /\ (LostRecord(missed) \o rec)[3] = Word("data", missed, {})
        /\ \A k \in 1 .. Len(rec) : (LostRecord(missed) \o rec)[k + 3] = rec[k]
    BY <1>3, <2>1, BehindLost
  <2> QED
    BY <2>2, <2>3, <2>4
<1>5. /\ Len(all) < DataSize - (data_head - data_tail)
      /\ ring' = [p \in DOMAIN ring |->
                   LET i == (p - data_head) % DataSize
                   IN IF i < Len(all) THEN all[i + 1] ELSE ring[p]]
      /\ data_head' = data_head + Len(all)
      /\ written' = Append(written, new)
      /\ missed' = 0 /\ refused' = refused
  BY DEF Put, Refused
<1> HIDE DEF rec, all
<1> DEFINE N == Len(all)
<1>6. N = Size(r) + gap
  BY <1>2, <1>3, <1>4
<1>7. /\ \A k \in 1 .. Size(r) : all[k + gap] = rec[k]
      /\ missed > 0 => all[1] = Word("lost", 3, {}) /\ all[3] = Word("data", missed, {})
  BY <1>2, <1>3, <1>4
<1>8. /\ data_tail = 0 => N < DataSize - data_head
      /\ ring' = [p \in DOMAIN ring |->
                   LET i == (p - data_head) % DataSize
                   IN IF i < N THEN all[i + 1] ELSE ring[p]]
      /\ data_head' = data_head + N
      /\ written' = Append(written, new)
  BY <1>3, <1>5
<1>9. gap \in Nat /\ N \in Nat
  BY <1>2, <1>6
<1>10. at = data_head + gap /\ new.type = r.type
  BY <1>2, <1>3, <1>6, <1>9 DEF Word
<1> HIDE DEF N, gap, at
<1>17. DOMAIN ring' = 0 .. DataSize - 1
  BY <1>8 DEF RingTypes
<1>11. data_tail = 0 =>
         /\ \A p \in 0 .. data_head - 1 : ring'[p] = ring[p]
         /\ \A k \in 1 .. N : ring'[data_head + k - 1] = all[k]
  BY <1>3, <1>8, <1>9, PutInPlace
<1>12. data_tail = 0 => \A k \in 1 .. Size(r) : ring'[at + k - 1] = rec[k]
  <2> SUFFICES ASSUME data_tail = 0, NEW k \in 1 .. Size(r) PROVE ring'[at + k - 1] = rec[k]
    OBVIOUS
  <2>1. k + gap \in 1 .. N /\ data_head + (k + gap) - 1 = at + k - 1
    BY <1>2, <1>3, <1>6, <1>9, <1>10
  <2>2. ring'[data_head + (k + gap) - 1] = all[k + gap]
    BY <1>11, <2>1
  <2> QED
    BY <1>7, <2>1, <2>2
<1>13. data_tail = 0 /\ missed > 0 =>
         /\ ring'[data_head] = Word("lost", 3, {})
         /\ ring'[data_head + 2] = Word("data", missed, {})
  <2> SUFFICES ASSUME data_tail = 0, missed > 0
               PROVE  /\ ring'[data_head] = Word("lost", 3, {})
                      /\ ring'[data_head + 2] = Word("data", missed, {})
    OBVIOUS
  <2>1. 1 \in 1 .. N /\ 3 \in 1 .. N /\ data_head + 1 - 1 = data_head /\ data_head + 3 - 1 = data_head + 2
    BY <1>2, <1>3, <1>6, <1>9 DEF gap
  <2> QED
    BY <1>7, <1>11, <2>1
<1>14. at \in Nat /\ new \in RecordType /\ data_head' = at + Size(r) /\ (data_tail = 0 => data_head' < DataSize)
  <2>1. at \in Nat /\ data_head' = at + Size(r) /\ (data_tail = 0 => data_head' < DataSize)
    BY <1>2, <1>3, <1>6, <1>8, <1>9, <1>10
  <2> QED
    BY <1>1, <1>10, <2>1 DEF RecordType
<1>15. new.at = at /\ new.bits = r.bits /\ new.type = r.type
  BY <1>10
<1> HIDE DEF new
<1>16. /\ new.at = data_head + (IF missed > 0 THEN 3 ELSE 0)
       /\ data_head' = new.at + Size(r)
       /\ data_tail = 0 => \A k \in 1 .. Size(r) : ring'[new.at + k - 1] = ContentOf(r)[k]
  BY <1>10, <1>12, <1>14, <1>15 DEF rec, gap
<1> QED
  BY <1>5, <1>8, <1>11, <1>13, <1>14, <1>15, <1>16, <1>17

LEMMA PutKeeps ==
  ASSUME RingTypes, Layout, NEW r \in RecordType,
         r.type = "sample" => r.bits \in Shapes[kind],
         UNCHANGED <<kind, nwords, mapped, data_tail>>,
         Put(ContentOf(r), r.bits)
  PROVE  /\ RingTypes' /\ Layout' /\ Grown
         /\ \A f : Losses(f) => \E g : Losses(g)' /\ Extended(f, g)
<1>1. CASE Refused
  <2>1. UNCHANGED <<kind, nwords, mapped, data_tail, ring, data_head, written>>
        /\ missed' = missed + 1 /\ refused' = refused + 1
    BY <1>1 DEF Refused
  <2>2. RingTypes'
    BY <2>1 DEF RingTypes, RecordType, BitSets, Ibs
  <2>3. Layout'
    <3>1. \A i : End(i)' = End(i) /\ AfterLost(i)' = AfterLost(i)
      BY <2>1 DEF End, Size, Ibs, AfterLost
    <3>2. \A i : Register(i)' = Register(i)
      BY <2>1 DEF Register
    <3>3. \A i : ContentOf(written[i])' = ContentOf(written[i])
      BY <2>1, <3>2 DEF ContentOf, SampleOf, Ibs
    <3>4. \A i : Size(written[i])' = Size(written[i])
      BY <2>1 DEF Size, Ibs
    <3> QED
      BY <2>1, <3>1, <3>3, <3>4 DEF Layout
  <2>4. Grown
    <3>1. data_head \in Nat /\ Len(written) \in Nat
      BY Places DEF RingTypes
    <3> QED
      BY <2>1, <3>1 DEF Grown
  <2>5. ASSUME NEW f, Losses(f) PROVE Losses(f)' /\ Extended(f, f)
    <3>1. missed \in Nat /\ refused \in Nat /\ Len(written) \in Nat
      BY Places DEF RingTypes
    <3>2. f[Len(written)] \in Nat /\ f[Len(written)] + missed = refused
      BY <2>5, <3>1 DEF Losses
    <3>3. f[Len(written)] + missed' = refused'
      BY <2>1, <3>1, <3>2
    <3> QED
      BY <2>1, <2>5, <3>3 DEF Losses, LossOf, AfterLost, End, Size, Ibs, Extended
  <2> QED
    BY <2>2, <2>3, <2>4, <2>5
<1>2. CASE ~Refused
  <2>0. PICK n \in Nat : n = Len(written)
    BY Places
  <2>1. PICK new \in RecordType :
           /\ new.type = r.type /\ new.bits = r.bits
           /\ new.at = data_head + (IF missed > 0 THEN 3 ELSE 0)
           /\ written' = Append(written, new)
           /\ data_head' = new.at + Size(r) /\ data_head' < DataSize
           /\ missed' = 0 /\ refused' = refused
           /\ DOMAIN ring' = 0 .. DataSize - 1
           /\ \A p \in 0 .. data_head - 1 : ring'[p] = ring[p]
           /\ \A k \in 1 .. Size(r) : ring'[new.at + k - 1] = ContentOf(r)[k]
           /\ missed > 0 => /\ ring'[data_head] = Word("lost", 3, {})
                            /\ ring'[data_head + 2] = Word("data", missed, {})
    <3>1. data_tail = 0 /\ data_tail \in Nat /\ data_tail <= data_head
      BY DEF Layout, RingTypes
    <3> QED
      BY <1>2, <3>1, PutWrites
  <2>2. /\ n \in Nat /\ DOMAIN written = 1 .. n
        /\ data_head \in Nat /\ missed \in Nat /\ refused \in Nat
        /\ written \in Seq(RecordType) /\ data_tail = 0 /\ data_head = End(n) /\ data_head < DataSize
    BY <2>0, Places DEF RingTypes, Layout
  <2>3. /\ written' \in Seq(RecordType) /\ Len(written') = n + 1 /\ DOMAIN written' = 1 .. n + 1
        /\ written'[n + 1] = new /\ \A i \in 1 .. n : written'[i] = written[i]
    BY <2>0, <2>1, <2>2
  <2>4. /\ Size(r) \in Nat /\ Size(r) >= 2
    BY ContentWords DEF RecordType
  <2>5. /\ \A i \in 1 .. n : Size(written[i])' = Size(written[i])
        /\ \A i \in 1 .. n : ContentOf(written[i])' = ContentOf(written[i])
    <3>1. \A i : Register(i)' = Register(i)
      BY DEF Register
    <3>2. ASSUME NEW i \in 1 .. n PROVE Size(written[i])' = Size(written[i])
      BY <2>3 DEF Size, Ibs
    <3>3. ASSUME NEW i \in 1 .. n PROVE ContentOf(written[i])' = ContentOf(written[i])
      BY <2>3, <3>1 DEF ContentOf, SampleOf, Ibs
    <3> QED
      BY <3>2, <3>3
  <2>6. Size(written[n + 1])' = Size(r) /\ ContentOf(written[n + 1])' = ContentOf(r)
    <3>1. \A i : Register(i)' = Register(i)
      BY DEF Register
    <3>2. Size(written[n + 1])' = Size(r)
      BY <2>1, <2>3 DEF Size, Ibs
    <3>3. ContentOf(written[n + 1])' = ContentOf(r)
      BY <2>1, <2>3, <3>1 DEF ContentOf, SampleOf, Ibs
    <3> QED
      BY <3>2, <3>3
  <2>7. /\ \A i \in 0 .. n : End(i)' = End(i)
        /\ End(n + 1)' = data_head'
    <3>1. ASSUME NEW i \in 0 .. n PROVE End(i)' = End(i)
      BY <2>2, <2>3, <2>5 DEF End
    <3>2. End(n + 1)' = written'[n + 1].at + Size(written[n + 1])'
      BY <2>2 DEF End
    <3> QED
      BY <2>1, <2>3, <2>6, <3>1, <3>2
  <2>8. data_head < data_head' /\ data_head' \in Nat /\ new.at >= data_head /\ new.at \in Nat
    BY <2>1, <2>2, <2>4
  <2>9. RingTypes'
    <3>1. \A i \in 1 .. n + 1 : written'[i].type = "sample" => written'[i].bits \in Shapes[kind]
      <4>1. \A i \in 1 .. n : written[i].type = "sample" => written[i].bits \in Shapes[kind]
        BY <2>2 DEF RingTypes
      <4>2. \A i \in 1 .. n + 1 : i \in 1 .. n \/ i = n + 1
        BY <2>0
      <4> QED
        BY <2>1, <2>3, <4>1, <4>2
    <3> QED
      BY <2>1, <2>3, <2>8, <3>1 DEF RingTypes, RecordType, BitSets, Ibs
  <2>10. Layout'
    <3>1. \A i, j \in 0 .. n + 1 : i < j => End(i)' < End(j)'
      <4>1. ASSUME NEW i \in 0 .. n + 1, NEW j \in 0 .. n + 1, i < j PROVE End(i)' < End(j)'
        <5>1. i \in 0 .. n
          BY <2>2, <4>1
        <5>2. CASE j \in 0 .. n
          BY <2>0, <2>2, <2>7, <4>1, <5>1, <5>2 DEF Layout
        <5>3. CASE j = n + 1
          <6>1. End(i) \in Nat /\ End(i) <= data_head
            BY <2>0, <5>1, Places
          <6> QED
            BY <2>2, <2>7, <2>8, <5>1, <5>3, <6>1
        <5> QED
          BY <2>2, <5>2, <5>3
      <4> QED
        BY <4>1
    <3>2. ASSUME NEW i \in 1 .. n
          PROVE  /\ written'[i].at = End(i - 1)' \/ AfterLost(i)'
                 /\ \A k \in 1 .. Size(written[i])' :
                      ring'[written'[i].at + k - 1] = ContentOf(written[i])'[k]
                 /\ AfterLost(i)' => /\ ring'[End(i - 1)'] = Word("lost", 3, {})
                                     /\ ring'[End(i - 1)' + 2].size \in Nat
      <4>1. /\ i - 1 \in 0 .. n /\ i \in 0 .. n
            /\ Size(written[i]) \in Nat /\ Size(written[i]) >= 2 /\ written[i].at \in Nat
            /\ End(i - 1) <= written[i].at
            /\ End(i) = written[i].at + Size(written[i])
            /\ End(i - 1) \in Nat /\ End(i) <= data_head
        BY <2>0, Places
      <4>2. End(i - 1)' = End(i - 1) /\ written'[i] = written[i]
        BY <2>3, <2>7, <4>1
      <4>3. /\ written[i].at = End(i - 1) \/ AfterLost(i)
            /\ \A k \in 1 .. Size(written[i]) : ring[written[i].at + k - 1] = ContentOf(written[i])[k]
            /\ AfterLost(i) => /\ ring[End(i - 1)] = Word("lost", 3, {})
                               /\ ring[End(i - 1) + 2].size \in Nat
        BY <2>0, <2>2 DEF Layout
      <4>4. AfterLost(i)' <=> AfterLost(i)
        BY <4>2 DEF AfterLost
      <4>5. ASSUME NEW k \in 1 .. Size(written[i])
            PROVE  written[i].at + k - 1 \in 0 .. data_head - 1
        BY <2>2, <4>1
      <4>6. AfterLost(i) => End(i - 1) \in 0 .. data_head - 1 /\ End(i - 1) + 2 \in 0 .. data_head - 1
        BY <2>2, <4>1 DEF AfterLost
      <4> QED
        BY <2>1, <2>5, <4>2, <4>3, <4>4, <4>5, <4>6
    <3>3. /\ written'[n + 1].at = End(n)' \/ AfterLost(n + 1)'
          /\ \A k \in 1 .. Size(written[n + 1])' :
               ring'[written'[n + 1].at + k - 1] = ContentOf(written[n + 1])'[k]
          /\ AfterLost(n + 1)' => /\ ring'[End(n)'] = Word("lost", 3, {})
                                  /\ ring'[End(n)' + 2].size \in Nat
      <4>1. n \in 0 .. n /\ n + 1 - 1 = n
        BY <2>2
      <4>2. End(n)' = data_head
        BY <2>2, <2>7, <4>1
      <4>3. AfterLost(n + 1)' <=> new.at = data_head + 3
        BY <2>3, <4>1, <4>2 DEF AfterLost
      <4>4. missed > 0 \/ new.at = data_head
        BY <2>1, <2>2
      <4>5. missed > 0 => new.at = data_head + 3 /\ ring'[data_head + 2].size = missed
        BY <2>1, <2>2 DEF Word
      <4> QED
        BY <2>1, <2>2, <2>3, <2>6, <4>2, <4>3, <4>4, <4>5
    <3>4. \A i \in 1 .. n + 1 : i \in 1 .. n \/ i = n + 1
      BY <2>2
    <3>5. ASSUME NEW i \in 1 .. n + 1
          PROVE  /\ written'[i].at = End(i - 1)' \/ AfterLost(i)'
                 /\ \A k \in 1 .. Size(written[i])' :
                      ring'[written'[i].at + k - 1] = ContentOf(written[i])'[k]
                 /\ AfterLost(i)' => /\ ring'[End(i - 1)'] = Word("lost", 3, {})
                                     /\ ring'[End(i - 1)' + 2].size \in Nat
      <4>1. n + 1 - 1 = n
        BY <2>2
      <4> QED
        BY <3>2, <3>3, <3>4, <4>1
    <3> QED
      BY <2>1, <2>2, <2>3, <2>7, <3>1, <3>5 DEF Layout
  <2>11. Grown
    BY <2>0, <2>1, <2>2, <2>3, <2>8 DEF Grown
  <2>12. ASSUME NEW f, Losses(f) PROVE \E g : Losses(g)' /\ Extended(f, g)
    <3>1. /\ f \in [Nat -> Nat] /\ f[0] = 0 /\ f[n] + missed = refused
          /\ \A i \in 1 .. n : f[i] = f[i - 1] + LossOf(i)
      BY <2>0, <2>2, <2>12 DEF Losses
    <3>2. PICK g \in [Nat -> Nat] : g[n + 1] = refused /\ \A i \in 0 .. n : g[i] = f[i]
      <4> DEFINE e == [f EXCEPT ![n + 1] = refused]
      <4>5. n \in Nat /\ refused \in Nat
        BY <2>2
      <4>6. f \in [Nat -> Nat]
        BY <3>1
      <4>3. n \in Nat /\ n + 1 \in Nat /\ refused \in Nat /\ f \in [Nat -> Nat]
        BY <4>5, <4>6
      <4>1. e \in [Nat -> Nat] /\ e[n + 1] = refused
        BY <4>3
      <4>4. \A i \in 0 .. n : i \in Nat /\ i # n + 1
        BY <4>3
      <4>2. \A i \in 0 .. n : e[i] = f[i]
        BY <4>3, <4>4
      <4> HIDE DEF e
      <4> QED
        BY <4>1, <4>2
    <3>3. ASSUME NEW i \in 1 .. n PROVE g[i] = g[i - 1] + LossOf(i)'
      <4>1. /\ i - 1 \in 0 .. n /\ i \in 0 .. n
            /\ Size(written[i]) \in Nat /\ Size(written[i]) >= 2 /\ written[i].at \in Nat
            /\ End(i) = written[i].at + Size(written[i])
            /\ End(i - 1) \in Nat /\ End(i) <= data_head
        BY <2>0, Places
      <4>2. End(i - 1)' = End(i - 1) /\ written'[i] = written[i]
        BY <2>3, <2>7, <4>1
      <4>3. AfterLost(i)' <=> AfterLost(i)
        BY <4>2 DEF AfterLost
      <4>4. AfterLost(i) => End(i - 1) + 2 \in 0 .. data_head - 1
        <5>1. AfterLost(i) => written[i].at = End(i - 1) + 3
          BY DEF AfterLost
        <5>2. AfterLost(i) => End(i - 1) + 3 + Size(written[i]) <= data_head
          BY <4>1, <5>1
        <5>3. data_head \in Nat
          BY <2>2
        <5> QED
          BY <4>1, <5>2, <5>3
      <4>5. LossOf(i)' = LossOf(i)
        BY <2>1, <4>2, <4>3, <4>4 DEF LossOf
      <4> QED
        BY <3>1, <3>2, <4>1, <4>5
    <3>4. g[n + 1] = g[n] + LossOf(n + 1)'
      <4>1. n \in 0 .. n /\ n + 1 - 1 = n
        BY <2>2
      <4>2. End(n)' = data_head
        BY <2>2, <2>7, <4>1
      <4>3. AfterLost(n + 1)' <=> new.at = data_head + 3
        BY <2>3, <4>1, <4>2 DEF AfterLost
      <4>4. LossOf(n + 1)' = missed
        <5>1. CASE missed > 0
          <6>1. new.at = data_head + 3 /\ ring'[data_head + 2] = Word("data", missed, {})
            BY <2>1, <5>1
          <6>2. LossOf(n + 1)' = ring'[data_head + 2].size
            BY <4>1, <4>2, <4>3, <6>1 DEF LossOf
          <6> QED
            BY <6>1, <6>2 DEF Word
        <5>2. CASE missed = 0
          BY <2>1, <2>2, <4>3, <5>2 DEF LossOf
        <5> QED
          BY <2>2, <5>1, <5>2
      <4>5. f[n] \in Nat
        BY <2>2, <3>1
      <4> QED
        BY <2>2, <3>1, <3>2, <4>1, <4>4, <4>5
    <3>10. ASSUME NEW i \in 0 .. n + 1, NEW j \in 0 .. n + 1, i <= j PROVE g[i] <= g[j]
      <4>1. \A k \in 0 .. n : k \in Nat /\ f[k] \in Nat /\ f[k] <= f[n] /\ n \in 0 .. n
        <5>1. n \in Nat /\ f \in [Nat -> Nat]
          BY <2>2, <3>1
        <5>2. \A k \in 0 .. n : k \in Nat /\ k <= n /\ n \in 0 .. n
          BY <5>1
        <5>3. \A a, b \in 0 .. n : a <= b => f[a] <= f[b]
          BY <2>0, <2>12 DEF Losses
        <5> QED
          BY <5>1, <5>2, <5>3
      <4>2. f[n] <= refused
        <5>1. f[n] \in Nat /\ missed \in Nat /\ f[n] + missed = refused
          BY <2>2, <3>1
        <5> QED
          BY <5>1
      <4>3. CASE j \in 0 .. n
        <5>1. i \in 0 .. n
          BY <2>2, <3>10, <4>3
        <5>2. f[i] <= f[j]
          BY <2>0, <2>12, <3>10, <4>3, <5>1 DEF Losses
        <5> QED
          BY <3>2, <4>3, <5>1, <5>2
      <4>4. CASE j = n + 1
        <5>1. i \in 0 .. n \/ i = n + 1
          BY <2>2
        <5>3. i \in 0 .. n => /\ g[i] = f[i] /\ f[i] \in Nat /\ f[i] <= f[n]
                               /\ f[n] \in Nat /\ refused \in Nat
          BY <2>2, <3>2, <4>1
        <5>2. i \in 0 .. n => g[i] <= refused
          <6>1. ASSUME NEW u \in Nat, NEW v \in Nat, NEW w \in Nat, u <= v, v <= w PROVE u <= w
            BY <6>1
          <6> QED
            BY <4>2, <5>3, <6>1
        <5> QED
          BY <2>2, <3>2, <4>4, <5>1, <5>2
      <4> QED
        BY <2>2, <4>3, <4>4
    <3>5. g[n + 1] + missed' = refused'
      BY <2>1, <2>2, <3>2
    <3>6. g[0] = 0
      BY <2>2, <3>1, <3>2
    <3>7. \A i \in 1 .. n + 1 : g[i] = g[i - 1] + LossOf(i)'
      <4>3. n \in Nat
        BY <2>2
      <4>1. \A i \in 1 .. n + 1 : i \in 1 .. n \/ i = n + 1
        BY <4>3
      <4>2. n + 1 - 1 = n
        BY <2>2
      <4> QED
        BY <3>3, <3>4, <4>1, <4>2
    <3>8. Losses(g)'
      BY <2>3, <3>2, <3>5, <3>6, <3>7, <3>10 DEF Losses
    <3>9. Extended(f, g)
      BY <2>0, <3>2 DEF Extended
    <3> QED
      BY <3>8, <3>9
  <2> QED
    BY <2>9, <2>10, <2>11, <2>12
<1> QED
  BY <1>1, <1>2

\* The same of a ring that has been read.
LEMMA PutGrows ==
  ASSUME RingTypes, data_tail \in Nat, data_tail <= data_head, NEW r \in RecordType,
         r.type = "sample" => r.bits \in Shapes[kind],
         UNCHANGED <<kind, nwords, mapped>>,
         Put(ContentOf(r), r.bits)
  PROVE  /\ RingTypes'
         /\ data_head <= data_head' /\ Len(written) <= Len(written')
         /\ \A i \in 1 .. Len(written) : written'[i] = written[i]
         /\ \A i \in 1 .. Len(written') : i > Len(written) => written'[i].at >= data_head
         /\ \/ missed' = 0 /\ refused' = refused
            \/ missed' = missed + 1 /\ refused' = refused + 1
<1>0. /\ Len(written) \in Nat /\ DOMAIN written = 1 .. Len(written) /\ written \in Seq(RecordType)
      /\ data_head \in Nat /\ missed \in Nat /\ refused \in Nat
  BY DEF RingTypes
<1>1. CASE Refused
  <2>1. UNCHANGED <<kind, nwords, mapped, ring, data_head, written>>
        /\ missed' = missed + 1 /\ refused' = refused + 1
    BY <1>1 DEF Refused
  <2>2. RingTypes'
    BY <2>1 DEF RingTypes, RecordType, BitSets, Ibs
  <2> QED
    BY <1>0, <2>1, <2>2
<1>2. CASE ~Refused
  <2>1. PICK new \in RecordType :
           /\ new.type = r.type /\ new.bits = r.bits
           /\ new.at = data_head + (IF missed > 0 THEN 3 ELSE 0)
           /\ written' = Append(written, new)
           /\ data_head' = new.at + Size(r)
           /\ missed' = 0 /\ refused' = refused
           /\ DOMAIN ring' = 0 .. DataSize - 1
    BY <1>2, PutWrites
  <2>0. PICK n \in Nat : n = Len(written)
    BY <1>0
  <2>3. /\ written' \in Seq(RecordType) /\ Len(written') = n + 1 /\ DOMAIN written' = 1 .. n + 1
        /\ written'[n + 1] = new /\ \A i \in 1 .. n : written'[i] = written[i]
    BY <1>0, <2>0, <2>1
  <2>4. Size(r) \in Nat
    BY ContentWords DEF RecordType
  <2>8. data_head <= data_head' /\ data_head' \in Nat /\ new.at >= data_head
    BY <1>0, <2>1, <2>4
  <2>10. \A i \in 1 .. n + 1 : i \in 1 .. n \/ i = n + 1
    BY <2>4
  <2>9. RingTypes'
    <3>1. \A i \in 1 .. n + 1 : written'[i].type = "sample" => written'[i].bits \in Shapes[kind]
      <4>1. \A i \in 1 .. n : written[i].type = "sample" => written[i].bits \in Shapes[kind]
        BY <1>0, <2>0 DEF RingTypes
      <4> QED
        BY <2>1, <2>3, <2>10, <4>1
    <3> QED
      BY <2>1, <2>3, <2>8, <3>1 DEF RingTypes, RecordType, BitSets, Ibs
  <2>11. n <= n + 1 /\ \A i \in 1 .. n + 1 : i > n => i = n + 1
    OBVIOUS
  <2>12. /\ Len(written) <= Len(written')
         /\ \A i \in 1 .. Len(written') : i > Len(written) => written'[i].at >= data_head
    BY <2>0, <2>3, <2>8, <2>11
  <2> QED
    BY <2>0, <2>1, <2>3, <2>8, <2>9, <2>12
<1> QED
  BY <1>1, <1>2

\* What the drain finds at record c + 1, and at a LOST record before it.
LEMMA ReadPlaces ==
  ASSUME RingTypes, Layout, NEW c \in Nat, c < Len(written)
  PROVE  /\ \A k \in 1 .. Size(written[c + 1]) :
              ring[(written[c + 1].at + k - 1) % DataSize] = ContentOf(written[c + 1])[k]
         /\ AfterLost(c + 1) => /\ ring[End(c) % DataSize] = Word("lost", 3, {})
                                /\ ring[(End(c) + 2) % DataSize].size = LossOf(c + 1)
                                /\ written[c + 1].at = End(c) + 3 /\ LossOf(c + 1) \in Nat
         /\ ~AfterLost(c + 1) => written[c + 1].at = End(c) /\ LossOf(c + 1) = 0
         /\ c + 1 \in 1 .. Len(written) /\ c \in 0 .. Len(written)
<1>1. PICK i \in 1 .. Len(written) : i = c + 1 /\ i - 1 = c
  BY Places
<1>2. /\ i - 1 \in 0 .. Len(written) /\ i \in 0 .. Len(written)
      /\ Size(written[i]) \in Nat /\ Size(written[i]) >= 2 /\ written[i].at \in Nat
      /\ End(i - 1) <= written[i].at
      /\ End(i) = written[i].at + Size(written[i])
      /\ End(i - 1) \in Nat /\ End(i) <= data_head
  BY Places
<1>3. /\ written[i].at = End(i - 1) \/ AfterLost(i)
      /\ \A k \in 1 .. Size(written[i]) : ring[written[i].at + k - 1] = ContentOf(written[i])[k]
      /\ AfterLost(i) => /\ ring[End(i - 1)] = Word("lost", 3, {})
                         /\ ring[End(i - 1) + 2].size \in Nat
  BY Places DEF Layout
<1>4. data_head \in Nat /\ data_head < DataSize
  BY DEF RingTypes, Layout
<1>5. DataSize \in Nat \ {0}
  BY RingSize
<1>6. ASSUME NEW k \in 1 .. Size(written[i])
      PROVE  ring[(written[i].at + k - 1) % DataSize] = ContentOf(written[i])[k]
  <2>1. written[i].at + k - 1 \in 0 .. DataSize - 1 /\ written[i].at + k - 1 \in Int
    <3>1. /\ written[i].at \in Nat /\ k \in Nat /\ k >= 1 /\ Size(written[i]) \in Nat
          /\ k <= Size(written[i]) /\ written[i].at + Size(written[i]) <= data_head
      BY <1>2
    <3> QED
      BY <1>4, <1>5, <3>1, SMTT(30)
  <2>2. (written[i].at + k - 1) % DataSize = written[i].at + k - 1
    BY <1>5, <2>1, Remainder
  <2> QED
    BY <1>3, <2>2
<1>7. ASSUME AfterLost(i)
      PROVE  /\ ring[End(i - 1) % DataSize] = Word("lost", 3, {})
             /\ ring[(End(i - 1) + 2) % DataSize].size = LossOf(i)
             /\ written[i].at = End(i - 1) + 3 /\ LossOf(i) \in Nat
  <2>1. written[i].at = End(i - 1) + 3
    BY <1>7 DEF AfterLost
  <2>2. End(i - 1) + 3 + Size(written[i]) <= data_head
    BY <1>2, <2>1
  <2>3. /\ End(i - 1) \in 0 .. DataSize - 1 /\ End(i - 1) \in Int
        /\ End(i - 1) + 2 \in 0 .. DataSize - 1 /\ End(i - 1) + 2 \in Int
    <3>1. End(i - 1) \in Nat /\ Size(written[i]) \in Nat /\ Size(written[i]) >= 2
      BY <1>2
    <3> QED
      BY <1>4, <1>5, <2>2, <3>1, SMTT(30)
  <2>4. End(i - 1) % DataSize = End(i - 1) /\ (End(i - 1) + 2) % DataSize = End(i - 1) + 2
    BY <1>5, <2>3, Remainder
  <2> QED
    BY <1>3, <1>7, <2>1, <2>4 DEF LossOf
<1>8. ~AfterLost(i) => written[i].at = End(i - 1) /\ LossOf(i) = 0
  BY <1>3 DEF LossOf
<1> QED
  BY <1>1, <1>2, <1>6, <1>7, <1>8

-----------------------------------------------------------------------------
(* What is decoded.  SamplesOf(c) are the samples among the first c records. *)

SamplesOf(c) == {i \in 1 .. c : written[i].type = "sample"}
Counts(b, s) == b \in s /\ (b = "brn_misp" => "brn_ret" \in s)

LEMMA SmallerOfTwo ==
  ASSUME NEW a \in Int, NEW b \in Int
  PROVE  Min({a, b}) = IF a <= b THEN a ELSE b
<1> DEFINE m == IF a <= b THEN a ELSE b
<1>1. m \in {a, b} /\ \A y \in {a, b} : m <= y
  OBVIOUS
<1>2. ASSUME NEW x \in {a, b}, \A y \in {a, b} : x <= y PROVE x = m
  BY <1>2
<1> HIDE DEF m
<1>3. Min({a, b}) = m
  BY <1>1, <1>2 DEF Min
<1> QED
  BY <1>3 DEF m

LEMMA SmallestOfThree ==
  ASSUME NEW a \in Int, NEW b \in Int, NEW c \in Int
  PROVE  Min({a, b, c}) \in {a, b, c} /\ \A y \in {a, b, c} : Min({a, b, c}) <= y
<1> DEFINE d == IF a <= b THEN a ELSE b
           m == IF d <= c THEN d ELSE c
<1>1. m \in {a, b, c} /\ \A y \in {a, b, c} : m <= y
  OBVIOUS
<1> QED
  BY <1>1 DEF Min

ReadOf(content, len, read) ==
  (\E W : read \in Seq(W)) /\ Len(read) = len /\ \A i \in 1 .. len : read[i] = content[i + 1]

\* The payload of a record of the kernel.
LEMMA PayloadRead ==
  ASSUME NEW p \in Nat, NEW size \in Nat, NEW content,
         \A k \in 1 .. size : ring[(p + k - 1) % DataSize] = content[k],
         NEW len \in Nat, len < size
  PROVE  ReadOf(content, len, RingRead(p + 1, len))
<1> DEFINE W == {content[k] : k \in 1 .. size}
           read == RingRead(p + 1, len)
<1>1. ASSUME NEW i \in 1 .. len PROVE ring[((p + 1) + i - 1) % DataSize] = content[i + 1] /\ content[i + 1] \in W
  <2>1. i + 1 \in 1 .. size /\ (p + 1) + i - 1 = p + (i + 1) - 1
    OBVIOUS
  <2> QED
    BY <2>1
<1>2. read = [i \in 1 .. len |-> ring[((p + 1) + i - 1) % DataSize]]
  BY DEF RingRead
<1> HIDE DEF read, W
<1>3. read \in [1 .. len -> W] /\ \A i \in 1 .. len : read[i] = content[i + 1]
  BY <1>1, <1>2
<1>4. read \in Seq(W) /\ Len(read) = len
  BY <1>3
<1> QED
  BY <1>3, <1>4 DEF read, ReadOf

\* The registers of a sample say what it carries, a branch that did not
\* retire apart.
LEMMA Decoded ==
  ASSUME kind \in {"op", "fetch"}, NEW bits \in Shapes[kind], NEW words, Len(words) \in Nat, Len(words) >= 5,
         \A j \in 1 .. Len(words) : words[j].bits = bits \cap Register(j),
         NEW b \in Bits
  PROVE  b \in Decode(words) <=> Counts(b, bits)
<1>1. CASE kind = "op"
  <2>1. /\ words[3].bits = bits \cap {"brn_ret", "brn_misp"}
        /\ words[4].bits = bits \cap ({"rmt_node"} \cup Sources)
        /\ words[5].bits = bits \cap {"dc_miss", "l1tlb_miss", "l2tlb_miss"}
    <3>1. 3 \in 1 .. Len(words) /\ 4 \in 1 .. Len(words) /\ 5 \in 1 .. Len(words)
      OBVIOUS
    <3>2. /\ Register(3) = {"brn_ret", "brn_misp"}
          /\ Register(4) = {"rmt_node"} \cup Sources
          /\ Register(5) = {"dc_miss", "l1tlb_miss", "l2tlb_miss"}
      BY <1>1 DEF Register
    <3> QED
      BY <3>1, <3>2
  <2>2. /\ 3 <= Len(words) /\ 4 <= Len(words) /\ 5 <= Len(words)
    OBVIOUS
  <2>3. b \in Decode(words) <=> \/ b \in words[3].bits /\ "brn_ret" \in words[3].bits
                               \/ b \in words[4].bits \/ b \in words[5].bits
    BY <1>1, <2>2 DEF Decode, DecodeOp
  <2>4. "ic_miss" \notin bits
    BY <1>1, ShapesAssumption
  <2> QED
    BY <2>1, <2>3, <2>4 DEF Counts, Bits, Sources
<1>2. CASE kind = "fetch"
  <2>1. words[1].bits = bits \cap FetchBits
    <3>1. 1 \in 1 .. Len(words) /\ Register(1) = FetchBits
      BY <1>2 DEF Register
    <3> QED
      BY <3>1
  <2>2. bits \subseteq FetchBits
    BY <1>2, ShapesAssumption
  <2>3. Decode(words) = words[1].bits
    BY <1>2 DEF Decode, DecodeFetch
  <2> QED
    BY <2>1, <2>2, <2>3 DEF Counts, FetchBits
<1> QED
  BY <1>1, <1>2

Tallied(s, bits) ==
  [s EXCEPT !.count = @ + 1,
            !.tally = [b \in Bits |-> @[b] + IF Counts(b, bits) THEN 1 ELSE 0]]

LEMMA IbsDecoded ==
  ASSUME RingTypes, Ibs, NEW r, r.type = "sample", r.bits \in Shapes[kind], NEW p \in Nat,
         \A k \in 1 .. Size(r) : ring[(p + k - 1) % DataSize] = ContentOf(r)[k]
  PROVE  IbsRecord(RingRead(p + 1, Min({Size(r) - 1, MaxPayload}))) = Tallied(state, r.bits)
<1>1. /\ nwords \in Nat /\ nwords >= 5 /\ kind \in {"op", "fetch"}
      /\ MaxPayload \in Nat /\ MaxWords \in Nat /\ MaxWords >= 5 /\ MaxWords <= MaxPayload - 1
  BY RingAssumption DEF RingTypes, Kinds, Ibs
<1>2. Size(r) = nwords + 2 /\ ContentOf(r) = SampleOf(r.bits)
  BY DEF Size, ContentOf
<1>3. /\ SampleOf(r.bits)[2] = Word("data", nwords, {})
      /\ \A i \in 1 .. nwords : SampleOf(r.bits)[i + 2] = Word("data", 0, r.bits \cap Register(i))
  BY SampleWords
<1> DEFINE len == Min({Size(r) - 1, MaxPayload})
           payload == RingRead(p + 1, len)
<1>4. len = (IF nwords + 1 <= MaxPayload THEN nwords + 1 ELSE MaxPayload) /\ len \in Nat
  <2>1. Size(r) - 1 = nwords + 1 /\ nwords + 1 \in Int
    BY <1>1, <1>2
  <2> QED
    BY <1>1, <2>1, SmallerOfTwo
<1> HIDE DEF len
<1>5. len < Size(r) /\ Size(r) \in Nat /\ len <= nwords + 1 /\ len >= 6
  BY <1>1, <1>2, <1>4
<1>6. PICK W : /\ payload \in Seq(W) /\ Len(payload) = len
               /\ \A i \in 1 .. len : payload[i] = ContentOf(r)[i + 1]
  <2> DEFINE content == ContentOf(r)
             size == Size(r)
  <2>1. /\ len \in Nat /\ len < size /\ size \in Nat
        /\ \A k \in 1 .. size : ring[(p + k - 1) % DataSize] = content[k]
    BY <1>4, <1>5
  <2> HIDE DEF content, size
  <2>2. ReadOf(content, len, RingRead(p + 1, len))
    BY <2>1, PayloadRead
  <2> QED
    BY <2>2 DEF content, ReadOf
<1> HIDE DEF payload
<1>7. payload[1] = Word("data", nwords, {})
  <2>1. 1 \in 1 .. len /\ 1 + 1 = 2
    BY <1>4, <1>5
  <2> QED
    BY <1>2, <1>3, <1>6, <2>1
<1>8. ASSUME NEW i \in 1 .. len, i >= 2
      PROVE payload[i].bits = r.bits \cap Register(i - 1)
  <2>1. i - 1 \in 1 .. nwords /\ i + 1 = (i - 1) + 2
    BY <1>1, <1>4, <1>5, <1>8
  <2>2. payload[i] = Word("data", 0, r.bits \cap Register(i - 1))
    BY <1>2, <1>3, <1>6, <2>1
  <2> QED
    BY <2>2 DEF Word
<1> DEFINE n == Min({nwords, len - 1, MaxWords})
           words == SubSeq(payload, 2, n + 1)
<1>9. n \in Nat /\ n >= 5 /\ n <= len - 1
  <2>1. nwords \in Int /\ len - 1 \in Int /\ MaxWords \in Int
    BY <1>1, <1>4
  <2>2. n \in {nwords, len - 1, MaxWords} /\ \A y \in {nwords, len - 1, MaxWords} : n <= y
    BY <2>1, SmallestOfThree
  <2> HIDE DEF n
  <2> QED
    BY <1>1, <1>4, <1>5, <2>2
<1> HIDE DEF n
<1>10. Len(words) = n /\ \A j \in 1 .. n : words[j] = payload[j + 1]
  BY <1>4, <1>6, <1>9
<1> HIDE DEF words
<1>11. \A j \in 1 .. Len(words) : words[j].bits = r.bits \cap Register(j)
  <2> TAKE j \in 1 .. Len(words)
  <2>1. j \in 1 .. n /\ j + 1 \in 1 .. len /\ j + 1 >= 2 /\ j + 1 - 1 = j
    BY <1>4, <1>9, <1>10
  <2> QED
    BY <1>8, <1>10, <2>1
<1>12. Len(words) \in Nat /\ Len(words) >= 5
  BY <1>9, <1>10
<1>13. \A b \in Bits : b \in Decode(words) <=> Counts(b, r.bits)
  BY <1>1, <1>11, <1>12, Decoded
<1>14. payload # <<>>
  BY <1>4, <1>5, <1>6
<1>15. payload[1].size = nwords
  BY <1>7 DEF Word
<1>16. IbsRecord(payload) =
         IF n > 0 THEN [state EXCEPT !.count = @ + 1,
                          !.tally = [b \in Bits |-> @[b] + IF b \in Decode(words) THEN 1 ELSE 0]]
                  ELSE [state EXCEPT !.decode_skipped = @ + 1]
  BY <1>6, <1>14, <1>15 DEF IbsRecord, n, words
<1>17. IbsRecord(payload) =
         [state EXCEPT !.count = @ + 1,
            !.tally = [b \in Bits |-> @[b] + IF b \in Decode(words) THEN 1 ELSE 0]]
  BY <1>9, <1>16
<1>18. [b \in Bits |-> state.tally[b] + IF b \in Decode(words) THEN 1 ELSE 0]
         = [b \in Bits |-> state.tally[b] + IF Counts(b, r.bits) THEN 1 ELSE 0]
  BY <1>13
<1>19. IbsRecord(payload) = Tallied(state, r.bits)
  BY <1>17, <1>18 DEF Tallied
<1> QED
  BY <1>19 DEF payload, len

LEMMA SymbolDecoded ==
  ASSUME RingTypes, ~Ibs, NEW r, r.type = "sample", NEW p \in Nat,
         \A k \in 1 .. Size(r) : ring[(p + k - 1) % DataSize] = ContentOf(r)[k],
         NEW memory
  PROVE  SymbolRecord(RingRead(p + 1, Min({Size(r) - 1, MaxPayload})), memory)
           = RecordAddr(r.bits, memory)
<1>1. Size(r) = 2 /\ ContentOf(r) = SampleOf(r.bits) /\ SampleOf(r.bits)[2] = Word("data", 0, r.bits)
  BY SampleWords DEF Size, ContentOf
<1>2. MaxPayload \in Nat /\ MaxPayload >= 1
  BY RingAssumption
<1> DEFINE len == Min({Size(r) - 1, MaxPayload})
           payload == RingRead(p + 1, len)
<1>3. len = 1
  <2>1. Size(r) - 1 = 1 /\ 1 \in Int /\ MaxPayload \in Int
    BY <1>1, <1>2
  <2> QED
    BY <1>2, <2>1, SmallerOfTwo
<1> HIDE DEF len
<1>4. Size(r) \in Nat /\ len \in Nat /\ len < Size(r)
  BY <1>1, <1>3
<1>5. PICK W : /\ payload \in Seq(W) /\ Len(payload) = len
               /\ \A i \in 1 .. len : payload[i] = ContentOf(r)[i + 1]
  <2> DEFINE content == ContentOf(r)
             size == Size(r)
  <2>1. /\ len \in Nat /\ len < size /\ size \in Nat
        /\ \A k \in 1 .. size : ring[(p + k - 1) % DataSize] = content[k]
    BY <1>4
  <2> HIDE DEF content, size
  <2>2. ReadOf(content, len, RingRead(p + 1, len))
    BY <2>1, PayloadRead
  <2> QED
    BY <2>2 DEF content, ReadOf
<1> HIDE DEF payload
<1>6. payload # <<>> /\ payload[1] = Word("data", 0, r.bits)
  <2>1. 1 \in 1 .. len /\ 1 + 1 = 2 /\ len # 0
    BY <1>3
  <2>2. payload[1] = ContentOf(r)[1 + 1]
    BY <1>5, <2>1
  <2>3. payload # <<>>
    BY <1>5, <2>1
  <2> QED
    BY <1>1, <2>1, <2>2, <2>3
<1>7. SymbolRecord(payload, memory) = RecordAddr(r.bits, memory)
  BY <1>6 DEF SymbolRecord, Word
<1> QED
  BY <1>7 DEF payload, len

-----------------------------------------------------------------------------
(* The histogram of addresses.  Sums(lines, f): f[i] is the total of the    *)
(* first i lines.                                                            *)

LEMMA Smallest ==
  ASSUME NEW T, T \subseteq Nat, T # {}
  PROVE  \E n \in T : \A m \in T : n <= m
<1> DEFINE R == {ss \in Nat \X Nat : ss[1] < ss[2]}
<1>1. IsWellFoundedOn(R, Nat)
  BY NatLessThanWellFounded DEF OpToRel
<1> HIDE DEF R
<1>2. PICK n \in T : \A m \in T : ~(<<m, n>> \in R)
  BY <1>1, WFMin
<1>3. ASSUME NEW m \in T PROVE n <= m
  <2>1. ~(<<m, n>> \in R)
    BY <1>2
  <2> QED
    BY <2>1 DEF R
<1> QED
  BY <1>3

LEMMA SetInduction ==
  ASSUME NEW S, 0 \in S, \A n \in Nat : n \in S => n + 1 \in S
  PROVE  Nat \subseteq S
<1> SUFFICES ASSUME Nat \ S # {} PROVE FALSE
  OBVIOUS
<1>1. PICK n \in Nat \ S : \A m \in Nat \ S : n <= m
  BY Smallest
<1>2. n - 1 \in Nat
  BY <1>1
<1> QED
  BY <1>1, <1>2

Line == [addr : BitSets, count : Nat]
Sums(lines, f) ==
  /\ f \in [0 .. Len(lines) -> Nat] /\ f[0] = 0
  /\ \A i \in 1 .. Len(lines) : f[i] = f[i - 1] + lines[i].count

LEMMA SumsAgree ==
  ASSUME NEW lines \in Seq(Line), NEW f, NEW g, Sums(lines, f), Sums(lines, g)
  PROVE  f[Len(lines)] = g[Len(lines)]
<1>0. PICK n \in Nat : n = Len(lines)
  OBVIOUS
<1>1. /\ f[0] = 0 /\ \A i \in 1 .. n : f[i] = f[i - 1] + lines[i].count
      /\ g[0] = 0 /\ \A i \in 1 .. n : g[i] = g[i - 1] + lines[i].count
  BY <1>0 DEF Sums
<1> DEFINE S == {i \in Nat : i <= n => f[i] = g[i]}
<1>2. 0 \in S
  BY <1>1
<1>3. ASSUME NEW i \in Nat, i \in S PROVE i + 1 \in S
  <2>1. i + 1 <= n => i + 1 \in 1 .. n /\ i <= n /\ i + 1 - 1 = i
    OBVIOUS
  <2> QED
    BY <1>1, <1>3, <2>1
<1> HIDE DEF S
<1>4. Nat \subseteq S
  BY <1>2, <1>3, SetInduction
<1>5. f[n] = g[n]
  BY <1>4 DEF S
<1> QED
  BY <1>0, <1>5

LEMMA SumsExist ==
  ASSUME NEW lines \in Seq(Line)
  PROVE  \E f : /\ Sums(lines, f)
                /\ f = [i \in 0 .. Len(lines) |-> IF i = 0 THEN 0 ELSE f[i - 1] + lines[i].count]
<1>0. PICK n \in Nat : n = Len(lines)
  OBVIOUS
<1>1. ASSUME NEW i \in 1 .. n PROVE lines[i].count \in Nat
  <2>1. lines[i] \in Line
    BY <1>0
  <2> QED
    BY <2>1 DEF Line
<1> DEFINE Upto(k, f) == /\ f \in [0 .. k -> Nat] /\ f[0] = 0
                         /\ \A i \in 1 .. k : f[i] = f[i - 1] + lines[i].count
           S == {k \in Nat : k <= n => \E f : Upto(k, f)}
<1>2. 0 \in S
  <2>1. Upto(0, [i \in 0 .. 0 |-> 0])
    OBVIOUS
  <2> HIDE DEF Upto
  <2> QED
    BY <2>1
<1>3. ASSUME NEW k \in Nat, k \in S PROVE k + 1 \in S
  <2> SUFFICES ASSUME k + 1 <= n PROVE \E f : Upto(k + 1, f)
    OBVIOUS
  <2>1. PICK f : Upto(k, f)
    BY <1>3
  <2>5. lines[k + 1].count \in Nat
    BY <1>1
  <2> DEFINE e == [i \in 0 .. k + 1 |-> IF i = k + 1 THEN f[k] + lines[k + 1].count ELSE f[i]]
  <2>2. \A i \in 0 .. k : e[i] = f[i] /\ f[i] \in Nat
    BY <2>1
  <2>3. e[k + 1] = e[k] + lines[k + 1].count
    BY <2>1
  <2>4. e \in [0 .. k + 1 -> Nat]
    BY <2>1, <2>2, <2>5
  <2>6. ASSUME NEW i \in 1 .. k + 1 PROVE e[i] = e[i - 1] + lines[i].count
    <3>1. CASE i = k + 1
      BY <2>3, <3>1
    <3>2. CASE i \in 1 .. k
      <4>1. i \in 0 .. k /\ i - 1 \in 0 .. k
        BY <3>2
      <4>2. f[i] = f[i - 1] + lines[i].count
        BY <2>1, <3>2
      <4> HIDE DEF e
      <4> QED
        BY <2>2, <4>1, <4>2
    <3> QED
      BY <3>1, <3>2
  <2>7. e[0] = 0
    BY <2>1, <2>2
  <2> HIDE DEF e
  <2> QED
    BY <2>4, <2>6, <2>7
<1> HIDE DEF S
<1>4. Nat \subseteq S
  BY <1>2, <1>3, SetInduction
<1>5. PICK f : Upto(n, f)
  <2> HIDE DEF Upto
  <2> QED
    BY <1>4 DEF S
<1>6. \A i \in 0 .. n : f[i] = IF i = 0 THEN 0 ELSE f[i - 1] + lines[i].count
  BY <1>5
<1>7. f = [i \in 0 .. n |-> IF i = 0 THEN 0 ELSE f[i - 1] + lines[i].count]
  BY <1>5, <1>6
<1> QED
  BY <1>0, <1>5, <1>7 DEF Sums

\* Total adds up the counts.
LEMMA TotalIs ==
  ASSUME NEW lines \in Seq(Line), NEW f, Sums(lines, f)
  PROVE  Total(lines) = f[Len(lines)]
<1> DEFINE Is(u) == u = [i \in 0 .. Len(lines) |-> IF i = 0 THEN 0 ELSE u[i - 1] + lines[i].count]
           u == CHOOSE u : Is(u)
<1>1. Total(lines) = u[Len(lines)]
  BY DEF Total
<1>2. \E v : Is(v)
  BY SumsExist
<1> HIDE DEF Is
<1>3. Is(u)
  BY <1>2
<1> HIDE DEF u
<1>4. PICK v : Sums(lines, v) /\ Is(v)
  BY SumsExist DEF Is
<1>5. Sums(lines, u)
  <2>0. PICK n \in Nat : n = Len(lines)
    OBVIOUS
  <2>1. u = [i \in 0 .. n |-> IF i = 0 THEN 0 ELSE u[i - 1] + lines[i].count]
    BY <1>3, <2>0 DEF Is
  <2>2. v \in [0 .. n -> Nat] /\ v[0] = 0 /\ \A i \in 1 .. n : v[i] = v[i - 1] + lines[i].count
    BY <1>4, <2>0 DEF Sums
  <2>3. u[0] = 0 /\ \A i \in 1 .. n : u[i] = u[i - 1] + lines[i].count
    <3>1. 0 \in 0 .. n
      OBVIOUS
    <3>2. \A i \in 1 .. n : i \in 0 .. n /\ i # 0
      OBVIOUS
    <3>3. \A i \in 0 .. n : u[i] = IF i = 0 THEN 0 ELSE u[i - 1] + lines[i].count
      BY <2>1
    <3> QED
      BY <3>1, <3>2, <3>3
  <2> DEFINE S == {i \in Nat : i <= n => u[i] = v[i]}
  <2>4. 0 \in S
    BY <2>2, <2>3
  <2>5. ASSUME NEW i \in Nat, i \in S PROVE i + 1 \in S
    <3>1. i + 1 <= n => i + 1 \in 1 .. n /\ i <= n /\ i + 1 - 1 = i
      OBVIOUS
    <3> QED
      BY <2>2, <2>3, <2>5, <3>1
  <2> HIDE DEF S
  <2>6. Nat \subseteq S
    BY <2>4, <2>5, SetInduction
  <2>7. \A i \in 0 .. n : u[i] \in Nat
    BY <2>2, <2>6 DEF S
  <2>8. DOMAIN u = 0 .. n /\ u = [i \in DOMAIN u |-> u[i]]
    BY <2>1
  <2>9. u \in [0 .. n -> Nat]
    BY <2>7, <2>8
  <2> QED
    BY <2>0, <2>3, <2>9 DEF Sums
<1>6. u[Len(lines)] = f[Len(lines)]
  BY <1>5, SumsAgree
<1> QED
  BY <1>1, <1>6

LEMMA TotalEmpty == Total(<<>>) = 0
<1> DEFINE f == [i \in 0 .. 0 |-> 0]
<1>1. <<>> \in Seq(Line) /\ Len(<<>>) = 0
  OBVIOUS
<1>2. f \in [0 .. 0 -> Nat] /\ f[0] = 0
  OBVIOUS
<1> HIDE DEF f
<1>3. Sums(<<>>, f)
  BY <1>1, <1>2 DEF Sums
<1>4. Total(<<>>) = f[Len(<<>>)]
  BY <1>1, <1>3, TotalIs
<1> QED
  BY <1>1, <1>2, <1>4

LEMMA TotalAppend ==
  ASSUME NEW lines \in Seq(Line), NEW e \in Line
  PROVE  Total(Append(lines, e)) = Total(lines) + e.count /\ Total(lines) \in Nat
<1>0. PICK n \in Nat : n = Len(lines)
  OBVIOUS
<1>1. PICK f : Sums(lines, f)
  BY SumsExist
<1>2. /\ f \in [0 .. n -> Nat] /\ f[0] = 0
      /\ \A i \in 1 .. n : f[i] = f[i - 1] + lines[i].count
  BY <1>0, <1>1 DEF Sums
<1>3. Total(lines) = f[n]
  BY <1>0, <1>1, TotalIs
<1> DEFINE more == Append(lines, e)
<1>4. more \in Seq(Line) /\ Len(more) = n + 1 /\ more[n + 1] = e /\ \A i \in 1 .. n : more[i] = lines[i]
  BY <1>0
<1> HIDE DEF more
<1>5. e.count \in Nat
  BY DEF Line
<1> DEFINE g == [i \in 0 .. n + 1 |-> IF i = n + 1 THEN f[n] + e.count ELSE f[i]]
<1>6. \A i \in 0 .. n : g[i] = f[i] /\ f[i] \in Nat
  BY <1>2
<1>7. g[n + 1] = f[n] + e.count
  OBVIOUS
<1>8. g \in [0 .. n + 1 -> Nat]
  <2>1. f[n] + e.count \in Nat
    BY <1>2, <1>5
  <2>2. \A i \in 0 .. n + 1 : i \in 0 .. n \/ i = n + 1
    OBVIOUS
  <2>3. \A i \in 0 .. n + 1 : g[i] \in Nat
    BY <1>6, <1>7, <2>1, <2>2
  <2> QED
    BY <2>3
<1> HIDE DEF g
<1>9. ASSUME NEW i \in 1 .. n + 1 PROVE g[i] = g[i - 1] + more[i].count
  <2>1. CASE i = n + 1
    BY <1>4, <1>6, <1>7, <2>1
  <2>2. CASE i \in 1 .. n
    <3>1. i \in 0 .. n /\ i - 1 \in 0 .. n
      BY <2>2
    <3> QED
      BY <1>2, <1>4, <1>6, <2>2, <3>1
  <2> QED
    BY <2>1, <2>2
<1>10. Sums(more, g)
  <2>1. g[0] = 0
    BY <1>2, <1>6
  <2> QED
    BY <1>4, <1>8, <1>9, <2>1 DEF Sums
<1>11. Total(more) = g[n + 1]
  BY <1>4, <1>10, TotalIs
<1> QED
  BY <1>2, <1>3, <1>7, <1>11 DEF more

OneMore(lines, k) == [lines EXCEPT ![k].count = @ + 1]

LEMMA OneMoreLines ==
  ASSUME NEW lines \in Seq(Line), NEW k \in 1 .. Len(lines)
  PROVE  /\ OneMore(lines, k) \in Seq(Line) /\ Len(OneMore(lines, k)) = Len(lines)
         /\ \A i \in 1 .. Len(lines) :
              /\ OneMore(lines, k)[i].addr = lines[i].addr
              /\ OneMore(lines, k)[i].count = lines[i].count + (IF i = k THEN 1 ELSE 0)
<1> DEFINE more == OneMore(lines, k)
<1>0. PICK n \in Nat : n = Len(lines)
  OBVIOUS
<1>1. lines[k] \in Line /\ lines \in [1 .. n -> Line] /\ k \in 1 .. n
  BY <1>0
<1> DEFINE line == [lines[k] EXCEPT !.count = @ + 1]
<1>2. line \in Line /\ line.addr = lines[k].addr /\ line.count = lines[k].count + 1
  BY <1>1 DEF Line
<1>3. more = [lines EXCEPT ![k] = line]
  BY <1>1 DEF OneMore
<1> HIDE DEF more, line
<1>4. more \in [1 .. n -> Line] /\ more[k] = line /\ \A i \in 1 .. n : i # k => more[i] = lines[i]
  BY <1>1, <1>2, <1>3
<1>5. more \in Seq(Line) /\ Len(more) = n
  BY <1>4
<1>6. ASSUME NEW i \in 1 .. n
      PROVE  more[i].addr = lines[i].addr /\ more[i].count = lines[i].count + (IF i = k THEN 1 ELSE 0)
  <2>1. lines[i] \in Line
    BY <1>1
  <2>2. lines[i].count \in Nat
    BY <2>1 DEF Line
  <2>3. CASE i = k
    BY <1>2, <1>4, <2>3
  <2>4. CASE i # k
    BY <1>4, <2>2, <2>4
  <2> QED
    BY <2>3, <2>4
<1> QED
  BY <1>0, <1>5, <1>6 DEF more

LEMMA TotalOneMore ==
  ASSUME NEW lines \in Seq(Line), NEW k \in 1 .. Len(lines)
  PROVE  Total(OneMore(lines, k)) = Total(lines) + 1
<1>0. PICK n \in Nat : n = Len(lines)
  OBVIOUS
<1>1. PICK f : Sums(lines, f)
  BY SumsExist
<1>2. /\ f \in [0 .. n -> Nat] /\ f[0] = 0
      /\ \A i \in 1 .. n : f[i] = f[i - 1] + lines[i].count
  BY <1>0, <1>1 DEF Sums
<1>3. Total(lines) = f[n]
  BY <1>0, <1>1, TotalIs
<1> DEFINE more == OneMore(lines, k)
           More(i) == IF i = k THEN 1 ELSE 0
<1>4. /\ more \in Seq(Line) /\ Len(more) = n
      /\ \A i \in 1 .. n : more[i].count = lines[i].count + More(i)
  BY <1>0, OneMoreLines
<1>14. k \in 1 .. n /\ \A i \in 1 .. n : lines[i].count \in Nat
  <2>1. \A i \in 1 .. n : lines[i] \in Line
    BY <1>0
  <2> QED
    BY <1>0, <2>1 DEF Line
<1> HIDE DEF more
<1> DEFINE g == [i \in 0 .. n |-> f[i] + (IF i < k THEN 0 ELSE 1)]
<1>5. \A i \in 0 .. n : g[i] = f[i] + (IF i < k THEN 0 ELSE 1) /\ f[i] \in Nat
  BY <1>2
<1>6. g \in [0 .. n -> Nat]
  BY <1>5
<1> HIDE DEF g
<1>7. ASSUME NEW i \in 1 .. n PROVE g[i] = g[i - 1] + more[i].count
  <2>1. i \in 0 .. n /\ i - 1 \in 0 .. n
    OBVIOUS
  <2>2. /\ f[i] = f[i - 1] + lines[i].count /\ lines[i].count \in Nat /\ f[i - 1] \in Nat
        /\ more[i].count = lines[i].count + More(i)
    BY <1>2, <1>4, <1>5, <1>14, <2>1
  <2>3. (IF i < k THEN 0 ELSE 1) = (IF i - 1 < k THEN 0 ELSE 1) + More(i)
    BY <1>14
  <2>4. (IF i - 1 < k THEN 0 ELSE 1) \in Nat /\ More(i) \in Nat
    OBVIOUS
  <2>5. g[i] = f[i] + (IF i < k THEN 0 ELSE 1) /\ g[i - 1] = f[i - 1] + (IF i - 1 < k THEN 0 ELSE 1)
    BY <1>5, <2>1
  <2> HIDE DEF More
  <2> QED
    BY <2>2, <2>3, <2>4, <2>5
<1>8. g[0] = 0 /\ g[n] = f[n] + 1
  BY <1>2, <1>5, <1>14
<1>9. Sums(more, g)
  BY <1>4, <1>6, <1>7, <1>8 DEF Sums
<1>10. Total(more) = g[n]
  BY <1>4, <1>9, TotalIs
<1> QED
  BY <1>3, <1>8, <1>10 DEF more

-----------------------------------------------------------------------------
(* What is accounted for after the samples T.                                *)

StateRecord ==
  [samples_seen : Nat, samples_lost : Nat, decode_skipped : Nat, count : Nat,
   tally : [Bits -> Nat], addrs : Seq(Line), addrs_cap : Nat, unrecorded : Nat]

Carrying(w, T, addr) == {k \in T : w[k].bits = addr}
Counting(w, T, b) == {k \in T : Counts(b, w[k].bits)}

LinesOf(w, lines, dropped, T) ==
  /\ Total(lines) + dropped = Cardinality(T)
  /\ \A i \in 1 .. Len(lines) :
       /\ lines[i].count <= Cardinality(Carrying(w, T, lines[i].addr))
       /\ \A j \in 1 .. Len(lines) : lines[j].addr = lines[i].addr => i = j

Within(T, P) == T \cap P

LEMMA OneMoreCounted ==
  ASSUME NEW T, IsFiniteSet(T), NEW c, c \notin T
  PROVE  /\ IsFiniteSet(T \cup {c}) /\ Cardinality(T \cup {c}) = Cardinality(T) + 1
         /\ Cardinality(T) \in Nat
<1>1. IsFiniteSet(T \cup {c}) /\ Cardinality(T \cup {c}) = Cardinality(T) + 1
  BY FS_AddElement
<1>2. Cardinality(T) \in Nat
  BY FS_CardinalityType
<1> QED
  BY <1>1, <1>2

LEMMA OneMoreWithin ==
  ASSUME NEW T, IsFiniteSet(T), NEW c, c \notin T, NEW P
  PROVE  /\ Cardinality(Within(T \cup {c}, P)) = Cardinality(Within(T, P)) + (IF c \in P THEN 1 ELSE 0)
         /\ Cardinality(Within(T, P)) \in Nat
<1> DEFINE F == Within(T, P)
           G == Within(T \cup {c}, P)
<1>1. IsFiniteSet(F) /\ c \notin F
  BY FS_Intersection DEF Within
<1>2. Cardinality(F) \in Nat
  BY <1>1, FS_CardinalityType
<1>3. c \in P => G = F \cup {c}
  BY DEF Within
<1>4. c \notin P => G = F
  BY DEF Within
<1> HIDE DEF F, G
<1>5. Cardinality(F \cup {c}) = Cardinality(F) + 1
  BY <1>1, FS_AddElement
<1>6. Cardinality(G) = Cardinality(F) + (IF c \in P THEN 1 ELSE 0)
  BY <1>2, <1>3, <1>4, <1>5
<1> QED
  BY <1>2, <1>6 DEF F, G

LEMMA OneMoreCarrying ==
  ASSUME NEW T, IsFiniteSet(T), NEW c, c \notin T, NEW a
  PROVE  /\ Cardinality(Carrying(written, T \cup {c}, a))
              = Cardinality(Carrying(written, T, a)) + (IF written[c].bits = a THEN 1 ELSE 0)
         /\ Cardinality(Carrying(written, T, a)) \in Nat
<1> DEFINE P == {k \in T \cup {c} : written[k].bits = a}
<1>1. Carrying(written, T \cup {c}, a) = Within(T \cup {c}, P)
  BY DEF Carrying, Within
<1>2. Carrying(written, T, a) = Within(T, P)
  BY DEF Carrying, Within
<1>3. c \in P <=> written[c].bits = a
  OBVIOUS
<1> HIDE DEF P
<1>4. /\ Cardinality(Within(T \cup {c}, P)) = Cardinality(Within(T, P)) + (IF c \in P THEN 1 ELSE 0)
      /\ Cardinality(Within(T, P)) \in Nat
  BY OneMoreWithin
<1> QED
  BY <1>1, <1>2, <1>3, <1>4

LEMMA OneMoreCounting ==
  ASSUME NEW T, IsFiniteSet(T), NEW c, c \notin T, NEW b
  PROVE  /\ Cardinality(Counting(written, T \cup {c}, b))
              = Cardinality(Counting(written, T, b)) + (IF Counts(b, written[c].bits) THEN 1 ELSE 0)
         /\ Cardinality(Counting(written, T, b)) \in Nat
<1> DEFINE P == {k \in T \cup {c} : Counts(b, written[k].bits)}
<1>1. Counting(written, T \cup {c}, b) = Within(T \cup {c}, P)
  BY DEF Counting, Within
<1>2. Counting(written, T, b) = Within(T, P)
  BY DEF Counting, Within
<1>3. c \in P <=> Counts(b, written[c].bits)
  OBVIOUS
<1> HIDE DEF P
<1>4. /\ Cardinality(Within(T \cup {c}, P)) = Cardinality(Within(T, P)) + (IF c \in P THEN 1 ELSE 0)
      /\ Cardinality(Within(T, P)) \in Nat
  BY OneMoreWithin
<1> QED
  BY <1>1, <1>2, <1>3, <1>4

\* symbol_sample_record_addr() counts the address in the line it has, in a
\* new one, or among the dropped.
LEMMA AddrRecorded ==
  ASSUME state \in StateRecord, NEW T, IsFiniteSet(T), NEW c, c \notin T,
         NEW ip \in BitSets, written[c].bits = ip,
         LinesOf(written, state.addrs, state.unrecorded, T),
         NEW memory \in BOOLEAN, NEW next, next = RecordAddr(ip, memory)
  PROVE  /\ next \in StateRecord
         /\ next.samples_seen = state.samples_seen /\ next.samples_lost = state.samples_lost
         /\ next.decode_skipped = state.decode_skipped
         /\ LinesOf(written, next.addrs, next.unrecorded, T \cup {c})
<1> DEFINE lines == state.addrs
           n == Len(lines)
           same == {i \in DOMAIN lines : lines[i].addr = ip}
           U == T \cup {c}
<1>1. lines \in Seq(Line) /\ n \in Nat /\ DOMAIN lines = 1 .. n /\ state.unrecorded \in Nat
      /\ state.addrs_cap \in Nat
  BY DEF StateRecord
<1>2. /\ Cardinality(U) = Cardinality(T) + 1 /\ Cardinality(T) \in Nat
      /\ \A a : /\ Cardinality(Carrying(written, U, a)) = Cardinality(Carrying(written, T, a)) + (IF ip = a THEN 1 ELSE 0)
                /\ Cardinality(Carrying(written, T, a)) \in Nat
  <2>1. Cardinality(U) = Cardinality(T) + 1 /\ Cardinality(T) \in Nat
    BY OneMoreCounted
  <2>2. ASSUME NEW a
        PROVE  /\ Cardinality(Carrying(written, T \cup {c}, a))
                    = Cardinality(Carrying(written, T, a)) + (IF written[c].bits = a THEN 1 ELSE 0)
               /\ Cardinality(Carrying(written, T, a)) \in Nat
    BY OneMoreCarrying
  <2> QED
    BY <2>1, <2>2
<1>3. Total(lines) + state.unrecorded = Cardinality(T) /\ Total(lines) \in Nat
  <2>1. PICK f : Sums(lines, f)
    BY <1>1, SumsExist
  <2>2. Total(lines) = f[Len(lines)]
    BY <1>1, <2>1, TotalIs
  <2>3. f[Len(lines)] \in Nat
    BY <1>1, <2>1 DEF Sums
  <2> QED
    BY <2>2, <2>3 DEF LinesOf
<1>4. ASSUME NEW i \in 1 .. n
      PROVE  /\ lines[i].count <= Cardinality(Carrying(written, T, lines[i].addr))
             /\ \A j \in 1 .. n : lines[j].addr = lines[i].addr => i = j
             /\ lines[i].count \in Nat /\ lines[i] \in Line
  <2>1. lines[i] \in Line
    BY <1>1
  <2>2. lines[i].count \in Nat
    BY <2>1 DEF Line
  <2> QED
    BY <2>1, <2>2 DEF LinesOf
<1>5. CASE same # {}
  <2> DEFINE k == Min(same)
             more == OneMore(lines, k)
  <2>1. k \in same
    <3>1. same \subseteq Nat
      BY <1>1
    <3> HIDE DEF same
    <3>2. PICK x \in same : \A y \in same : x <= y
      BY <1>5, <3>1, Smallest
    <3> QED
      BY <3>2 DEF Min
  <2>2. k \in 1 .. n /\ lines[k].addr = ip
    BY <1>1, <2>1
  <2>3. next = [state EXCEPT !.addrs[k].count = @ + 1]
    BY <1>5 DEF RecordAddr
  <2> HIDE DEF k
  <2>4. next = [state EXCEPT !.addrs = more]
    BY <2>3 DEF OneMore
  <2>5. /\ more \in Seq(Line) /\ Len(more) = n
        /\ \A i \in 1 .. n : /\ more[i].addr = lines[i].addr
                             /\ more[i].count = lines[i].count + (IF i = k THEN 1 ELSE 0)
        /\ Total(more) = Total(lines) + 1
    BY <1>1, <2>2, OneMoreLines, TotalOneMore
  <2> HIDE DEF more
  <2>6. /\ next \in StateRecord
        /\ next.samples_seen = state.samples_seen /\ next.samples_lost = state.samples_lost
        /\ next.decode_skipped = state.decode_skipped
        /\ next.addrs = more /\ next.unrecorded = state.unrecorded
    BY <2>4, <2>5 DEF StateRecord
  <2>7. Total(more) + state.unrecorded = Cardinality(U)
    BY <1>1, <1>2, <1>3, <2>5
  <2> HIDE DEF lines, n, U
  <2>8. ASSUME NEW i \in 1 .. n PROVE more[i].count <= Cardinality(Carrying(written, U, more[i].addr))
    <3>1. more[i].addr = lines[i].addr /\ more[i].count = lines[i].count + (IF i = k THEN 1 ELSE 0)
      BY <2>5
    <3>2. Cardinality(Carrying(written, U, lines[i].addr))
            = Cardinality(Carrying(written, T, lines[i].addr)) + (IF ip = lines[i].addr THEN 1 ELSE 0)
          /\ Cardinality(Carrying(written, T, lines[i].addr)) \in Nat
      BY <1>2
    <3>3. i = k => ip = lines[i].addr
      BY <2>2
    <3>4. lines[i].count <= Cardinality(Carrying(written, T, lines[i].addr)) /\ lines[i].count \in Nat
      BY <1>4
    <3> QED
      BY <3>1, <3>2, <3>3, <3>4
  <2>9. \A i, j \in 1 .. n : more[j].addr = more[i].addr => i = j
    BY <1>4, <2>5
  <2>10. LinesOf(written, more, state.unrecorded, U)
    BY <2>5, <2>7, <2>8, <2>9 DEF LinesOf
  <2> QED
    BY <2>6, <2>10 DEF U
<1>6. CASE same = {} /\ Len(lines) = state.addrs_cap /\ ~memory
  <2>1. next = [state EXCEPT !.unrecorded = @ + 1]
    BY <1>6 DEF RecordAddr
  <2>2. /\ next \in StateRecord
        /\ next.samples_seen = state.samples_seen /\ next.samples_lost = state.samples_lost
        /\ next.decode_skipped = state.decode_skipped
        /\ next.addrs = lines /\ next.unrecorded = state.unrecorded + 1
    BY <2>1, SMTT(30) DEF StateRecord
  <2>3. Total(lines) + (state.unrecorded + 1) = Cardinality(U)
    BY <1>1, <1>2, <1>3
  <2> HIDE DEF lines, n, U
  <2>4. ASSUME NEW i \in 1 .. n PROVE lines[i].count <= Cardinality(Carrying(written, U, lines[i].addr))
    <3>1. Cardinality(Carrying(written, U, lines[i].addr))
            = Cardinality(Carrying(written, T, lines[i].addr)) + (IF ip = lines[i].addr THEN 1 ELSE 0)
          /\ Cardinality(Carrying(written, T, lines[i].addr)) \in Nat
      BY <1>2
    <3>2. lines[i].count <= Cardinality(Carrying(written, T, lines[i].addr)) /\ lines[i].count \in Nat
      BY <1>4
    <3> QED
      BY <3>1, <3>2
  <2>5. LinesOf(written, lines, state.unrecorded + 1, U)
    BY <1>4, <2>3, <2>4 DEF LinesOf, n
  <2> QED
    BY <2>2, <2>5 DEF U
<1>7. CASE same = {} /\ ~(Len(lines) = state.addrs_cap /\ ~memory)
  <2> DEFINE line == [addr |-> ip, count |-> 1]
             more == Append(lines, line)
             cap == IF Len(lines) = state.addrs_cap THEN 2 * state.addrs_cap ELSE state.addrs_cap
  <2>1. next = [state EXCEPT !.addrs = more, !.addrs_cap = cap]
    BY <1>7 DEF RecordAddr
  <2>2. line \in Line /\ line.addr = ip /\ line.count = 1
    BY DEF Line
  <2> HIDE DEF line
  <2>3. /\ more \in Seq(Line) /\ Len(more) = n + 1 /\ more[n + 1] = line
        /\ \A i \in 1 .. n : more[i] = lines[i]
    BY <1>1, <2>2
  <2>4. Total(more) = Total(lines) + 1
    BY <1>1, <2>2, TotalAppend
  <2>5. cap \in Nat
    BY <1>1
  <2> HIDE DEF more, cap
  <2>6. /\ next \in StateRecord
        /\ next.samples_seen = state.samples_seen /\ next.samples_lost = state.samples_lost
        /\ next.decode_skipped = state.decode_skipped
        /\ next.addrs = more /\ next.unrecorded = state.unrecorded
    BY <2>1, <2>3, <2>5 DEF StateRecord
  <2>7. Total(more) + state.unrecorded = Cardinality(U)
    BY <1>1, <1>2, <1>3, <2>4
  <2>8. \A i \in 1 .. n : lines[i].addr # ip
    BY <1>1, <1>7
  <2> HIDE DEF lines, U
  <2>0. n \in Nat
    BY <1>1
  <2> HIDE DEF n
  <2>13. \A i \in 1 .. n + 1 : i \in 1 .. n \/ i = n + 1
    BY <2>0
  <2>9. ASSUME NEW i \in 1 .. n + 1 PROVE more[i].count <= Cardinality(Carrying(written, U, more[i].addr))
    <3>1. CASE i \in 1 .. n
      <4>1. Cardinality(Carrying(written, U, lines[i].addr))
              = Cardinality(Carrying(written, T, lines[i].addr)) + (IF ip = lines[i].addr THEN 1 ELSE 0)
            /\ Cardinality(Carrying(written, T, lines[i].addr)) \in Nat
        BY <1>2
      <4>2. lines[i].count <= Cardinality(Carrying(written, T, lines[i].addr)) /\ lines[i].count \in Nat
        BY <1>4, <3>1
      <4>3. more[i] = lines[i]
        BY <2>3, <3>1
      <4> QED
        BY <4>1, <4>2, <4>3
    <3>2. CASE i = n + 1
      <4>1. Cardinality(Carrying(written, U, ip)) = Cardinality(Carrying(written, T, ip)) + 1
            /\ Cardinality(Carrying(written, T, ip)) \in Nat
        BY <1>2
      <4> QED
        BY <2>2, <2>3, <3>2, <4>1
    <3> QED
      BY <2>13, <3>1, <3>2
  <2>10. ASSUME NEW i \in 1 .. n + 1, NEW j \in 1 .. n + 1, more[j].addr = more[i].addr PROVE i = j
    BY <1>4, <2>2, <2>3, <2>8, <2>10, <2>13
  <2>11. LinesOf(written, more, state.unrecorded, U)
    BY <2>3, <2>7, <2>9, <2>10 DEF LinesOf
  <2> QED
    BY <2>6, <2>11 DEF U
<1> QED
  BY <1>5, <1>6, <1>7

-----------------------------------------------------------------------------
(* The invariant.                                                            *)

Accounts(T) ==
  /\ state.samples_seen = Cardinality(T) /\ state.decode_skipped = 0
  /\ Ibs => /\ state.count = Cardinality(T)
            /\ \A b \in Bits : state.tally[b] = Cardinality(Counting(written, T, b))
  /\ ~Ibs => LinesOf(written, state.addrs, state.unrecorded, T)

\* The drain is to end at the end of record h and is behind record c: at its
\* end, or at record c + 1 if it has passed a LOST record.
Draining(f, h, c) ==
  /\ Losses(f) /\ h \in 0 .. Len(written) /\ c \in 0 .. h /\ head = End(h)
  /\ Accounts(SamplesOf(c))
  /\ \/ tail = End(c) /\ state.samples_lost = f[c]
     \/ /\ c < h /\ AfterLost(c + 1)
        /\ tail = written[c + 1].at /\ state.samples_lost = f[c + 1]

Drained ==
  /\ head <= data_head /\ data_tail \in Nat /\ data_tail <= data_head
  /\ head \in Nat /\ state.samples_lost + missed <= refused
  /\ state.samples_seen = Cardinality(Taken) /\ state.decode_skipped = 0
  /\ Ibs => /\ state.count = Cardinality(Taken)
            /\ \A b \in Bits : state.tally[b] = Cardinality(Counting(written, Taken, b))
  /\ ~Ibs /\ stage = "drained" => LinesOf(written, state.addrs, state.unrecorded, Taken)
  /\ ~Ibs /\ stage = "printed" => report \in Seq(Line) /\ LinesOf(written, report, state.unrecorded, Taken)

RingInv ==
  /\ RingTypes /\ state \in StateRecord
  /\ stage \in {"counting", "draining", "drained", "printed"}
  /\ stage = "counting" => /\ Layout /\ (\E f : Losses(f)) /\ state = InitState /\ head = 0
                           /\ ~mapped => written = <<>>
  /\ stage = "draining" => Layout /\ \E f, h, c : Draining(f, h, c)
  /\ stage \in {"drained", "printed"} => Drained

\* A step that leaves the kernel's side alone.
LEMMA QuietRing ==
  ASSUME UNCHANGED <<kind, nwords, mapped, kernel>>
  PROVE  /\ RingTypes => RingTypes'
         /\ Layout /\ data_tail' = data_tail => Layout'
         /\ \A f : Losses(f) => Losses(f)'
         /\ \A i : End(i)' = End(i) /\ AfterLost(i)' = AfterLost(i)
<1>0. UNCHANGED <<kind, nwords, mapped, ring, data_head, missed, written, refused>>
  BY DEF kernel
<1>1. \A i : End(i)' = End(i) /\ AfterLost(i)' = AfterLost(i)
  BY <1>0 DEF End, Size, Ibs, AfterLost
<1>2. \A i : Register(i)' = Register(i)
  BY <1>0 DEF Register
<1>3. \A i : ContentOf(written[i])' = ContentOf(written[i])
  BY <1>0, <1>2 DEF ContentOf, SampleOf, Ibs
<1>4. \A i : Size(written[i])' = Size(written[i])
  BY <1>0 DEF Size, Ibs
<1>5. Layout /\ data_tail' = data_tail => Layout'
  BY <1>0, <1>1, <1>3, <1>4 DEF Layout
<1>6. RingTypes => RingTypes'
  BY <1>0 DEF RingTypes, RecordType, BitSets, Ibs
<1>7. \A f : Losses(f) => Losses(f)'
  BY <1>0, <1>1 DEF Losses, LossOf
<1> QED
  BY <1>1, <1>5, <1>6, <1>7

OnLost(f, c) ==
  /\ AfterLost(c + 1) /\ tail = End(c) /\ state.samples_lost = f[c]
  /\ Header = Word("lost", 3, {})
AtRecord(f, c) ==
  /\ tail = written[c + 1].at /\ state.samples_lost = f[c + 1]
  /\ Header = Word(written[c + 1].type, Size(written[c + 1]), {})

\* Before its end the drain is at the beginning of a record.
LEMMA DrainAt ==
  ASSUME RingTypes, Layout, NEW f, NEW h, NEW c, Draining(f, h, c)
  PROVE  /\ c < h => OnLost(f, c) \/ AtRecord(f, c)
         /\ c < h <=> Complete
         /\ c = h => tail = head /\ state.samples_lost = f[h]
         /\ c \in Nat /\ h \in Nat /\ c <= h /\ h <= Len(written)
<1>1. Len(written) \in Nat /\ h \in 0 .. Len(written) /\ c \in 0 .. h
  BY Places DEF Draining
<1>2. c \in Nat /\ h \in Nat /\ c <= h /\ h <= Len(written)
  <2>1. PICK n \in Nat : n = Len(written)
    BY <1>1
  <2>2. h \in 0 .. n /\ c \in 0 .. h
    BY <1>1, <2>1
  <2> QED
    BY <2>1, <2>2
<1>3. CASE c < h
  <2>1. c < Len(written)
    <3>1. PICK n \in Nat : n = Len(written)
      BY <1>1
    <3> QED
      BY <1>2, <1>3, <3>1
  <2>2. /\ \A k \in 1 .. Size(written[c + 1]) :
              ring[(written[c + 1].at + k - 1) % DataSize] = ContentOf(written[c + 1])[k]
        /\ AfterLost(c + 1) => /\ ring[End(c) % DataSize] = Word("lost", 3, {})
                               /\ written[c + 1].at = End(c) + 3
        /\ ~AfterLost(c + 1) => written[c + 1].at = End(c) /\ LossOf(c + 1) = 0
        /\ c + 1 \in 1 .. Len(written) /\ c \in 0 .. Len(written)
    BY <1>2, <2>1, ReadPlaces
  <2>3. /\ Size(written[c + 1]) \in Nat /\ Size(written[c + 1]) >= 2
        /\ written[c + 1].at \in Nat /\ written[c + 1].type \in {"sample", "throttle"}
        /\ End(c + 1) = written[c + 1].at + Size(written[c + 1])
        /\ End(c) \in Nat /\ End(c + 1) \in Nat
    <3>1. c + 1 - 1 = c
      BY <1>2
    <3>2. c + 1 \in 0 .. Len(written)
      BY <2>2
    <3> QED
      BY <2>2, <3>2, Places
  <2>4. ContentOf(written[c + 1])[1] = Word(written[c + 1].type, Size(written[c + 1]), {})
    BY <2>3, ContentWords
  <2>5. ring[written[c + 1].at % DataSize] = ContentOf(written[c + 1])[1]
    <3>1. 1 \in 1 .. Size(written[c + 1]) /\ written[c + 1].at + 1 - 1 = written[c + 1].at
      BY <2>3
    <3> QED
      BY <2>2, <3>1
  <2>6. tail = written[c + 1].at /\ state.samples_lost = f[c + 1] => AtRecord(f, c)
    BY <2>4, <2>5 DEF AtRecord, Header
  <2>7. OnLost(f, c) \/ AtRecord(f, c)
    <3>1. CASE tail = End(c) /\ state.samples_lost = f[c] /\ AfterLost(c + 1)
      BY <2>2, <3>1 DEF OnLost, Header
    <3>2. CASE tail = End(c) /\ state.samples_lost = f[c] /\ ~AfterLost(c + 1)
      <4>1. f[c + 1] = f[c] + LossOf(c + 1) /\ f \in [Nat -> Nat]
        <5>1. Losses(f)
          BY DEF Draining
        <5>2. c + 1 \in DOMAIN written
          BY <2>2, Places
        <5>3. f \in [Nat -> Nat] /\ \A i \in DOMAIN written : f[i] = f[i - 1] + LossOf(i)
          BY <5>1 DEF Losses
        <5> QED
          <6>1. PICK i \in DOMAIN written : i = c + 1 /\ i - 1 = c
            BY <1>2, <5>2
          <6>2. f[i] = f[i - 1] + LossOf(i)
            BY <5>3
          <6>3. f[i] = f[c] + LossOf(i)
            BY <6>1, <6>2
          <6> QED
            BY <5>3, <6>1, <6>3
      <4>2. LossOf(c + 1) = 0
        BY <2>2, <3>2
      <4>3. f[c] \in Nat
        BY <1>2, <4>1
      <4>4. f[c + 1] = f[c]
        BY <4>1, <4>2, <4>3
      <4> QED
        BY <2>2, <2>6, <3>2, <4>4
    <3>3. CASE tail = written[c + 1].at /\ state.samples_lost = f[c + 1]
      BY <2>6, <3>3
    <3> QED
      BY <3>1, <3>2, <3>3 DEF Draining
  <2>8. End(c + 1) <= head /\ head \in Nat
    <3>1. head = End(h) /\ End(h) \in Nat
      BY <1>1, Places DEF Draining
    <3>2. c + 1 < h => End(c + 1) < End(h)
      BY <1>1, <2>2, Places DEF Layout
    <3>3. c + 1 < h \/ c + 1 = h
      BY <1>2, <1>3
    <3> QED
      BY <2>3, <3>1, <3>2, <3>3
  <2>9. tail < head /\ head - tail >= 1 /\ Header.size >= 1
    <3>1. CASE OnLost(f, c)
      <4>1. tail = End(c) /\ written[c + 1].at = End(c) + 3 /\ Header = Word("lost", 3, {})
        BY <2>2, <3>1 DEF OnLost
      <4> QED
        BY <2>3, <2>8, <4>1 DEF Word
    <3>2. CASE AtRecord(f, c)
      <4>1. tail = written[c + 1].at /\ Header.size = Size(written[c + 1])
        BY <3>2 DEF AtRecord, Word
      <4> QED
        BY <2>3, <2>8, <4>1
    <3> QED
      BY <2>7, <3>1, <3>2
  <2> QED
    BY <1>2, <1>3, <2>7, <2>9 DEF Complete
<1>4. CASE c = h
  <2>1. tail = head /\ state.samples_lost = f[h]
    BY <1>2, <1>4 DEF Draining
  <2>2. head \in Nat
    BY <1>1, Places DEF Draining
  <2> QED
    BY <1>2, <1>4, <2>1, <2>2 DEF Complete
<1> QED
  BY <1>2, <1>3, <1>4

Seen(s) == [s EXCEPT !.samples_seen = @ + 1]

LEMMA SampleAccounted ==
  ASSUME state \in StateRecord, NEW T, IsFiniteSet(T), NEW c, c \notin T, Accounts(T),
         NEW r \in RecordType, r = written[c], UNCHANGED <<kind, written>>,
         NEW memory \in BOOLEAN,
         state' = IF Ibs THEN Seen(Tallied(state, r.bits)) ELSE Seen(RecordAddr(r.bits, memory))
  PROVE  /\ state' \in StateRecord /\ state'.samples_lost = state.samples_lost
         /\ Accounts(T \cup {c})'
<1>1. state.samples_seen = Cardinality(T) /\ state.decode_skipped = 0
  BY DEF Accounts
<1>2. Cardinality(T \cup {c}) = Cardinality(T) + 1 /\ Cardinality(T) \in Nat
  BY OneMoreCounted
<1>3. r.bits \in BitSets /\ written[c].bits = r.bits
  BY DEF RecordType
<1>4. written' = written
  OBVIOUS
<1>5. CASE Ibs
  <2> DEFINE t == [b \in Bits |-> state.tally[b] + IF Counts(b, r.bits) THEN 1 ELSE 0]
             counted == state.count + 1
             more == state.samples_seen + 1
  <2>1. state' = Seen(Tallied(state, r.bits)) /\ Ibs'
    BY <1>5 DEF Ibs
  <2>2. state' = [state EXCEPT !.count = counted, !.tally = t, !.samples_seen = more]
    BY <2>1 DEF Seen, Tallied, StateRecord
  <2>3. counted \in Nat /\ more \in Nat /\ state.tally \in [Bits -> Nat]
    BY DEF StateRecord
  <2>4. t \in [Bits -> Nat] /\ \A b \in Bits : t[b] = state.tally[b] + IF Counts(b, r.bits) THEN 1 ELSE 0
    BY <2>3
  <2> HIDE DEF t
  <2>5. state.count = Cardinality(T) /\ \A b \in Bits : state.tally[b] = Cardinality(Counting(written, T, b))
    BY <1>5 DEF Accounts
  <2>6. counted = Cardinality(T \cup {c}) /\ more = Cardinality(T \cup {c})
    BY <1>1, <1>2, <2>5
  <2>7. ASSUME NEW b \in Bits PROVE t[b] = Cardinality(Counting(written, T \cup {c}, b))
    <3>1. Cardinality(Counting(written, T \cup {c}, b))
            = Cardinality(Counting(written, T, b)) + (IF Counts(b, written[c].bits) THEN 1 ELSE 0)
      BY OneMoreCounting
    <3> QED
      BY <1>3, <2>4, <2>5, <3>1
  <2> HIDE DEF counted, more
  <2>8. /\ state' \in StateRecord /\ state'.samples_lost = state.samples_lost
        /\ state'.samples_seen = more /\ state'.decode_skipped = 0
        /\ state'.count = counted /\ state'.tally = t
    BY <1>1, <2>2, <2>3, <2>4 DEF StateRecord
  <2>9. Accounts(T \cup {c})'
    BY <1>4, <2>1, <2>6, <2>7, <2>8 DEF Accounts
  <2> QED
    BY <2>8, <2>9
<1>6. CASE ~Ibs
  <2> DEFINE next == RecordAddr(r.bits, memory)
             more == next.samples_seen + 1
  <2>1. state' = Seen(next) /\ ~Ibs'
    BY <1>6 DEF Ibs
  <2>2. LinesOf(written, state.addrs, state.unrecorded, T)
    BY <1>6 DEF Accounts
  <2>3. /\ next \in StateRecord
        /\ next.samples_seen = state.samples_seen /\ next.samples_lost = state.samples_lost
        /\ next.decode_skipped = state.decode_skipped
        /\ LinesOf(written, next.addrs, next.unrecorded, T \cup {c})
    BY <1>3, <2>2, AddrRecorded
  <2> HIDE DEF next
  <2>4. state' = [next EXCEPT !.samples_seen = more]
    BY <2>1 DEF Seen
  <2>5. more = Cardinality(T \cup {c}) /\ more \in Nat
    BY <1>1, <1>2, <2>3
  <2> HIDE DEF more
  <2>6. /\ state' \in StateRecord /\ state'.samples_lost = next.samples_lost
        /\ state'.samples_seen = more /\ state'.decode_skipped = next.decode_skipped
        /\ state'.addrs = next.addrs /\ state'.unrecorded = next.unrecorded
    BY <2>3, <2>4, <2>5 DEF StateRecord
  <2>7. LinesOf(written, state.addrs, state.unrecorded, T \cup {c})'
    BY <2>3, <2>6
  <2>8. Accounts(T \cup {c})'
    BY <1>1, <2>1, <2>3, <2>5, <2>6, <2>7 DEF Accounts
  <2> QED
    BY <2>3, <2>6, <2>8
<1> QED
  BY <1>5, <1>6

LEMMA SamplesNext ==
  ASSUME NEW c \in Nat
  PROVE  /\ IsFiniteSet(SamplesOf(c)) /\ c + 1 \notin SamplesOf(c)
         /\ written[c + 1].type = "sample" => SamplesOf(c + 1) = SamplesOf(c) \cup {c + 1}
         /\ written[c + 1].type # "sample" => SamplesOf(c + 1) = SamplesOf(c)
<1>1. IsFiniteSet(1 .. c)
  <2>1. 1 \in Int /\ c \in Int
    OBVIOUS
  <2> QED
    BY <2>1, FS_Interval
<1>2. SamplesOf(c) \subseteq 1 .. c
  BY DEF SamplesOf
<1>3. IsFiniteSet(SamplesOf(c))
  BY <1>1, <1>2, FS_Subset
<1>4. c + 1 \notin 1 .. c /\ \A i : i \in 1 .. c + 1 <=> i \in 1 .. c \/ i = c + 1
  OBVIOUS
<1> QED
  BY <1>2, <1>3, <1>4 DEF SamplesOf

\* Behind a record the drain is at the end of it.
LEMMA RecordPassed ==
  ASSUME RingTypes, Layout, NEW f, NEW h, NEW c, Draining(f, h, c), c < h, AtRecord(f, c),
         UNCHANGED <<kind, nwords, mapped, kernel, head, data_tail>>,
         tail' = tail + Header.size, state'.samples_lost = state.samples_lost,
         Accounts(SamplesOf(c + 1))'
  PROVE  Draining(f, h, c + 1)'
<1>1. c \in Nat /\ h \in Nat /\ c <= h /\ h <= Len(written)
  BY DrainAt
<1>2. /\ tail = written[c + 1].at /\ state.samples_lost = f[c + 1]
      /\ Header.size = Size(written[c + 1])
  BY DEF AtRecord, Word
<1>3. Losses(f) /\ h \in 0 .. Len(written) /\ head = End(h)
  BY DEF Draining
<1>4. UNCHANGED written
  BY DEF kernel
<1>5. Losses(f)' /\ (\A i : End(i)' = End(i) /\ AfterLost(i)' = AfterLost(i))
  BY <1>3, QuietRing
<1>6. tail' = End(c + 1)
  <2>1. c + 1 \in 1 .. Len(written)
    <3>1. PICK n \in Nat : n = Len(written)
      BY Places
    <3> QED
      BY <1>1, <3>1
  <2> QED
    BY <1>2, <2>1, Places
<1>7. c + 1 \in 0 .. h
  BY <1>1
<1>8. tail' = End(c + 1)' /\ state'.samples_lost = f[c + 1] /\ head' = End(h)'
  BY <1>2, <1>3, <1>5, <1>6
<1> QED
  BY <1>3, <1>4, <1>5, <1>7, <1>8 DEF Draining

LEMMA RingTake ==
  ASSUME RingInv, TakeSample \/ TakeLost \/ SkipOther
  PROVE  RingInv'
<1>1. /\ stage = "draining" /\ RingTypes /\ state \in StateRecord /\ Layout /\ Complete
      /\ \E f, h, c : Draining(f, h, c)
  BY DEF RingInv, TakeSample, TakeLost, SkipOther
<1>2. /\ UNCHANGED <<kind, nwords, mapped, kernel, data_tail, stage, head, report>>
      /\ tail' = tail + Header.size
  BY DEF TakeSample, TakeLost, SkipOther
<1>3. PICK f, h, c : Draining(f, h, c)
  BY <1>1
<1>4. /\ c < h /\ (OnLost(f, c) \/ AtRecord(f, c))
      /\ c \in Nat /\ h \in Nat /\ c <= h /\ h <= Len(written)
  BY <1>1, <1>3, DrainAt
<1>5. c < Len(written)
  <2>1. PICK n \in Nat : n = Len(written)
    BY <1>1, Places
  <2> QED
    BY <1>4, <2>1
<1>6. /\ \A k \in 1 .. Size(written[c + 1]) :
            ring[(written[c + 1].at + k - 1) % DataSize] = ContentOf(written[c + 1])[k]
      /\ AfterLost(c + 1) => /\ ring[(End(c) + 2) % DataSize].size = LossOf(c + 1)
                             /\ written[c + 1].at = End(c) + 3 /\ LossOf(c + 1) \in Nat
      /\ c + 1 \in 1 .. Len(written) /\ c \in 0 .. Len(written)
  BY <1>1, <1>4, <1>5, ReadPlaces
<1>7. PICK r \in RecordType : r = written[c + 1]
  BY <1>1, <1>6 DEF RingTypes
<1>8. /\ r.type \in {"sample", "throttle"} /\ r.at \in Nat
      /\ r.type = "sample" => r.bits \in Shapes[kind]
  BY <1>1, <1>6, <1>7, Places DEF RingTypes, RecordType
<1>9. UNCHANGED <<written, ring>>
  BY <1>2 DEF kernel
<1>10. RingTypes' /\ Layout' /\ Losses(f)' /\ \A i : End(i)' = End(i) /\ AfterLost(i)' = AfterLost(i)
  BY <1>1, <1>2, <1>3, QuietRing DEF Draining
<1>11. state' \in StateRecord /\ (\E e : Draining(f, h, e)') => RingInv'
  BY <1>1, <1>2, <1>10 DEF RingInv
<1>12. Accounts(SamplesOf(c))
  BY <1>3 DEF Draining
<1>13. CASE OnLost(f, c)
  <2>1. /\ Header = Word("lost", 3, {}) /\ AfterLost(c + 1) /\ tail = End(c)
        /\ state.samples_lost = f[c]
    BY <1>13 DEF OnLost
  <2>2. TakeLost
    BY <2>1 DEF TakeSample, SkipOther, Word
  <2>3. End(c) \in Nat
    BY <1>1, <1>6, Places
  <2>4. RingRead(tail + 1, 2)[2].size = LossOf(c + 1)
    <3>1. RingRead(tail + 1, 2)[2] = ring[((tail + 1) + 2 - 1) % DataSize]
      BY DEF RingRead
    <3>2. (tail + 1) + 2 - 1 = End(c) + 2
      BY <2>1, <2>3
    <3> QED
      BY <1>6, <2>1, <3>1, <3>2
  <2>5. f[c + 1] = f[c] + LossOf(c + 1)
    <3>1. PICK i \in DOMAIN written : i = c + 1 /\ i - 1 = c
      BY <1>1, <1>4, <1>6, Places
    <3>2. f[i] = f[i - 1] + LossOf(i)
      <4>1. Losses(f)
        BY <1>3 DEF Draining
      <4> QED
        BY <4>1 DEF Losses
    <3>3. f[i] = f[c] + LossOf(i)
      BY <3>1, <3>2
    <3> QED
      BY <3>1, <3>3
  <2> DEFINE lost == state.samples_lost + LossOf(c + 1)
  <2>6. state' = [state EXCEPT !.samples_lost = lost]
    BY <2>2, <2>4 DEF TakeLost
  <2>7. lost = f[c + 1] /\ lost \in Nat
    BY <1>1, <1>6, <2>1, <2>5 DEF StateRecord
  <2> HIDE DEF lost
  <2>8. /\ state' \in StateRecord /\ state'.samples_lost = lost
        /\ state'.samples_seen = state.samples_seen /\ state'.decode_skipped = state.decode_skipped
        /\ state'.count = state.count /\ state'.tally = state.tally
        /\ state'.addrs = state.addrs /\ state'.unrecorded = state.unrecorded
    BY <1>1, <2>6, <2>7 DEF StateRecord
  <2>9. Accounts(SamplesOf(c))'
    <3>1. SamplesOf(c)' = SamplesOf(c) /\ kind' = kind
      BY <1>2, <1>9 DEF SamplesOf
    <3> QED
      BY <1>9, <1>12, <2>8, <3>1 DEF Accounts, Ibs
  <2>10. tail' = written[c + 1].at
    <3>1. Header.size = 3
      BY <2>1 DEF Word
    <3> QED
      BY <1>2, <1>6, <2>1, <3>1
  <2>11. Draining(f, h, c)'
    <3>1. h \in 0 .. Len(written) /\ c \in 0 .. h /\ head = End(h)
      BY <1>3 DEF Draining
    <3> QED
      BY <1>2, <1>4, <1>9, <1>10, <2>1, <2>7, <2>8, <2>9, <2>10, <3>1 DEF Draining
  <2> QED
    BY <1>11, <2>8, <2>11
<1>14. CASE AtRecord(f, c) /\ r.type = "sample"
  <2>1. tail = r.at /\ Header = Word("sample", Size(r), {})
    BY <1>7, <1>14 DEF AtRecord
  <2>2. TakeSample
    BY <2>1 DEF TakeLost, SkipOther, Word
  <2>3. Header.size = Size(r)
    BY <2>1 DEF Word
  <2>4. \A k \in 1 .. Size(r) : ring[(r.at + k - 1) % DataSize] = ContentOf(r)[k]
    BY <1>6, <1>7
  <2> DEFINE payload == RingRead(r.at + 1, Min({Size(r) - 1, MaxPayload}))
  <2>5. Ibs => IbsRecord(payload) = Tallied(state, r.bits)
    BY <1>1, <1>8, <1>14, <2>4, IbsDecoded
  <2>6. ~Ibs => \A memory : SymbolRecord(payload, memory) = RecordAddr(r.bits, memory)
    BY <1>1, <1>8, <1>14, <2>4, SymbolDecoded
  <2>7. /\ Ibs => state' = Seen(IbsRecord(payload))
        /\ ~Ibs => \E memory \in BOOLEAN : state' = Seen(SymbolRecord(payload, memory))
    BY <2>1, <2>2, <2>3 DEF TakeSample, Seen
  <2> HIDE DEF payload
  <2>8. \E memory \in BOOLEAN :
          state' = IF Ibs THEN Seen(Tallied(state, r.bits)) ELSE Seen(RecordAddr(r.bits, memory))
    BY <2>5, <2>6, <2>7
  <2>9. PICK T : T = SamplesOf(c)
    OBVIOUS
  <2>10. /\ IsFiniteSet(T) /\ c + 1 \notin T /\ Accounts(T)
         /\ SamplesOf(c + 1) = T \cup {c + 1}
    BY <1>4, <1>7, <1>12, <1>14, <2>9, SamplesNext
  <2>11. /\ state' \in StateRecord /\ state'.samples_lost = state.samples_lost
         /\ Accounts(T \cup {c + 1})'
    <3>1. PICK memory \in BOOLEAN :
            state' = IF Ibs THEN Seen(Tallied(state, r.bits)) ELSE Seen(RecordAddr(r.bits, memory))
      BY <2>8
    <3>2. UNCHANGED <<kind, written>>
      BY <1>2, <1>9
    <3> DEFINE d == c + 1
    <3>3. d \notin T /\ r = written[d]
      BY <1>7, <2>10
    <3> HIDE DEF d
    <3>4. state' \in StateRecord /\ state'.samples_lost = state.samples_lost /\ Accounts(T \cup {d})'
      BY <1>1, <2>10, <3>1, <3>2, <3>3, SampleAccounted
    <3> QED
      BY <3>4 DEF d
  <2>12. Accounts(SamplesOf(c + 1))'
    <3>1. SamplesOf(c + 1)' = T \cup {c + 1}
      BY <1>9, <2>10 DEF SamplesOf
    <3> QED
      BY <2>11, <3>1 DEF Accounts
  <2>13. Draining(f, h, c + 1)'
    BY <1>1, <1>2, <1>3, <1>4, <1>14, <2>11, <2>12, RecordPassed
  <2> QED
    BY <1>11, <2>11, <2>13
<1>15. CASE AtRecord(f, c) /\ r.type = "throttle"
  <2>1. Header = Word("throttle", Size(r), {})
    BY <1>7, <1>15 DEF AtRecord
  <2>2. SkipOther
    BY <2>1 DEF TakeLost, TakeSample, Word
  <2>3. state' = state
    BY <2>2 DEF SkipOther
  <2>4. SamplesOf(c + 1)' = SamplesOf(c) /\ kind' = kind
    <3>1. SamplesOf(c + 1) = SamplesOf(c)
      BY <1>4, <1>7, <1>15, SamplesNext
    <3> QED
      BY <1>2, <1>9, <3>1 DEF SamplesOf
  <2>5. Accounts(SamplesOf(c + 1))'
    BY <1>9, <1>12, <2>3, <2>4 DEF Accounts, Ibs
  <2>6. Draining(f, h, c + 1)'
    BY <1>1, <1>2, <1>3, <1>4, <1>15, <2>3, <2>5, RecordPassed
  <2> QED
    BY <1>1, <1>11, <2>3, <2>6
<1> QED
  BY <1>4, <1>8, <1>13, <1>14, <1>15

\* What the kernel puts in the ring is the content of some record.
LEMMA EventPuts ==
  ASSUME RingTypes, Event
  PROVE  /\ mapped
         /\ UNCHANGED <<kind, nwords, mapped, data_tail, stage, head, tail, state, report>>
         /\ \E r \in RecordType : /\ r.type = "sample" => r.bits \in Shapes[kind]
                                  /\ Put(ContentOf(r), r.bits)
<1>1. /\ mapped
      /\ UNCHANGED <<kind, nwords, mapped, data_tail, stage, head, tail, state, report>>
  BY DEF Event
<1>2. CASE \E b \in Shapes[kind] : Put(SampleOf(b), b)
  <2>1. PICK b \in Shapes[kind] : Put(SampleOf(b), b)
    BY <1>2
  <2> DEFINE r == [at |-> 0, type |-> "sample", bits |-> b]
  <2>2. r \in RecordType /\ r.type = "sample" /\ r.bits = b
    BY DEF RecordType, BitSets, RingTypes
  <2> HIDE DEF r
  <2>3. Put(ContentOf(r), r.bits)
    BY <2>1, <2>2 DEF ContentOf
  <2> QED
    BY <1>1, <2>2, <2>3
<1>3. CASE Put(Throttle, {})
  <2> DEFINE r == [at |-> 0, type |-> "throttle", bits |-> {}]
  <2>2. r \in RecordType /\ r.type = "throttle" /\ r.bits = {}
    BY DEF RecordType, BitSets
  <2> HIDE DEF r
  <2>3. Put(ContentOf(r), r.bits)
    BY <1>3, <2>2 DEF ContentOf
  <2> QED
    BY <1>1, <2>2, <2>3
<1> QED
  BY <1>2, <1>3 DEF Event

\* A drain that has begun is not disturbed by what is put behind its head.
LEMMA DrainingGrows ==
  ASSUME RingTypes, RingTypes', Layout, NEW f, NEW g, NEW h, NEW c, Draining(f, h, c),
         Grown, Losses(g)', Extended(f, g), UNCHANGED <<kind, nwords, stage, head, tail, state>>
  PROVE  Draining(g, h, c)'
<1>1. PICK n \in Nat : n = Len(written)
  BY Places
<1>2. PICK m \in Nat : m = Len(written') /\ n <= m
  BY <1>1 DEF Grown, RingTypes
<1>3. \A i \in 1 .. n : written'[i] = written[i]
  BY <1>1 DEF Grown
<1>4. /\ h \in 0 .. n /\ c \in 0 .. h /\ head = End(h) /\ Losses(f)
      /\ Accounts(SamplesOf(c))
      /\ \/ tail = End(c) /\ state.samples_lost = f[c]
         \/ /\ c < h /\ AfterLost(c + 1)
            /\ tail = written[c + 1].at /\ state.samples_lost = f[c + 1]
  BY <1>1 DEF Draining
<1>5. ASSUME NEW i \in 0 .. n PROVE End(i)' = End(i)
  <2>1. i # 0 => written'[i] = written[i]
    BY <1>3
  <2> QED
    BY <2>1 DEF End, Size, Ibs
<1>6. h \in 0 .. m /\ head' = End(h)' /\ End(c)' = End(c) /\ c \in 0 .. n
  BY <1>1, <1>2, <1>4, <1>5
<1>7. ASSUME c < h
      PROVE  /\ (AfterLost(c + 1) => AfterLost(c + 1)') /\ written'[c + 1] = written[c + 1]
             /\ g[c + 1] = f[c + 1]
  <2>1. c + 1 \in 1 .. n /\ c + 1 - 1 = c /\ c + 1 \in 0 .. n
    BY <1>4, <1>7
  <2>2. written'[c + 1] = written[c + 1] /\ g[c + 1] = f[c + 1]
    BY <1>1, <1>3, <2>1 DEF Extended
  <2> QED
    BY <1>6, <2>1, <2>2 DEF AfterLost
<1>8. g[c] = f[c]
  BY <1>1, <1>6 DEF Extended
<1>9. Accounts(SamplesOf(c))'
  <2>1. PICK T : T = SamplesOf(c)
    OBVIOUS
  <2>2. \A k \in T : k \in 1 .. n
    BY <1>1, <1>6, <2>1 DEF SamplesOf
  <2>3. SamplesOf(c)' = T
    <3>1. \A k \in 1 .. c : k \in 1 .. n
      BY <1>6
    <3> QED
      BY <1>3, <2>1, <3>1 DEF SamplesOf
  <2>4. \A k \in T : written'[k] = written[k]
    BY <1>3, <2>2
  <2>5. \A b : Counting(written, T, b)' = Counting(written, T, b)
    BY <2>4 DEF Counting
  <2>6. \A a : Carrying(written', T, a) = Carrying(written, T, a)
    BY <2>4 DEF Carrying
  <2>7. LinesOf(written, state.addrs, state.unrecorded, T) => LinesOf(written, state.addrs, state.unrecorded, T)'
    BY <2>6 DEF LinesOf
  <2>8. Accounts(T)
    BY <1>4, <2>1
  <2> QED
    BY <2>3, <2>5, <2>7, <2>8 DEF Accounts, Ibs
<1> QED
  BY <1>2, <1>4, <1>6, <1>7, <1>8, <1>9 DEF Draining

LEMMA TakenSame ==
  ASSUME RingTypes, RingTypes', head \in Nat, head <= data_head, head' = head,
         Len(written) <= Len(written'),
         \A i \in 1 .. Len(written) : written'[i] = written[i],
         \A i \in 1 .. Len(written') : i > Len(written) => written'[i].at >= data_head
  PROVE  Taken' = Taken /\ \A i \in Taken : written'[i] = written[i]
<1>1. PICK n \in Nat : n = Len(written) /\ DOMAIN written = 1 .. n
  BY DEF RingTypes
<1>2. PICK m \in Nat : m = Len(written') /\ n <= m /\ DOMAIN written' = 1 .. m
  BY <1>1 DEF RingTypes
<1>3. ASSUME NEW i \in 1 .. m PROVE i \in Taken' <=> i \in Taken
  <2>1. CASE i \in 1 .. n
    BY <1>1, <1>2, <2>1 DEF Taken
  <2>2. CASE i > n
    <3>1. written'[i].at >= data_head /\ data_head \in Nat
      BY <1>1, <1>2, <2>2 DEF RingTypes
    <3>2. written'[i].at \in Nat
      <4>1. written'[i] \in RecordType
        <5>1. written' \in Seq(RecordType)
          BY DEF RingTypes
        <5> QED
          BY <1>2, <5>1
      <4> QED
        BY <4>1 DEF RecordType
    <3>3. ~(written'[i].at < head)
      BY <3>1, <3>2
    <3> QED
      BY <1>1, <1>2, <2>2, <3>3 DEF Taken
  <2> QED
    BY <1>1, <2>1, <2>2
<1>4. Taken \subseteq 1 .. n /\ Taken' \subseteq 1 .. m /\ 1 .. n \subseteq 1 .. m
  BY <1>1, <1>2 DEF Taken
<1> QED
  BY <1>1, <1>3, <1>4

LEMMA RingEvent ==
  ASSUME RingInv, Event
  PROVE  RingInv'
<1>1. /\ RingTypes /\ state \in StateRecord /\ mapped
      /\ UNCHANGED <<kind, nwords, mapped, data_tail, stage, head, tail, state, report>>
  BY EventPuts DEF RingInv
<1>2. PICK r \in RecordType : /\ r.type = "sample" => r.bits \in Shapes[kind]
                              /\ Put(ContentOf(r), r.bits)
  BY <1>1, EventPuts
<1>3. CASE stage = "counting" \/ stage = "draining"
  <2>1. Layout /\ \E f : Losses(f)
    BY <1>3 DEF RingInv, Draining
  <2>2. /\ RingTypes' /\ Layout' /\ Grown
        /\ \A f : Losses(f) => \E g : Losses(g)' /\ Extended(f, g)
    BY <1>1, <1>2, <2>1, PutKeeps
  <2>3. stage = "counting" => RingInv'
    BY <1>1, <2>1, <2>2 DEF RingInv, InitState
  <2>4. CASE stage = "draining"
    <3>1. PICK f, h, c : Draining(f, h, c)
      BY <2>4 DEF RingInv
    <3>2. PICK g : Losses(g)' /\ Extended(f, g)
      BY <2>2, <3>1 DEF Draining
    <3>3. Draining(g, h, c)'
      BY <1>1, <2>1, <2>2, <3>1, <3>2, DrainingGrows
    <3> QED
      BY <1>1, <2>2, <2>4, <3>3 DEF RingInv
  <2> QED
    BY <1>3, <2>3, <2>4
<1>4. CASE stage \in {"drained", "printed"}
  <2>1. Drained
    BY <1>4 DEF RingInv
  <2>2. data_tail \in Nat /\ data_tail <= data_head /\ head <= data_head /\ head \in Nat
    BY <2>1 DEF Drained
  <2>3. /\ RingTypes'
        /\ data_head <= data_head' /\ Len(written) <= Len(written')
        /\ \A i \in 1 .. Len(written) : written'[i] = written[i]
        /\ \A i \in 1 .. Len(written') : i > Len(written) => written'[i].at >= data_head
        /\ \/ missed' = 0 /\ refused' = refused
           \/ missed' = missed + 1 /\ refused' = refused + 1
    BY <1>1, <1>2, <2>2, PutGrows
  <2>4. PICK T : T = Taken
    OBVIOUS
  <2>5. Taken' = T /\ \A i \in T : written'[i] = written[i]
    BY <1>1, <2>2, <2>3, <2>4, TakenSame
  <2>6. \A b : Counting(written, T, b)' = Counting(written, T, b)
    BY <2>5 DEF Counting
  <2>7. \A a : Carrying(written', T, a) = Carrying(written, T, a)
    BY <2>5 DEF Carrying
  <2>8. /\ LinesOf(written, state.addrs, state.unrecorded, T) => LinesOf(written, state.addrs, state.unrecorded, T)'
        /\ LinesOf(written, report, state.unrecorded, T) => LinesOf(written, report, state.unrecorded, T)'
    BY <1>1, <2>7 DEF LinesOf
  <2>9. state.samples_lost + missed' <= refused' /\ data_tail <= data_head' /\ head <= data_head'
    <3>1. /\ missed \in Nat /\ refused \in Nat /\ data_head \in Nat /\ data_head' \in Nat
          /\ state.samples_lost \in Nat /\ state.samples_lost + missed <= refused
      BY <1>1, <2>1, <2>3 DEF RingTypes, StateRecord, Drained
    <3> QED
      BY <2>2, <2>3, <3>1
  <2>10. Drained'
    BY <1>1, <2>1, <2>2, <2>4, <2>5, <2>6, <2>8, <2>9 DEF Drained, Ibs
  <2> QED
    BY <1>1, <1>4, <2>3, <2>10 DEF RingInv
<1> QED
  BY <1>3, <1>4 DEF RingInv

\* The drain begins with nothing decoded; without a ring there is nothing.
LEMMA RingStart ==
  ASSUME RingInv, StartDrain
  PROVE  RingInv'
<1>1. /\ RingTypes /\ Layout /\ state = InitState /\ head = 0 /\ (~mapped => written = <<>>)
      /\ stage = "counting" /\ state \in StateRecord
  BY DEF RingInv, StartDrain
<1>2. PICK f : Losses(f)
  BY <1>1 DEF RingInv
<1>3. UNCHANGED <<kind, nwords, mapped, kernel, data_tail, state, report>>
  BY DEF StartDrain
<1>4. UNCHANGED <<written, missed, refused, data_head>>
  BY <1>3 DEF kernel
<1>5. RingTypes' /\ Layout' /\ Losses(f)' /\ \A i : End(i)' = End(i)
  BY <1>1, <1>2, <1>3, QuietRing
<1>6. Cardinality({}) = 0
  BY FS_EmptySet
<1>7. /\ state.samples_seen = 0 /\ state.decode_skipped = 0 /\ state.count = 0 /\ state.samples_lost = 0
      /\ state.addrs = <<>> /\ state.unrecorded = 0 /\ \A b \in Bits : state.tally[b] = 0
  BY <1>1 DEF InitState
<1>8. LinesOf(written, state.addrs, state.unrecorded, {})
  BY <1>6, <1>7, TotalEmpty DEF LinesOf
<1>9. \A b : Counting(written, {}, b) = {}
  BY DEF Counting
<1>10. CASE mapped
  <2>1. head' = data_head /\ tail' = data_tail /\ stage' = "draining"
    BY <1>10 DEF StartDrain
  <2>2. SamplesOf(0) = {} /\ SamplesOf(0)' = {}
    BY DEF SamplesOf
  <2>3. Accounts(SamplesOf(0))'
    BY <1>3, <1>4, <1>6, <1>7, <1>8, <1>9, <2>2 DEF Accounts
  <2>4. PICK n \in Nat : n = Len(written)
    BY <1>1, Places
  <2>5. head' = End(n)' /\ tail' = End(0)' /\ state'.samples_lost = f[0]
    <3>1. data_head = End(n) /\ data_tail = 0 /\ End(0) = 0 /\ f[0] = 0
      BY <1>1, <1>2, <2>4 DEF Layout, End, Losses
    <3> QED
      BY <1>3, <1>5, <1>7, <2>1, <3>1
  <2>6. Draining(f, n, 0)'
    BY <1>4, <1>5, <2>3, <2>4, <2>5 DEF Draining
  <2> QED
    BY <1>1, <1>3, <1>5, <2>1, <2>6 DEF RingInv
<1>11. CASE ~mapped
  <2>1. stage' = "drained" /\ head' = 0 /\ Taken' = {}
    BY <1>1, <1>4, <1>11 DEF StartDrain, Taken
  <2>2. data_tail = 0 /\ data_head \in Nat
    BY <1>1 DEF Layout, RingTypes
  <2>3. missed <= refused
    <3>1. f[0] = 0 /\ f[0] + missed = refused /\ missed \in Nat
      BY <1>1, <1>2, <1>11 DEF Losses, RingTypes
    <3> QED
      BY <3>1
  <2>4. 0 + missed <= refused
    BY <1>1, <2>3 DEF RingTypes
  <2>6. LinesOf(written, state.addrs, state.unrecorded, {})' /\ \A b : Counting(written', {}, b) = {}
    BY <1>3, <1>4, <1>8 DEF Counting
  <2>7. /\ state'.samples_seen = Cardinality(Taken') /\ state'.decode_skipped = 0
        /\ state'.count = Cardinality(Taken')
        /\ \A b \in Bits : state'.tally[b] = Cardinality(Counting(written', Taken', b))
        /\ LinesOf(written, state.addrs, state.unrecorded, Taken)'
    BY <1>3, <1>6, <1>7, <2>1, <2>6
  <2>8. head' <= data_head' /\ data_tail' \in Nat /\ data_tail' <= data_head' /\ head' \in Nat
    BY <1>3, <1>4, <2>1, <2>2
  <2>9. state'.samples_lost + missed' <= refused'
    BY <1>3, <1>4, <1>7, <2>4
  <2>5. Drained'
    BY <2>1, <2>7, <2>8, <2>9 DEF Drained
  <2> QED
    BY <1>1, <1>3, <1>5, <2>1, <2>5 DEF RingInv
<1> QED
  BY <1>10, <1>11

\* At its end the drain is at the end of the last record, and has decoded all.
LEMMA RingPublish ==
  ASSUME RingInv, Publish
  PROVE  RingInv'
<1>1. /\ RingTypes /\ Layout /\ state \in StateRecord /\ stage = "draining" /\ ~Complete
      /\ \E f, h, c : Draining(f, h, c)
  BY DEF RingInv, Publish
<1>2. /\ UNCHANGED <<kind, nwords, mapped, kernel, head, tail, state, report>>
      /\ data_tail' = tail /\ stage' = "drained"
  BY DEF Publish
<1>3. PICK f, h, c : Draining(f, h, c)
  BY <1>1
<1>4. UNCHANGED <<written, missed, refused, data_head>>
  BY <1>2 DEF kernel
<1>5. RingTypes'
  BY <1>1, <1>2, QuietRing
<1>6. PICK n \in Nat : n = Len(written)
  BY <1>1, Places
<1>7. c = h /\ tail = head /\ state.samples_lost = f[h] /\ h \in 0 .. n /\ h \in Nat
  <2>1. /\ ~(c < h) /\ c \in Nat /\ h \in Nat /\ c <= h
        /\ c = h => tail = head /\ state.samples_lost = f[h]
    BY <1>1, <1>3, DrainAt
  <2>2. c = h
    BY <2>1
  <2> QED
    BY <1>3, <1>6, <2>1, <2>2 DEF Draining
<1>8. head = End(h) /\ Losses(f) /\ Accounts(SamplesOf(h))
  BY <1>3, <1>7 DEF Draining
<1>9. head \in Nat /\ head <= data_head /\ data_head \in Nat
  BY <1>1, <1>6, <1>7, <1>8, Places DEF RingTypes
<1>10. Taken = SamplesOf(h)
  <2>1. ASSUME NEW i \in 1 .. n PROVE written[i].at < head <=> i <= h
    <3>1. /\ i - 1 \in 0 .. n /\ i \in 0 .. n
          /\ Size(written[i]) \in Nat /\ Size(written[i]) >= 2 /\ written[i].at \in Nat
          /\ End(i - 1) <= written[i].at /\ End(i) = written[i].at + Size(written[i])
          /\ End(i) \in Nat /\ End(i - 1) \in Nat
      BY <1>1, <1>6, Places
    <3>2. CASE i <= h
      <4>1. i < h => End(i) < End(h)
        BY <1>1, <1>6, <1>7, <3>1 DEF Layout
      <4>2. i < h \/ i = h
        BY <1>7, <3>2
      <4>3. End(i) <= head
        BY <1>8, <1>9, <3>1, <4>1, <4>2
      <4> QED
        BY <1>9, <3>1, <3>2, <4>3
    <3>3. CASE ~(i <= h)
      <4>1. h < i - 1 => End(h) < End(i - 1)
        BY <1>1, <1>6, <1>7, <3>1 DEF Layout
      <4>2. h < i - 1 \/ h = i - 1
        BY <1>7, <3>1, <3>3
      <4>3. head <= End(i - 1)
        BY <1>8, <1>9, <3>1, <4>1, <4>2
      <4> QED
        BY <1>9, <3>1, <3>3, <4>3
    <3> QED
      BY <3>2, <3>3
  <2>2. DOMAIN written = 1 .. n
    BY <1>1, <1>6, Places
  <2>3. \A i : i \in 1 .. h <=> i \in 1 .. n /\ i <= h
    BY <1>7
  <2> QED
    BY <2>1, <2>2, <2>3 DEF Taken, SamplesOf
<1>11. Taken' = Taken /\ Accounts(Taken)
  BY <1>2, <1>4, <1>8, <1>10 DEF Taken
<1>12. state.samples_lost + missed <= refused
  <2>1. f[h] <= f[n] /\ f[n] + missed = refused /\ f[h] \in Nat /\ f[n] \in Nat
    <3>1. f \in [Nat -> Nat] /\ f[n] + missed = refused
      BY <1>6, <1>8 DEF Losses
    <3>2. n \in 0 .. n /\ h <= n
      BY <1>7
    <3>3. f[h] <= f[n]
      BY <1>6, <1>7, <1>8, <3>2 DEF Losses
    <3> QED
      BY <1>7, <3>1, <3>3
  <2>2. missed \in Nat
    BY <1>1 DEF RingTypes
  <2> QED
    BY <1>7, <2>1, <2>2
<1>13. PICK T : T = Taken
  OBVIOUS
<1>14. Drained'
  <2>1. /\ state.samples_seen = Cardinality(T) /\ state.decode_skipped = 0
        /\ Ibs => /\ state.count = Cardinality(T)
                  /\ \A b \in Bits : state.tally[b] = Cardinality(Counting(written, T, b))
        /\ ~Ibs => LinesOf(written, state.addrs, state.unrecorded, T)
    BY <1>11, <1>13 DEF Accounts
  <2>2. Taken' = T
    BY <1>11, <1>13
  <2> QED
    BY <1>2, <1>4, <1>7, <1>9, <1>12, <2>1, <2>2 DEF Drained, Ibs
<1> QED
  BY <1>1, <1>2, <1>5, <1>14 DEF RingInv

\* The report takes the histogram, and frees it.
LEMMA RingReport ==
  ASSUME RingInv, Report
  PROVE  RingInv'
<1>1. RingTypes /\ state \in StateRecord /\ stage = "drained" /\ Drained
  BY DEF RingInv, Report
<1>2. /\ report' = IF Ibs THEN <<IbsRow>> ELSE state.addrs
      /\ state' = IF Ibs THEN state ELSE [state EXCEPT !.addrs = <<>>]
      /\ stage' = "printed"
      /\ UNCHANGED <<kind, nwords, kernel, data_tail, head, tail>>
      /\ mapped' = (mapped /\ Ibs)
  BY DEF Report
<1>3. UNCHANGED <<ring, written, missed, refused, data_head>>
  BY <1>2 DEF kernel
<1>4. RingTypes'
  BY <1>1, <1>2, <1>3 DEF RingTypes, RecordType, BitSets, Ibs
<1>5. Taken' = Taken
  BY <1>2, <1>3 DEF Taken
<1>6. /\ state' \in StateRecord
      /\ state'.samples_seen = state.samples_seen /\ state'.samples_lost = state.samples_lost
      /\ state'.decode_skipped = state.decode_skipped /\ state'.unrecorded = state.unrecorded
      /\ state'.count = state.count /\ state'.tally = state.tally
  <2>1. <<>> \in Seq(Line)
    OBVIOUS
  <2>2. CASE Ibs
    BY <1>1, <1>2, <2>2
  <2>3. CASE ~Ibs
    <3>1. state' = [state EXCEPT !.addrs = <<>>]
      BY <1>2, <2>3
    <3> QED
      BY <1>1, <2>1, <3>1 DEF StateRecord
  <2> QED
    BY <2>2, <2>3
<1>7. ~Ibs => report' = state.addrs /\ state.addrs \in Seq(Line)
  BY <1>1, <1>2 DEF StateRecord
<1>8. Drained'
  BY <1>1, <1>2, <1>3, <1>5, <1>6, <1>7 DEF Drained, Ibs
<1> QED
  BY <1>2, <1>4, <1>6, <1>8 DEF RingInv

LEMMA RingStarts == RingInit => RingInv
<1> SUFFICES ASSUME RingInit PROVE RingInv
  OBVIOUS
<1>1. /\ kind \in Kinds /\ nwords \in (IF Ibs THEN RawWords ELSE {0}) /\ mapped \in BOOLEAN
      /\ ring = [i \in 0..DataSize - 1 |-> Word("data", 0, {})]
      /\ data_head = 0 /\ data_tail = 0 /\ missed = 0 /\ refused = 0 /\ written = <<>>
      /\ stage = "counting" /\ head = 0 /\ state = InitState
  BY DEF RingInit
<1>2. nwords \in Nat /\ (Ibs => nwords >= 5)
  <2>1. ASSUME NEW w \in RawWords PROVE w \in Nat /\ w >= 5
    <3>1. w \in Nat /\ w \notin 0 .. 4
      BY RingAssumption
    <3> QED
      BY <3>1
  <2> QED
    BY <1>1, <2>1
<1>3. written \in Seq(RecordType) /\ Len(written) = 0 /\ DOMAIN written = {}
  BY <1>1
<1>4. RingTypes
  BY <1>1, <1>2, <1>3 DEF RingTypes
<1>5. Layout
  <2>1. End(0) = 0 /\ DataSize > 0
    BY RingSize DEF End
  <2>2. \A i, j \in 0 .. 0 : ~(i < j)
    OBVIOUS
  <2> QED
    BY <1>1, <1>3, <2>1, <2>2 DEF Layout
<1>6. \E f : Losses(f)
  <2> DEFINE f == [i \in Nat |-> 0]
  <2>1. f \in [Nat -> Nat] /\ \A i \in Nat : f[i] = 0
    OBVIOUS
  <2> HIDE DEF f
  <2>2. Losses(f)
    BY <1>1, <1>3, <2>1 DEF Losses
  <2> QED
    BY <2>2
<1>7. state \in StateRecord
  <2>1. Capacity \in Nat /\ <<>> \in Seq(Line)
    BY RingAssumption
  <2> QED
    BY <1>1, <2>1 DEF InitState, StateRecord
<1> QED
  BY <1>1, <1>4, <1>5, <1>6, <1>7 DEF RingInv

LEMMA RingStep == RingInv /\ [RingNext]_ringVars => RingInv'
<1> SUFFICES ASSUME RingInv, [RingNext]_ringVars PROVE RingInv'
  OBVIOUS
<1>1. CASE Event
  BY <1>1, RingEvent
<1>2. CASE StartDrain
  BY <1>2, RingStart
<1>3. CASE TakeSample \/ TakeLost \/ SkipOther
  BY <1>3, RingTake
<1>4. CASE Publish
  BY <1>4, RingPublish
<1>5. CASE Report
  BY <1>5, RingReport
<1>6. CASE UNCHANGED ringVars
  <2>1. /\ UNCHANGED <<kind, nwords, mapped, kernel, data_tail, stage, head, tail, state, report>>
        /\ UNCHANGED <<written, missed, refused, data_head>>
    BY <1>6 DEF ringVars, kernel
  <2>2. /\ RingTypes => RingTypes'
        /\ Layout => Layout'
        /\ \A f : Losses(f) => Losses(f)'
        /\ \A i : End(i)' = End(i) /\ AfterLost(i)' = AfterLost(i)
    BY <2>1, QuietRing
  <2>3. \A c : SamplesOf(c)' = SamplesOf(c)
    BY <2>1 DEF SamplesOf
  <2>4. Taken' = Taken /\ Ibs' = Ibs
    BY <2>1 DEF Taken, Ibs
  <2>5. \A c : Accounts(SamplesOf(c)) => Accounts(SamplesOf(c))'
    BY <2>1, <2>3, <2>4 DEF Accounts
  <2>6. ASSUME NEW f, NEW h, NEW c, Draining(f, h, c) PROVE Draining(f, h, c)'
    BY <2>1, <2>2, <2>5, <2>6 DEF Draining
  <2>7. Drained => Drained'
    BY <2>1, <2>4 DEF Drained
  <2> QED
    BY <2>1, <2>2, <2>6, <2>7 DEF RingInv, InitState
<1> QED
  BY <1>1, <1>2, <1>3, <1>4, <1>5, <1>6 DEF RingNext

LEMMA RingHolds == RingInv => DrainedExactly
<1> SUFFICES ASSUME RingInv, stage \in {"drained", "printed"} PROVE DrainedExactly
  BY DEF DrainedExactly
<1>1. Drained /\ state \in StateRecord
  BY DEF RingInv
<1>2. \A b : Having(LAMBDA s : b \in s /\ (b = "brn_misp" => "brn_ret" \in s)) = Cardinality(Counting(written, Taken, b))
  BY DEF Having, Counting, Counts
<1>3. \A a : Having(LAMBDA s : s = a) = Cardinality(Carrying(written, Taken, a))
  BY DEF Having, Carrying
<1> DEFINE lines == IF stage = "printed" THEN report ELSE state.addrs
<1>4. CASE ~Ibs
  <2>1. lines \in Seq(Line) /\ LinesOf(written, lines, state.unrecorded, Taken)
    BY <1>1, <1>4 DEF Drained, StateRecord
  <2> HIDE DEF lines
  <2>2. DOMAIN lines = 1 .. Len(lines)
    BY <2>1
  <2>3. /\ Total(lines) + state.unrecorded = Cardinality(Taken)
        /\ \A i \in DOMAIN lines :
             /\ lines[i].count <= Having(LAMBDA s : s = lines[i].addr)
             /\ \A j \in DOMAIN lines : lines[j].addr = lines[i].addr => i = j
    BY <1>3, <2>1, <2>2 DEF LinesOf
  <2> QED
    BY <1>1, <1>4, <2>3 DEF Drained, DrainedExactly, lines
<1>5. CASE Ibs
  BY <1>1, <1>2, <1>5 DEF Drained, DrainedExactly
<1> QED
  BY <1>4, <1>5

\* A drain accounts for every sample that was in the ring when it began, each
\* once and with its own payload, and for nothing else (perf_ring_drain() and
\* its callbacks): for every size of the ring, of the scratch buffer and of
\* the IBS records, and for every sequence of records.
THEOREM DrainAccounts == RingSpec => []DrainedExactly
<1> QED
  BY RingStarts, RingStep, RingHolds, PTL DEF RingSpec
=============================================================================
