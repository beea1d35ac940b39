------------------------------- MODULE Multipass -------------------------------
(***************************************************************************)
(* wspy --passes: the counter groups the user asks for are split into      *)
(* passes that fit the hardware PMU (multipass_plan_build), the workload   *)
(* is run again for each pass, and what the passes measured is printed as  *)
(* one row (run_multipass).  There is one process and no concurrency; what *)
(* has to be right is what one pass leaves behind for the next, and what   *)
(* the row and the manifest say after all of them.                         *)
(*                                                                         *)
(* The variables measured and outcomes are history.                        *)
(***************************************************************************)
EXTENDS Integers, Sequences, FiniteSets

CONSTANTS
  Groups,      \* the counter groups of multipass_group_names[]
  Order,       \* its order
  Software,    \* the one group that needs no hardware counter
  Need,        \* Need[S]: the hardware counters the groups S take, together
  Slots,       \* preflight_available_slots()
  Unreliable,  \* the groups perf_event_open() may refuse on this host
  ExitCodes, Signals

Hardware == Groups \ {Software}

ASSUME PlanAssumption ==
  /\ Software \in Groups
  /\ Order \in Seq(Groups)
  /\ \A g \in Groups : \E j \in 1..Len(Order) : Order[j] = g
  /\ \A j, k \in 1..Len(Order) : Order[j] = Order[k] => j = k
  /\ Slots \in Nat
  /\ Need \in [SUBSET Hardware -> Nat]
  /\ Need[{}] = 0
  \* more groups take no fewer counters
  /\ \A S, T \in SUBSET Hardware : S \subseteq T => Need[S] <= Need[T]

ASSUME StatusAssumption == ExitCodes \subseteq Nat /\ Signals \subseteq Nat

VARIABLES
  requested, multiplex, listcolumns,   \* the command line
  i, current, passes,                  \* multipass_plan_build(): loop index, open pass, plan
  pc, p,                               \* run_multipass(): where it is, and in which pass
  open,                                \* the groups whose counters are open
  value,                               \* the pass each group's last value is from; 0: none
  status,                              \* the child_* globals
  infos,                               \* mpasses[].exit_status of the passes so far
  warned,                              \* the passes reported as different from the first
  measured,                            \* the groups whose counters could be opened
  outcomes                             \* how the workload really ended in each pass

options == <<requested, multiplex, listcolumns>>
planVars == <<i, current, passes>>
runVars == <<pc, p, open, value, status, infos, warned, measured, outcomes>>
vars == <<options, planVars, runVars>>

Outcomes == [how : {"exit"}, n : ExitCodes] \cup [how : {"signal"}, n : Signals]
Status == [exited : BOOLEAN, code : Nat, signaled : BOOLEAN, sig : Nat]

Init ==
  /\ requested \in (SUBSET Groups) \ {{}}
  /\ multiplex \in BOOLEAN /\ listcolumns \in BOOLEAN
  /\ i = 1 /\ current = {} /\ passes = <<>>
  /\ pc = "plan" /\ p = 1
  /\ open = {}
  /\ value = [g \in Groups |-> 0]
  /\ status = [exited |-> FALSE, code |-> 0, signaled |-> FALSE, sig |-> 0]
  /\ infos = <<>> /\ warned = {}
  /\ measured = {} /\ outcomes = <<>>

-----------------------------------------------------------------------------
(* The plan. *)

Fits(S) == Need[S \ {Software}] <= Slots

Consider(g) ==
  /\ pc = "plan" /\ ~multiplex
  /\ i <= Len(Order) /\ g = Order[i]
  /\ i' = i + 1
  /\ UNCHANGED <<options, runVars>>

Skip(g) == Consider(g) /\ g \notin requested /\ UNCHANGED <<current, passes>>

\* Software counters ride along with the pass being filled, whatever it needs.
TakeSoftware(g) ==
  /\ Consider(g)
  /\ g \in requested /\ g = Software
  /\ \/ current = {} /\ passes' = Append(passes, {g}) /\ UNCHANGED current
     \/ current # {} /\ current' = current \cup {g} /\ UNCHANGED passes

\* slip: the pass is closed, and the group that did not fit is forgotten
CloseAndForget(g) == passes' = Append(passes, current) /\ current' = {}
\* A group that does not fit with the others closes their pass and opens one.
CloseFor(g) == passes' = Append(passes, current) /\ current' = {g}

TakeHardware(g) ==
  /\ Consider(g)
  /\ g \in requested /\ g # Software
  /\ IF current # {} /\ ~Fits(current \cup {g})
       THEN CloseFor(g)
       ELSE current' = current \cup {g} /\ UNCHANGED passes

EndPlan ==
  /\ pc = "plan" /\ ~multiplex
  /\ i = Len(Order) + 1
  /\ passes' = IF current = {} THEN passes ELSE Append(passes, current)
  /\ current' = {}
  /\ pc' = "setup"
  /\ UNCHANGED <<options, i, p, open, value, status, infos, warned, measured, outcomes>>

\* --multiplex: one pass, and the kernel shares the counters out.
PlanMultiplexed ==
  /\ pc = "plan" /\ multiplex
  /\ passes' = <<requested>>
  /\ pc' = "setup"
  /\ UNCHANGED <<options, i, current, p, open, value, status, infos, warned, measured, outcomes>>

-----------------------------------------------------------------------------
(* The passes. *)

\* --list-columns prints the header and stops before the first pass.
ListColumns ==
  /\ pc = "setup" /\ listcolumns
  /\ pc' = "done"
  /\ UNCHANGED <<options, planVars, p, open, value, status, infos, warned, measured, outcomes>>

Setup ==
  /\ pc = "setup" /\ ~listcolumns
  /\ \E refused \in SUBSET (passes[p] \cap Unreliable) :
       /\ open' = open \cup (passes[p] \ refused)
       /\ measured' = measured \cup (passes[p] \ refused)
  /\ pc' = "launch"
  /\ UNCHANGED <<options, planVars, p, value, status, infos, warned, outcomes>>

Launch ==
  /\ pc = "launch"
  /\ pc' = "wait"
  /\ UNCHANGED <<options, planVars, p, open, value, status, infos, warned, measured, outcomes>>

\* pipe() or fork() fails: fatal(), and nothing is printed.
LaunchFails ==
  /\ pc = "launch"
  /\ pc' = "dead"
  /\ UNCHANGED <<options, planVars, p, open, value, status, infos, warned, measured, outcomes>>

\* slip: the flags are never cleared, as if only the first child could die so
SetNeverCleared(s, o) ==
  IF o.how = "exit" THEN [s EXCEPT !.exited = TRUE, !.code = o.n]
                    ELSE [s EXCEPT !.signaled = TRUE, !.sig = o.n]

\* wait4() sets the flags each time, but a code only when there is one: the
\* other keeps the value an earlier pass left in it.
WaitStatus(s, o) ==
  [exited |-> o.how = "exit",
   code |-> IF o.how = "exit" THEN o.n ELSE s.code,
   signaled |-> o.how = "signal",
   sig |-> IF o.how = "signal" THEN o.n ELSE s.sig]

\* slip: values are read after the counters are closed
ReadClosed(v, S) == v
\* slip: close_counters() is not called between passes
NothingClosed(S) == UNCHANGED open

\* read_counters() reads what is open of the pass, close_counters() closes it.
Read(v, S) == [g \in Groups |-> IF g \in S \cap open THEN p ELSE v[g]]
Close(S) == open' = open \ S

\* The workload has ended (an exec that failed looks like exit code 1).
Collect ==
  /\ pc = "wait"
  /\ \E o \in Outcomes :
       LET s == WaitStatus(status, o)
           last == p = Len(passes)
       IN /\ value' = Read(value, passes[p])
          /\ Close(passes[p])
          /\ infos' = Append(infos, s)
          /\ warned' = IF p > 1 /\ s # infos[1] THEN warned \cup {p} ELSE warned
          /\ outcomes' = Append(outcomes, o)
          \* after the last pass the globals go back to what the first one left
          /\ status' = IF last THEN infos'[1] ELSE s
          /\ pc' = IF last THEN "done" ELSE "setup"
          /\ p' = IF last THEN p ELSE p + 1
  /\ UNCHANGED <<options, planVars, measured>>

Stopped == pc \in {"done", "dead"} /\ UNCHANGED vars

Next ==
  \/ \E g \in Groups : Skip(g) \/ TakeSoftware(g) \/ TakeHardware(g)
  \/ EndPlan \/ PlanMultiplexed
  \/ ListColumns \/ Setup \/ Launch \/ LaunchFails \/ Collect
  \/ Stopped

Spec == Init /\ [][Next]_vars

\* What write_exit_status() prints of a status, and the exit code of
\* `wspy --exit-with-child`.
Printed(s) == [code |-> IF s.exited THEN {s.code} ELSE {}, sig |-> IF s.signaled THEN {s.sig} ELSE {}]
ExitCode(s) == IF s.signaled THEN 128 + s.sig ELSE s.code

-----------------------------------------------------------------------------
(* Properties. *)

Within(S) == Need[S \ {Software}] <= Slots

\* Types; a pass has its status recorded exactly when it has been waited for.
MultipassTypeOK ==
  /\ requested \in SUBSET Groups /\ multiplex \in BOOLEAN /\ listcolumns \in BOOLEAN
  /\ i \in 1..Len(Order) + 1 /\ current \in SUBSET Groups /\ passes \in Seq(SUBSET Groups)
  /\ pc \in {"plan", "setup", "launch", "wait", "done", "dead"} /\ p \in Nat \ {0}
  /\ open \in SUBSET Groups /\ value \in [Groups -> Nat]
  /\ status \in Status /\ infos \in Seq(Status) /\ warned \in SUBSET Nat
  /\ measured \in SUBSET Groups /\ outcomes \in Seq(Outcomes)
  /\ Len(outcomes) = Len(infos)

\* The passes of a plan are a partition of what was requested: no group is
\* measured in two passes, none is dropped, and no pass runs the workload for
\* nothing (multipass_plan_build).
PlanPartitions ==
  pc # "plan" =>
    /\ \A k \in DOMAIN passes : passes[k] # {}
    /\ \A j, k \in DOMAIN passes : j # k => passes[j] \cap passes[k] = {}
    /\ \A g \in Groups : g \in requested <=> \E k \in DOMAIN passes : g \in passes[k]

\* The counters open at one time fit the PMU, in every pass, whatever could not
\* be opened; only --multiplex and a group too large for any pass exceed it.
\* (It takes the plan, and close_counters() before the next setup_counters().)
Uncontended == open = {} \/ Within(open) \/ multiplex \/ \E g \in Hardware : open \ {Software} = {g}

\* The merged row prints, for every group that could be measured, the value from
\* the one pass the group belongs to, and nothing stale for the others.
RowComplete ==
  pc = "done" /\ ~listcolumns =>
    \A k \in DOMAIN passes : \A g \in passes[k] : value[g] = IF g \in measured THEN k ELSE 0

\* The manifest says of each pass how the workload ended in that pass, a pass that
\* ended differently from the first is reported, and wspy's own exit code is the
\* first pass's - although the globals carry the codes of earlier passes along.
EachPassItsStatus ==
  /\ \A k \in DOMAIN infos :
       /\ Printed(infos[k]) = [code |-> IF outcomes[k].how = "exit" THEN {outcomes[k].n} ELSE {},
                               sig |-> IF outcomes[k].how = "signal" THEN {outcomes[k].n} ELSE {}]
       /\ outcomes[k] # outcomes[1] => k \in warned
  /\ pc = "done" /\ infos # <<>> =>
       ExitCode(status) = IF outcomes[1].how = "exit" THEN outcomes[1].n ELSE 128 + outcomes[1].n

=============================================================================
