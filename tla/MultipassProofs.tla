---------------------------- MODULE MultipassProofs ----------------------------
(***************************************************************************)
(* Proofs about Multipass, for any groups, table order, counter needs and  *)
(* command line.  The inductive invariant says of the plan in the making   *)
(* what PlanPartitions says of the finished one (PlanInv), that no pass is *)
(* too large (RoomInv), and that only the counters of the pass being run   *)
(* are open (OpenInv).  On it rest the invariants of what the passes       *)
(* leave behind: StatusInv for the manifest, RowInv for the row.           *)
(***************************************************************************)
EXTENDS Multipass, SequenceTheorems, TLAPS

\* The groups the plan has come to: those before index i of the table.
Considered(g) == \E j \in 1..i - 1 : Order[j] = g
Placed(g) == g \in current \/ \E k \in 1..Len(passes) : g \in passes[k]

PlanInv ==
  /\ \A k \in 1..Len(passes) : passes[k] # {}
  /\ \A k \in 1..Len(passes) : passes[k] \cap current = {}
  /\ \A j, k \in 1..Len(passes) : j # k => passes[j] \cap passes[k] = {}
  /\ pc = "plan" => \A g \in Groups : Placed(g) <=> g \in requested /\ Considered(g)
  /\ pc # "plan" => current = {} /\ \A g \in Groups : Placed(g) <=> g \in requested
  /\ pc = "plan" /\ multiplex => passes = <<>> /\ current = {}

\* A pass fits the PMU, holds one hardware group, or is meant not to fit.
Roomy(S) == Within(S) \/ multiplex \/ \E g \in Hardware : S \ {Software} = {g}

RoomInv == Roomy(current) /\ \A k \in 1..Len(passes) : Roomy(passes[k])

Busy == {"launch", "wait", "dead"}
OpenInv ==
  /\ requested # {}
  /\ pc = "plan" => p = 1
  /\ pc \notin {"plan", "done"} => p \in 1..Len(passes)
  /\ IF pc \in Busy THEN open \subseteq passes[p] ELSE open = {}

IInv == MultipassTypeOK /\ PlanInv /\ RoomInv /\ OpenInv

-----------------------------------------------------------------------------
LEMMA OrderFacts ==
  /\ Len(Order) \in Nat
  /\ \A j \in 1..Len(Order) : Order[j] \in Groups
  /\ \A g \in Groups : \E j \in 1..Len(Order) : Order[j] = g
  /\ \A j, k \in 1..Len(Order) : Order[j] = Order[k] => j = k
BY PlanAssumption

\* Appending a pass keeps the ones before it and adds one at the end.
LEMMA AppendedPass ==
  ASSUME NEW s \in Seq(SUBSET Groups), NEW S \in SUBSET Groups
  PROVE  /\ Append(s, S) \in Seq(SUBSET Groups)
         /\ Len(Append(s, S)) = Len(s) + 1
         /\ \A k \in 1..Len(s) : Append(s, S)[k] = s[k]
         /\ Append(s, S)[Len(s) + 1] = S
         /\ Len(s) \in Nat
OBVIOUS

\* The counters of fewer groups fit when those of more do.
LEMMA FewerFit ==
  ASSUME NEW S \in SUBSET Groups, NEW T \in SUBSET S, Within(S)
  PROVE  Within(T)
<1>1. S \ {Software} \in SUBSET Hardware /\ T \ {Software} \in SUBSET Hardware
  BY DEF Hardware
<1>2. T \ {Software} \subseteq S \ {Software}
  OBVIOUS
<1>3. Need[T \ {Software}] <= Need[S \ {Software}]
  BY <1>1, <1>2, PlanAssumption
<1>4. Need[T \ {Software}] \in Nat /\ Need[S \ {Software}] \in Nat /\ Slots \in Nat
  BY <1>1, PlanAssumption
<1> QED
  BY <1>3, <1>4 DEF Within

\* Nothing needs nothing.
LEMMA EmptyFits == Within({})
<1>1. {} \ {Software} = {}
  OBVIOUS
<1> QED
  BY <1>1, PlanAssumption DEF Within

-----------------------------------------------------------------------------
(* Types. *)

LEMMA TypeInit == Init => MultipassTypeOK
<1> SUFFICES ASSUME Init PROVE MultipassTypeOK
  OBVIOUS
<1>1. i \in 1..Len(Order) + 1
  BY OrderFacts DEF Init
<1>2. passes \in Seq(SUBSET Groups) /\ infos \in Seq(Status) /\ outcomes \in Seq(Outcomes)
  BY DEF Init
<1>3. status \in Status
  BY DEF Init, Status
<1> QED
  BY <1>1, <1>2, <1>3 DEF Init, MultipassTypeOK

LEMMA CollectTypes ==
  ASSUME MultipassTypeOK, Collect
  PROVE  MultipassTypeOK'
<1> USE DEF MultipassTypeOK
<1>1. PICK o \in Outcomes :
        /\ value' = Read(value, passes[p])
        /\ Close(passes[p])
        /\ infos' = Append(infos, WaitStatus(status, o))
        /\ warned' = IF p > 1 /\ WaitStatus(status, o) # infos[1] THEN warned \cup {p} ELSE warned
        /\ outcomes' = Append(outcomes, o)
        /\ status' = IF p = Len(passes) THEN infos'[1] ELSE WaitStatus(status, o)
        /\ pc' = IF p = Len(passes) THEN "done" ELSE "setup"
        /\ p' = IF p = Len(passes) THEN p ELSE p + 1
  BY DEF Collect
<1>2. WaitStatus(status, o) \in Status
  <2>1. o.how = "exit" => o.n \in Nat
    BY StatusAssumption DEF Outcomes
  <2>2. o.how = "signal" => o.n \in Nat
    BY StatusAssumption DEF Outcomes
  <2> QED
    BY <2>1, <2>2 DEF WaitStatus, Status
<1>3. infos' \in Seq(Status) /\ Len(infos') = Len(infos) + 1 /\ infos'[1] \in Status
  <2>1. infos' \in Seq(Status) /\ Len(infos') = Len(infos) + 1
    BY <1>1, <1>2
  <2> QED
    BY <2>1
<1>4. outcomes' \in Seq(Outcomes) /\ Len(outcomes') = Len(outcomes) + 1
  BY <1>1
<1>5. status' \in Status
  BY <1>1, <1>2, <1>3
<1>6. value' \in [Groups -> Nat]
  BY <1>1 DEF Read
<1>7. open' \in SUBSET Groups
  BY <1>1 DEF Close
<1>8. warned' \in SUBSET Nat
  BY <1>1
<1>9. p' \in Nat \ {0} /\ pc' \in {"setup", "done"}
  BY <1>1
<1>10. UNCHANGED <<options, planVars, measured>>
  BY DEF Collect
<1> QED
  BY <1>3, <1>4, <1>5, <1>6, <1>7, <1>8, <1>9, <1>10 DEF options, planVars

LEMMA PassTypes ==
  ASSUME MultipassTypeOK, OpenInv, Setup \/ Launch \/ LaunchFails \/ ListColumns
  PROVE  MultipassTypeOK'
<1>1. CASE Setup
  <2>1. PICK refused : /\ open' = open \cup (passes[p] \ refused)
                       /\ measured' = measured \cup (passes[p] \ refused)
    BY <1>1 DEF Setup
  <2>2. p \in 1..Len(passes)
    BY <1>1 DEF Setup, OpenInv
  <2>3. passes[p] \in SUBSET Groups
    BY <2>2 DEF MultipassTypeOK
  <2>4. open' \in SUBSET Groups /\ measured' \in SUBSET Groups
    BY <2>1, <2>3 DEF MultipassTypeOK
  <2> QED
    BY <1>1, <2>4 DEF Setup, MultipassTypeOK, options, planVars
<1>2. CASE Launch
  BY <1>2 DEF Launch, MultipassTypeOK, options, planVars
<1>3. CASE LaunchFails
  BY <1>3 DEF LaunchFails, MultipassTypeOK, options, planVars
<1>4. CASE ListColumns
  BY <1>4 DEF ListColumns, MultipassTypeOK, options, planVars
<1> QED
  BY <1>1, <1>2, <1>3, <1>4

LEMMA PlanTypes ==
  ASSUME MultipassTypeOK, OpenInv,
         \/ \E g \in Groups : Skip(g) \/ TakeSoftware(g) \/ TakeHardware(g)
         \/ EndPlan \/ PlanMultiplexed
  PROVE  MultipassTypeOK'
<1> USE DEF MultipassTypeOK, options, planVars, runVars
<1>1. ASSUME NEW g \in Groups, Skip(g) \/ TakeSoftware(g) \/ TakeHardware(g)
      PROVE  MultipassTypeOK'
  <2>1. Consider(g)
    BY <1>1 DEF Skip, TakeSoftware, TakeHardware
  <2>2. i' \in 1..Len(Order) + 1
    BY <2>1, OrderFacts DEF Consider
  <2>3. CASE Skip(g)
    BY <2>1, <2>2, <2>3 DEF Skip, Consider
  <2>4. CASE TakeSoftware(g)
    <3>1. current' \in SUBSET Groups
      BY <2>4 DEF TakeSoftware
    <3>2. passes' \in Seq(SUBSET Groups)
      <4>1. PICK S \in SUBSET Groups : S = {g}
        OBVIOUS
      <4>2. passes' = passes \/ passes' = Append(passes, S)
        BY <2>4, <4>1 DEF TakeSoftware
      <4>3. Append(passes, S) \in Seq(SUBSET Groups)
        BY AppendedPass
      <4> QED
        BY <4>2, <4>3
    <3>3. UNCHANGED <<options, pc, p, open, value, status, infos, warned, measured, outcomes>>
      BY <2>1 DEF Consider
    <3> QED
      BY <2>2, <3>1, <3>2, <3>3
  <2>5. CASE TakeHardware(g)
    <3>1. current' \in SUBSET Groups
      BY <2>5 DEF TakeHardware, CloseFor
    <3>2. passes' \in Seq(SUBSET Groups)
      <4>1. passes' = passes \/ passes' = Append(passes, current)
        BY <2>5 DEF TakeHardware, CloseFor
      <4> QED
        BY <4>1, AppendedPass
    <3>3. UNCHANGED <<options, pc, p, open, value, status, infos, warned, measured, outcomes>>
      BY <2>1 DEF Consider
    <3> QED
      BY <2>2, <3>1, <3>2, <3>3
  <2> QED
    BY <1>1, <2>3, <2>4, <2>5
<1>2. CASE EndPlan
  <2>1. passes' \in Seq(SUBSET Groups)
    BY <1>2 DEF EndPlan
  <2> QED
    BY <1>2, <2>1 DEF EndPlan
<1>3. CASE PlanMultiplexed
  <2>1. passes' \in Seq(SUBSET Groups)
    BY <1>3 DEF PlanMultiplexed
  <2> QED
    BY <1>3, <2>1 DEF PlanMultiplexed
<1> QED
  BY <1>1, <1>2, <1>3

-----------------------------------------------------------------------------
(* Planning. *)

LEMMA ConsideredNext ==
  ASSUME MultipassTypeOK, NEW g \in Groups, Consider(g)
  PROVE  /\ \A h \in Groups : Considered(h)' <=> Considered(h) \/ h = g
         /\ ~Considered(g)
<1>1. i \in 1..Len(Order) /\ g = Order[i] /\ i' = i + 1
  BY OrderFacts DEF Consider, MultipassTypeOK
<1>2. ~Considered(g)
  <2>1. ASSUME NEW j \in 1..i - 1, Order[j] = g
        PROVE  FALSE
    BY <1>1, <2>1, OrderFacts
  <2> QED
    BY <2>1 DEF Considered
<1>3. ASSUME NEW h \in Groups
      PROVE  Considered(h)' <=> Considered(h) \/ h = g
  <2>1. 1..i' - 1 = (1..i - 1) \cup {i}
    BY <1>1, OrderFacts
  <2> QED
    BY <1>1, <2>1 DEF Considered
<1> QED
  BY <1>2, <1>3

\* The plan of a step that appends a pass S and leaves C open: what is placed is
\* what was placed, with the groups that moved from current to S or came to C.
LEMMA PlacedByAppend ==
  ASSUME MultipassTypeOK, NEW S \in SUBSET Groups, passes' = Append(passes, S)
  PROVE  /\ 1..Len(passes') = (1..Len(passes)) \cup {Len(passes) + 1}
         /\ \A k \in 1..Len(passes) : passes'[k] = passes[k]
         /\ passes'[Len(passes) + 1] = S
         /\ \A g \in Groups : Placed(g)' <=> g \in current' \/ g \in S
                                            \/ \E k \in 1..Len(passes) : g \in passes[k]
<1>1. passes \in Seq(SUBSET Groups)
  BY DEF MultipassTypeOK
<1>2. /\ Len(passes') = Len(passes) + 1
      /\ \A k \in 1..Len(passes) : passes'[k] = passes[k]
      /\ passes'[Len(passes) + 1] = S
      /\ Len(passes) \in Nat
  BY <1>1, AppendedPass
<1>3. 1..Len(passes') = (1..Len(passes)) \cup {Len(passes) + 1}
  BY <1>2
<1>4. ASSUME NEW g \in Groups
      PROVE  Placed(g)' <=> g \in current' \/ g \in S \/ \E k \in 1..Len(passes) : g \in passes[k]
  <2>1. (\E k \in 1..Len(passes') : g \in passes'[k])
          <=> g \in S \/ \E k \in 1..Len(passes) : g \in passes[k]
    BY <1>2, <1>3
  <2> QED
    BY <2>1 DEF Placed
<1> QED
  BY <1>2, <1>3, <1>4

\* A group is new to the plan when its turn comes.
LEMMA NewToPlan ==
  ASSUME IInv, NEW g \in Groups, Consider(g)
  PROVE  g \notin current /\ \A k \in 1..Len(passes) : g \notin passes[k]
<1>1. pc = "plan" /\ ~Considered(g)
  BY ConsideredNext DEF IInv, Consider
<1>2. ~Placed(g)
  BY <1>1 DEF IInv, PlanInv
<1> QED
  BY <1>2 DEF Placed

LEMMA SkipKeepsPlan ==
  ASSUME IInv, NEW g \in Groups, Skip(g)
  PROVE  PlanInv'
<1>1. Consider(g) /\ pc = "plan" /\ pc' = "plan" /\ ~multiplex /\ multiplex' = multiplex
  BY DEF Skip, Consider, options, runVars
<1>2. UNCHANGED <<current, passes, requested>> /\ g \notin requested
  BY <1>1 DEF Skip, Consider, options
<1>3. \A h \in Groups : Considered(h)' <=> Considered(h) \/ h = g
  BY <1>1, ConsideredNext DEF IInv
<1>4. \A h \in Groups : Placed(h)' <=> h \in requested' /\ Considered(h)'
  BY <1>1, <1>2, <1>3 DEF IInv, PlanInv, Placed
<1> QED
  BY <1>1, <1>2, <1>4 DEF IInv, PlanInv

LEMMA AddKeepsPlan ==
  ASSUME IInv, NEW g \in Groups, Consider(g), g \in requested,
         current' = current \cup {g}, passes' = passes
  PROVE  PlanInv'
<1>1. pc = "plan" /\ pc' = "plan" /\ ~multiplex /\ multiplex' = multiplex /\ requested' = requested
  BY DEF Consider, options, runVars
<1>2. \A h \in Groups : Considered(h)' <=> Considered(h) \/ h = g
  BY ConsideredNext DEF IInv
<1>3. \A k \in 1..Len(passes) : passes[k] \cap current' = {}
  BY NewToPlan DEF IInv, PlanInv
<1>4. \A h \in Groups : Placed(h)' <=> Placed(h) \/ h = g
  BY DEF Placed
<1>5. \A h \in Groups : Placed(h)' <=> h \in requested' /\ Considered(h)'
  BY <1>1, <1>2, <1>4 DEF IInv, PlanInv
<1> QED
  BY <1>1, <1>3, <1>5 DEF IInv, PlanInv

LEMMA CloseKeepsPlan ==
  ASSUME IInv, NEW g \in Groups, Consider(g), g \in requested,
         NEW S \in SUBSET Groups, S # {}, passes' = Append(passes, S),
         S \cup current' = current \cup {g}, S \cap current' = {}
  PROVE  PlanInv'
<1>1. pc = "plan" /\ pc' = "plan" /\ ~multiplex /\ multiplex' = multiplex /\ requested' = requested
  BY DEF Consider, options, runVars
<1>2. \A h \in Groups : Considered(h)' <=> Considered(h) \/ h = g
  BY ConsideredNext DEF IInv
<1>3. /\ 1..Len(passes') = (1..Len(passes)) \cup {Len(passes) + 1}
      /\ \A k \in 1..Len(passes) : passes'[k] = passes[k]
      /\ passes'[Len(passes) + 1] = S
  BY PlacedByAppend DEF IInv
<1>4. \A h \in Groups : Placed(h)' <=> h \in current' \/ h \in S
                                        \/ \E k \in 1..Len(passes) : h \in passes[k]
  BY PlacedByAppend DEF IInv
<1>5. \A h \in Groups : Placed(h)' <=> Placed(h) \/ h = g
  BY <1>4 DEF Placed
<1>6. \A h \in Groups : Placed(h)' <=> h \in requested' /\ Considered(h)'
  BY <1>1, <1>2, <1>5 DEF IInv, PlanInv
<1>7. \A k \in 1..Len(passes) : passes[k] \cap (current \cup {g}) = {}
  BY NewToPlan DEF IInv, PlanInv
<1>8. \A k \in 1..Len(passes) : passes[k] \cap current' = {} /\ passes[k] \cap S = {}
  BY <1>7
<1>9. \A k \in 1..Len(passes') : passes'[k] # {} /\ passes'[k] \cap current' = {}
  BY <1>3, <1>8 DEF IInv, PlanInv
<1>10. \A j, k \in 1..Len(passes') : j # k => passes'[j] \cap passes'[k] = {}
  BY <1>3, <1>8 DEF IInv, PlanInv
<1> QED
  BY <1>1, <1>6, <1>9, <1>10 DEF PlanInv

\* One group has room, and software counters add nothing to a pass.
LEMMA OneGroupIsRoomy ==
  ASSUME NEW g \in Groups
  PROVE  Roomy({g})
<1>1. CASE g = Software
  <2>1. {g} \ {Software} = {} \ {Software}
    BY <1>1
  <2> QED
    BY <2>1, EmptyFits DEF Roomy, Within
<1>2. CASE g # Software
  <2>1. {g} \ {Software} = {g} /\ g \in Hardware
    BY <1>2 DEF Hardware
  <2> QED
    BY <2>1 DEF Roomy
<1> QED
  BY <1>1, <1>2

LEMMA SoftwareIsFree ==
  ASSUME NEW S, Roomy(S)
  PROVE  Roomy(S \cup {Software})
<1>1. (S \cup {Software}) \ {Software} = S \ {Software}
  OBVIOUS
<1> QED
  BY <1>1 DEF Roomy, Within

LEMMA GroupKeepsPlan ==
  ASSUME IInv, NEW g \in Groups, Skip(g) \/ TakeSoftware(g) \/ TakeHardware(g)
  PROVE  PlanInv' /\ RoomInv'
<1> DEFINE Same == passes' = passes
           Appended(S) == passes' = Append(passes, S)
<1>1. multiplex' = multiplex /\ current \in SUBSET Groups
  BY DEF Skip, TakeSoftware, TakeHardware, Consider, options, IInv, MultipassTypeOK
<1>2. \A S : Roomy(S)' <=> Roomy(S)
  BY <1>1 DEF Roomy, Within
<1>3. ASSUME Same, Roomy(current') PROVE RoomInv'
  BY <1>2, <1>3 DEF IInv, RoomInv
<1>4. ASSUME NEW S \in SUBSET Groups, Appended(S), Roomy(S), Roomy(current')
      PROVE  RoomInv'
  <2>1. /\ 1..Len(passes') = (1..Len(passes)) \cup {Len(passes) + 1}
        /\ \A k \in 1..Len(passes) : passes'[k] = passes[k]
        /\ passes'[Len(passes) + 1] = S
    BY <1>4, PlacedByAppend DEF IInv
  <2>2. \A k \in 1..Len(passes') : Roomy(passes'[k])
    BY <1>4, <2>1 DEF IInv, RoomInv
  <2> QED
    BY <1>2, <1>4, <2>2 DEF RoomInv
<1>5. Roomy(current)
  BY DEF IInv, RoomInv
<1>6. CASE Skip(g)
  <2>1. Same /\ current' = current
    BY <1>6 DEF Skip
  <2> QED
    BY <1>3, <1>5, <1>6, <2>1, SkipKeepsPlan
<1>7. CASE TakeSoftware(g)
  <2>0. Consider(g) /\ g \in requested /\ g = Software
    BY <1>7 DEF TakeSoftware
  <2>1. CASE current = {}
    <3>1. PICK S \in SUBSET Groups : S = {g}
      OBVIOUS
    <3>2. Appended(S) /\ current' = current
      BY <1>7, <2>1, <3>1 DEF TakeSoftware
    <3>3. S # {} /\ S \cup current' = current \cup {g} /\ S \cap current' = {}
      BY <2>1, <3>1, <3>2
    <3>4. PlanInv'
      BY <2>0, <3>2, <3>3, CloseKeepsPlan
    <3>5. Roomy(S) /\ Roomy(current')
      BY <1>5, <3>1, <3>2, OneGroupIsRoomy
    <3> QED
      BY <1>4, <3>2, <3>4, <3>5
  <2>2. CASE current # {}
    <3>1. Same /\ current' = current \cup {g}
      BY <1>7, <2>2 DEF TakeSoftware
    <3>2. Roomy(current')
      BY <1>5, <2>0, <3>1, SoftwareIsFree
    <3> QED
      BY <1>3, <2>0, <3>1, <3>2, AddKeepsPlan
  <2> QED
    BY <2>1, <2>2
<1>8. CASE TakeHardware(g)
  <2>0. Consider(g) /\ g \in requested
    BY <1>8 DEF TakeHardware
  <2>1. CASE current # {} /\ ~Fits(current \cup {g})
    <3>1. Appended(current) /\ current' = {g}
      BY <1>8, <2>1 DEF TakeHardware, CloseFor
    <3>2. current \cup current' = current \cup {g} /\ current \cap current' = {}
      BY <2>0, <3>1, NewToPlan
    <3>3. PlanInv'
      BY <1>1, <2>0, <2>1, <3>1, <3>2, CloseKeepsPlan
    <3>4. Roomy(current')
      BY <3>1, OneGroupIsRoomy
    <3> QED
      BY <1>1, <1>4, <1>5, <3>1, <3>3, <3>4
  <2>2. CASE ~(current # {} /\ ~Fits(current \cup {g}))
    <3>1. Same /\ current' = current \cup {g}
      BY <1>8, <2>2 DEF TakeHardware
    <3>2. Roomy(current')
      <4>1. CASE current = {}
        <5>1. current' = {g}
          BY <3>1, <4>1
        <5> QED
          BY <5>1, OneGroupIsRoomy
      <4>2. CASE Fits(current \cup {g})
        BY <3>1, <4>2 DEF Roomy, Within, Fits
      <4> QED
        BY <2>2, <4>1, <4>2
    <3> QED
      BY <1>3, <2>0, <3>1, <3>2, AddKeepsPlan
  <2> QED
    BY <2>1, <2>2
<1> QED
  BY <1>6, <1>7, <1>8

\* At the end of the table every group has been considered.
LEMMA EndPlanKeeps ==
  ASSUME IInv, EndPlan
  PROVE  PlanInv' /\ RoomInv'
<1>1. /\ pc = "plan" /\ i = Len(Order) + 1 /\ current' = {} /\ pc' = "setup"
      /\ UNCHANGED <<requested, multiplex>>
      /\ passes' = IF current = {} THEN passes ELSE Append(passes, current)
  BY DEF EndPlan, options
<1>2. \A h \in Groups : Considered(h)
  BY <1>1, OrderFacts DEF Considered
<1>3. \A h \in Groups : Placed(h) <=> h \in requested
  BY <1>1, <1>2 DEF IInv, PlanInv
<1>4. current \in SUBSET Groups
  BY DEF IInv, MultipassTypeOK
<1>5. Roomy(current')
  BY <1>1, EmptyFits DEF Roomy
<1>6. \A S : Roomy(S)' <=> Roomy(S)
  BY <1>1 DEF Roomy, Within
<1>7. CASE current = {}
  <2>1. passes' = passes /\ \A h \in Groups : Placed(h)' <=> Placed(h)
    BY <1>1, <1>7 DEF Placed
  <2>2. PlanInv'
    BY <1>1, <1>3, <1>7, <2>1 DEF IInv, PlanInv
  <2> QED
    BY <1>5, <1>6, <2>1, <2>2 DEF IInv, RoomInv
<1>8. CASE current # {}
  <2>1. passes' = Append(passes, current)
    BY <1>1, <1>8
  <2>2. /\ 1..Len(passes') = (1..Len(passes)) \cup {Len(passes) + 1}
        /\ \A k \in 1..Len(passes) : passes'[k] = passes[k]
        /\ passes'[Len(passes) + 1] = current
    BY <1>4, <2>1, PlacedByAppend DEF IInv
  <2>3. \A h \in Groups : Placed(h)' <=> h \in current' \/ h \in current
                                        \/ \E k \in 1..Len(passes) : h \in passes[k]
    BY <1>4, <2>1, PlacedByAppend DEF IInv
  <2>4. \A h \in Groups : Placed(h)' <=> h \in requested'
    BY <1>1, <1>3, <2>3 DEF Placed
  <2>5. \A k \in 1..Len(passes') : passes'[k] # {} /\ passes'[k] \cap current' = {}
    BY <1>1, <1>8, <2>2 DEF IInv, PlanInv
  <2>6. \A j, k \in 1..Len(passes') : j # k => passes'[j] \cap passes'[k] = {}
    BY <2>2 DEF IInv, PlanInv
  <2>7. \A k \in 1..Len(passes') : Roomy(passes'[k])
    BY <2>2 DEF IInv, RoomInv
  <2> QED
    BY <1>1, <1>5, <1>6, <2>4, <2>5, <2>6, <2>7 DEF PlanInv, RoomInv
<1> QED
  BY <1>7, <1>8

LEMMA PlanMultiplexedKeeps ==
  ASSUME IInv, PlanMultiplexed
  PROVE  PlanInv' /\ RoomInv'
<1>1. /\ pc = "plan" /\ multiplex /\ multiplex' = multiplex /\ requested' = requested
      /\ current' = current /\ pc' = "setup" /\ passes' = <<requested>>
  BY DEF PlanMultiplexed, options
<1>2. current' = {} /\ requested # {}
  BY <1>1 DEF IInv, PlanInv, OpenInv
<1>3. 1..Len(passes') = {1} /\ passes'[1] = requested
  BY <1>1
<1>4. \A h \in Groups : Placed(h)' <=> h \in requested'
  BY <1>1, <1>2, <1>3 DEF Placed
<1>5. PlanInv'
  BY <1>1, <1>2, <1>3, <1>4 DEF PlanInv
<1>6. RoomInv'
  BY <1>1 DEF RoomInv, Roomy
<1> QED
  BY <1>5, <1>6

\* A plan has a pass, because something was requested.
LEMMA PlanNotEmpty ==
  ASSUME MultipassTypeOK, PlanInv, pc # "plan", requested # {}
  PROVE  1 \in 1..Len(passes)
<1>1. PICK g \in Groups : g \in requested
  BY DEF MultipassTypeOK
<1>2. PICK k \in 1..Len(passes) : g \in passes[k]
  BY <1>1 DEF PlanInv, Placed
<1> QED
  BY <1>2 DEF MultipassTypeOK

-----------------------------------------------------------------------------
(* Running the passes. *)

LEMMA PassStepKeepsPlan ==
  ASSUME IInv, Setup \/ Launch \/ LaunchFails \/ ListColumns \/ Collect
  PROVE  PlanInv' /\ RoomInv'
<1>1. UNCHANGED <<options, planVars>> /\ pc # "plan" /\ pc' # "plan"
  BY DEF Setup, Launch, LaunchFails, ListColumns, Collect
<1>2. \A h \in Groups : Placed(h)' <=> Placed(h)
  BY <1>1 DEF Placed, planVars
<1>3. PlanInv'
  BY <1>1, <1>2 DEF IInv, PlanInv, options, planVars
<1>4. RoomInv'
  BY <1>1 DEF IInv, RoomInv, Roomy, Within, options, planVars
<1> QED
  BY <1>3, <1>4

\* setup_counters() opens the counters of one pass, and close_counters() has
\* closed them again when the next one's are opened.
LEMMA OpenStep ==
  ASSUME IInv, Next, MultipassTypeOK', PlanInv'
  PROVE  OpenInv'
<1> USE DEF options, planVars, runVars, Busy
<1>1. ASSUME NEW g \in Groups, Skip(g) \/ TakeSoftware(g) \/ TakeHardware(g)
      PROVE  OpenInv'
  <2>1. pc = "plan" /\ UNCHANGED <<options, runVars>>
    BY <1>1 DEF Skip, TakeSoftware, TakeHardware, Consider
  <2> QED
    BY <2>1 DEF IInv, OpenInv
<1>2. CASE EndPlan \/ PlanMultiplexed
  <2>1. pc = "plan" /\ pc' = "setup" /\ p' = p /\ open' = open /\ requested' = requested
    BY <1>2 DEF EndPlan, PlanMultiplexed
  <2>2. p' = 1 /\ open' = {} /\ requested' # {}
    BY <2>1 DEF IInv, OpenInv
  <2>3. 1 \in 1..Len(passes')
    <3>1. pc' # "plan"
      BY <2>1
    <3>2. PICK g \in Groups : g \in requested'
      BY <2>2 DEF MultipassTypeOK
    <3>3. PICK k \in 1..Len(passes') : g \in passes'[k]
      BY <3>1, <3>2 DEF PlanInv, Placed
    <3> QED
      BY <3>3 DEF MultipassTypeOK
  <2> QED
    BY <2>1, <2>2, <2>3 DEF OpenInv
<1>3. CASE Setup
  <2>1. /\ pc = "setup" /\ pc' = "launch" /\ p' = p /\ passes' = passes /\ requested' = requested
    BY <1>3 DEF Setup
  <2>2. open = {} /\ p \in 1..Len(passes)
    BY <2>1 DEF IInv, OpenInv
  <2>3. open' \subseteq passes[p]
    BY <1>3, <2>2 DEF Setup
  <2> QED
    BY <2>1, <2>2, <2>3 DEF IInv, OpenInv
<1>4. CASE Launch \/ LaunchFails
  <2>1. /\ pc = "launch" /\ pc' \in {"wait", "dead"}
        /\ UNCHANGED <<p, passes, requested, open>>
    BY <1>4 DEF Launch, LaunchFails
  <2> QED
    BY <2>1 DEF IInv, OpenInv
<1>5. CASE ListColumns
  <2>1. pc = "setup" /\ pc' = "done" /\ UNCHANGED <<p, passes, requested, open>>
    BY <1>5 DEF ListColumns
  <2> QED
    BY <2>1 DEF IInv, OpenInv
<1>6. CASE Collect
  <2>1. /\ pc = "wait" /\ UNCHANGED <<passes, requested>>
        /\ open' = open \ passes[p]
        /\ pc' = IF p = Len(passes) THEN "done" ELSE "setup"
        /\ p' = IF p = Len(passes) THEN p ELSE p + 1
    BY <1>6 DEF Collect, Close
  <2>2. open \subseteq passes[p] /\ p \in 1..Len(passes)
    BY <2>1 DEF IInv, OpenInv
  <2>3. Len(passes) \in Nat
    BY DEF IInv, MultipassTypeOK
  <2>4. pc' # "done" => p' \in 1..Len(passes)
    BY <2>1, <2>2, <2>3
  <2> QED
    BY <2>1, <2>2, <2>4 DEF IInv, OpenInv
<1>7. CASE Stopped
  <2>1. UNCHANGED vars
    BY <1>7 DEF Stopped
  <2> QED
    BY <2>1 DEF vars, IInv, OpenInv
<1> QED
  BY <1>1, <1>2, <1>3, <1>4, <1>5, <1>6, <1>7 DEF Next

-----------------------------------------------------------------------------
(* The invariant and the theorems. *)

LEMMA InvInit == Init => IInv
<1> SUFFICES ASSUME Init PROVE IInv
  OBVIOUS
<1>1. /\ passes = <<>> /\ current = {} /\ i = 1
      /\ pc = "plan" /\ open = {} /\ p = 1
      /\ requested \in (SUBSET Groups) \ {{}}
  BY DEF Init
<1>2. 1..Len(passes) = {} /\ 1..i - 1 = {}
  <2>1. Len(passes) = 0 /\ i - 1 = 0
    BY <1>1
  <2> QED
    BY <2>1
<1>5. requested # {}
  BY <1>1
<1>3. PlanInv
  BY <1>1, <1>2, <1>5 DEF PlanInv, Placed, Considered
<1>4. Roomy(current)
  <2>1. current = {}
    BY <1>1
  <2> QED
    BY <2>1, EmptyFits DEF Roomy
<1> QED
  BY <1>1, <1>2, <1>3, <1>4, <1>5, TypeInit DEF IInv, RoomInv, OpenInv, Busy

LEMMA InvNext == IInv /\ [Next]_vars => IInv'
<1> SUFFICES ASSUME IInv, [Next]_vars PROVE IInv'
  OBVIOUS
<1>1. ASSUME NEW g \in Groups, Skip(g) \/ TakeSoftware(g) \/ TakeHardware(g)
      PROVE  IInv'
  <2>1. MultipassTypeOK'
    BY <1>1, PlanTypes DEF IInv
  <2>2. PlanInv' /\ RoomInv'
    BY <1>1, GroupKeepsPlan
  <2>3. Next
    BY <1>1 DEF Next
  <2> QED
    BY <2>1, <2>2, <2>3, OpenStep DEF IInv
<1>2. CASE EndPlan \/ PlanMultiplexed
  <2>1. MultipassTypeOK'
    BY <1>2, PlanTypes DEF IInv
  <2>2. PlanInv' /\ RoomInv'
    BY <1>2, EndPlanKeeps, PlanMultiplexedKeeps
  <2>3. Next
    BY <1>2 DEF Next
  <2> QED
    BY <2>1, <2>2, <2>3, OpenStep DEF IInv
<1>3. CASE Setup \/ Launch \/ LaunchFails \/ ListColumns \/ Collect
  <2>1. MultipassTypeOK'
    BY <1>3, PassTypes, CollectTypes DEF IInv
  <2>2. PlanInv' /\ RoomInv'
    BY <1>3, PassStepKeepsPlan
  <2>3. Next
    BY <1>3 DEF Next
  <2> QED
    BY <2>1, <2>2, <2>3, OpenStep DEF IInv
<1>4. CASE UNCHANGED vars
  BY <1>4 DEF vars, options, planVars, runVars, IInv, MultipassTypeOK, PlanInv, RoomInv, OpenInv,
              Placed, Considered, Roomy, Within
<1> QED
  BY <1>1, <1>2, <1>3, <1>4 DEF Next, Stopped

LEMMA Inv == Spec => []IInv
<1> QED
  BY InvInit, InvNext, PTL DEF Spec

\* The types of the variables, and one recorded status per pass waited for.
THEOREM MultipassTypeCorrect == Spec => []MultipassTypeOK
<1>1. IInv => MultipassTypeOK
  BY DEF IInv
<1> QED
  BY <1>1, Inv, PTL

\* Whatever is requested, in whatever order the table has it and whatever the
\* counters cost, the passes are a partition of the request.
THEOREM PlanIsPartition == Spec => []PlanPartitions
<1>1. IInv => PlanPartitions
  <2> SUFFICES ASSUME IInv, pc # "plan" PROVE PlanPartitions
    BY DEF PlanPartitions
  <2>1. DOMAIN passes = 1..Len(passes)
    BY DEF IInv, MultipassTypeOK
  <2>2. \A g \in Groups : g \in requested <=> \E k \in 1..Len(passes) : g \in passes[k]
    BY DEF IInv, PlanInv, Placed
  <2> QED
    BY <2>1, <2>2 DEF IInv, PlanInv, PlanPartitions
<1> QED
  BY <1>1, Inv, PTL

\* Counters of two passes never compete for the PMU, and those of one pass fit
\* it if any plan could make them.
THEOREM NeverContended == Spec => []Uncontended
<1>1. IInv => Uncontended
  <2> SUFFICES ASSUME IInv, open # {}, ~multiplex PROVE Uncontended
    BY DEF Uncontended
  <2>1. pc \in Busy /\ open \subseteq passes[p] /\ p \in 1..Len(passes)
    BY DEF IInv, OpenInv, Busy
  <2>2. Roomy(passes[p]) /\ passes[p] \in SUBSET Groups
    BY <2>1 DEF IInv, RoomInv, MultipassTypeOK
  <2>3. CASE Within(passes[p])
    BY <2>1, <2>2, <2>3, FewerFit DEF Uncontended
  <2>4. CASE \E g \in Hardware : passes[p] \ {Software} = {g}
    <3>1. PICK g \in Hardware : passes[p] \ {Software} = {g}
      BY <2>4
    <3>2. open \ {Software} = {g} \/ open \ {Software} = {} \ {Software}
      BY <2>1, <3>1
    <3> QED
      BY <3>2, EmptyFits DEF Uncontended, Within
  <2> QED
    BY <2>2, <2>3, <2>4 DEF Roomy
<1> QED
  BY <1>1, Inv, PTL

-----------------------------------------------------------------------------
(* What the passes leave behind: the status each recorded says how its child    *)
(* ended although the globals carry codes along (StatusInv), and every group's  *)
(* value is the one its own pass read (RowInv).                                 *)
Says(s, o) ==
  /\ s.exited = (o.how = "exit") /\ s.signaled = (o.how = "signal")
  /\ o.how = "exit" => s.code = o.n
  /\ o.how = "signal" => s.sig = o.n

StatusInv ==
  /\ \A k \in 1..Len(infos) : Says(infos[k], outcomes[k])
  /\ \A k \in 1..Len(infos) : outcomes[k] # outcomes[1] => k \in warned
  /\ pc # "done" => Len(infos) = p - 1
  /\ pc = "done" /\ infos # <<>> => status = infos[1]
  /\ listcolumns => infos = <<>> /\ pc \notin {"launch", "wait"}

RowInv ==
  /\ pc = "done" /\ ~listcolumns => Len(infos) = Len(passes)
  /\ pc = "plan" => measured = {} /\ \A g \in Groups : value[g] = 0
  /\ pc # "plan" => \A k \in 1..Len(passes) : \A g \in passes[k] :
       /\ k <= Len(infos) => value[g] = IF g \in measured THEN k ELSE 0
       /\ k > Len(infos) => /\ value[g] = 0
                            /\ g \in measured <=> k = p /\ pc \in Busy /\ g \in open

LEMMA Recorded ==
  ASSUME NEW s, NEW o \in Outcomes
  PROVE  Says(WaitStatus(s, o), o)
<1>1. o.how = "exit" \/ o.how = "signal"
  BY DEF Outcomes
<1> QED
  BY <1>1 DEF Says, WaitStatus

LEMMA TellsApart ==
  ASSUME NEW s, NEW o \in Outcomes, NEW q \in Outcomes, Says(s, o), Says(s, q)
  PROVE  o = q
<1>1. o.how = q.how /\ o.n = q.n
  BY DEF Says, Outcomes
<1>2. CASE o \in [how : {"exit"}, n : ExitCodes]
  <2>1. q \in [how : {"exit"}, n : ExitCodes]
    BY <1>1, <1>2 DEF Outcomes
  <2> QED
    BY <1>1, <1>2, <2>1
<1>3. CASE o \in [how : {"signal"}, n : Signals]
  <2>1. q \in [how : {"signal"}, n : Signals]
    BY <1>1, <1>3 DEF Outcomes
  <2> QED
    BY <1>1, <1>3, <2>1
<1> QED
  BY <1>2, <1>3 DEF Outcomes

LEMMA StatusInit == Init => StatusInv /\ RowInv
<1> SUFFICES ASSUME Init PROVE StatusInv /\ RowInv
  OBVIOUS
<1>1. infos = <<>> /\ Len(infos) = 0 /\ p = 1 /\ pc = "plan" /\ measured = {}
      /\ \A g \in Groups : value[g] = 0
  BY DEF Init
<1> QED
  BY <1>1 DEF StatusInv, RowInv

\* A step that no child ends in.
LEMMA StatusQuiet ==
  ASSUME StatusInv, UNCHANGED <<infos, outcomes, warned, status, p, listcolumns>>,
         pc' \in {"launch", "wait"} => pc \in {"launch", "wait"} \/ ~listcolumns,
         pc' # "done" => pc # "done",
         pc' = "done" => pc = "done" \/ (infos = <<>>)
  PROVE  StatusInv'
BY DEF StatusInv

\* What Collect assigns.
LEMMA Collected ==
  ASSUME IInv, StatusInv, Collect
  PROVE  \E o \in Outcomes :
           LET s == WaitStatus(status, o) IN
           /\ infos' = Append(infos, s) /\ outcomes' = Append(outcomes, o)
           /\ warned' = IF p > 1 /\ s # infos[1] THEN warned \cup {p} ELSE warned
           /\ status' = IF p = Len(passes) THEN infos'[1] ELSE s
           /\ pc' = IF p = Len(passes) THEN "done" ELSE "setup"
           /\ p' = IF p = Len(passes) THEN p ELSE p + 1
           /\ Len(infos) = p - 1 /\ Len(outcomes) = p - 1 /\ p \in 1..Len(passes)
           /\ Len(infos') = p /\ infos'[p] = s /\ outcomes'[p] = o
           /\ \A k \in 1..p - 1 : infos'[k] = infos[k] /\ outcomes'[k] = outcomes[k]
           /\ Says(s, o)
<1>1. /\ infos \in Seq(Status) /\ outcomes \in Seq(Outcomes) /\ Len(outcomes) = Len(infos)
      /\ status \in Status
  BY DEF IInv, MultipassTypeOK
<1>2. pc = "wait" /\ p \in 1..Len(passes) /\ Len(infos) = p - 1
  BY DEF Collect, IInv, OpenInv, StatusInv
<1>3. PICK o \in Outcomes :
        /\ infos' = Append(infos, WaitStatus(status, o))
        /\ outcomes' = Append(outcomes, o)
        /\ warned' = IF p > 1 /\ WaitStatus(status, o) # infos[1] THEN warned \cup {p} ELSE warned
        /\ status' = IF p = Len(passes) THEN infos'[1] ELSE WaitStatus(status, o)
        /\ pc' = IF p = Len(passes) THEN "done" ELSE "setup"
        /\ p' = IF p = Len(passes) THEN p ELSE p + 1
  BY DEF Collect
<1> DEFINE s == WaitStatus(status, o)
<1>4. Says(s, o)
  BY Recorded
<1>5. infos' = Append(infos, s)
  BY <1>3
<1>6. s \in Status
  <2>1. o.how = "exit" => o.n \in Nat
    BY StatusAssumption DEF Outcomes
  <2>2. o.how = "signal" => o.n \in Nat
    BY StatusAssumption DEF Outcomes
  <2> QED
    BY <1>1, <2>1, <2>2 DEF WaitStatus, Status
<1> HIDE DEF s
<1>7. /\ Len(infos') = p /\ infos'[p] = s
      /\ \A k \in 1..p - 1 : infos'[k] = infos[k]
  BY <1>1, <1>2, <1>5, <1>6
<1>8. outcomes'[p] = o /\ \A k \in 1..p - 1 : outcomes'[k] = outcomes[k]
  BY <1>1, <1>2, <1>3
<1> QED
  BY <1>1, <1>2, <1>3, <1>4, <1>7, <1>8 DEF s

LEMMA StatusCollect ==
  ASSUME IInv, StatusInv, Collect
  PROVE  StatusInv'
<1>1. PICK o, s :
        /\ o \in Outcomes
        /\ warned' = IF p > 1 /\ s # infos[1] THEN warned \cup {p} ELSE warned
        /\ status' = IF p = Len(passes) THEN infos'[1] ELSE s
        /\ pc' = IF p = Len(passes) THEN "done" ELSE "setup"
        /\ p' = IF p = Len(passes) THEN p ELSE p + 1
        /\ Len(infos) = p - 1 /\ Len(outcomes) = p - 1 /\ p \in 1..Len(passes)
        /\ Len(infos') = p /\ infos'[p] = s /\ outcomes'[p] = o
        /\ \A k \in 1..p - 1 : infos'[k] = infos[k] /\ outcomes'[k] = outcomes[k]
        /\ Says(s, o)
  BY Collected
<1>0. p \in Nat /\ p >= 1 /\ Len(passes) \in Nat
  BY DEF IInv, MultipassTypeOK
<1>2. \A k \in 1..p : Says(infos'[k], outcomes'[k])
  <2> SUFFICES ASSUME NEW k \in 1..p PROVE Says(infos'[k], outcomes'[k])
    OBVIOUS
  <2>1. CASE k = p
    BY <1>1, <2>1
  <2>2. CASE k \in 1..p - 1
    <3>1. Says(infos[k], outcomes[k])
      BY <1>1, <2>2 DEF StatusInv
    <3> QED
      BY <1>1, <2>2, <3>1
  <2> QED
    BY <1>0, <2>1, <2>2
<1>3. ASSUME NEW k \in 1..p, outcomes'[k] # outcomes'[1]
      PROVE  k \in warned'
  <2>1. p > 1 /\ 1 \in 1..p - 1
    <3>1. k # 1
      BY <1>3
    <3> QED
      BY <1>0, <3>1
  <2>2. infos'[1] = infos[1] /\ outcomes'[1] = outcomes[1]
    BY <1>1, <2>1
  <2>3. CASE k = p
    <3>1. s # infos[1]
      <4> SUFFICES ASSUME s = infos[1] PROVE FALSE
        OBVIOUS
      <4>1. Says(s, outcomes[1])
        BY <1>1, <2>1 DEF StatusInv
      <4>2. outcomes[1] \in Outcomes
        BY <1>1, <2>1 DEF IInv, MultipassTypeOK
      <4>3. outcomes[1] = o
        BY <1>1, <4>1, <4>2, TellsApart
      <4> QED
        BY <1>1, <1>3, <2>2, <2>3, <4>3
    <3> QED
      BY <1>1, <2>1, <2>3, <3>1
  <2>4. CASE k \in 1..p - 1
    <3>1. outcomes[k] # outcomes[1]
      BY <1>1, <1>3, <2>2, <2>4
    <3>2. k \in warned
      BY <1>1, <2>4, <3>1 DEF StatusInv
    <3> QED
      BY <1>1, <3>2
  <2> QED
    BY <1>0, <2>3, <2>4
<1>4. pc' # "done" => p' = p + 1
  BY <1>1
<1>5. pc' = "done" => status' = infos'[1]
  BY <1>1
<1>6. Len(infos') = p
  BY <1>1
<1>7. ~listcolumns'
  BY DEF Collect, StatusInv, options
<1> QED
  BY <1>0, <1>2, <1>3, <1>4, <1>5, <1>6, <1>7 DEF StatusInv

LEMMA StatusNext == IInv /\ StatusInv /\ [Next]_vars => StatusInv'
<1> SUFFICES ASSUME IInv, StatusInv, [Next]_vars PROVE StatusInv'
  OBVIOUS
<1>1. CASE Collect
  BY <1>1, StatusCollect
<1>2. CASE ListColumns
  <2>1. infos = <<>>
    BY <1>2 DEF ListColumns, StatusInv
  <2> QED
    BY <1>2, <2>1, StatusQuiet DEF ListColumns, options
<1>3. CASE Setup \/ Launch \/ LaunchFails \/ EndPlan \/ PlanMultiplexed
  BY <1>3, StatusQuiet DEF Setup, Launch, LaunchFails, EndPlan, PlanMultiplexed, options
<1>4. ASSUME NEW g \in Groups, Skip(g) \/ TakeSoftware(g) \/ TakeHardware(g)
      PROVE  StatusInv'
  BY <1>4, StatusQuiet DEF Skip, TakeSoftware, TakeHardware, Consider, runVars, options
<1>5. CASE UNCHANGED vars
  BY <1>5, StatusQuiet DEF vars, runVars, options
<1> QED
  BY <1>1, <1>2, <1>3, <1>4, <1>5 DEF Next, Stopped

\* A group is in one pass, and a pass has groups of the table.
LEMMA OnePass ==
  ASSUME IInv, pc # "plan", NEW k \in 1..Len(passes), NEW g \in passes[k]
  PROVE  /\ g \in Groups
         /\ \A j \in 1..Len(passes) : g \in passes[j] => j = k
<1>1. passes[k] \in SUBSET Groups
  BY DEF IInv, MultipassTypeOK
<1>2. \A j \in 1..Len(passes) : j # k => passes[j] \cap passes[k] = {}
  BY DEF IInv, PlanInv
<1> QED
  BY <1>1, <1>2

\* No value and no counter is from before the first pass.
LEMMA RowPlanned ==
  ASSUME IInv, StatusInv, RowInv, EndPlan \/ PlanMultiplexed, IInv'
  PROVE  RowInv'
<1>1. pc = "plan" /\ pc' = "setup" /\ UNCHANGED <<p, value, measured, infos>>
  BY DEF EndPlan, PlanMultiplexed
<1>2. p = 1 /\ Len(infos) = 0
  BY <1>1 DEF IInv, OpenInv, StatusInv
<1>3. ASSUME NEW k \in 1..Len(passes'), NEW g \in passes'[k]
      PROVE  k > Len(infos') /\ value'[g] = 0 /\ g \notin measured'
  <2>1. g \in Groups
    BY <1>1, <1>3 DEF IInv, MultipassTypeOK
  <2>2. k \in Nat /\ k > 0
    BY <1>3
  <2> QED
    BY <1>1, <1>2, <2>1, <2>2 DEF RowInv
<1>4. pc' \notin Busy
  BY <1>1 DEF Busy
<1>5. Len(infos') = 0
  BY <1>1, <1>2
<1> QED
  BY <1>1, <1>3, <1>4, <1>5 DEF RowInv

\* setup_counters() adds the counters of this pass to what was measured before.
LEMMA RowSetup ==
  ASSUME IInv, StatusInv, RowInv, Setup
  PROVE  RowInv'
<1>1. PICK refused : /\ open' = open \cup (passes[p] \ refused)
                     /\ measured' = measured \cup (passes[p] \ refused)
  BY DEF Setup
<1>2. /\ pc = "setup" /\ pc' = "launch" /\ UNCHANGED <<p, passes, value, infos>>
  BY DEF Setup, planVars
<1>3. p \in 1..Len(passes) /\ Len(infos) = p - 1 /\ open = {}
  BY <1>2 DEF IInv, OpenInv, StatusInv, Busy
<1>4. ASSUME NEW k \in 1..Len(passes), NEW g \in passes[k]
      PROVE  /\ k <= Len(infos) => value'[g] = IF g \in measured' THEN k ELSE 0
             /\ k > Len(infos) => value'[g] = 0 /\ (g \in measured' <=> k = p /\ g \in open')
  <2>1. k # p => g \notin passes[p]
    BY <1>2, <1>3, OnePass
  <2>2. /\ k <= Len(infos) => value[g] = IF g \in measured THEN k ELSE 0
        /\ k > Len(infos) => value[g] = 0 /\ g \notin measured
    BY <1>2 DEF RowInv, Busy
  <2>3. k \in Nat /\ p \in Nat
    BY <1>3
  <2>4. CASE k = p
    <3>1. g \in measured' <=> g \in open'
      BY <1>1, <1>3, <2>2, <2>4
    <3> QED
      BY <1>2, <1>3, <2>2, <2>3, <2>4, <3>1
  <2>5. CASE k # p
    <3>1. g \in measured' <=> g \in measured
      BY <1>1, <2>1, <2>5
    <3> QED
      BY <1>2, <2>2, <2>5, <3>1
  <2> QED
    BY <2>4, <2>5
<1> QED
  BY <1>2, <1>4 DEF RowInv, Busy

\* read_counters() takes the values of the pass that ends, and of no other.
LEMMA RowCollect ==
  ASSUME IInv, StatusInv, RowInv, Collect
  PROVE  RowInv'
<1>1. /\ value' = Read(value, passes[p])
      /\ pc = "wait" /\ pc' \in {"setup", "done"} /\ UNCHANGED <<passes, measured>>
      /\ pc' = "done" => p = Len(passes)
  BY DEF Collect, planVars
<1>2. p \in 1..Len(passes) /\ Len(infos) = p - 1
  BY <1>1 DEF IInv, OpenInv, StatusInv
<1>3. Len(infos') = p
  BY Collected
<1>4. ASSUME NEW k \in 1..Len(passes), NEW g \in passes[k]
      PROVE  /\ k <= p => value'[g] = IF g \in measured THEN k ELSE 0
             /\ k > p => value'[g] = 0 /\ g \notin measured
  <2>1. (k # p => g \notin passes[p]) /\ g \in Groups
    BY <1>1, <1>2, OnePass
  <2>2. /\ k <= Len(infos) => value[g] = IF g \in measured THEN k ELSE 0
        /\ k > Len(infos) => value[g] = 0 /\ (g \in measured <=> k = p /\ g \in open)
    BY <1>1 DEF RowInv, Busy
  <2>3. k \in Nat /\ p \in Nat
    BY <1>2
  <2>4. value'[g] = IF g \in passes[p] \cap open THEN p ELSE value[g]
    BY <1>1, <2>1 DEF Read
  <2>5. CASE k = p
    <3>1. value[g] = 0 /\ (g \in measured <=> g \in open)
      BY <1>2, <2>2, <2>3, <2>5
    <3>2. g \in passes[p]
      BY <2>5
    <3> QED
      BY <2>3, <2>4, <2>5, <3>1, <3>2
  <2>6. CASE k # p
    <3>1. value'[g] = value[g]
      BY <2>1, <2>4, <2>6
    <3> QED
      BY <1>2, <2>2, <2>3, <2>6, <3>1
  <2> QED
    BY <2>5, <2>6
<1>5. pc' \notin Busy /\ pc' # "plan"
  BY <1>1 DEF Busy
<1> QED
  BY <1>1, <1>3, <1>4, <1>5 DEF RowInv

LEMMA RowNext == IInv /\ StatusInv /\ RowInv /\ [Next]_vars /\ IInv' => RowInv'
<1> SUFFICES ASSUME IInv, StatusInv, RowInv, [Next]_vars, IInv' PROVE RowInv'
  OBVIOUS
<1>1. CASE Setup
  BY <1>1, RowSetup
<1>2. CASE Collect
  BY <1>2, RowCollect
<1>3. CASE EndPlan \/ PlanMultiplexed
  BY <1>3, RowPlanned
<1>4. CASE ListColumns
  <2>1. /\ pc = "setup" /\ pc' = "done" /\ listcolumns'
        /\ UNCHANGED <<p, passes, value, infos, measured, open>>
    BY <1>4 DEF ListColumns, options, planVars
  <2> QED
    BY <2>1 DEF RowInv, Busy
<1>5. CASE Launch \/ LaunchFails
  <2>1. /\ pc = "launch" /\ pc' \in {"wait", "dead"}
        /\ UNCHANGED <<p, passes, value, infos, measured, open>>
    BY <1>5 DEF Launch, LaunchFails, planVars
  <2> QED
    BY <2>1 DEF RowInv, Busy
<1>6. ASSUME NEW g \in Groups, Skip(g) \/ TakeSoftware(g) \/ TakeHardware(g)
      PROVE  RowInv'
  <2>1. pc = "plan" /\ UNCHANGED <<pc, value, measured>>
    BY <1>6 DEF Skip, TakeSoftware, TakeHardware, Consider, runVars
  <2> QED
    BY <2>1 DEF RowInv
<1>7. CASE UNCHANGED vars
  <2>1. UNCHANGED <<pc, p, passes, value, infos, measured, open, listcolumns>>
    BY <1>7 DEF vars, options, planVars, runVars
  <2> QED
    BY <2>1 DEF RowInv
<1> QED
  BY <1>1, <1>2, <1>3, <1>4, <1>5, <1>6, <1>7 DEF Next, Stopped

LEMMA LeftBehind == Spec => [](IInv /\ StatusInv /\ RowInv)
<1>1. Init => IInv /\ StatusInv /\ RowInv
  BY InvInit, StatusInit
<1>2. (IInv /\ StatusInv /\ RowInv) /\ [Next]_vars => (IInv /\ StatusInv /\ RowInv)'
  BY InvNext, StatusNext, RowNext
<1> QED
  BY <1>1, <1>2, PTL DEF Spec

\* Whatever the children return and die of, the status of each pass is the one
\* its own child ended with, and wspy's exit code is the first child's.
THEOREM StatusesTold == Spec => []EachPassItsStatus
<1>1. IInv /\ StatusInv /\ RowInv => EachPassItsStatus
  <2> SUFFICES ASSUME IInv, StatusInv PROVE EachPassItsStatus
    OBVIOUS
  <2>1. /\ infos \in Seq(Status) /\ outcomes \in Seq(Outcomes) /\ Len(outcomes) = Len(infos)
        /\ DOMAIN infos = 1..Len(infos)
    BY DEF IInv, MultipassTypeOK
  <2>2. ASSUME NEW k \in DOMAIN infos
        PROVE  /\ Printed(infos[k]) = [code |-> IF outcomes[k].how = "exit" THEN {outcomes[k].n} ELSE {},
                                       sig |-> IF outcomes[k].how = "signal" THEN {outcomes[k].n} ELSE {}]
               /\ outcomes[k] # outcomes[1] => k \in warned
    <3>1. Says(infos[k], outcomes[k])
      BY <2>1, <2>2 DEF StatusInv
    <3>2. outcomes[k] # outcomes[1] => k \in warned
      BY <2>1, <2>2 DEF StatusInv
    <3> QED
      BY <3>1, <3>2 DEF Says, Printed
  <2>3. ASSUME pc = "done", infos # <<>>
        PROVE  ExitCode(status) = IF outcomes[1].how = "exit" THEN outcomes[1].n
                                                             ELSE 128 + outcomes[1].n
    <3>1. 1 \in 1..Len(infos)
      BY <2>1, <2>3
    <3>2. Says(status, outcomes[1])
      BY <2>3, <3>1 DEF StatusInv
    <3>3. outcomes[1] \in Outcomes
      BY <2>1, <3>1
    <3>4. outcomes[1].how = "exit" \/ outcomes[1].how = "signal"
      BY <3>3 DEF Outcomes
    <3> QED
      BY <3>2, <3>4 DEF Says, ExitCode
  <2> QED
    BY <2>2, <2>3 DEF EachPassItsStatus
<1> QED
  BY <1>1, LeftBehind, PTL

\* However many passes the plan has, the row has for every group the value its
\* own pass read.
THEOREM RowIsComplete == Spec => []RowComplete
<1>1. IInv /\ StatusInv /\ RowInv => RowComplete
  <2> SUFFICES ASSUME IInv, RowInv, pc = "done", ~listcolumns,
                      NEW k \in DOMAIN passes, NEW g \in passes[k]
               PROVE  value[g] = IF g \in measured THEN k ELSE 0
    BY DEF RowComplete
  <2>1. k \in 1..Len(passes) /\ Len(passes) \in Nat
    BY DEF IInv, MultipassTypeOK
  <2>2. Len(infos) = Len(passes)
    BY DEF RowInv
  <2>3. k <= Len(infos)
    BY <2>1, <2>2
  <2> QED
    BY <2>1, <2>3 DEF RowInv
<1> QED
  BY <1>1, LeftBehind, PTL

=============================================================================
