----------------------------- MODULE CsvRowsProofs -----------------------------
(***************************************************************************)
(* Proofs about the counters of a run and the rows made of them, for any   *)
(* machines, requests and options: that no hardware counter is put where   *)
(* the kernel has no place for it, that the slots a row divides by are its *)
(* own, that a value stands under its own column, and that the features    *)
(* made of the file compare like with like.                                *)
(***************************************************************************)
EXTENDS RunFeatures, WellFoundedInduction, SequenceTheorems, FiniteSetTheorems, TLAPS

-----------------------------------------------------------------------------
(* Loops over a sequence.  Induction over the natural numbers is done with    *)
(* the set of those that a fact holds for.                                    *)

LEMMA Smallest ==
  ASSUME NEW T, T \subseteq Nat, T # {}
  PROVE  \E n \in T : \A m \in T : n <= m
<1> DEFINE R == {ss \in Nat \X Nat : ss[1] < ss[2]}
<1>1. IsWellFoundedOn(R, Nat)
  BY NatLessThanWellFounded DEF OpToRel
<1> HIDE DEF R
<1>2. PICK n \in T : \A m \in T : ~(<<m, n>> \in R)
  BY <1>1, WFMin
<1>3. ASSUME NEW m \in T PROVE n <= m
  <2>1. ~(<<m, n>> \in R)
    BY <1>2
  <2> QED
    BY <2>1 DEF R
<1> QED
  BY <1>3

LEMMA SetInduction ==
  ASSUME NEW S, 0 \in S, \A n \in Nat : n \in S => n + 1 \in S
  PROVE  Nat \subseteq S
<1> SUFFICES ASSUME Nat \ S # {} PROVE FALSE
  OBVIOUS
<1>1. PICK n \in Nat \ S : \A m \in Nat \ S : n <= m
  BY Smallest
<1>2. n - 1 \in Nat
  BY <1>1
<1> QED
  BY <1>1, <1>2

\* f is what a loop over q computes from b, a step for each element.
Loops(f, S, b, T, q, step) ==
  /\ f \in [0 .. Len(q) -> S] /\ f[0] = b
  /\ \A i \in 1 .. Len(q) : f[i] = step[<<f[i - 1], q[i]>>]

LEMMA LoopEnds ==
  ASSUME NEW S, NEW b \in S, NEW T, NEW q \in Seq(T), NEW step \in [S \X T -> S]
  PROVE  \E f : Loops(f, S, b, T, q, step)
<1>0. PICK n \in Nat : n = Len(q)
  OBVIOUS
<1> DEFINE Upto(k, f) == /\ f \in [0 .. k -> S] /\ f[0] = b
                         /\ \A i \in 1 .. k : f[i] = step[<<f[i - 1], q[i]>>]
           K == {k \in Nat : k <= n => \E f : Upto(k, f)}
<1>1. 0 \in K
  <2>1. Upto(0, [i \in 0 .. 0 |-> b])
    OBVIOUS
  <2> HIDE DEF Upto
  <2> QED
    BY <2>1
<1>2. ASSUME NEW k \in Nat, k \in K PROVE k + 1 \in K
  <2> SUFFICES ASSUME k + 1 <= n PROVE \E f : Upto(k + 1, f)
    OBVIOUS
  <2>1. PICK f : Upto(k, f)
    BY <1>2
  <2>2. f[k] \in S /\ q[k + 1] \in T
    BY <1>0, <2>1
  <2>3. step[<<f[k], q[k + 1]>>] \in S
    BY <2>2
  <2> DEFINE e == [i \in 0 .. k + 1 |-> IF i = k + 1 THEN step[<<f[k], q[k + 1]>>] ELSE f[i]]
  <2>4. \A i \in 0 .. k : e[i] = f[i] /\ f[i] \in S
    BY <2>1
  <2>5. e[k + 1] = step[<<e[k], q[k + 1]>>]
    <3>1. e[k] = f[k]
      BY <2>4
    <3>2. e[k + 1] = step[<<f[k], q[k + 1]>>]
      OBVIOUS
    <3> QED
      BY <3>1, <3>2
  <2>6. e \in [0 .. k + 1 -> S]
    BY <2>1, <2>3, <2>4
  <2>7. ASSUME NEW i \in 1 .. k + 1 PROVE e[i] = step[<<e[i - 1], q[i]>>]
    <3>1. CASE i = k + 1
      BY <2>5, <3>1
    <3>2. CASE i \in 1 .. k
      <4>1. i \in 0 .. k /\ i - 1 \in 0 .. k
        BY <3>2
      <4>2. f[i] = step[<<f[i - 1], q[i]>>]
        BY <2>1, <3>2
      <4> HIDE DEF e
      <4> QED
        BY <2>4, <4>1, <4>2
    <3> QED
      BY <3>1, <3>2
  <2>8. e[0] = b
    BY <2>1, <2>4
  <2> HIDE DEF e
  <2> QED
    BY <2>6, <2>7, <2>8
<1> HIDE DEF K
<1>3. Nat \subseteq K
  BY <1>1, <1>2, SetInduction
<1>4. PICK f : Upto(n, f)
  <2> HIDE DEF Upto
  <2> QED
    BY <1>3 DEF K
<1> QED
  BY <1>0, <1>4 DEF Loops

-----------------------------------------------------------------------------
(* The lists of counter groups. *)

\* The n elements of r are those of the first k elements of q that are not empty,
\* in their order.
LinkedBy(r, n, q, k) ==
  \E ix \in [1 .. n -> 1 .. k] :
    /\ \A i \in 1 .. n : r[i] = q[ix[i]] /\ q[ix[i]] # <<>>
    /\ \A i, j \in 1 .. n : i < j => ix[i] < ix[j]
    /\ \A m \in 1 .. k : q[m] # <<>> => \E i \in 1 .. n : ix[i] = m

LinkedTo(r, q, k) == LinkedBy(r, Len(r), q, k)
Linked(r, q) == LinkedBy(r, Len(r), q, Len(q))

LEMMA LinkedSkips ==
  ASSUME NEW G, NEW q, NEW r \in Seq(G), NEW k \in Nat, LinkedTo(r, q, k), q[k + 1] = <<>>
  PROVE  LinkedTo(r, q, k + 1)
<1>1. PICK ix \in [1 .. Len(r) -> 1 .. k] :
        /\ \A i \in 1 .. Len(r) : r[i] = q[ix[i]] /\ q[ix[i]] # <<>>
        /\ \A i, j \in 1 .. Len(r) : i < j => ix[i] < ix[j]
        /\ \A m \in 1 .. k : q[m] # <<>> => \E i \in 1 .. Len(r) : ix[i] = m
  BY DEF LinkedTo, LinkedBy
<1>2. ix \in [1 .. Len(r) -> 1 .. k + 1]
  BY <1>1
<1>3. \A m \in 1 .. k + 1 : q[m] # <<>> => m \in 1 .. k
  OBVIOUS
<1> QED
  BY <1>1, <1>2, <1>3 DEF LinkedTo, LinkedBy

LEMMA LinkedAppends ==
  ASSUME NEW G, NEW q, NEW r \in Seq(G), NEW k \in Nat, LinkedTo(r, q, k), NEW g \in G,
         q[k + 1] = g, g # <<>>
  PROVE  Append(r, g) \in Seq(G) /\ LinkedTo(Append(r, g), q, k + 1)
<1>1. PICK ix \in [1 .. Len(r) -> 1 .. k] :
        /\ \A i \in 1 .. Len(r) : r[i] = q[ix[i]] /\ q[ix[i]] # <<>>
        /\ \A i, j \in 1 .. Len(r) : i < j => ix[i] < ix[j]
        /\ \A m \in 1 .. k : q[m] # <<>> => \E i \in 1 .. Len(r) : ix[i] = m
  BY DEF LinkedTo, LinkedBy
<1>2. PICK n \in Nat : n = Len(r)
  OBVIOUS
<1>3. PICK t \in Seq(G) : t = Append(r, g)
  BY AppendProperties
<1>4. Len(t) = n + 1 /\ t[n + 1] = g /\ \A i \in 1 .. n : t[i] = r[i]
  BY <1>2, <1>3, AppendProperties
<1> DEFINE jx == [i \in 1 .. n + 1 |-> IF i = n + 1 THEN k + 1 ELSE ix[i]]
<1>5. jx[n + 1] = k + 1 /\ \A i \in 1 .. n : jx[i] = ix[i] /\ ix[i] \in 1 .. k
  <2>1. n + 1 \in 1 .. n + 1 /\ \A i \in 1 .. n : i \in 1 .. n + 1 /\ i # n + 1
    OBVIOUS
  <2>2. \A i \in 1 .. n : ix[i] \in 1 .. k
    BY <1>1, <1>2
  <2>3. \A i \in 1 .. n + 1 : jx[i] = IF i = n + 1 THEN k + 1 ELSE ix[i]
    OBVIOUS
  <2> HIDE DEF jx
  <2> QED
    BY <2>1, <2>2, <2>3
<1>6. jx \in [1 .. n + 1 -> 1 .. k + 1]
  BY <1>1, <1>2
<1>7. \A i \in 1 .. n + 1 : i \in 1 .. n \/ i = n + 1
  OBVIOUS
<1> HIDE DEF jx
<1>8. ASSUME NEW i \in 1 .. n + 1 PROVE t[i] = q[jx[i]] /\ q[jx[i]] # <<>>
  BY <1>1, <1>2, <1>4, <1>5, <1>7
<1>9. ASSUME NEW i \in 1 .. n + 1, NEW j \in 1 .. n + 1, i < j PROVE jx[i] < jx[j]
  <2>1. i \in 1 .. n
    BY <1>9
  <2>2. CASE j \in 1 .. n
    BY <1>1, <1>2, <1>5, <1>9, <2>1, <2>2
  <2>3. CASE j = n + 1
    BY <1>5, <2>1, <2>3
  <2> QED
    BY <1>7, <2>2, <2>3
<1>10. ASSUME NEW m \in 1 .. k + 1, q[m] # <<>> PROVE \E i \in 1 .. n + 1 : jx[i] = m
  <2>1. CASE m = k + 1
    BY <1>5, <2>1
  <2>2. CASE m \in 1 .. k
    <3>1. PICK i \in 1 .. n : ix[i] = m
      BY <1>1, <1>2, <1>10, <2>2
    <3> QED
      BY <1>5, <3>1
  <2> QED
    BY <2>1, <2>2
<1>11. LinkedTo(t, q, k + 1)
  <2>1. LinkedBy(t, n + 1, q, k + 1)
    BY <1>6, <1>8, <1>9, <1>10 DEF LinkedBy
  <2> QED
    BY <1>4, <2>1 DEF LinkedTo
<1> QED
  BY <1>3, <1>11

\* u is what Existing() has come to after each of the first c groups.
ExistingUp(u, c, q) ==
  u[0] = <<>> /\ \A i \in 1 .. c : u[i] = IF q[i] = <<>> THEN u[i - 1] ELSE Append(u[i - 1], q[i])

LEMMA ExistingIs ==
  ASSUME NEW G, NEW q \in Seq(G), NEW c \in Nat, c = Len(q)
  PROVE  \E u : ExistingUp(u, c, q) /\ Existing(q) = u[c]
<1> DEFINE Is(u) == u = [i \in 0 .. Len(q) |->
                           IF i = 0 THEN <<>>
                           ELSE IF q[i] = <<>> THEN u[i - 1] ELSE Append(u[i - 1], q[i])]
           u == CHOOSE u : Is(u)
<1>1. Existing(q) = u[c]
  BY DEF Existing
<1>2. \E f : Is(f)
  <2> DEFINE step == [x \in Seq(G) \X G |-> IF x[2] = <<>> THEN x[1] ELSE Append(x[1], x[2])]
  <2>1. step \in [Seq(G) \X G -> Seq(G)]
    OBVIOUS
  <2>2. \A s \in Seq(G), g \in G : step[<<s, g>>] = IF g = <<>> THEN s ELSE Append(s, g)
    OBVIOUS
  <2> HIDE DEF step
  <2>3. <<>> \in Seq(G)
    OBVIOUS
  <2>4. PICK f : Loops(f, Seq(G), <<>>, G, q, step)
    BY <2>1, <2>3, LoopEnds
  <2>5. f \in [0 .. c -> Seq(G)] /\ f[0] = <<>> /\ \A i \in 1 .. c : f[i] = step[<<f[i - 1], q[i]>>]
    BY <2>4 DEF Loops
  <2>6. ASSUME NEW i \in 1 .. c
        PROVE  f[i] = IF q[i] = <<>> THEN f[i - 1] ELSE Append(f[i - 1], q[i])
    <3>1. f[i - 1] \in Seq(G) /\ q[i] \in G
      BY <2>5
    <3> QED
      BY <2>2, <2>5, <3>1
  <2> DEFINE Val(i) == IF i = 0 THEN <<>>
                       ELSE IF q[i] = <<>> THEN f[i - 1] ELSE Append(f[i - 1], q[i])
  <2>7. ASSUME NEW i \in 0 .. c PROVE f[i] = Val(i)
    <3>1. CASE i = 0
      BY <2>5, <3>1
    <3>2. CASE i \in 1 .. c
      <4>1. i # 0 /\ f[i] = IF q[i] = <<>> THEN f[i - 1] ELSE Append(f[i - 1], q[i])
        BY <2>6, <3>2
      <4> QED
        BY <4>1
    <3> QED
      BY <3>1, <3>2
  <2>8. f = [i \in 0 .. c |-> Val(i)]
    <3> HIDE DEF Val
    <3> QED
      BY <2>5, <2>7
  <2> QED
    BY <2>8
<1>3. Is(u)
  <2> HIDE DEF Is
  <2> QED
    BY <1>2
<1>4. /\ u[0] = <<>>
      /\ \A i \in 1 .. c : u[i] = IF q[i] = <<>> THEN u[i - 1] ELSE Append(u[i - 1], q[i])
  <2> HIDE DEF u
  <2> DEFINE Val(i) == IF i = 0 THEN <<>>
                       ELSE IF q[i] = <<>> THEN u[i - 1] ELSE Append(u[i - 1], q[i])
  <2>1. u = [i \in 0 .. c |-> Val(i)]
    BY <1>3
  <2>2. Val(0) = <<>> /\ 0 \in 0 .. c
    OBVIOUS
  <2>3. ASSUME NEW i \in 1 .. c
        PROVE  Val(i) = (IF q[i] = <<>> THEN u[i - 1] ELSE Append(u[i - 1], q[i])) /\ i \in 0 .. c
    OBVIOUS
  <2> HIDE DEF Val
  <2>4. \A i \in 0 .. c : u[i] = Val(i)
    BY <2>1
  <2> QED
    BY <2>2, <2>3, <2>4
<1> HIDE DEF u
<1> QED
  BY <1>1, <1>4 DEF ExistingUp

LEMMA ExistingLinked ==
  ASSUME NEW G, NEW q \in Seq(G)
  PROVE  Existing(q) \in Seq(G) /\ Linked(Existing(q), q)
<1>0. PICK c \in Nat : c = Len(q)
  OBVIOUS
<1>1. PICK u : ExistingUp(u, c, q) /\ Existing(q) = u[c]
  BY <1>0, ExistingIs
<1>4. /\ u[0] = <<>>
      /\ \A i \in 1 .. c : u[i] = IF q[i] = <<>> THEN u[i - 1] ELSE Append(u[i - 1], q[i])
  BY <1>1 DEF ExistingUp
<1> DEFINE Has(s, k) == s \in Seq(G) /\ LinkedTo(s, q, k)
           K == {k \in Nat : k <= c => Has(u[k], k)}
<1>5. 0 \in K
  <2>1. LinkedTo(<<>>, q, 0)
    <3>1. [i \in {} |-> 0] \in [1 .. Len(<<>>) -> 1 .. 0]
      OBVIOUS
    <3> QED
      BY <3>1 DEF LinkedTo, LinkedBy
  <2>2. <<>> \in Seq(G)
    OBVIOUS
  <2>3. Has(u[0], 0)
    BY <1>4, <2>1, <2>2
  <2> HIDE DEF Has
  <2> QED
    BY <2>3
<1>6. ASSUME NEW k \in Nat, k \in K PROVE k + 1 \in K
  <2> SUFFICES ASSUME k + 1 <= c PROVE Has(u[k + 1], k + 1)
    OBVIOUS
  <2>1. PICK s \in Seq(G) : s = u[k] /\ LinkedTo(s, q, k)
    BY <1>6
  <2>2. PICK i \in 1 .. c : i = k + 1 /\ i - 1 = k
    OBVIOUS
  <2>3. PICK g \in G : g = q[i]
    BY <1>0
  <2>4. u[i] = IF g = <<>> THEN s ELSE Append(s, g)
    BY <1>4, <2>1, <2>2, <2>3
  <2>5. CASE g = <<>>
    <3>1. LinkedTo(s, q, k + 1)
      BY <2>1, <2>2, <2>3, <2>5, LinkedSkips
    <3> QED
      BY <2>2, <2>4, <2>5, <3>1
  <2>6. CASE g # <<>>
    <3>1. Append(s, g) \in Seq(G) /\ LinkedTo(Append(s, g), q, k + 1)
      BY <2>1, <2>2, <2>3, <2>6, LinkedAppends
    <3> QED
      BY <2>2, <2>4, <2>6, <3>1
  <2> QED
    BY <2>5, <2>6
<1> HIDE DEF K
<1>7. Nat \subseteq K
  BY <1>5, <1>6, SetInduction
<1>8. Has(u[c], c)
  <2> HIDE DEF Has
  <2> QED
    BY <1>7 DEF K
<1> QED
  BY <1>0, <1>1, <1>8 DEF Linked, LinkedTo

-----------------------------------------------------------------------------
(* The counters of a group. *)

RawGroups == {"ipc", "topdown", "topdown2", "topdown_be", "topdown_fe", "topdown_op", "branch", "l2", "l3",
              "memory", "opcache", "float", "arm_mem_align_tlb", "arm_icache_tlb", "arm_dcache_mem"}

\* What the tables have in common
TableOf(h, t) ==
  /\ t \in [RawGroups -> Nat]
  /\ t["topdown"] > 0 /\ t["topdown2"] > 0
  /\ h.vendor # "amd" => t["l3"] = 0 /\ t["float"] = 0
  /\ h.vendor = "amd" => t["topdown_be"] = 0

LEMMA AmdTable == AmdEvents \in [RawGroups -> Nat]
  BY DEF AmdEvents, RawGroups

LEMMA IntelTable == IntelEvents \in [RawGroups -> Nat] /\ IntelEvents["topdown"] = 5 /\ IntelEvents["topdown2"] = 9
                    /\ IntelEvents["l3"] = 0 /\ IntelEvents["float"] = 0
  BY AmdTable DEF IntelEvents, RawGroups

LEMMA AtomTable == AtomEvents = [[IntelEvents EXCEPT !["topdown2"] = 5] EXCEPT !["topdown_be"] = 0]
  BY DEF AtomEvents

LEMMA EventTables ==
  ASSUME NEW h \in Hosts, NEW class
  PROVE  TableOf(h, Events(h, class))
<1>1. CASE h.vendor = "amd"
  <2> DEFINE t == AmdAvailable(h)
  <2>1. Events(h, class) = t
    BY <1>1 DEF Events
  <2>2. /\ AmdEvents["topdown"] = 6 /\ AmdEvents["topdown2"] = 12 /\ AmdEvents["topdown_be"] = 0
        /\ AmdEvents["l3"] = 1
    BY DEF AmdEvents
  <2> DEFINE l == IF h.l3 THEN AmdEvents["l3"] + 2 ELSE AmdEvents["l3"]
             m == IF h.node1 THEN 4 ELSE 0
  <2>3. t = [[AmdEvents EXCEPT !["l3"] = l] EXCEPT !["memory"] = m]
    BY DEF AmdAvailable
  <2>4. l \in Nat /\ m \in Nat
    BY <2>2
  <2> HIDE DEF l, m
  <2>5. /\ t \in [RawGroups -> Nat] /\ t["topdown"] = 6 /\ t["topdown2"] = 12 /\ t["topdown_be"] = 0
    BY <2>2, <2>3, <2>4, AmdTable DEF RawGroups
  <2> HIDE DEF t
  <2> QED
    BY <1>1, <2>1, <2>5 DEF TableOf
<1>2. CASE h.vendor = "arm"
  <2>1. ArmEvents = [[[[[[[[[IntelEvents EXCEPT !["topdown2"] = 10] EXCEPT !["topdown_be"] = 3]
                          EXCEPT !["topdown_fe"] = 1] EXCEPT !["branch"] = 7] EXCEPT !["memory"] = 2]
                       EXCEPT !["arm_mem_align_tlb"] = 5] EXCEPT !["arm_icache_tlb"] = 4]
                     EXCEPT !["arm_dcache_mem"] = 5] EXCEPT !["l2"] = 3]
    BY ZenonT(40), IntelTable DEF ArmEvents, IntelEvents, RawGroups
  <2>2. /\ ArmEvents \in [RawGroups -> Nat] /\ ArmEvents["topdown"] = 5 /\ ArmEvents["topdown2"] = 10
        /\ ArmEvents["l3"] = 0 /\ ArmEvents["float"] = 0
    BY IntelTable DEF ArmEvents, RawGroups
  <2>3. Events(h, class) = ArmEvents
    BY <1>2 DEF Events
  <2> QED
    BY <1>2, <2>2, <2>3 DEF TableOf
<1>3. CASE h.vendor = "intel"
  <2>1. /\ AtomEvents \in [RawGroups -> Nat] /\ AtomEvents["topdown"] = 5 /\ AtomEvents["topdown2"] = 5
        /\ AtomEvents["l3"] = 0 /\ AtomEvents["float"] = 0
    BY IntelTable DEF AtomEvents, RawGroups
  <2>2. Events(h, class) = IF class = "atom" THEN AtomEvents ELSE IntelEvents
    BY <1>3 DEF Events
  <2> QED
    BY <1>3, <2>1, <2>2, IntelTable DEF TableOf
<1> QED
  BY <1>1, <1>2, <1>3, CountersAssumption DEF Vendors

\* What perf_event_open is called with next is never a member that its leader refuses:
\* a counter group begins with a leader, and a member has the PMU of the counter
\* before it, which has left room for it.
Pmus == {"core", "slots", "l3", "software", "ibs", "power", "none", "file"}
CounterSet == [group : RawGroups \cup {"cache", "software", "ibs", "ibs_sample", "power", "power_core"},
               pmu : Pmus, leader : BOOLEAN, wide : BOOLEAN]
Member(c) == ~c.leader /\ c.pmu # "software"
Begins(cg) == cg[1].leader \/ cg[1].pmu = "software"
Follows(b, cg, i) ==
  Member(cg[i]) => /\ cg[i].pmu \in {"core", "slots"} /\ cg[i - 1].pmu = cg[i].pmu
                   /\ cg[i - 1].wide = cg[i].wide
                   /\ cg[i].pmu = "core" => (i - 1) % b # 0
Shape(b, cg) ==
  /\ cg \in Seq(CounterSet)
  /\ cg # <<>> => Begins(cg)
  /\ \A i \in 1 .. Len(cg) : cg[i].pmu = "software" => cg[i].group = "software"
  /\ \A i \in 2 .. Len(cg) : Follows(b, cg, i)

LEMMA CounterIs ==
  ASSUME NEW g, NEW pmu, NEW leader, NEW wide
  PROVE  /\ Counter(g, pmu, leader, wide).group = g /\ Counter(g, pmu, leader, wide).pmu = pmu
         /\ Counter(g, pmu, leader, wide).leader = leader /\ Counter(g, pmu, leader, wide).wide = wide
  BY DEF Counter

LEMMA CounterTyped ==
  ASSUME NEW g \in RawGroups \cup {"cache", "software", "ibs", "ibs_sample", "power", "power_core"},
         NEW pmu \in Pmus, NEW leader \in BOOLEAN, NEW wide \in BOOLEAN
  PROVE  Counter(g, pmu, leader, wide) \in CounterSet
  BY DEF Counter, CounterSet

LEMMA FirstLeads ==
  ASSUME NEW h \in Hosts
  PROVE  StartsChunk(h, 1) /\ h.budget \in {5, 6}
  BY CountersAssumption DEF StartsChunk

LEMMA RawShape ==
  ASSUME NEW h \in Hosts, NEW class, NEW g \in RawGroups
  PROVE  LET cg == RawGroup(h, class, g) IN
         /\ Shape(h.budget, cg) /\ Len(cg) = Events(h, class)[g]
         /\ cg # <<>> => cg[1].group = g
<1> DEFINE cg == RawGroup(h, class, g)
<1>1. PICK n \in Nat : n = Events(h, class)[g]
  BY EventTables DEF TableOf
<1>2. CASE h.vendor = "intel" /\ class # "atom" /\ g \in {"topdown", "topdown2"}
  <2>1. cg = [i \in 1 .. n |-> Counter(g, "slots", i = 1, FALSE)]
    BY <1>1, <1>2 DEF RawGroup
  <2>2. ASSUME NEW i \in 1 .. n
        PROVE  /\ cg[i] \in CounterSet
               /\ cg[i].group = g /\ cg[i].pmu = "slots" /\ cg[i].leader = (i = 1) /\ cg[i].wide = FALSE
    <3>1. cg[i] = Counter(g, "slots", i = 1, FALSE)
      BY <2>1
    <3>2. PICK leads \in BOOLEAN : leads = (i = 1)
      OBVIOUS
    <3>3. PICK c : c = Counter(g, "slots", leads, FALSE)
      OBVIOUS
    <3>4. c \in CounterSet /\ c.group = g /\ c.pmu = "slots" /\ c.leader = leads /\ c.wide = FALSE
      <4>1. "slots" \in Pmus /\ FALSE \in BOOLEAN
        BY DEF Pmus
      <4>2. c \in CounterSet
        BY <3>3, <4>1, CounterTyped
      <4>3. c.group = g /\ c.pmu = "slots" /\ c.wide = FALSE
        BY <3>3 DEF Counter
      <4>4. c.leader = leads
        BY <3>3 DEF Counter
      <4> QED
        BY <4>2, <4>3, <4>4
    <3>5. cg[i] = c
      BY <3>1, <3>2, <3>3
    <3> HIDE DEF cg
    <3> QED
      BY <3>2, <3>4, <3>5
  <2> HIDE DEF cg
  <2>3. cg \in Seq(CounterSet) /\ Len(cg) = n
    <3>1. \A i \in 1 .. n : cg[i] \in CounterSet
      BY <2>2
    <3>2. cg \in [1 .. n -> CounterSet]
      BY <2>1, <3>1
    <3> QED
      BY <3>2
  <2>4. n # 0 => Begins(cg)
    <3>1. n # 0 => 1 \in 1 .. n
      OBVIOUS
    <3> QED
      BY <2>2, <3>1 DEF Begins
  <2>5. ASSUME NEW i \in 2 .. n PROVE Follows(h.budget, cg, i)
    <3>1. i \in 1 .. n /\ i - 1 \in 1 .. n
      OBVIOUS
    <3> QED
      BY <2>2, <3>1 DEF Follows, Member
  <2>6. Shape(h.budget, cg)
    <3>1. cg # <<>> => n # 0
      BY <2>3
    <3>2. \A i \in 1 .. Len(cg) : cg[i].pmu = "software" => cg[i].group = "software"
      BY <2>2, <2>3
    <3>3. \A i \in 2 .. Len(cg) : Follows(h.budget, cg, i)
      BY <2>3, <2>5
    <3> QED
      BY <2>3, <2>4, <3>1, <3>2, <3>3 DEF Shape
  <2>7. cg # <<>> => cg[1].group = g
    <3>1. cg # <<>> => 1 \in 1 .. n
      BY <2>3
    <3> QED
      BY <2>2, <3>1
  <2> QED
    BY <1>1, <2>3, <2>6, <2>7 DEF cg
<1>3. CASE ~(h.vendor = "intel" /\ class # "atom" /\ g \in {"topdown", "topdown2"})
  <2>1. cg = [i \in 1 .. n |-> Counter(g, IF IsL3(g, i) THEN "l3" ELSE "core",
                                       StartsChunk(h, i) \/ IsL3(g, i), IsL3(g, i))]
    BY <1>1, <1>3 DEF RawGroup
  <2>2. ASSUME NEW i \in 1 .. n
        PROVE  /\ cg[i] \in CounterSet
               /\ cg[i].group = g /\ cg[i].pmu = IF IsL3(g, i) THEN "l3" ELSE "core"
               /\ cg[i].leader = (StartsChunk(h, i) \/ IsL3(g, i)) /\ cg[i].wide = IsL3(g, i)
    <3>1. cg[i] = Counter(g, IF IsL3(g, i) THEN "l3" ELSE "core",
                          StartsChunk(h, i) \/ IsL3(g, i), IsL3(g, i))
      BY <2>1
    <3>2. IsL3(g, i) \in BOOLEAN /\ StartsChunk(h, i) \in BOOLEAN
      BY DEF IsL3, StartsChunk
    <3> QED
      BY <3>1, <3>2, CounterTyped, CounterIs DEF Pmus
  <2> HIDE DEF cg
  <2>3. cg \in Seq(CounterSet) /\ Len(cg) = n
    <3>1. \A i \in 1 .. n : cg[i] \in CounterSet
      BY <2>2
    <3>2. cg \in [1 .. n -> CounterSet]
      BY <2>1, <3>1
    <3> QED
      BY <3>2
  <2>4. ASSUME NEW i \in 2 .. n PROVE Follows(h.budget, cg, i)
    <3>1. i \in 1 .. n /\ i - 1 \in 1 .. n
      OBVIOUS
    <3>2. IsL3(g, i - 1) => IsL3(g, i)
      BY DEF IsL3
    <3>3. StartsChunk(h, i) <=> (i - 1) % h.budget = 0
      BY DEF StartsChunk
    <3> SUFFICES ASSUME Member(cg[i])
                 PROVE  /\ cg[i].pmu \in {"core", "slots"} /\ cg[i - 1].pmu = cg[i].pmu
                        /\ cg[i - 1].wide = cg[i].wide
                        /\ cg[i].pmu = "core" => (i - 1) % h.budget # 0
      BY DEF Follows
    <3>4. ~StartsChunk(h, i) /\ ~IsL3(g, i)
      BY <2>2, <3>1 DEF Member
    <3>5. ~IsL3(g, i - 1)
      BY <3>2, <3>4
    <3>6. IsL3(g, i) = FALSE /\ IsL3(g, i - 1) = FALSE
      BY <3>4, <3>5 DEF IsL3
    <3>7. cg[i].pmu = "core" /\ cg[i].wide = FALSE
      BY <2>2, <3>1, <3>6
    <3>8. cg[i - 1].pmu = "core" /\ cg[i - 1].wide = FALSE
      BY <2>2, <3>1, <3>6
    <3> QED
      BY <3>3, <3>4, <3>7, <3>8
  <2>5. n # 0 => Begins(cg)
    <3>1. n # 0 => 1 \in 1 .. n
      OBVIOUS
    <3> QED
      BY <2>2, <3>1, FirstLeads DEF Begins
  <2>6. Shape(h.budget, cg)
    BY <2>2, <2>3, <2>4, <2>5 DEF Shape
  <2>7. cg # <<>> => cg[1].group = g
    <3>1. cg # <<>> => 1 \in 1 .. n
      BY <2>3
    <3> QED
      BY <2>2, <3>1
  <2> QED
    BY <1>1, <2>3, <2>6, <2>7 DEF cg
<1> QED
  BY <1>2, <1>3

LEMMA CacheShape ==
  ASSUME NEW h \in Hosts, NEW groups
  PROVE  LET cg == CacheGroup(h, groups) IN
         Shape(h.budget, cg) /\ cg # <<>> /\ cg[1].group = "cache"
<1> DEFINE Of_(cache) == IF cache \in groups THEN CacheEvents[cache] ELSE 0
           cg == CacheGroup(h, groups)
<1>1. PICK n \in Nat : n = 1 + Of_("dcache") + Of_("icache") + Of_("tlb") /\ n >= 1
  BY DEF CacheEvents
<1>2. cg = [i \in 1 .. n |-> Counter("cache", "core", StartsChunk(h, i), FALSE)]
  BY <1>1 DEF CacheGroup
<1>3. ASSUME NEW i \in 1 .. n
      PROVE  /\ cg[i] \in CounterSet
             /\ cg[i].group = "cache" /\ cg[i].pmu = "core" /\ cg[i].wide = FALSE
             /\ cg[i].leader = StartsChunk(h, i)
  <2>1. cg[i] = Counter("cache", "core", StartsChunk(h, i), FALSE)
    BY <1>2
  <2>2. StartsChunk(h, i) \in BOOLEAN /\ "core" \in Pmus
    BY DEF StartsChunk, Pmus
  <2>3. PICK leads \in BOOLEAN : leads = StartsChunk(h, i)
    BY <2>2
  <2>4. PICK c : c = Counter("cache", "core", leads, FALSE)
    OBVIOUS
  <2>5. c = cg[i]
    BY <2>1, <2>3, <2>4
  <2> HIDE DEF cg
  <2>6. c \in CounterSet
    BY <2>2, <2>4 DEF Counter, CounterSet
  <2>7. c.group = "cache" /\ c.pmu = "core" /\ c.wide = FALSE
    BY <2>4 DEF Counter
  <2>8. c.leader = leads
    BY <2>4 DEF Counter
  <2> QED
    BY <2>3, <2>5, <2>6, <2>7, <2>8
<1> HIDE DEF cg
<1>4. cg \in Seq(CounterSet) /\ Len(cg) = n
  <2>1. cg \in [1 .. n -> CounterSet]
    BY <1>2, <1>3
  <2> QED
    BY <2>1
<1>5. 1 \in 1 .. n /\ cg # <<>>
  BY <1>1, <1>4
<1>6. Begins(cg)
  BY <1>3, <1>5, FirstLeads DEF Begins
<1>7. ASSUME NEW i \in 2 .. n PROVE Follows(h.budget, cg, i)
  <2>1. i \in 1 .. n /\ i - 1 \in 1 .. n
    OBVIOUS
  <2>2. StartsChunk(h, i) <=> (i - 1) % h.budget = 0
    BY DEF StartsChunk
  <2> QED
    BY <1>3, <2>1, <2>2 DEF Follows, Member
<1>8. Shape(h.budget, cg)
  <2>1. \A i \in 1 .. Len(cg) : cg[i].pmu = "software" => cg[i].group = "software"
    BY <1>3, <1>4
  <2>2. \A i \in 2 .. Len(cg) : Follows(h.budget, cg, i)
    BY <1>4, <1>7
  <2> QED
    BY <1>4, <1>6, <2>1, <2>2 DEF Shape
<1> QED
  BY <1>3, <1>5, <1>8 DEF cg

\* A counter group without members has the shape whatever it begins with.
LEMMA MemberlessShape ==
  ASSUME NEW b, NEW cg \in Seq(CounterSet),
         \A i \in 1 .. Len(cg) : ~Member(cg[i]) /\ (cg[i].pmu = "software" => cg[i].group = "software")
  PROVE  Shape(b, cg)
<1>1. \A i \in 2 .. Len(cg) : i \in 1 .. Len(cg)
  OBVIOUS
<1>2. \A i \in 2 .. Len(cg) : Follows(b, cg, i)
  BY <1>1 DEF Follows
<1>3. cg # <<>> => Begins(cg)
  <2>1. cg # <<>> => 1 \in 1 .. Len(cg)
    OBVIOUS
  <2>2. \A i \in 1 .. Len(cg) : cg[i].leader \in BOOLEAN
    <3>1. \A i \in 1 .. Len(cg) : cg[i] \in CounterSet
      OBVIOUS
    <3> QED
      BY <3>1 DEF CounterSet
  <2> QED
    BY <2>1, <2>2 DEF Begins, Member
<1> QED
  BY <1>2, <1>3 DEF Shape

\* The counter groups of the list for the whole run and of the cores' power counters
LEMMA OtherShapes ==
  ASSUME NEW h \in Hosts
  PROVE  /\ Shape(h.budget, SoftwareGroup) /\ SoftwareGroup[1].group = "software"
         /\ \A g \in {"ibs", "ibs_sample"} :
               Shape(h.budget, IbsGroup(h, g)) /\ (IbsGroup(h, g) # <<>> => IbsGroup(h, g)[1].group = g)
         /\ Shape(h.budget, PowerGroup(h)) /\ (PowerGroup(h) # <<>> => PowerGroup(h)[1].group = "power")
         /\ \A c : /\ Shape(h.budget, PowerCoreGroup(h, c)) /\ PowerCoreGroup(h, c) # <<>>
                   /\ PowerCoreGroup(h, c)[1].group = "power_core"
<1>1. Shape(h.budget, SoftwareGroup) /\ SoftwareGroup[1].group = "software"
  <2> DEFINE c == Counter("software", "software", FALSE, FALSE)
             cg == SoftwareGroup
  <2>1. c \in CounterSet /\ c.group = "software" /\ c.pmu = "software"
    BY DEF Counter, CounterSet, Pmus
  <2>2. cg = [i \in 1 .. 9 |-> c]
    BY DEF SoftwareGroup
  <2> HIDE DEF c, cg
  <2>3. cg \in [1 .. 9 -> CounterSet]
    BY <2>1, <2>2
  <2> DEFINE n == 9
  <2>4. cg \in Seq(CounterSet) /\ Len(cg) = 9 /\ 1 \in 1 .. 9
    <3>1. n \in Nat /\ cg \in [1 .. n -> CounterSet]
      BY <2>3
    <3> HIDE DEF n
    <3>2. cg \in Seq(CounterSet) /\ Len(cg) = n
      BY <3>1
    <3> QED
      BY <3>2 DEF n
  <2>5. \A i \in 1 .. 9 : cg[i] = c
    BY <2>2
  <2>6. Shape(h.budget, cg)
    <3>1. ~Member(c)
      BY <2>1 DEF Member
    <3> QED
      BY <2>1, <2>4, <2>5, <3>1, MemberlessShape
  <2> QED
    BY <2>1, <2>4, <2>5, <2>6 DEF cg
<1>2. ASSUME NEW g \in {"ibs", "ibs_sample"}
      PROVE  Shape(h.budget, IbsGroup(h, g)) /\ (IbsGroup(h, g) # <<>> => IbsGroup(h, g)[1].group = g)
  <2> DEFINE c == Counter(g, "ibs", TRUE, TRUE)
             cg == IbsGroup(h, g)
  <2>1. c \in CounterSet /\ c.group = g /\ c.pmu = "ibs" /\ c.leader
    BY DEF Counter, CounterSet, Pmus
  <2>2. PICK n \in Nat : n = h.ibs
    BY CountersAssumption
  <2>3. cg = [i \in 1 .. n |-> c]
    BY <2>2 DEF IbsGroup
  <2> HIDE DEF c, cg
  <2>4. cg \in [1 .. n -> CounterSet]
    BY <2>1, <2>3
  <2>5. cg \in Seq(CounterSet) /\ Len(cg) = n
    BY <2>4
  <2>6. \A i \in 1 .. n : cg[i] = c
    BY <2>3
  <2>7. Shape(h.budget, cg)
    <3>1. ~Member(c)
      BY <2>1 DEF Member
    <3> QED
      BY <2>1, <2>5, <2>6, <3>1, MemberlessShape
  <2>8. cg # <<>> => 1 \in 1 .. n
    BY <2>5
  <2> QED
    BY <2>1, <2>6, <2>7, <2>8 DEF cg
<1>3. ASSUME NEW c \in CounterSet, c.leader, c.pmu # "software"
      PROVE  Shape(h.budget, <<c>>)
  <2>1. <<c>> \in Seq(CounterSet) /\ Len(<<c>>) = 1 /\ \A i \in 1 .. 1 : <<c>>[i] = c
    OBVIOUS
  <2>2. ~Member(c)
    BY <1>3 DEF Member
  <2> QED
    BY <1>3, <2>1, <2>2, MemberlessShape
<1>4. Shape(h.budget, <<>>)
  <2>0. <<>> \in Seq(CounterSet)
    OBVIOUS
  <2>1. PICK cg \in Seq(CounterSet) : cg = <<>>
    BY <2>0
  <2>2. Len(cg) = 0
    BY <2>1
  <2>3. \A i \in 1 .. Len(cg) : FALSE
    BY <2>2
  <2>4. Shape(h.budget, cg)
    BY <2>3, MemberlessShape
  <2> QED
    BY <2>1, <2>4
<1>5. Shape(h.budget, PowerGroup(h)) /\ (PowerGroup(h) # <<>> => PowerGroup(h)[1].group = "power")
  <2>1. CASE h.power = "pmu"
    <3> DEFINE c == Counter("power", "power", TRUE, TRUE)
    <3>1. c \in CounterSet /\ c.group = "power" /\ c.pmu = "power" /\ c.leader
      BY DEF Counter, CounterSet, Pmus
    <3>2. PowerGroup(h) = <<c>>
      BY <2>1 DEF PowerGroup
    <3> HIDE DEF c
    <3> QED
      BY <1>3, <3>1, <3>2
  <2>2. CASE h.power = "sysfs"
    <3> DEFINE c == Counter("power", "file", TRUE, FALSE)
    <3>1. c \in CounterSet /\ c.group = "power" /\ c.pmu = "file" /\ c.leader
      BY DEF Counter, CounterSet, Pmus
    <3>2. PowerGroup(h) = <<c>>
      BY <2>2 DEF PowerGroup
    <3> HIDE DEF c
    <3> QED
      BY <1>3, <3>1, <3>2
  <2>3. CASE h.power = "none"
    <3>1. PowerGroup(h) = <<>>
      BY <2>3 DEF PowerGroup
    <3> QED
      BY <1>4, <3>1
  <2> QED
    BY <2>1, <2>2, <2>3, CountersAssumption
<1>6. ASSUME NEW k
      PROVE  /\ Shape(h.budget, PowerCoreGroup(h, k)) /\ PowerCoreGroup(h, k) # <<>>
             /\ PowerCoreGroup(h, k)[1].group = "power_core"
  <2>1. PICK p \in Pmus : p = (IF k \in h.powerCores THEN "power" ELSE "none") /\ p # "software"
    BY DEF Pmus
  <2> DEFINE c == Counter("power_core", p, TRUE, FALSE)
  <2>2. c \in CounterSet /\ c.group = "power_core" /\ c.pmu = p /\ c.leader
    BY DEF Counter, CounterSet
  <2>3. PowerCoreGroup(h, k) = <<c>>
    BY <2>1 DEF PowerCoreGroup
  <2> HIDE DEF c
  <2>4. <<c>> # <<>> /\ <<c>>[1] = c
    OBVIOUS
  <2> QED
    BY <1>3, <2>1, <2>2, <2>3, <2>4
<1> QED
  BY <1>1, <1>2, <1>5, <1>6

-----------------------------------------------------------------------------
(* The lists of counters. *)

Shaped(h) == {cg \in Seq(CounterSet) : Shape(h.budget, cg)}

\* The counter groups that raw_counter_group() and cache_counter_group() are asked for
RawCounters(h, r, class, m) == IF RawOrder[m] \in r.groups THEN RawGroup(h, class, RawOrder[m]) ELSE <<>>
CacheCounters(h, r) == IF r.groups \cap CacheGroups # {} THEN CacheGroup(h, r.groups) ELSE <<>>
ToLink(h, r, class) == Append([m \in 1 .. 15 |-> RawCounters(h, r, class, m)], CacheCounters(h, r))

LEMMA OrderOfLists ==
  /\ Len(RawOrder) = 15
  /\ \A m \in 1 .. 15 : RawOrder[m] \in RawGroups /\ (RawOrder[m] = "topdown_be" <=> m = 4)
  /\ RawOrder[2] = "topdown" /\ RawOrder[3] = "topdown2" /\ RawOrder[4] = "topdown_be"
<1>1. \A m \in 1 .. 15 : \/ m = 1 \/ m = 2 \/ m = 3 \/ m = 4 \/ m = 5 \/ m = 6 \/ m = 7 \/ m = 8
                         \/ m = 9 \/ m = 10 \/ m = 11 \/ m = 12 \/ m = 13 \/ m = 14 \/ m = 15
  OBVIOUS
<1> QED
  BY <1>1 DEF RawOrder, RawGroups

LEMMA Linking ==
  ASSUME NEW h, NEW r, NEW class
  PROVE  CounterGroups(h, r, class) = Existing(ToLink(h, r, class))
<1>1. [i \in 1 .. Len(RawOrder) |->
         IF RawOrder[i] \in r.groups THEN RawGroup(h, class, RawOrder[i]) ELSE <<>>]
        = [m \in 1 .. 15 |-> RawCounters(h, r, class, m)]
  BY OrderOfLists DEF RawCounters
<1> QED
  BY <1>1 DEF CounterGroups, ToLink, CacheCounters

\* cg is not empty if the group is asked for and the machine has events for it.
Asked(h, r, class, g, cg) ==
  /\ (cg # <<>>) <=> (g \in r.groups /\ Events(h, class)[g] > 0)
  /\ cg # <<>> => cg[1].group = g

\* What is linked: for the groups asked for that the machine has events for, counters
\* that have the shape.
LEMMA ToLinkShaped ==
  ASSUME NEW h \in Hosts, NEW r, NEW class
  PROVE  /\ ToLink(h, r, class) \in Seq(Shaped(h)) /\ Len(ToLink(h, r, class)) = 16
         /\ \A m \in 1 .. 15 :
               /\ ToLink(h, r, class)[m] = RawCounters(h, r, class, m)
               /\ Asked(h, r, class, RawOrder[m], ToLink(h, r, class)[m])
         /\ ToLink(h, r, class)[16] = CacheCounters(h, r)
         /\ ToLink(h, r, class)[16] # <<>> => ToLink(h, r, class)[16][1].group = "cache"
<1> DEFINE raw == [m \in 1 .. 15 |-> RawCounters(h, r, class, m)]
           cache == CacheCounters(h, r)
<1>0. <<>> \in Shaped(h)
  <2>0. <<>> \in Seq(CounterSet)
    OBVIOUS
  <2>1. PICK cg \in Seq(CounterSet) : cg = <<>>
    BY <2>0
  <2>2. Len(cg) = 0
    BY <2>1
  <2>3. \A i \in 1 .. Len(cg) : FALSE
    BY <2>2
  <2>4. Shape(h.budget, cg)
    BY <2>3, MemberlessShape
  <2> QED
    BY <2>1, <2>4 DEF Shaped
<1>1. ASSUME NEW m \in 1 .. 15
      PROVE  /\ RawCounters(h, r, class, m) \in Shaped(h)
             /\ Asked(h, r, class, RawOrder[m], RawCounters(h, r, class, m))
  <2>1. PICK g \in RawGroups : g = RawOrder[m]
    BY OrderOfLists
  <2>2. CASE g \in r.groups
    <3>1. RawCounters(h, r, class, m) = RawGroup(h, class, g)
      BY <2>1, <2>2 DEF RawCounters
    <3> DEFINE cg == RawGroup(h, class, g)
    <3>2. Shape(h.budget, cg) /\ Len(cg) = Events(h, class)[g] /\ (cg # <<>> => cg[1].group = g)
      BY RawShape
    <3> HIDE DEF cg
    <3>3. cg \in Seq(CounterSet)
      BY <3>2 DEF Shape
    <3>4. Events(h, class)[g] \in Nat
      BY EventTables DEF TableOf
    <3>5. cg # <<>> <=> Len(cg) > 0
      BY <3>3
    <3>6. cg \in Shaped(h)
      BY <3>2, <3>3 DEF Shaped
    <3> QED
      BY <2>1, <2>2, <3>1, <3>2, <3>4, <3>5, <3>6 DEF cg, Asked
  <2>3. CASE g \notin r.groups
    <3>1. RawCounters(h, r, class, m) = <<>>
      BY <2>1, <2>3 DEF RawCounters
    <3> QED
      BY <1>0, <2>1, <2>3, <3>1 DEF Asked
  <2> QED
    BY <2>2, <2>3
<1>2. cache \in Shaped(h) /\ (cache # <<>> => cache[1].group = "cache")
  <2>1. CASE r.groups \cap CacheGroups # {}
    <3>1. cache = CacheGroup(h, r.groups)
      BY <2>1 DEF CacheCounters
    <3> DEFINE cg == CacheGroup(h, r.groups)
    <3>2. Shape(h.budget, cg) /\ cg # <<>> /\ cg[1].group = "cache"
      BY CacheShape
    <3> HIDE DEF cg
    <3>3. cg \in Shaped(h)
      BY <3>2 DEF Shape, Shaped
    <3> QED
      BY <3>1, <3>2, <3>3 DEF cg
  <2>2. CASE ~(r.groups \cap CacheGroups # {})
    <3>1. cache = <<>>
      BY <2>2 DEF CacheCounters
    <3> QED
      BY <1>0, <3>1
  <2> QED
    BY <2>1, <2>2
<1> HIDE DEF cache
<1>3. raw \in Seq(Shaped(h)) /\ Len(raw) = 15 /\ \A m \in 1 .. 15 : raw[m] = RawCounters(h, r, class, m)
  <2> DEFINE n == 15
  <2>1. raw \in [1 .. n -> Shaped(h)] /\ n \in Nat
    BY <1>1
  <2>2. \A m \in 1 .. 15 : raw[m] = RawCounters(h, r, class, m)
    OBVIOUS
  <2> HIDE DEF n, raw
  <2>3. raw \in Seq(Shaped(h)) /\ Len(raw) = n
    BY <2>1
  <2> QED
    BY <2>2, <2>3 DEF n
<1>4. ToLink(h, r, class) = Append(raw, cache)
  BY DEF ToLink, cache
<1> HIDE DEF raw
<1>5. PICK q : q = Append(raw, cache)
  OBVIOUS
<1>6. q \in Seq(Shaped(h)) /\ Len(q) = 16 /\ q[16] = cache /\ \A m \in 1 .. 15 : q[m] = RawCounters(h, r, class, m)
  <2>1. PICK G : G = Shaped(h)
    OBVIOUS
  <2>2. PICK s \in Seq(G) : s = raw /\ Len(s) = 15 /\ \A m \in 1 .. 15 : s[m] = RawCounters(h, r, class, m)
    BY <1>3, <2>1
  <2>3. PICK e \in G : e = cache
    BY <1>2, <2>1
  <2>4. q = Append(s, e)
    BY <1>5, <2>2, <2>3
  <2>5. q \in Seq(G)
    BY <2>4, AppendProperties
  <2>6. Len(q) = Len(s) + 1 /\ q[Len(s) + 1] = e /\ \A m \in 1 .. Len(s) : q[m] = s[m]
    BY <2>4, AppendProperties
  <2> QED
    BY <2>1, <2>2, <2>3, <2>5, <2>6
<1>7. ToLink(h, r, class) = q
  BY <1>4, <1>5
<1> QED
  BY <1>1, <1>2, <1>6, <1>7 DEF cache

\* A list of counter groups as print_metrics() needs it: only groups with counters,
\* those of the event tables only if they have events, and what print_topdown_be()
\* divides by before it.
Others == {"cache", "software", "ibs", "ibs_sample", "power", "power_core"}
Named(h, r, class, cg) ==
  /\ cg # <<>>
  /\ \/ cg[1].group \in Others
     \/ cg[1].group \in RawGroups \cap r.groups /\ Events(h, class)[cg[1].group] > 0
BeAfterTopdown(r, list) ==
  r.groups \cap Topdowns # {} =>
    \A j \in 1 .. Len(list) :
       list[j][1].group = "topdown_be" => \E i \in 1 .. Len(list) : i < j /\ list[i][1].group \in Topdowns
CounterList(h, r, class, list) ==
  /\ list \in Seq(Shaped(h))
  /\ \A i \in 1 .. Len(list) : Named(h, r, class, list[i])
  /\ BeAfterTopdown(r, list)

LEMMA CounterGroupsAre ==
  ASSUME NEW h \in Hosts, NEW r, NEW class
  PROVE  CounterList(h, r, class, CounterGroups(h, r, class))
<1> DEFINE q == ToLink(h, r, class)
           list == CounterGroups(h, r, class)
<1>1. q \in Seq(Shaped(h)) /\ Len(q) = 16
  BY ToLinkShaped
<1>2. \A m \in 1 .. 15 : Asked(h, r, class, RawOrder[m], q[m])
  BY ToLinkShaped
<1>3. q[16] # <<>> => q[16][1].group = "cache"
  BY ToLinkShaped
<1>4. list = Existing(q)
  BY Linking
<1> HIDE DEF q, list
<1>5. list \in Seq(Shaped(h)) /\ Linked(list, q)
  BY <1>1, <1>4, ExistingLinked
<1>6. PICK ix \in [1 .. Len(list) -> 1 .. 16] :
        /\ \A i \in 1 .. Len(list) : list[i] = q[ix[i]] /\ q[ix[i]] # <<>>
        /\ \A i, j \in 1 .. Len(list) : i < j => ix[i] < ix[j]
        /\ \A m \in 1 .. 16 : q[m] # <<>> => \E i \in 1 .. Len(list) : ix[i] = m
  <2>1. LinkedBy(list, Len(list), q, 16)
    BY <1>1, <1>5 DEF Linked
  <2> QED
    BY <2>1 DEF LinkedBy
<1>7. ASSUME NEW i \in 1 .. Len(list)
      PROVE  /\ list[i] # <<>>
             /\ \/ list[i][1].group = "cache" /\ ix[i] = 16
                \/ /\ list[i][1].group = RawOrder[ix[i]] /\ ix[i] \in 1 .. 15
                   /\ list[i][1].group \in RawGroups \cap r.groups
                   /\ Events(h, class)[list[i][1].group] > 0
  <2>1. PICK m \in 1 .. 16 : m = ix[i] /\ list[i] = q[m] /\ q[m] # <<>>
    BY <1>6
  <2>2. CASE m = 16
    BY <1>3, <2>1, <2>2
  <2>3. CASE m \in 1 .. 15
    <3>1. RawOrder[m] \in RawGroups
      BY <2>3, OrderOfLists
    <3>2. list[i][1].group = RawOrder[m] /\ RawOrder[m] \in r.groups /\ Events(h, class)[RawOrder[m]] > 0
      BY <1>2, <2>1, <2>3 DEF Asked
    <3> QED
      BY <2>1, <2>3, <3>1, <3>2
  <2> QED
    BY <2>2, <2>3
<1>8. ASSUME r.groups \cap Topdowns # {}, NEW j \in 1 .. Len(list), list[j][1].group = "topdown_be"
      PROVE  \E i \in 1 .. Len(list) : i < j /\ list[i][1].group \in Topdowns
  <2>1. ix[j] = 4
    BY <1>7, <1>8, OrderOfLists
  <2>2. PICK m \in {2, 3} : RawOrder[m] \in r.groups /\ RawOrder[m] \in Topdowns
    BY <1>8, OrderOfLists DEF Topdowns
  <2>3. Events(h, class)[RawOrder[m]] > 0
    BY <2>2, OrderOfLists, EventTables DEF TableOf
  <2>4. q[m] # <<>>
    BY <1>2, <2>2, <2>3 DEF Asked
  <2>5. PICK i \in 1 .. Len(list) : ix[i] = m
    BY <1>6, <2>4
  <2>6. list[i][1].group = RawOrder[m]
    BY <1>7, <2>5
  <2>7. i < j
    <3>1. ix[i] < ix[j]
      BY <2>1, <2>5
    <3>2. ~(ix[j] < ix[i]) /\ i # j
      BY <2>1, <2>5
    <3>3. ~(j < i)
      BY <1>6, <3>2
    <3> QED
      BY <3>2, <3>3
  <2> QED
    BY <2>2, <2>6, <2>7
<1>9. \A i \in 1 .. Len(list) : Named(h, r, class, list[i])
  BY <1>7 DEF Named, Others
<1>10. BeAfterTopdown(r, list)
  BY <1>8 DEF BeAfterTopdown
<1> QED
  BY <1>5, <1>9, <1>10 DEF list, CounterList

LEMMA NoCounters ==
  ASSUME NEW h, NEW r, NEW class
  PROVE  CounterList(h, r, class, <<>>)
<1>1. <<>> \in Seq(Shaped(h))
  OBVIOUS
<1>2. PICK list \in Seq(Shaped(h)) : list = <<>> /\ Len(list) = 0
  BY <1>1
<1>3. \A i \in 1 .. Len(list) : FALSE
  BY <1>2
<1> QED
  BY <1>2, <1>3 DEF CounterList, BeAfterTopdown

\* The places of a concatenation
Concatenated(list, a, n, b, m) ==
  /\ Len(list) = n + m
  /\ \A i \in 1 .. n + m : \/ i \in 1 .. n /\ list[i] = a[i]
                           \/ \E k \in 1 .. m : i = n + k /\ list[i] = b[k]
  /\ \A k \in 1 .. n : k \in 1 .. n + m /\ list[k] = a[k]
  /\ \A k \in 1 .. m : n + k \in 1 .. n + m /\ list[n + k] = b[k]

LEMMA ConcatPlaces ==
  ASSUME NEW G, NEW a \in Seq(G), NEW b \in Seq(G), NEW n \in Nat, NEW m \in Nat, n = Len(a), m = Len(b)
  PROVE  a \o b \in Seq(G) /\ Concatenated(a \o b, a, n, b, m)
<1>1. PICK list \in Seq(G) : list = a \o b
  BY ConcatProperties
<1>2. /\ Len(list) = n + m
      /\ \A i \in 1 .. n + m : list[i] = IF i <= n THEN a[i] ELSE b[i - n]
  BY <1>1, ConcatProperties
<1>3. ASSUME NEW i \in 1 .. n + m
      PROVE  \/ i \in 1 .. n /\ list[i] = a[i]
             \/ \E k \in 1 .. m : i = n + k /\ list[i] = b[k]
  <2>1. CASE i <= n
    BY <1>2, <2>1
  <2>2. CASE ~(i <= n)
    <3>0. i - n \in 1 .. m
      BY <2>2
    <3>1. PICK k \in 1 .. m : k = i - n
      BY <3>0
    <3>2. list[i] = b[k] /\ i = n + k
      BY <1>2, <2>2, <3>1
    <3> QED
      BY <3>2
  <2> QED
    BY <2>1, <2>2
<1>4. ASSUME NEW k \in 1 .. n PROVE k \in 1 .. n + m /\ list[k] = a[k]
  BY <1>2
<1>5. ASSUME NEW k \in 1 .. m PROVE n + k \in 1 .. n + m /\ list[n + k] = b[k]
  <2>1. PICK i \in 1 .. n + m : i = n + k /\ ~(i <= n) /\ i - n = k
    BY SMTT(30)
  <2> QED
    BY <1>2, <2>1
<1>6. Concatenated(list, a, n, b, m)
  BY <1>2, <1>3, <1>4, <1>5 DEF Concatenated
<1> QED
  BY <1>1, <1>6

LEMMA OneList ==
  ASSUME NEW h, NEW r, NEW class, NEW a, NEW b, CounterList(h, r, class, a), CounterList(h, r, class, b)
  PROVE  CounterList(h, r, class, a \o b)
<1>1. PICK n \in Nat, m \in Nat : n = Len(a) /\ m = Len(b)
  BY DEF CounterList
<1>2. a \in Seq(Shaped(h)) /\ b \in Seq(Shaped(h))
  BY DEF CounterList
<1>3. PICK list \in Seq(Shaped(h)) : list = a \o b
  BY <1>2, ConcatProperties
<1>4. Concatenated(list, a, n, b, m) /\ Len(list) = n + m
  <2>1. Concatenated(list, a, n, b, m)
    BY <1>1, <1>2, <1>3, ConcatPlaces
  <2> QED
    BY <2>1 DEF Concatenated
<1>5. \A i \in 1 .. n + m : \/ i \in 1 .. n /\ list[i] = a[i]
                            \/ \E k \in 1 .. m : i = n + k /\ list[i] = b[k]
  BY <1>4 DEF Concatenated
<1>6. /\ \A k \in 1 .. n : k \in 1 .. n + m /\ list[k] = a[k]
      /\ \A k \in 1 .. m : n + k \in 1 .. n + m /\ list[n + k] = b[k]
  BY <1>4 DEF Concatenated
<1>7. \A i \in 1 .. Len(list) : Named(h, r, class, list[i])
  BY <1>1, <1>4, <1>5 DEF CounterList
<1>8. ASSUME r.groups \cap Topdowns # {}, NEW j \in 1 .. n + m, list[j][1].group = "topdown_be"
      PROVE  \E i \in 1 .. n + m : i < j /\ list[i][1].group \in Topdowns
  <2>1. CASE j \in 1 .. n /\ list[j] = a[j]
    <3>1. PICK i \in 1 .. n : i < j /\ a[i][1].group \in Topdowns
      BY <1>1, <1>8, <2>1 DEF CounterList, BeAfterTopdown
    <3> QED
      BY <1>6, <3>1
  <2>2. ASSUME NEW k \in 1 .. m, j = n + k, list[j] = b[k]
        PROVE  \E i \in 1 .. n + m : i < j /\ list[i][1].group \in Topdowns
    <3>1. PICK i \in 1 .. m : i < k /\ b[i][1].group \in Topdowns
      BY <1>1, <1>8, <2>2 DEF CounterList, BeAfterTopdown
    <3>2. n + i < j /\ n + i \in 1 .. n + m /\ list[n + i][1].group \in Topdowns
      BY <1>6, <2>2, <3>1
    <3> QED
      BY <3>2
  <2> QED
    BY <1>5, <2>1, <2>2
<1>9. BeAfterTopdown(r, list)
  BY <1>4, <1>8 DEF BeAfterTopdown
<1> QED
  BY <1>3, <1>7, <1>9 DEF CounterList

\* The lists that setup_counters() goes through
LEMMA CoreListIs ==
  ASSUME NEW h \in Hosts, NEW r, NEW c
  PROVE  CounterList(h, r, h.class[c], CoreList(h, r, c))
<1> DEFINE first == IF HasPowerCore(h, r) THEN <<PowerCoreGroup(h, c)>> ELSE <<>>
           rest == CounterGroups(h, r, h.class[c])
<1>1. CounterList(h, r, h.class[c], rest)
  BY CounterGroupsAre
<1>2. CounterList(h, r, h.class[c], <<PowerCoreGroup(h, c)>>)
  <2> DEFINE cg == PowerCoreGroup(h, c)
  <2>1. Shape(h.budget, cg) /\ cg # <<>> /\ cg[1].group = "power_core"
    BY OtherShapes
  <2> HIDE DEF cg
  <2>2. cg \in Shaped(h)
    BY <2>1 DEF Shape, Shaped
  <2>3. <<cg>> \in Seq(Shaped(h)) /\ Len(<<cg>>) = 1 /\ \A i \in 1 .. 1 : <<cg>>[i] = cg
    BY <2>2
  <2>4. Named(h, r, h.class[c], cg) /\ cg[1].group # "topdown_be"
    BY <2>1 DEF Named, Others
  <2>5. CounterList(h, r, h.class[c], <<cg>>)
    BY <2>3, <2>4 DEF CounterList, BeAfterTopdown
  <2> QED
    BY <2>5 DEF cg
<1>3. CounterList(h, r, h.class[c], first)
  BY <1>2, NoCounters
<1> HIDE DEF first, rest
<1>4. CounterList(h, r, h.class[c], first \o rest)
  BY <1>1, <1>3, OneList
<1>5. CoreList(h, r, c) = IF ~r.percore \/ c \notin h.usable THEN <<>> ELSE first \o rest
  BY DEF CoreList, first, rest
<1>6. CASE ~r.percore \/ c \notin h.usable
  <2>1. CoreList(h, r, c) = <<>>
    BY <1>5, <1>6
  <2> QED
    BY <2>1, NoCounters
<1>7. CASE ~(~r.percore \/ c \notin h.usable)
  <2>1. CoreList(h, r, c) = first \o rest
    BY <1>5, <1>7
  <2> QED
    BY <1>4, <2>1
<1> QED
  BY <1>6, <1>7

LEMMA SystemListIs ==
  ASSUME NEW h \in Hosts, NEW r
  PROVE  CounterList(h, r, "unknown", SystemList(h, r))
<1> DEFINE q == <<Requested(r, "power", PowerGroup(h)), Requested(r, "ibs_sample", IbsGroup(h, "ibs_sample")),
                  Requested(r, "ibs", IbsGroup(h, "ibs")), Requested(r, "software", SoftwareGroup)>>
           OtherGroup(cg) == cg \in Shaped(h) /\ (cg # <<>> => cg[1].group \in Others \ {"topdown_be"})
           rest == IF r.percore THEN <<>> ELSE CounterGroups(h, r, "unknown")
<1>1. OtherGroup(<<>>)
  <2>1. <<>> \in Seq(CounterSet)
    OBVIOUS
  <2>2. PICK cg \in Seq(CounterSet) : cg = <<>> /\ Len(cg) = 0
    BY <2>1
  <2>3. \A i \in 1 .. Len(cg) : FALSE
    BY <2>2
  <2>4. Shape(h.budget, cg)
    BY <2>3, MemberlessShape
  <2> QED
    BY <2>2, <2>4 DEF Shaped
<1>2. ASSUME NEW g, NEW cg, Shape(h.budget, cg), cg # <<>> => cg[1].group \in Others \ {"topdown_be"}
      PROVE  OtherGroup(Requested(r, g, cg))
  <2>1. OtherGroup(cg)
    BY <1>2 DEF Shape, Shaped
  <2>2. Requested(r, g, cg) = IF g \in r.groups THEN cg ELSE <<>>
    BY DEF Requested
  <2> HIDE DEF OtherGroup
  <2>3. CASE g \in r.groups
    <3>1. Requested(r, g, cg) = cg
      BY <2>2, <2>3
    <3> QED
      BY <2>1, <3>1
  <2>4. CASE g \notin r.groups
    <3>1. Requested(r, g, cg) = <<>>
      BY <2>2, <2>4
    <3> QED
      BY <1>1, <3>1
  <2> QED
    BY <2>3, <2>4
<1>3. /\ OtherGroup(Requested(r, "power", PowerGroup(h)))
      /\ OtherGroup(Requested(r, "ibs_sample", IbsGroup(h, "ibs_sample")))
      /\ OtherGroup(Requested(r, "ibs", IbsGroup(h, "ibs")))
      /\ OtherGroup(Requested(r, "software", SoftwareGroup))
  <2>1. "power" \in Others \ {"topdown_be"} /\ "ibs" \in Others \ {"topdown_be"}
        /\ "ibs_sample" \in Others \ {"topdown_be"} /\ "software" \in Others \ {"topdown_be"}
    BY DEF Others
  <2>2. /\ Shape(h.budget, SoftwareGroup) /\ SoftwareGroup[1].group = "software"
        /\ Shape(h.budget, PowerGroup(h)) /\ (PowerGroup(h) # <<>> => PowerGroup(h)[1].group = "power")
    BY OtherShapes
  <2>3. /\ Shape(h.budget, IbsGroup(h, "ibs"))
        /\ IbsGroup(h, "ibs") # <<>> => IbsGroup(h, "ibs")[1].group = "ibs"
    BY OtherShapes
  <2>4. /\ Shape(h.budget, IbsGroup(h, "ibs_sample"))
        /\ IbsGroup(h, "ibs_sample") # <<>> => IbsGroup(h, "ibs_sample")[1].group = "ibs_sample"
    BY OtherShapes
  <2> HIDE DEF OtherGroup
  <2>5. OtherGroup(Requested(r, "power", PowerGroup(h)))
    BY <1>2, <2>1, <2>2
  <2>6. OtherGroup(Requested(r, "software", SoftwareGroup))
    BY <1>2, <2>1, <2>2
  <2>7. OtherGroup(Requested(r, "ibs", IbsGroup(h, "ibs")))
    BY <1>2, <2>1, <2>3
  <2>8. OtherGroup(Requested(r, "ibs_sample", IbsGroup(h, "ibs_sample")))
    BY <1>2, <2>1, <2>4
  <2> QED
    BY <2>5, <2>6, <2>7, <2>8
<1>4. q \in Seq(Shaped(h)) /\ Len(q) = 4 /\ \A i \in 1 .. 4 : OtherGroup(q[i])
  <2>1. PICK a, b, c, d : /\ OtherGroup(a) /\ OtherGroup(b) /\ OtherGroup(c) /\ OtherGroup(d)
                          /\ q = <<a, b, c, d>>
    <3> HIDE DEF OtherGroup
    <3> QED
      BY <1>3
  <2>2. a \in Shaped(h) /\ b \in Shaped(h) /\ c \in Shaped(h) /\ d \in Shaped(h)
    BY <2>1
  <2> HIDE DEF q
  <2>3. q \in Seq(Shaped(h)) /\ Len(q) = 4
    BY <2>1, <2>2
  <2>4. q[1] = a /\ q[2] = b /\ q[3] = c /\ q[4] = d
    BY <2>1
  <2>5. \A i \in 1 .. 4 : i = 1 \/ i = 2 \/ i = 3 \/ i = 4
    OBVIOUS
  <2> HIDE DEF OtherGroup
  <2> QED
    BY <2>1, <2>3, <2>4, <2>5
<1>5. CounterList(h, r, "unknown", Existing(q))
  <2> DEFINE list == Existing(q)
  <2> HIDE DEF q
  <2>1. list \in Seq(Shaped(h)) /\ Linked(list, q)
    BY <1>4, ExistingLinked
  <2> HIDE DEF list
  <2>2. LinkedBy(list, Len(list), q, 4)
    BY <1>4, <2>1 DEF Linked
  <2>3. PICK ix \in [1 .. Len(list) -> 1 .. 4] :
          \A i \in 1 .. Len(list) : list[i] = q[ix[i]] /\ q[ix[i]] # <<>>
    BY <2>2 DEF LinkedBy
  <2>4. ASSUME NEW i \in 1 .. Len(list)
        PROVE  list[i] # <<>> /\ list[i][1].group \in Others \ {"topdown_be"}
    <3>1. PICK m \in 1 .. 4 : m = ix[i]
      BY <2>3
    <3>2. OtherGroup(q[m])
      BY <1>4
    <3> QED
      BY <2>3, <3>1, <3>2
  <2>5. \A i \in 1 .. Len(list) : Named(h, r, "unknown", list[i]) /\ list[i][1].group # "topdown_be"
    BY <2>4 DEF Named
  <2>6. BeAfterTopdown(r, list)
    BY <2>5 DEF BeAfterTopdown
  <2> QED
    BY <2>1, <2>5, <2>6 DEF CounterList, list
<1>6. CounterList(h, r, "unknown", rest)
  <2>1. CASE r.percore
    <3>1. rest = <<>>
      BY <2>1
    <3> QED
      BY <3>1, NoCounters
  <2>2. CASE ~r.percore
    <3>1. rest = CounterGroups(h, r, "unknown")
      BY <2>2
    <3> QED
      BY <3>1, CounterGroupsAre
  <2> QED
    BY <2>1, <2>2
<1>7. SystemList(h, r) = Existing(q) \o rest
  BY DEF SystemList
<1> HIDE DEF q, rest
<1> QED
  BY <1>5, <1>6, <1>7, OneList

-----------------------------------------------------------------------------
(* What the opening of the counters has come to. *)

ListOf(h, r, l) == IF l < NumLists THEN CoreList(h, r, l - 1) ELSE SystemList(h, r)
TargetOf(l, c) == IF l < NumLists THEN l - 1 ELSE IF c.wide THEN 0 ELSE Process

\* What perf group g has left for the counter c, at place k of its counter group: a
\* member has its leader's target and PMU, and in the group are at most the counters
\* before it in its chunk.
Room(h, l, g, c, k) ==
  Member(c) => \/ g = NoGroup
               \/ /\ g.target = TargetOf(l, c) /\ g.pmu = c.pmu
                  /\ c.pmu = "core" => g.size <= (k - 1) % h.budget

Placed(h, r, a, g) ==
  a[2] <= Len(ListOf(h, r, a[1])) =>
    /\ a[3] \in 1 .. Len(ListOf(h, r, a[1])[a[2]])
    /\ Room(h, a[1], g, ListOf(h, r, a[1])[a[2]][a[3]], a[3])

GroupSet == [target : Cores \cup {Process}, pmu : Pmus, size : Nat]
Places == (1 .. NumLists) \X (Nat \ {0}) \X (Nat \ {0})

GroupedInv ==
  /\ host \in Hosts
  /\ refused \subseteq {"software"}
  /\ at \in Places /\ group \in GroupSet
  /\ Placed(host, request, at, group)

LEMMA ListsAre ==
  ASSUME NEW h \in Hosts, NEW r, NEW l \in 1 .. NumLists
  PROVE  \E class : CounterList(h, r, class, ListOf(h, r, l))
<1>1. CASE l < NumLists
  <2>1. ListOf(h, r, l) = CoreList(h, r, l - 1)
    BY <1>1 DEF ListOf
  <2> QED
    BY <2>1, CoreListIs
<1>2. CASE ~(l < NumLists)
  <2>1. ListOf(h, r, l) = SystemList(h, r)
    BY <1>2 DEF ListOf
  <2> QED
    BY <2>1, SystemListIs
<1> QED
  BY <1>1, <1>2

LEMMA GroupsShaped ==
  ASSUME NEW h \in Hosts, NEW r, NEW l \in 1 .. NumLists, NEW j \in Nat \ {0}, j <= Len(ListOf(h, r, l))
  PROVE  LET cg == ListOf(h, r, l)[j] IN Shape(h.budget, cg) /\ cg # <<>>
<1> DEFINE list == ListOf(h, r, l)
<1>1. PICK class : CounterList(h, r, class, list)
  BY ListsAre
<1> HIDE DEF list
<1>2. list \in Seq(Shaped(h)) /\ \A i \in 1 .. Len(list) : list[i] # <<>>
  BY <1>1 DEF CounterList, Named
<1>3. j \in 1 .. Len(list)
  BY <1>2 DEF list
<1>4. list[j] \in Shaped(h) /\ list[j] # <<>>
  BY <1>2, <1>3
<1> QED
  BY <1>4 DEF list, Shaped

\* A counter group begins with a counter that leads or needs no leader, ...
LEMMA FirstPlaced ==
  ASSUME NEW h \in Hosts, NEW r, NEW l \in 1 .. NumLists, NEW j \in Nat \ {0}, NEW g
  PROVE  Placed(h, r, <<l, j, 1>>, g)
<1> SUFFICES ASSUME j <= Len(ListOf(h, r, l))
             PROVE  /\ 1 \in 1 .. Len(ListOf(h, r, l)[j])
                    /\ Room(h, l, g, ListOf(h, r, l)[j][1], 1)
  BY DEF Placed
<1> DEFINE cg == ListOf(h, r, l)[j]
<1>1. Shape(h.budget, cg) /\ cg # <<>>
  BY GroupsShaped
<1> HIDE DEF cg
<1>2. 1 \in 1 .. Len(cg) /\ Begins(cg)
  BY <1>1 DEF Shape
<1>3. ~Member(cg[1])
  BY <1>2 DEF Begins, Member
<1> QED
  BY <1>2, <1>3 DEF cg, Room

LEMMA Modulo ==
  ASSUME NEW b \in {5, 6}, NEW k \in Nat \ {0}
  PROVE  (k - 1) % b \in Nat /\ (k % b # 0 => k % b = ((k - 1) % b) + 1)
<1>1. CASE b = 5
  BY <1>1
<1>2. CASE b = 6
  BY <1>2
<1> QED
  BY <1>1, <1>2

\* ... and every next counter finds in the perf group what the one before has left.
Left(h, l, g, c, k) ==
  c.pmu \in {"core", "slots"} =>
    \/ g = NoGroup
    \/ /\ g.target = TargetOf(l, c) /\ g.pmu = c.pmu
       /\ c.pmu = "core" => g.size <= ((k - 1) % h.budget) + 1

LEMMA NextPlaced ==
  ASSUME NEW h \in Hosts, NEW r, NEW l \in 1 .. NumLists, NEW j \in Nat \ {0}, j <= Len(ListOf(h, r, l)),
         NEW k \in Nat \ {0}, k < Len(ListOf(h, r, l)[j]), NEW g,
         Left(h, l, g, ListOf(h, r, l)[j][k], k)
  PROVE  Placed(h, r, <<l, j, k + 1>>, g)
<1> DEFINE cg == ListOf(h, r, l)[j]
<1>1. Shape(h.budget, cg) /\ cg # <<>>
  BY GroupsShaped
<1>2. k < Len(cg) /\ Left(h, l, g, cg[k], k)
  OBVIOUS
<1>3. Placed(h, r, <<l, j, k + 1>>, g) <=> /\ k + 1 \in 1 .. Len(cg)
                                           /\ Room(h, l, g, cg[k + 1], k + 1)
  BY DEF Placed
<1> HIDE DEF cg
<1>4. cg \in Seq(CounterSet)
  BY <1>1 DEF Shape
<1>5. PICK i \in 2 .. Len(cg) : i = k + 1 /\ i - 1 = k
  BY <1>2, <1>4
<1>6. Follows(h.budget, cg, i)
  BY <1>1, <1>5 DEF Shape
<1>7. Room(h, l, g, cg[i], i)
  <2> SUFFICES ASSUME Member(cg[i]), g # NoGroup
               PROVE  /\ g.target = TargetOf(l, cg[i]) /\ g.pmu = cg[i].pmu
                      /\ cg[i].pmu = "core" => g.size <= (i - 1) % h.budget
    BY DEF Room
  <2>1. /\ cg[i].pmu \in {"core", "slots"} /\ cg[k].pmu = cg[i].pmu
        /\ cg[k].wide = cg[i].wide
        /\ cg[i].pmu = "core" => k % h.budget # 0
    BY <1>5, <1>6 DEF Follows
  <2>2. /\ g.target = TargetOf(l, cg[k]) /\ g.pmu = cg[k].pmu
        /\ cg[k].pmu = "core" => g.size <= ((k - 1) % h.budget) + 1
    BY <1>2, <2>1 DEF Left
  <2>3. TargetOf(l, cg[k]) = TargetOf(l, cg[i])
    BY <2>1 DEF TargetOf
  <2>4. h.budget \in {5, 6}
    BY FirstLeads
  <2>5. k % h.budget # 0 => k % h.budget = ((k - 1) % h.budget) + 1
    BY <2>4, Modulo
  <2> QED
    BY <1>5, <2>1, <2>2, <2>3, <2>5
<1> QED
  BY <1>3, <1>5, <1>7

\* The counter to open
LEMMA CurrentIs ==
  ASSUME GroupedInv, ToOpen
  PROVE  \E l \in 1 .. NumLists, j \in Nat \ {0}, k \in Nat \ {0} :
           /\ at = <<l, j, k>> /\ j <= Len(ListOf(host, request, l))
           /\ Current = ListOf(host, request, l)[j][k] /\ k \in 1 .. Len(ListOf(host, request, l)[j])
           /\ CountersOf(at[1], at[2]) = ListOf(host, request, l)[j]
           /\ Room(host, l, group, Current, k)
           /\ Current \in CounterSet /\ (Current.pmu = "software" => Current.group = "software")
           /\ Target(Current) = TargetOf(l, Current)
<1>1. PICK l \in 1 .. NumLists, j \in Nat \ {0}, k \in Nat \ {0} : at = <<l, j, k>>
  BY DEF GroupedInv, Places
<1>2. at[1] = l /\ at[2] = j /\ at[3] = k
  BY <1>1
<1>3. ListAt(at[1]) = ListOf(host, request, l)
  BY <1>2 DEF ListAt, ListOf
<1> DEFINE list == ListOf(host, request, l)
<1>4. j <= Len(list)
  BY <1>2, <1>3 DEF ToOpen
<1>5. CountersOf(at[1], at[2]) = list[j] /\ Current = list[j][k]
  BY <1>2, <1>3 DEF CountersOf, Current
<1>6. k \in 1 .. Len(list[j]) /\ Room(host, l, group, list[j][k], k)
  BY <1>2, <1>4 DEF GroupedInv, Placed
<1>7. Shape(host.budget, list[j])
  BY <1>4, GroupsShaped DEF GroupedInv
<1>8. Current \in CounterSet /\ (Current.pmu = "software" => Current.group = "software")
  <2>1. list[j] \in Seq(CounterSet)
    BY <1>7 DEF Shape
  <2>2. list[j][k].pmu = "software" => list[j][k].group = "software"
    BY <1>6, <1>7 DEF Shape
  <2> QED
    BY <1>5, <1>6, <2>1, <2>2
<1>9. Target(Current) = TargetOf(l, Current)
  BY <1>2 DEF Target, TargetOf
<1> QED
  BY <1>1, <1>4, <1>5, <1>6, <1>8, <1>9

\* Going on to the next counter keeps the invariant when the perf group is left as it
\* should be.
LEMMA AdvanceKeeps ==
  ASSUME GroupedInv, ToOpen, Advance, UNCHANGED <<host, request>>,
         group' \in GroupSet, refused' \subseteq {"software"},
         \A l \in 1 .. NumLists, k \in Nat \ {0} :
            at[1] = l /\ at[3] = k => Left(host, l, group', Current, k)
  PROVE  GroupedInv'
<1>1. PICK l \in 1 .. NumLists, j \in Nat \ {0}, k \in Nat \ {0} :
        /\ at = <<l, j, k>> /\ j <= Len(ListOf(host, request, l))
        /\ Current = ListOf(host, request, l)[j][k] /\ k \in 1 .. Len(ListOf(host, request, l)[j])
        /\ CountersOf(at[1], at[2]) = ListOf(host, request, l)[j]
  BY CurrentIs
<1>2. at[1] = l /\ at[2] = j /\ at[3] = k
  BY <1>1
<1>3. host \in Hosts
  BY DEF GroupedInv
<1>4. CASE k < Len(ListOf(host, request, l)[j])
  <2>1. at' = <<l, j, k + 1>>
    BY <1>1, <1>2, <1>4 DEF Advance
  <2>2. Placed(host, request, <<l, j, k + 1>>, group')
    BY <1>1, <1>2, <1>3, <1>4, NextPlaced
  <2>3. at' \in Places
    BY <2>1 DEF Places
  <2> QED
    BY <1>3, <2>1, <2>2, <2>3 DEF GroupedInv
<1>5. CASE ~(k < Len(ListOf(host, request, l)[j]))
  <2>1. at' = <<l, j + 1, 1>>
    BY <1>1, <1>2, <1>5 DEF Advance
  <2>2. Placed(host, request, <<l, j + 1, 1>>, group')
    BY <1>3, FirstPlaced
  <2>3. at' \in Places
    BY <2>1 DEF Places
  <2> QED
    BY <1>3, <2>1, <2>2, <2>3 DEF GroupedInv
<1> QED
  BY <1>4, <1>5

LEMMA NoGroupTyped == NoGroup \in GroupSet
  BY DEF NoGroup, GroupSet, Pmus

\* GroupFor: what the next counter joins, and what it finds there
LEMMA Joins ==
  ASSUME GroupedInv, ToOpen, NEW l \in 1 .. NumLists, NEW k \in Nat \ {0}, at[1] = l, at[3] = k
  PROVE  LET g == GroupFor(Current) IN
         /\ g \in GroupSet
         /\ Current.pmu \in {"core", "slots"} =>
              \/ g = NoGroup
              \/ /\ g.target = TargetOf(l, Current) /\ g.pmu = Current.pmu
                 /\ Current.pmu = "core" => g.size <= (k - 1) % host.budget
<1> DEFINE c == Current
<1>1. Room(host, l, group, c, k) /\ c \in CounterSet
  BY CurrentIs
<1> HIDE DEF c
<1>2. CASE c.leader
  <2>1. GroupFor(c) = NoGroup
    BY <1>2 DEF GroupFor
  <2> QED
    BY <2>1, NoGroupTyped DEF c
<1>3. CASE ~c.leader
  <2>1. GroupFor(c) = group
    BY <1>3 DEF GroupFor
  <2>2. c.pmu \in {"core", "slots"} => Member(c)
    BY <1>3 DEF Member
  <2> QED
    BY <1>1, <2>1, <2>2 DEF Room, GroupedInv, c
<1> QED
  BY <1>2, <1>3

LEMMA OpenKeeps ==
  ASSUME GroupedInv, Open
  PROVE  GroupedInv'
<1>1. PICK l \in 1 .. NumLists, j \in Nat \ {0}, k \in Nat \ {0} :
        /\ at = <<l, j, k>> /\ Current \in CounterSet /\ Target(Current) = TargetOf(l, Current)
  BY CurrentIs DEF Open
<1>2. at[1] = l /\ at[3] = k /\ ToOpen
  BY <1>1 DEF Open
<1> DEFINE c == Current
           g == GroupFor(c)
<1>3. /\ g \in GroupSet
      /\ c.pmu \in {"core", "slots"} =>
           \/ g = NoGroup
           \/ /\ g.target = TargetOf(l, c) /\ g.pmu = c.pmu
              /\ c.pmu = "core" => g.size <= (k - 1) % host.budget
  BY <1>2, Joins
<1>4. group' = Opened(c, g) /\ Advance /\ UNCHANGED <<host, request>> /\ refused' = refused
  BY DEF Open
<1>5. c \in CounterSet /\ Target(c) = TargetOf(l, c) /\ TargetOf(l, c) \in Cores \cup {Process}
  <2>1. TargetOf(l, c) \in Cores \cup {Process}
    BY CountersAssumption DEF TargetOf, Cores, NumLists
  <2> QED
    BY <1>1, <2>1
<1>6. (k - 1) % host.budget \in Nat
  BY FirstLeads, Modulo DEF GroupedInv
<1> HIDE DEF c, g
<1>7. CASE g = NoGroup
  <2>1. group' = [target |-> Target(c), pmu |-> c.pmu, size |-> 1]
    BY <1>4, <1>7 DEF Opened
  <2>2. group' \in GroupSet /\ Left(host, l, group', c, k)
    BY <1>5, <1>6, <2>1 DEF GroupSet, CounterSet, Left
  <2> QED
    BY <1>2, <1>4, <2>2, AdvanceKeeps DEF GroupedInv, c
<1>8. CASE g # NoGroup
  <2> DEFINE size == g.size + 1
             pmu == IF g.pmu = "software" THEN c.pmu ELSE g.pmu
  <2>1. group' = [[g EXCEPT !.size = size] EXCEPT !.pmu = pmu]
    BY <1>3, <1>4, <1>8 DEF Opened, GroupSet
  <2>2. size \in Nat /\ pmu \in Pmus
    BY <1>3, <1>5 DEF GroupSet, CounterSet
  <2>3. c.pmu \in {"core", "slots"} => pmu = c.pmu
    BY <1>3, <1>8
  <2> HIDE DEF pmu
  <2>4. group' \in GroupSet /\ group'.target = g.target /\ group'.pmu = pmu /\ group'.size = size
    BY <1>3, <2>1, <2>2 DEF GroupSet
  <2>5. Left(host, l, group', c, k)
    BY <1>3, <1>6, <1>8, <2>2, <2>3, <2>4 DEF Left, GroupSet
  <2> QED
    BY <1>2, <1>4, <2>4, <2>5, AdvanceKeeps DEF GroupedInv, c
<1> QED
  BY <1>7, <1>8

LEMMA FailKeeps ==
  ASSUME GroupedInv, FailToOpen
  PROVE  GroupedInv'
<1>1. PICK l \in 1 .. NumLists, j \in Nat \ {0}, k \in Nat \ {0} :
        /\ at = <<l, j, k>> /\ Current \in CounterSet /\ Target(Current) = TargetOf(l, Current)
        /\ (Current.pmu = "software" => Current.group = "software")
        /\ Room(host, l, group, Current, k)
  BY CurrentIs DEF FailToOpen
<1>2. at[1] = l /\ at[3] = k /\ ToOpen
  BY <1>1 DEF FailToOpen
<1> DEFINE c == Current
           g == GroupFor(c)
<1>3. /\ g \in GroupSet
      /\ c.pmu \in {"core", "slots"} =>
           \/ g = NoGroup
           \/ /\ g.target = TargetOf(l, c) /\ g.pmu = c.pmu
              /\ c.pmu = "core" => g.size <= (k - 1) % host.budget
  BY <1>2, Joins
<1>4. /\ group' = g /\ Advance /\ UNCHANGED <<host, request>>
      /\ refused' = IF Fits(c, g) THEN refused ELSE refused \cup {c.group}
  BY DEF FailToOpen
<1>5. host \in Hosts
  BY DEF GroupedInv
<1>6. (k - 1) % host.budget \in Nat /\ (k - 1) % host.budget < host.budget
  <2>1. host.budget \in {5, 6}
    BY FirstLeads DEF GroupedInv
  <2>2. CASE host.budget = 5
    BY <2>2
  <2>3. CASE host.budget = 6
    BY <2>3
  <2> QED
    BY <2>1, <2>2, <2>3
<1>7. Room(host, l, group, c, k) /\ c \in CounterSet /\ (c.pmu = "software" => c.group = "software")
      /\ Target(c) = TargetOf(l, c)
  BY <1>1
<1> HIDE DEF c
<1>8. c.group # "software" => Fits(c, g)
  <2> SUFFICES ASSUME c.group # "software", g # NoGroup PROVE Fits(c, g)
    BY DEF Fits
  <2>1. ~c.leader /\ g = group
    BY DEF GroupFor, g
  <2>2. Member(c)
    BY <1>7, <2>1 DEF Member
  <2>3. /\ g.target = TargetOf(l, c) /\ g.pmu = c.pmu
        /\ c.pmu = "core" => g.size <= (k - 1) % host.budget
    BY <1>7, <2>1, <2>2 DEF Room
  <2>4. g.size \in Nat /\ host.budget \in {5, 6}
    BY <1>3, FirstLeads DEF GroupSet, GroupedInv
  <2> QED
    BY <1>6, <1>7, <2>3, <2>4 DEF Fits
<1>9. refused' \subseteq {"software"}
  BY <1>4, <1>8 DEF GroupedInv
<1>10. Left(host, l, group', c, k)
  <2>1. g.size \in Nat
    BY <1>3 DEF GroupSet
  <2> QED
    BY <1>3, <1>4, <1>6, <2>1 DEF Left
<1> QED
  BY <1>2, <1>3, <1>4, <1>9, <1>10, AdvanceKeeps DEF c

LEMMA SkipKeeps ==
  ASSUME GroupedInv, Skip
  PROVE  GroupedInv'
<1>1. ToOpen /\ Current.pmu \in {"none", "file"} /\ Advance /\ UNCHANGED <<host, request, group, refused>>
  BY DEF Skip
<1>2. \A l, k : Left(host, l, group', Current, k)
  BY <1>1 DEF Left
<1> QED
  BY <1>1, <1>2, AdvanceKeeps DEF GroupedInv

LEMMA GroupedStep ==
  ASSUME GroupedInv, [FeatureNext]_allVars
  PROVE  GroupedInv'
<1>1. CASE UNCHANGED setupVars
  BY <1>1 DEF GroupedInv, setupVars
<1>2. CASE NextList
  <2>1. PICK l \in 1 .. NumLists : l = at[1] + 1
    BY <1>2, CountersAssumption DEF NextList, GroupedInv, Places, NumLists
  <2>2. Placed(host, request, <<l, 1, 1>>, NoGroup)
    BY FirstPlaced DEF GroupedInv
  <2>3. at' = <<l, 1, 1>> /\ group' = NoGroup /\ UNCHANGED <<host, request, refused>>
    BY <1>2, <2>1 DEF NextList
  <2>4. at' \in Places
    BY <2>3 DEF Places
  <2> QED
    BY <2>2, <2>3, <2>4, NoGroupTyped DEF GroupedInv
<1>3. CASE PrintHeader
  <2>1. NumLists \in 1 .. NumLists
    BY CountersAssumption DEF NumLists
  <2>2. Placed(host, request, <<NumLists, 1, 1>>, NoGroup)
    BY <2>1, FirstPlaced DEF GroupedInv
  <2>3. at' = <<NumLists, 1, 1>> /\ group' = NoGroup /\ UNCHANGED <<host, request, refused>>
    BY <1>3 DEF PrintHeader
  <2>4. at' \in Places
    BY <2>1, <2>3 DEF Places
  <2> QED
    BY <2>2, <2>3, <2>4, NoGroupTyped DEF GroupedInv
<1>4. CASE Setup
  BY <1>2, <1>4, OpenKeeps, FailKeeps, SkipKeeps DEF Setup, SetupStep
<1>5. CASE Next
  <2>1. CASE Launch \/ Tick \/ ChildExits \/ PrintCoreRow \/ PrintRow \/ PrintNothing
    <3>1. UNCHANGED setupVars
      BY <2>1 DEF Launch, Tick, ChildExits, PrintCoreRow, PrintRow, PrintNothing
    <3> QED
      BY <1>1, <3>1
  <2> QED
    BY <1>3, <1>4, <1>5, <2>1 DEF Next
<1>6. CASE Ingest \/ Extract \/ UNCHANGED allVars
  <2>1. UNCHANGED setupVars
    BY <1>6 DEF Ingest, Extract, allVars, vars
  <2> QED
    BY <1>1, <2>1
<1> QED
  BY <1>5, <1>6 DEF FeatureNext, Run

LEMMA GroupedInit ==
  ASSUME FeatureInit
  PROVE  GroupedInv
<1>1. 1 \in 1 .. NumLists
  BY CountersAssumption DEF NumLists
<1>2. host \in Hosts /\ at = <<1, 1, 1>> /\ group = NoGroup /\ refused = {}
  BY DEF FeatureInit, Init, SetupInit
<1>3. Placed(host, request, <<1, 1, 1>>, NoGroup)
  BY <1>1, <1>2, FirstPlaced
<1> QED
  BY <1>1, <1>2, <1>3, NoGroupTyped DEF GroupedInv, Places

\* HardwareGrouped, for any machines and requests: setup_counters() never tries a
\* hardware counter in a perf group it cannot be a member of.
THEOREM CountersGrouped == FeatureSpec => []HardwareGrouped
<1>1. FeatureInit => GroupedInv
  BY GroupedInit
<1>2. GroupedInv /\ [FeatureNext]_allVars => GroupedInv'
  BY GroupedStep
<1>3. GroupedInv => HardwareGrouped
  BY DEF GroupedInv, HardwareGrouped
<1> QED
  BY <1>1, <1>2, <1>3, PTL DEF FeatureSpec

-----------------------------------------------------------------------------
(* What is printed for the lists. *)

GroupNames == RawGroups \cup Others

\* The groups of a row in the order in which they are printed: their values have the
\* columns of their headers, and the slots come before what is divided by them.
Printable(h, r, gs) ==
  /\ gs \in Seq(GroupNames)
  /\ \A i \in 1 .. Len(gs) :
        /\ gs[i] \in {"l3", "float"} => h.vendor = "amd"
        /\ gs[i] = "topdown_be" => h.vendor # "amd"
        /\ gs[i] \in Topdowns => gs[i] \in r.groups
  /\ r.groups \cap Topdowns # {} =>
       \A j \in 1 .. Len(gs) : gs[j] = "topdown_be" => \E i \in 1 .. Len(gs) : i < j /\ gs[i] \in Topdowns

LEMMA ListPrintable ==
  ASSUME NEW h \in Hosts, NEW r, NEW class, NEW list, CounterList(h, r, class, list)
  PROVE  Printable(h, r, GroupsOf(list)) /\ Len(GroupsOf(list)) = Len(list)
<1>1. list \in Seq(Shaped(h))
  BY DEF CounterList
<1>2. PICK n \in Nat : n = Len(list)
  BY <1>1
<1>3. PICK gs : gs = [i \in 1 .. n |-> list[i][1].group]
  OBVIOUS
<1>4. GroupsOf(list) = gs
  BY <1>2, <1>3 DEF GroupsOf
<1>5. ASSUME NEW i \in 1 .. n
      PROVE  /\ gs[i] = list[i][1].group /\ gs[i] \in GroupNames
             /\ gs[i] \in {"l3", "float"} => h.vendor = "amd"
             /\ gs[i] = "topdown_be" => h.vendor # "amd"
             /\ gs[i] \in Topdowns => gs[i] \in r.groups
  <2>1. gs[i] = list[i][1].group /\ Named(h, r, class, list[i])
    BY <1>2, <1>3 DEF CounterList
  <2>2. TableOf(h, Events(h, class))
    BY EventTables
  <2>3. CASE gs[i] \in Others
    BY <2>1, <2>3 DEF GroupNames, Others, Topdowns
  <2>4. CASE gs[i] \in RawGroups \cap r.groups /\ Events(h, class)[gs[i]] > 0
    BY <2>1, <2>2, <2>4 DEF GroupNames, TableOf
  <2> QED
    BY <2>1, <2>3, <2>4 DEF Named
<1>6. gs \in Seq(GroupNames) /\ Len(gs) = n
  <2>1. gs \in [1 .. n -> GroupNames]
    BY <1>3, <1>5
  <2> QED
    BY <2>1
<1>7. ASSUME r.groups \cap Topdowns # {}, NEW j \in 1 .. n, gs[j] = "topdown_be"
      PROVE  \E i \in 1 .. n : i < j /\ gs[i] \in Topdowns
  <2>1. list[j][1].group = "topdown_be"
    BY <1>5, <1>7
  <2>2. PICK i \in 1 .. n : i < j /\ list[i][1].group \in Topdowns
    BY <1>2, <1>7, <2>1 DEF CounterList, BeAfterTopdown
  <2> QED
    BY <1>5, <2>2
<1> QED
  BY <1>2, <1>4, <1>5, <1>6, <1>7 DEF Printable

LEMMA BothPrintable ==
  ASSUME NEW h, NEW r, NEW a, NEW b, Printable(h, r, a), Printable(h, r, b)
  PROVE  Printable(h, r, a \o b)
<1>1. PICK n \in Nat, m \in Nat : n = Len(a) /\ m = Len(b)
  BY DEF Printable
<1>2. a \in Seq(GroupNames) /\ b \in Seq(GroupNames)
  BY DEF Printable
<1>3. PICK gs \in Seq(GroupNames) : gs = a \o b
  BY <1>2, ConcatProperties
<1>4. Concatenated(gs, a, n, b, m) /\ Len(gs) = n + m
  <2>1. Concatenated(gs, a, n, b, m)
    BY <1>1, <1>2, <1>3, ConcatPlaces
  <2> QED
    BY <2>1 DEF Concatenated
<1>5. \A i \in 1 .. n + m : \/ i \in 1 .. n /\ gs[i] = a[i]
                            \/ \E k \in 1 .. m : i = n + k /\ gs[i] = b[k]
  BY <1>4 DEF Concatenated
<1>6. /\ \A k \in 1 .. n : k \in 1 .. n + m /\ gs[k] = a[k]
      /\ \A k \in 1 .. m : n + k \in 1 .. n + m /\ gs[n + k] = b[k]
  BY <1>4 DEF Concatenated
<1>7. ASSUME NEW i \in 1 .. n + m
      PROVE  /\ gs[i] \in {"l3", "float"} => h.vendor = "amd"
             /\ gs[i] = "topdown_be" => h.vendor # "amd"
             /\ gs[i] \in Topdowns => gs[i] \in r.groups
  BY <1>1, <1>5 DEF Printable
<1>8. ASSUME r.groups \cap Topdowns # {}, NEW j \in 1 .. n + m, gs[j] = "topdown_be"
      PROVE  \E i \in 1 .. n + m : i < j /\ gs[i] \in Topdowns
  <2>1. CASE j \in 1 .. n /\ gs[j] = a[j]
    <3>1. PICK i \in 1 .. n : i < j /\ a[i] \in Topdowns
      BY <1>1, <1>8, <2>1 DEF Printable
    <3> QED
      BY <1>6, <3>1
  <2>2. ASSUME NEW k \in 1 .. m, j = n + k, gs[j] = b[k]
        PROVE  \E i \in 1 .. n + m : i < j /\ gs[i] \in Topdowns
    <3>1. PICK i \in 1 .. m : i < k /\ b[i] \in Topdowns
      BY <1>1, <1>8, <2>2 DEF Printable
    <3>2. n + i < j /\ n + i \in 1 .. n + m /\ gs[n + i] \in Topdowns
      BY <1>6, <2>2, <3>1
    <3> QED
      BY <3>2
  <2> QED
    BY <1>5, <2>1, <2>2
<1> QED
  BY <1>3, <1>4, <1>7, <1>8 DEF Printable

\* The groups of the rows
LEMMA RowsPrintable ==
  ASSUME host \in Hosts
  PROVE  /\ Printable(host, request, GroupsOf(WholeRun))
         /\ \A c : /\ Printable(host, request, GroupsOf(Lists(c)))
                   /\ Printable(host, request, GroupsOf(Lists(c)) \o GroupsOf(WholeRun))
<1>1. Printable(host, request, GroupsOf(WholeRun))
  BY SystemListIs, ListPrintable DEF WholeRun
<1>2. ASSUME NEW c PROVE Printable(host, request, GroupsOf(Lists(c)))
  BY CoreListIs, ListPrintable DEF Lists
<1> QED
  BY <1>1, <1>2, BothPrintable

\* Slots are left behind only where they are asked for, and then every row has its own.
SlotsInv ==
  /\ slots # NoSlots => request.groups \cap Topdowns # {}
  /\ SlotsOwnRow

LEMMA PrintedSlots ==
  ASSUME SlotsInv, request' = request, NEW gs, Printable(host, request, gs), NEW columns, NEW me,
         Printed(columns, gs, me)
  PROVE  SlotsInv'
<1>1. PICK n \in Nat : n = Len(gs)
  BY DEF Printable
<1>2. DOMAIN gs = 1 .. n
  BY <1>1 DEF Printable
<1>3. slots' = IF HasTopdown(gs) THEN me ELSE slots
  BY DEF Printed
<1>4. slots' # NoSlots => request'.groups \cap Topdowns # {}
  <2>1. HasTopdown(gs) => request.groups \cap Topdowns # {}
    BY <1>1, <1>2 DEF HasTopdown, Printable
  <2> QED
    BY <1>3, <2>1 DEF SlotsInv
<1>5. divided' = IF "topdown_be" \in {gs[i] : i \in DOMAIN gs}
                 THEN [by |-> DivisorIn(gs, me), row |-> me] ELSE [by |-> NoSlots, row |-> me]
  BY DEF Printed
<1>6. divided'.by \in {divided'.row, NoSlots}
  <2>1. CASE "topdown_be" \in {gs[i] : i \in DOMAIN gs}
    <3>1. PICK j \in 1 .. n : gs[j] = "topdown_be"
      BY <1>2, <2>1
    <3>2. divided' = [by |-> DivisorIn(gs, me), row |-> me]
      BY <1>5, <2>1
    <3>3. DivisorIn(gs, me) \in {me, NoSlots}
      <4>1. CASE request.groups \cap Topdowns # {}
        <5>1. PICK i \in 1 .. n : i < j /\ gs[i] \in Topdowns
          BY <1>1, <3>1, <4>1 DEF Printable
        <5>2. \E k, l \in DOMAIN gs : k < l /\ gs[k] \in Topdowns /\ gs[l] = "topdown_be"
          BY <1>2, <3>1, <5>1
        <5> QED
          BY <5>2 DEF DivisorIn
      <4>2. CASE request.groups \cap Topdowns = {}
        BY <4>2 DEF DivisorIn, SlotsInv
      <4> QED
        BY <4>1, <4>2
    <3> QED
      BY <3>2, <3>3
  <2>2. CASE ~("topdown_be" \in {gs[i] : i \in DOMAIN gs})
    <3>1. divided' = [by |-> NoSlots, row |-> me]
      BY <1>5, <2>2
    <3> QED
      BY <3>1
  <2> QED
    BY <2>1, <2>2
<1> QED
  BY <1>4, <1>6 DEF SlotsInv, SlotsOwnRow

\* SlotsOwnRow, for any machines and requests: print_topdown_be() never divides by what
\* another row has left behind.
THEOREM SlotsOfTheRow == FeatureSpec => []SlotsOwnRow
<1>1. FeatureInit => SlotsInv
  BY DEF FeatureInit, Init, SlotsInv, SlotsOwnRow
<1>2. ASSUME GroupedInv, SlotsInv, [FeatureNext]_allVars
      PROVE  SlotsInv'
  <2>0. host \in Hosts
    BY <1>2 DEF GroupedInv
  <2>1. CASE UNCHANGED <<request, slots, divided>>
    BY <1>2, <2>1 DEF SlotsInv, SlotsOwnRow
  <2>2. CASE Setup
    <3>1. UNCHANGED <<request, slots, divided>>
      BY <2>2 DEF Setup, SetupStep, Skip, Open, FailToOpen, NextList, rowVars
    <3> QED
      BY <2>1, <3>1
  <2>3. CASE PrintHeader \/ Launch \/ Tick \/ ChildExits \/ PrintNothing
    <3>1. UNCHANGED <<request, slots, divided>>
      BY <2>3 DEF PrintHeader, Launch, Tick, ChildExits, PrintNothing, setupVars
    <3> QED
      BY <2>1, <3>1
  <2>4. CASE PrintCoreRow
    <3> DEFINE gs == GroupsOf(Lists(core)) \o GroupsOf(WholeRun)
    <3>1. /\ Printed(IF stage = "tick" THEN TickCoreRow(core) ELSE LastCoreRow(core), gs, Reading(core))
          /\ request' = request
      BY <2>4 DEF PrintCoreRow, setupVars
    <3>2. Printable(host, request, gs)
      BY <2>0, RowsPrintable
    <3> HIDE DEF gs
    <3> QED
      BY <1>2, <3>1, <3>2, PrintedSlots
  <2>5. CASE PrintRow
    <3> DEFINE gs == GroupsOf(WholeRun)
    <3>1. /\ Printed(IF stage = "tick" THEN TickRow ELSE LastRow, gs, Reading(NumCores))
          /\ request' = request
      BY <2>5 DEF PrintRow, setupVars
    <3>2. Printable(host, request, gs)
      BY <2>0, RowsPrintable
    <3> HIDE DEF gs
    <3> QED
      BY <1>2, <3>1, <3>2, PrintedSlots
  <2>6. CASE Ingest \/ Extract \/ UNCHANGED allVars
    <3>1. UNCHANGED <<request, slots, divided>>
      BY <2>6 DEF Ingest, Extract, allVars, vars, setupVars, rowVars
    <3> QED
      BY <2>1, <3>1
  <2> QED
    BY <1>2, <2>2, <2>3, <2>4, <2>5, <2>6 DEF FeatureNext, Run, Next
<1>3. FeatureInit => GroupedInv
  BY GroupedInit
<1>4. GroupedInv /\ [FeatureNext]_allVars => GroupedInv'
  BY GroupedStep
<1>5. SlotsInv => SlotsOwnRow
  BY DEF SlotsInv
<1> QED
  BY <1>1, <1>2, <1>3, <1>4, <1>5, PTL DEF FeatureSpec

-----------------------------------------------------------------------------
(* The columns of a row. *)

Cat(s, t) == s \o t

\* u is what Joined() has come to after each of the first n parts.
JoinedUp(u, n, parts) ==
  u[0] = <<>> /\ \A i \in 1 .. n : u[i] = Cat(u[i - 1], parts[i])

LEMMA CatTyped ==
  ASSUME NEW W, NEW s \in Seq(W), NEW t \in Seq(W)
  PROVE  Cat(s, t) \in Seq(W) /\ Cat(s, <<>>) = s /\ Cat(<<>>, s) = s /\ <<>> \in Seq(W)
  BY ConcatProperties, ConcatEmptySeq DEF Cat

LEMMA CatAssociative ==
  ASSUME NEW W, NEW s \in Seq(W), NEW t \in Seq(W), NEW v \in Seq(W)
  PROVE  Cat(Cat(s, t), v) = Cat(s, Cat(t, v))
<1>1. (s \o t) \o v = s \o (t \o v)
  BY ConcatAssociative
<1> QED
  BY <1>1, Zenon DEF Cat

LEMMA Element ==
  ASSUME NEW S, NEW q \in Seq(S), NEW i \in 1 .. Len(q)
  PROVE  q[i] \in S
  OBVIOUS

LEMMA JoinedIs ==
  ASSUME NEW W, NEW parts \in Seq(Seq(W)), NEW n \in Nat, n = Len(parts)
  PROVE  \E u \in [0 .. n -> Seq(W)] : JoinedUp(u, n, parts) /\ Joined(parts) = u[n]
<1> DEFINE Val(u, i) == IF i = 0 THEN <<>> ELSE Cat(u[i - 1], parts[i])
           Is(u) == u = [i \in 0 .. n |-> Val(u, i)]
           u == CHOOSE u : Is(u)
<1>1. Joined(parts) = u[n]
  BY DEF Joined, Cat
<1>2. PICK S : /\ S = Seq(W) /\ <<>> \in S /\ parts \in Seq(S) /\ \A i \in 1 .. n : parts[i] \in S
               /\ \A s, t \in S : Cat(s, t) \in S
  <2>1. <<>> \in Seq(W)
    OBVIOUS
  <2>2. \A s, t \in Seq(W) : Cat(s, t) \in Seq(W)
    BY CatTyped
  <2>3. \A i \in 1 .. n : parts[i] \in Seq(W)
    BY Element
  <2>4. PICK S : S = Seq(W)
    OBVIOUS
  <2>5. S = Seq(W) /\ <<>> \in S /\ parts \in Seq(S) /\ (\A i \in 1 .. n : parts[i] \in S)
        /\ \A s, t \in S : Cat(s, t) \in S
    BY ONLY <2>1, <2>2, <2>3, <2>4, parts \in Seq(Seq(W))
  <2> QED
    BY <2>5
<1>3. \A v : Val(v, 0) = <<>> /\ \A i \in 1 .. n : Val(v, i) = Cat(v[i - 1], parts[i])
  OBVIOUS
<1>4. PICK f \in [0 .. n -> S] : JoinedUp(f, n, parts)
  <2> DEFINE step == [x \in S \X S |-> Cat(x[1], x[2])]
  <2>1. step \in [S \X S -> S]
    BY <1>2
  <2>2. \A s \in S, t \in S : step[<<s, t>>] = Cat(s, t)
    OBVIOUS
  <2> HIDE DEF step
  <2>3. PICK f : Loops(f, S, <<>>, S, parts, step)
    BY <1>2, <2>1, LoopEnds
  <2>4. f \in [0 .. n -> S] /\ f[0] = <<>> /\ \A i \in 1 .. n : f[i] = step[<<f[i - 1], parts[i]>>]
    BY <2>3 DEF Loops
  <2>5. ASSUME NEW i \in 1 .. n
        PROVE  f[i] = Cat(f[i - 1], parts[i])
    <3>1. i - 1 \in 0 .. n /\ parts[i] \in S
      BY <1>2
    <3>2. f[i - 1] \in S
      BY <2>4, <3>1
    <3> QED
      BY <2>2, <2>4, <3>1, <3>2
  <2> QED
    BY <2>4, <2>5 DEF JoinedUp
<1> HIDE DEF Val
<1>5. Is(f)
  <2>1. ASSUME NEW i \in 0 .. n PROVE f[i] = Val(f, i)
    <3>1. CASE i = 0
      BY <1>3, <1>4, <3>1 DEF JoinedUp
    <3>2. CASE i \in 1 .. n
      BY <1>3, <1>4, <3>2 DEF JoinedUp
    <3> QED
      BY <3>1, <3>2
  <2> QED
    BY <1>4, <2>1
<1>6. Is(u)
  <2> HIDE DEF Is
  <2> QED
    BY <1>5
<1>7. u[0] = <<>> /\ \A i \in 1 .. n : u[i] = Cat(u[i - 1], parts[i])
  <2> HIDE DEF u
  <2>1. \A i \in 0 .. n : u[i] = Val(u, i)
    BY <1>6
  <2> QED
    BY <1>3, <2>1
<1> HIDE DEF u
<1> DEFINE K == {k \in Nat : k <= n => u[k] = f[k]}
<1>8. 0 \in K
  BY <1>4, <1>7 DEF JoinedUp
<1>9. ASSUME NEW k \in Nat, k \in K PROVE k + 1 \in K
  <2> SUFFICES ASSUME k + 1 <= n PROVE u[k + 1] = f[k + 1]
    OBVIOUS
  <2>1. PICK i \in 1 .. n : i = k + 1 /\ i - 1 = k
    OBVIOUS
  <2>2. u[k] = f[k]
    BY <1>9
  <2>3. u[i] = Cat(u[k], parts[i]) /\ f[i] = Cat(f[k], parts[i])
    BY <1>4, <1>7, <2>1 DEF JoinedUp
  <2> QED
    BY <2>1, <2>2, <2>3
<1> HIDE DEF K
<1>10. Nat \subseteq K
  BY <1>8, <1>9, SetInduction
<1>11. u[n] = f[n]
  BY <1>10 DEF K
<1> QED
  BY <1>1, <1>2, <1>4, <1>11

LEMMA JoinedTyped ==
  ASSUME NEW W, NEW parts \in Seq(Seq(W))
  PROVE  Joined(parts) \in Seq(W)
<1>1. PICK n \in Nat : n = Len(parts)
  OBVIOUS
<1>2. PICK u \in [0 .. n -> Seq(W)] : Joined(parts) = u[n]
  BY <1>1, JoinedIs
<1> QED
  BY <1>2

LEMMA JoinedConcat ==
  ASSUME NEW W, NEW a \in Seq(Seq(W)), NEW b \in Seq(Seq(W))
  PROVE  Joined(a \o b) = Joined(a) \o Joined(b)
<1>1. PICK n \in Nat, m \in Nat : n = Len(a) /\ m = Len(b)
  OBVIOUS
<1>2. PICK parts \in Seq(Seq(W)) : parts = a \o b /\ Concatenated(parts, a, n, b, m)
  BY <1>1, ConcatPlaces
<1>3. PICK ua \in [0 .. n -> Seq(W)] : JoinedUp(ua, n, a) /\ Joined(a) = ua[n]
  BY <1>1, JoinedIs
<1>4. PICK ub \in [0 .. m -> Seq(W)] : JoinedUp(ub, m, b) /\ Joined(b) = ub[m]
  BY <1>1, JoinedIs
<1>5. PICK u \in [0 .. n + m -> Seq(W)] : JoinedUp(u, n + m, parts) /\ Joined(parts) = u[n + m]
  <2>1. n + m \in Nat /\ n + m = Len(parts)
    BY <1>2 DEF Concatenated
  <2> QED
    BY <2>1, JoinedIs
<1>6. PICK S : /\ S = Seq(W) /\ <<>> \in S
               /\ ua \in [0 .. n -> S] /\ ub \in [0 .. m -> S] /\ \A i \in 1 .. m : b[i] \in S
  <2>1. <<>> \in Seq(W)
    OBVIOUS
  <2>2. \A i \in 1 .. m : b[i] \in Seq(W)
    BY <1>1, Element
  <2>3. ua \in [0 .. n -> Seq(W)] /\ ub \in [0 .. m -> Seq(W)]
    OBVIOUS
  <2> QED
    BY <2>1, <2>2, <2>3
<1>7. \A s, t, v \in S : Cat(Cat(s, t), v) = Cat(s, Cat(t, v))
  <2>1. ASSUME NEW s \in Seq(W), NEW t \in Seq(W), NEW v \in Seq(W)
        PROVE  Cat(Cat(s, t), v) = Cat(s, Cat(t, v))
    BY CatAssociative
  <2> QED
    BY <1>6, <2>1
<1>8. \A s \in S : Cat(s, <<>>) = s
  BY <1>6, CatTyped
<1> DEFINE K == {k \in Nat : k <= n => u[k] = ua[k]}
<1>9. 0 \in K
  BY <1>3, <1>5 DEF JoinedUp
<1>10. ASSUME NEW k \in Nat, k \in K PROVE k + 1 \in K
  <2> SUFFICES ASSUME k + 1 <= n PROVE u[k + 1] = ua[k + 1]
    OBVIOUS
  <2>1. PICK i \in 1 .. n : i = k + 1 /\ i - 1 = k
    OBVIOUS
  <2>2. u[k] = ua[k]
    BY <1>10
  <2>3. i \in 1 .. n + m /\ parts[i] = a[i]
    BY <1>2 DEF Concatenated
  <2>4. u[i] = Cat(u[k], a[i]) /\ ua[i] = Cat(ua[k], a[i])
    BY <1>3, <1>5, <2>1, <2>3 DEF JoinedUp
  <2> QED
    BY <2>1, <2>2, <2>4
<1> HIDE DEF K
<1>11. Nat \subseteq K
  BY <1>9, <1>10, SetInduction
<1>12. u[n] = ua[n]
  BY <1>11 DEF K
<1> DEFINE L == {k \in Nat : k <= m => u[n + k] = Cat(ua[n], ub[k])}
<1>13. 0 \in L
  <2>1. ua[n] \in S /\ ub[0] = <<>>
    BY <1>4, <1>6 DEF JoinedUp
  <2>2. n + 0 = n
    OBVIOUS
  <2> QED
    BY <1>8, <1>12, <2>1, <2>2
<1>14. ASSUME NEW k \in Nat, k \in L PROVE k + 1 \in L
  <2> SUFFICES ASSUME k + 1 <= m PROVE u[n + (k + 1)] = Cat(ua[n], ub[k + 1])
    OBVIOUS
  <2>1. PICK i \in 1 .. m : i = k + 1 /\ i - 1 = k
    OBVIOUS
  <2>2. u[n + k] = Cat(ua[n], ub[k])
    BY <1>14
  <2>3. n + i \in 1 .. n + m /\ parts[n + i] = b[i]
    BY <1>2 DEF Concatenated
  <2>4. PICK j \in 1 .. n + m : j = n + i /\ j - 1 = n + k
    BY <2>1, <2>3
  <2>5. u[j] = Cat(u[n + k], b[i]) /\ ub[i] = Cat(ub[k], b[i])
    BY <1>4, <1>5, <2>1, <2>3, <2>4 DEF JoinedUp
  <2>6. ua[n] \in S /\ ub[k] \in S /\ b[i] \in S
    BY <1>6, <2>1
  <2>7. Cat(Cat(ua[n], ub[k]), b[i]) = Cat(ua[n], Cat(ub[k], b[i]))
    BY <1>7, <2>6
  <2> QED
    BY <2>1, <2>2, <2>4, <2>5, <2>7
<1> HIDE DEF L
<1>15. Nat \subseteq L
  BY <1>13, <1>14, SetInduction
<1>16. u[n + m] = Cat(ua[n], ub[m])
  BY <1>15 DEF L
<1> QED
  BY <1>2, <1>3, <1>4, <1>5, <1>16 DEF Cat

LEMMA JoinedOne ==
  ASSUME NEW W, NEW p \in Seq(W)
  PROVE  Joined(<<p>>) = p
<1>1. PICK S : S = Seq(W) /\ p \in S
  OBVIOUS
<1>2. PICK parts \in Seq(S) : parts = <<p>>
  <2>1. <<p>> \in Seq(S)
    BY <1>1
  <2> QED
    BY <2>1
<1>3. Len(parts) = 1 /\ parts[1] = p
  BY <1>2
<1>4. PICK n \in Nat : n = 1
  OBVIOUS
<1>5. PICK u \in [0 .. n -> Seq(W)] : JoinedUp(u, n, parts) /\ Joined(parts) = u[n]
  BY <1>1, <1>3, <1>4, JoinedIs
<1>6. u[1] = Cat(<<>>, p)
  BY <1>3, <1>4, <1>5 DEF JoinedUp
<1> QED
  BY <1>2, <1>4, <1>5, <1>6, CatTyped

\* The columns that are not of the row itself: none is the core or the phase.
Plain ==
  {"retire", "frontend", "backend", "speculate", "confidence", "sanity", "contention_pct",
   "retire_ucode_pct", "retire_fastpath_pct", "frontend_latency_pct",
   "frontend_bandwidth_pct", "backend_cpu_pct", "backend_memory_pct", "spec_branch_pct",
   "spec_pipeline_pct", "l1_bound", "l2_bound", "l3_bound", "dram_bound", "store_bound",
   "l1_bound_slots_pct", "l2_bound_slots_pct", "l3_bound_slots_pct", "dram_bound_slots_pct",
   "store_bound_slots_pct", "branch miss", "br_immed_retired", "br_return_retired",
   "br_pred", "br_mis_pred", "near_return", "near_return_mispredicted",
   "indirect_branch_mispredicted", "L1-dcache miss", "L1-icache miss", "dTLB miss",
   "iTLB miss", "cpu-clock", "task-clock", "page faults", "context switches",
   "cpu migrations", "major page faults", "minor page faults", "alignment faults",
   "emulation faults", "ibs_fetch", "ibs_op", "ibs_op_unfiltered", "ibs_op_accepted_ratio",
   "ibs_l3missonly", "ibs_ldlat_threshold", "ibs_fetchlat_threshold",
   "ibs_sample_fetch_count", "ibs_sample_ic_miss_rate", "ibs_sample_l1tlb_miss_rate",
   "ibs_sample_l2tlb_miss_rate", "ibs_sample_op_count", "ibs_sample_dc_miss_rate",
   "ibs_sample_dc_l1tlb_miss_rate", "ibs_sample_dc_l2tlb_miss_rate",
   "ibs_sample_brn_misp_rate", "ibs_sample_lost", "ibs_sample_dram_rate",
   "ibs_sample_remote_node_rate", "ipc", "icache", "itlb1", "itlb2", "tlbflush", "opcache",
   "dtlb1", "dtlb2", "l2miss", "l3miss", "bandwidth", "opcache miss", "float", "dtlb_walk",
   "itlb_walk", "ld_align_lat", "st_align_lat", "l1i_cache_refill", "l1i_tlb_refill",
   "l2i_tlb_refill", "l1d_cache_refill", "l1d_tlb_refill", "l2d_cache_refill",
   "l2d_tlb_refill", "pkg_joules", "pkg_watts", "core_joules", "core_watts", "load",
   "runnable", "cpu", "idle", "iowait", "irq", "freq", "cpu_temp", "net", "disk read",
   "disk write", "disk time", "mem_free_mb", "mem_cached_mb", "mem_dirty_mb",
   "mem_writeback_mb", "swap_free_mb", "committed_as_mb", "gpu_busy", "elapsed", "on_cpu",
   "utime", "stime", "nvcsw", "nivcsw", "inblock", "oublock", "maxrss", "minflt", "majflt",
   "nswap", "gpu_temp", "gpu_activity", "gpu_power", "gpu_freq", "gpu_vram_used",
   "gpu_vram_total", "gpu_temp_source", "gpu_activity_source", "gpu_smi_temp",
   "gpu_smi_activity", "gpu_smi_vram_used", "gpu_smi_vram_total", "nv_gpu_busy",
   "nv_vram_used_mb", "nv_vram_total_mb", "counters_measured", "counters_requested"}

LEMMA PlainColumns == "core" \notin Plain /\ "phase" \notin Plain
  BY DEF Plain

LEMMA ColumnsPlain ==
  /\ TopdownColumns \in Seq(Plain) /\ TopdownBeColumns \in Seq(Plain) /\ IbsSampleColumns \in Seq(Plain)
  /\ SoftwareColumns \in Seq(Plain) /\ IpcColumns \in Seq(Plain) /\ FrontendColumns \in Seq(Plain)
  /\ OpColumns \in Seq(Plain) /\ L2Columns \in Seq(Plain) /\ L3Columns \in Seq(Plain)
  /\ MemoryColumns \in Seq(Plain) /\ OpcacheColumns \in Seq(Plain) /\ FloatColumns \in Seq(Plain)
  /\ ArmMemColumns \in Seq(Plain) /\ ArmIcacheColumns \in Seq(Plain) /\ ArmDcacheColumns \in Seq(Plain)
  /\ PowerColumns \in Seq(Plain) /\ PowerCoreColumns \in Seq(Plain)
  /\ SystemColumns \in Seq(Plain) /\ UsageColumns \in Seq(Plain) /\ GpuMetricsColumns \in Seq(Plain)
  /\ GpuSmiColumns \in Seq(Plain) /\ NvidiaColumns \in Seq(Plain) /\ CoverageColumns \in Seq(Plain)
<1>1. TopdownColumns \in Seq(Plain)
  BY DEF TopdownColumns, Plain
<1>2. TopdownBeColumns \in Seq(Plain)
  BY DEF TopdownBeColumns, Plain
<1>3. IbsSampleColumns \in Seq(Plain)
  BY DEF IbsSampleColumns, Plain
<1>4. SoftwareColumns \in Seq(Plain)
  BY DEF SoftwareColumns, Plain
<1>5. SystemColumns \in Seq(Plain)
  BY DEF SystemColumns, Plain
<1>6. UsageColumns \in Seq(Plain)
  BY DEF UsageColumns, Plain
<1>7. GpuMetricsColumns \in Seq(Plain)
  BY DEF GpuMetricsColumns, Plain
<1>8. GpuSmiColumns \in Seq(Plain) /\ NvidiaColumns \in Seq(Plain) /\ CoverageColumns \in Seq(Plain)
  BY DEF GpuSmiColumns, NvidiaColumns, CoverageColumns, Plain
<1>9. /\ IpcColumns \in Seq(Plain) /\ FrontendColumns \in Seq(Plain) /\ OpColumns \in Seq(Plain)
      /\ L2Columns \in Seq(Plain) /\ L3Columns \in Seq(Plain) /\ MemoryColumns \in Seq(Plain)
      /\ OpcacheColumns \in Seq(Plain) /\ FloatColumns \in Seq(Plain)
  BY DEF IpcColumns, FrontendColumns, OpColumns, L2Columns, L3Columns, MemoryColumns, OpcacheColumns,
         FloatColumns, Plain
<1>10. /\ ArmMemColumns \in Seq(Plain) /\ ArmIcacheColumns \in Seq(Plain) /\ ArmDcacheColumns \in Seq(Plain)
       /\ PowerColumns \in Seq(Plain) /\ PowerCoreColumns \in Seq(Plain)
  BY DEF ArmMemColumns, ArmIcacheColumns, ArmDcacheColumns, PowerColumns, PowerCoreColumns, Plain
<1> QED
  BY <1>1, <1>2, <1>3, <1>4, <1>5, <1>6, <1>7, <1>8, <1>9, <1>10

LEMMA HeaderPlain ==
  ASSUME host \in Hosts, NEW g \in GroupNames
  PROVE  GroupHeader(g) \in Seq(Plain)
<1>1. BranchColumns \in Seq(Plain)
  <2>1. host.vendor = "arm" \/ host.vendor = "amd" \/ host.vendor = "intel"
    BY CountersAssumption DEF Vendors
  <2>2. CASE host.vendor = "arm"
    <3>1. BranchColumns = <<"branch miss", "br_immed_retired", "br_return_retired", "br_pred", "br_mis_pred">>
      BY <2>2 DEF BranchColumns
    <3>2. <<"branch miss", "br_immed_retired", "br_return_retired", "br_pred", "br_mis_pred">> \in Seq(Plain)
      BY DEF Plain
    <3> QED
      BY <3>1, <3>2
  <2>3. CASE host.vendor = "amd"
    <3>1. BranchColumns = <<"branch miss", "near_return", "near_return_mispredicted", "indirect_branch_mispredicted">>
      BY <2>3 DEF BranchColumns
    <3>2. <<"branch miss", "near_return", "near_return_mispredicted", "indirect_branch_mispredicted">> \in Seq(Plain)
      BY DEF Plain
    <3> QED
      BY <3>1, <3>2
  <2>4. CASE host.vendor = "intel"
    <3>1. BranchColumns = <<"branch miss">>
      BY <2>4 DEF BranchColumns
    <3>2. <<"branch miss">> \in Seq(Plain)
      BY DEF Plain
    <3> QED
      BY <3>1, <3>2
  <2> QED
    BY <2>1, <2>2, <2>3, <2>4
<1>2. ASSUME NEW t \in Seq(Plain), NEW k PROVE Requested(request, k, t) \in Seq(Plain)
  <2>1. <<>> \in Seq(Plain)
    OBVIOUS
  <2> QED
    BY <2>1 DEF Requested
<1>3. CacheColumns \in Seq(Plain)
  <2>1. <<"L1-dcache miss">> \in Seq(Plain) /\ <<"L1-icache miss">> \in Seq(Plain)
        /\ <<"dTLB miss", "iTLB miss">> \in Seq(Plain)
    BY DEF Plain
  <2>2. PICK a \in Seq(Plain) : a = Requested(request, "dcache", <<"L1-dcache miss">>)
    BY <1>2, <2>1
  <2>3. PICK b \in Seq(Plain) : b = Requested(request, "icache", <<"L1-icache miss">>)
    BY <1>2, <2>1
  <2>4. PICK c \in Seq(Plain) : c = Requested(request, "tlb", <<"dTLB miss", "iTLB miss">>)
    BY <1>2, <2>1
  <2>5. CacheColumns = a \o b \o c
    BY <2>2, <2>3, <2>4 DEF CacheColumns
  <2>6. a \o b \in Seq(Plain)
    BY ConcatProperties
  <2>7. (a \o b) \o c \in Seq(Plain)
    BY <2>6, ConcatProperties
  <2> QED
    BY <2>5, <2>7
<1>4. IbsColumns \in Seq(Plain)
  <2> DEFINE deep == IF flags.deep THEN <<"ibs_op_unfiltered", "ibs_op_accepted_ratio", "ibs_l3missonly",
                                          "ibs_ldlat_threshold", "ibs_fetchlat_threshold">> ELSE <<>>
  <2>1. deep \in Seq(Plain)
    <3>1. <<>> \in Seq(Plain)
      OBVIOUS
    <3>2. <<"ibs_op_unfiltered", "ibs_op_accepted_ratio", "ibs_l3missonly",
            "ibs_ldlat_threshold", "ibs_fetchlat_threshold">> \in Seq(Plain)
      BY DEF Plain
    <3> QED
      BY <3>1, <3>2
  <2>2. <<"ibs_fetch", "ibs_op">> \in Seq(Plain)
    BY DEF Plain
  <2>3. IbsColumns = <<"ibs_fetch", "ibs_op">> \o deep
    BY DEF IbsColumns
  <2> HIDE DEF deep
  <2> QED
    BY <2>1, <2>2, <2>3, ConcatProperties
<1>5. CASE g \in {"ipc", "topdown", "topdown2", "topdown_be", "topdown_fe", "topdown_op", "branch", "l2"}
  BY <1>1, <1>5, ColumnsPlain DEF GroupHeader
<1>6. CASE g \in {"l3", "memory", "opcache", "float", "arm_mem_align_tlb", "arm_icache_tlb", "arm_dcache_mem"}
  BY <1>6, ColumnsPlain DEF GroupHeader
<1>7. CASE g \in {"cache", "software", "ibs", "ibs_sample", "power", "power_core"}
  BY <1>3, <1>4, <1>7, ColumnsPlain DEF GroupHeader
<1> QED
  BY <1>5, <1>6, <1>7 DEF GroupNames, RawGroups, Others

\* The columns of groups printed one after the other
HeadersOf(gs) == Joined([i \in 1 .. Len(gs) |-> GroupHeader(gs[i])])

LEMMA HeadersTyped ==
  ASSUME host \in Hosts, NEW gs \in Seq(GroupNames)
  PROVE  /\ [i \in 1 .. Len(gs) |-> GroupHeader(gs[i])] \in Seq(Seq(Plain))
         /\ HeadersOf(gs) \in Seq(Plain)
<1>1. PICK n \in Nat : n = Len(gs)
  OBVIOUS
<1>2. \A i \in 1 .. n : GroupHeader(gs[i]) \in Seq(Plain)
  BY <1>1, Element, HeaderPlain
<1>3. PICK S : S = Seq(Plain)
  OBVIOUS
<1>4. PICK parts : parts = [i \in 1 .. n |-> GroupHeader(gs[i])]
  OBVIOUS
<1>5. parts \in [1 .. n -> S]
  BY <1>2, <1>3, <1>4
<1>6. parts \in Seq(S)
  BY <1>5
<1>7. parts \in Seq(Seq(Plain))
  BY <1>3, <1>6
<1>8. Joined(parts) \in Seq(Plain)
  BY <1>7, JoinedTyped
<1> QED
  BY <1>1, <1>4, <1>7, <1>8 DEF HeadersOf

LEMMA HeadersConcat ==
  ASSUME host \in Hosts, NEW a \in Seq(GroupNames), NEW b \in Seq(GroupNames)
  PROVE  HeadersOf(a \o b) = HeadersOf(a) \o HeadersOf(b)
<1> DEFINE Parts(gs) == [i \in 1 .. Len(gs) |-> GroupHeader(gs[i])]
<1>1. PICK n \in Nat, m \in Nat : n = Len(a) /\ m = Len(b)
  OBVIOUS
<1>2. PICK c \in Seq(GroupNames) : c = a \o b /\ Concatenated(c, a, n, b, m)
  BY <1>1, ConcatPlaces
<1>3. PICK S : S = Seq(Plain)
  OBVIOUS
<1> HIDE DEF Parts
<1>0. ASSUME NEW gs \in Seq(GroupNames), NEW k \in Nat, k = Len(gs)
      PROVE  Parts(gs) \in Seq(S) /\ Parts(gs) = [i \in 1 .. k |-> GroupHeader(gs[i])] /\ k = Len(Parts(gs))
  <2>1. Parts(gs) \in Seq(S)
    BY <1>3, HeadersTyped DEF Parts
  <2>2. Parts(gs) = [i \in 1 .. k |-> GroupHeader(gs[i])]
    BY <1>0 DEF Parts
  <2> QED
    BY <2>1, <2>2
<1>4. PICK pa \in Seq(S) : pa = Parts(a) /\ pa = [i \in 1 .. n |-> GroupHeader(a[i])] /\ n = Len(pa)
  BY <1>0, <1>1
<1>5. PICK pb \in Seq(S) : pb = Parts(b) /\ pb = [i \in 1 .. m |-> GroupHeader(b[i])] /\ m = Len(pb)
  BY <1>0, <1>1
<1>6. PICK pc \in Seq(S) : pc = Parts(c) /\ pc = [i \in 1 .. n + m |-> GroupHeader(c[i])] /\ n + m = Len(pc)
  <2>1. n + m \in Nat /\ Len(c) = n + m
    BY <1>2 DEF Concatenated
  <2> QED
    BY <1>0, <2>1
<1>7. PICK pab \in Seq(S) : pab = pa \o pb /\ Concatenated(pab, pa, n, pb, m)
  BY <1>4, <1>5, ConcatPlaces
<1>8. ASSUME NEW i \in 1 .. n + m PROVE pc[i] = pab[i]
  <2>1. pc[i] = GroupHeader(c[i])
    BY <1>6
  <2>2. CASE i \in 1 .. n /\ c[i] = a[i]
    <3>1. pab[i] = pa[i] /\ pa[i] = GroupHeader(a[i])
      BY <1>4, <1>7, <2>2 DEF Concatenated
    <3> QED
      BY <2>1, <2>2, <3>1
  <2>3. ASSUME NEW k \in 1 .. m, i = n + k, c[i] = b[k] PROVE pc[i] = pab[i]
    <3>1. pab[i] = pb[k] /\ pb[k] = GroupHeader(b[k])
      BY <1>5, <1>7, <2>3 DEF Concatenated
    <3> QED
      BY <2>1, <2>3, <3>1
  <2> QED
    BY <1>2, <2>2, <2>3 DEF Concatenated
<1>9. pc = pab
  <2>1. Len(pab) = n + m
    BY <1>7 DEF Concatenated
  <2> QED
    BY <1>6, <1>8, <2>1, SeqEqual
<1>10. Joined(pc) = Joined(pa) \o Joined(pb)
  <2>1. pa \in Seq(Seq(Plain)) /\ pb \in Seq(Seq(Plain))
    BY <1>3
  <2> QED
    BY <1>7, <1>9, <2>1, JoinedConcat
<1> QED
  BY <1>2, <1>4, <1>5, <1>6, <1>10 DEF HeadersOf, Parts

LEMMA HeadersOne ==
  ASSUME host \in Hosts, NEW g \in GroupNames
  PROVE  <<g>> \in Seq(GroupNames) /\ HeadersOf(<<g>>) = GroupHeader(g)
<1>1. PICK t \in Seq(GroupNames) : t = <<g>> /\ Len(t) = 1 /\ t[1] = g
  <2>1. <<g>> \in Seq(GroupNames) /\ Len(<<g>>) = 1 /\ <<g>>[1] = g
    OBVIOUS
  <2> QED
    BY <2>1
<1>2. [i \in 1 .. Len(t) |-> GroupHeader(t[i])] = <<GroupHeader(g)>>
  <2>1. [i \in 1 .. Len(t) |-> GroupHeader(t[i])] = [i \in 1 .. 1 |-> GroupHeader(g)]
    BY <1>1
  <2> QED
    BY <2>1
<1>3. GroupHeader(g) \in Seq(Plain)
  BY HeaderPlain
<1>4. HeadersOf(t) = Joined(<<GroupHeader(g)>>)
  BY <1>2 DEF HeadersOf
<1> QED
  BY <1>1, <1>3, <1>4, JoinedOne

\* What is printed for a list, and what its header says
LEMMA ListHeader ==
  ASSUME NEW list, Printable(host, request, GroupsOf(list)), Len(GroupsOf(list)) = Len(list), Len(list) \in Nat
  PROVE  HeaderOf(list) = HeadersOf(GroupsOf(list)) /\ ValuesOf(list) = HeaderOf(list)
<1>1. PICK n \in Nat : n = Len(list)
  OBVIOUS
<1>2. PICK gs \in Seq(GroupNames) : gs = GroupsOf(list) /\ Len(gs) = n
  BY <1>1 DEF Printable
<1>3. ASSUME NEW i \in 1 .. n
      PROVE  gs[i] = list[i][1].group /\ GroupValues(gs[i]) = GroupHeader(gs[i])
  <2>1. gs[i] = list[i][1].group
    BY <1>1, <1>2 DEF GroupsOf
  <2>2. /\ gs[i] \in {"l3", "float"} => host.vendor = "amd"
        /\ gs[i] = "topdown_be" => host.vendor # "amd"
    BY <1>2 DEF Printable
  <2> QED
    BY <2>1, <2>2 DEF GroupValues
<1>4. [i \in 1 .. n |-> GroupHeader(list[i][1].group)] = [i \in 1 .. n |-> GroupHeader(gs[i])]
  BY <1>3
<1>5. [i \in 1 .. n |-> GroupValues(list[i][1].group)] = [i \in 1 .. n |-> GroupHeader(gs[i])]
  BY <1>3
<1> QED
  BY <1>1, <1>2, <1>4, <1>5 DEF HeaderOf, ValuesOf, HeadersOf

LEMMA RowHeaders ==
  ASSUME host \in Hosts
  PROVE  /\ ValuesOf(WholeRun) = HeaderOf(WholeRun) /\ HeaderOf(WholeRun) \in Seq(Plain)
         /\ \A c : /\ ValuesOf(Lists(c)) = HeaderOf(Lists(c)) /\ HeaderOf(Lists(c)) \in Seq(Plain)
                   /\ HeaderOf(Lists(c)) = HeadersOf(GroupsOf(Lists(c)))
<1>1. ASSUME NEW class, NEW list, CounterList(host, request, class, list)
      PROVE  /\ ValuesOf(list) = HeaderOf(list) /\ HeaderOf(list) \in Seq(Plain)
             /\ HeaderOf(list) = HeadersOf(GroupsOf(list))
  <2>1. Printable(host, request, GroupsOf(list)) /\ Len(GroupsOf(list)) = Len(list)
    BY <1>1, ListPrintable
  <2>2. Len(list) \in Nat
    BY <1>1 DEF CounterList
  <2>3. HeaderOf(list) = HeadersOf(GroupsOf(list)) /\ ValuesOf(list) = HeaderOf(list)
    BY <2>1, <2>2, ListHeader
  <2>4. GroupsOf(list) \in Seq(GroupNames)
    BY <2>1 DEF Printable
  <2> QED
    BY <2>3, <2>4, HeadersTyped
<1>2. CounterList(host, request, "unknown", WholeRun)
  BY SystemListIs DEF WholeRun
<1>3. \A c : CounterList(host, request, host.class[c], Lists(c))
  BY CoreListIs DEF Lists
<1> QED
  BY <1>1, <1>2, <1>3

\* The groups of lists put together
GroupSeqs(h) == Seq({cg \in Shaped(h) : cg # <<>>})

LEMMA GroupsTyped ==
  ASSUME NEW h, NEW list \in GroupSeqs(h)
  PROVE  /\ GroupsOf(list) \in Seq(GroupNames) /\ Len(GroupsOf(list)) = Len(list)
         /\ \A i \in 1 .. Len(list) : GroupsOf(list)[i] = list[i][1].group /\ list[i][1].group \in GroupNames
<1>1. PICK n \in Nat : n = Len(list)
  BY DEF GroupSeqs
<1>2. ASSUME NEW i \in 1 .. n PROVE list[i][1].group \in GroupNames
  <2>1. PICK cg : cg = list[i] /\ cg \in Shaped(h) /\ cg # <<>>
    BY <1>1 DEF GroupSeqs
  <2>2. cg \in Seq(CounterSet)
    BY <2>1 DEF Shaped
  <2>3. 1 \in 1 .. Len(cg)
    BY <2>1, <2>2
  <2>4. cg[1] \in CounterSet
    BY <2>2, <2>3
  <2> QED
    BY <2>1, <2>4 DEF CounterSet, GroupNames, Others
<1>3. PICK gs : gs = [i \in 1 .. n |-> list[i][1].group]
  OBVIOUS
<1>4. gs \in [1 .. n -> GroupNames] /\ \A i \in 1 .. n : gs[i] = list[i][1].group
  BY <1>2, <1>3
<1>5. gs \in Seq(GroupNames) /\ Len(gs) = n
  BY <1>4
<1>6. GroupsOf(list) = gs
  BY <1>1, <1>3 DEF GroupsOf
<1> QED
  BY <1>1, <1>2, <1>4, <1>5, <1>6

LEMMA GroupsConcat ==
  ASSUME NEW h, NEW a \in GroupSeqs(h), NEW b \in GroupSeqs(h)
  PROVE  a \o b \in GroupSeqs(h) /\ GroupsOf(a \o b) = GroupsOf(a) \o GroupsOf(b)
<1>1. PICK n \in Nat, m \in Nat : n = Len(a) /\ m = Len(b)
  BY DEF GroupSeqs
<1>2. PICK c \in GroupSeqs(h) : c = a \o b /\ Concatenated(c, a, n, b, m)
  BY <1>1, ConcatPlaces DEF GroupSeqs
<1>3. PICK ga \in Seq(GroupNames) : /\ ga = GroupsOf(a) /\ Len(ga) = n
                                    /\ \A i \in 1 .. n : ga[i] = a[i][1].group
  BY <1>1, GroupsTyped
<1>4. PICK gb \in Seq(GroupNames) : /\ gb = GroupsOf(b) /\ Len(gb) = m
                                    /\ \A i \in 1 .. m : gb[i] = b[i][1].group
  BY <1>1, GroupsTyped
<1>5. PICK gc \in Seq(GroupNames) : /\ gc = GroupsOf(c) /\ Len(gc) = n + m
                                    /\ \A i \in 1 .. n + m : gc[i] = c[i][1].group
  <2>1. Len(c) = n + m
    BY <1>2 DEF Concatenated
  <2> QED
    BY <2>1, GroupsTyped
<1>6. PICK gab \in Seq(GroupNames) : gab = ga \o gb /\ Concatenated(gab, ga, n, gb, m)
  BY <1>3, <1>4, ConcatPlaces
<1>7. ASSUME NEW i \in 1 .. n + m PROVE gc[i] = gab[i]
  <2>1. gc[i] = c[i][1].group
    BY <1>5
  <2>2. CASE i \in 1 .. n /\ c[i] = a[i]
    <3>1. gab[i] = ga[i] /\ ga[i] = a[i][1].group
      BY <1>3, <1>6, <2>2 DEF Concatenated
    <3> QED
      BY <2>1, <2>2, <3>1
  <2>3. ASSUME NEW k \in 1 .. m, i = n + k, c[i] = b[k] PROVE gc[i] = gab[i]
    <3>1. gab[i] = gb[k] /\ gb[k] = b[k][1].group
      BY <1>4, <1>6, <2>3 DEF Concatenated
    <3> QED
      BY <2>1, <2>3, <3>1
  <2> QED
    BY <1>2, <2>2, <2>3 DEF Concatenated
<1>8. gc = gab
  <2>1. Len(gab) = n + m
    BY <1>6 DEF Concatenated
  <2> QED
    BY <1>5, <1>7, <2>1, SeqEqual
<1> QED
  BY <1>2, <1>3, <1>4, <1>5, <1>6, <1>8

\* One more group
LEMMA GroupsAppend ==
  ASSUME host \in Hosts, NEW s \in GroupSeqs(host), NEW cg \in Shaped(host), cg # <<>>
  PROVE  /\ Append(s, cg) \in GroupSeqs(host)
         /\ GroupsOf(Append(s, cg)) = GroupsOf(s) \o <<cg[1].group>>
         /\ GroupHeader(cg[1].group) \in Seq(Plain)
         /\ Len(HeadersOf(GroupsOf(Append(s, cg)))) = Len(HeadersOf(GroupsOf(s))) + Len(GroupHeader(cg[1].group))
<1>1. PICK t \in GroupSeqs(host) : t = <<cg>> /\ Len(t) = 1 /\ t[1] = cg
  <2>0. cg \in {x \in Shaped(host) : x # <<>>}
    OBVIOUS
  <2>1. PICK S : S = {x \in Shaped(host) : x # <<>>} /\ cg \in S
    BY <2>0
  <2>2. <<cg>> \in Seq(S) /\ Len(<<cg>>) = 1 /\ <<cg>>[1] = cg
    BY <2>1
  <2> QED
    BY <2>1, <2>2 DEF GroupSeqs
<1>2. Append(s, cg) = s \o t
  BY <1>1, AppendIsConcat DEF GroupSeqs
<1>3. PICK g \in GroupNames : g = cg[1].group
  BY <1>1, GroupsTyped
<1>4. GroupsOf(t) = <<g>>
  BY <1>1, <1>3 DEF GroupsOf
<1>5. s \o t \in GroupSeqs(host) /\ GroupsOf(s \o t) = GroupsOf(s) \o <<g>>
  BY <1>4, GroupsConcat
<1>6. GroupsOf(s) \in Seq(GroupNames)
  BY GroupsTyped
<1>7. <<g>> \in Seq(GroupNames) /\ HeadersOf(<<g>>) = GroupHeader(g) /\ GroupHeader(g) \in Seq(Plain)
  BY HeadersOne, HeaderPlain
<1>8. HeadersOf(GroupsOf(s) \o <<g>>) = HeadersOf(GroupsOf(s)) \o GroupHeader(g)
  BY <1>6, <1>7, HeadersConcat
<1>9. HeadersOf(GroupsOf(s)) \in Seq(Plain)
  BY <1>6, HeadersTyped
<1>10. Len(HeadersOf(GroupsOf(s)) \o GroupHeader(g)) = Len(HeadersOf(GroupsOf(s))) + Len(GroupHeader(g))
  BY <1>7, <1>9, ConcatProperties
<1> QED
  BY <1>2, <1>3, <1>5, <1>7, <1>8, <1>10

\* Two lists alike but for topdown_be, which only the first may have
SameGroup(p, q, m) == (p[m] = <<>> <=> q[m] = <<>>) /\ (p[m] # <<>> => p[m][1].group = q[m][1].group)

LEMMA AlikeButOne ==
  ASSUME host \in Hosts, NEW p \in Seq(Shaped(host)), NEW q \in Seq(Shaped(host)),
         Len(p) = 16, Len(q) = 16,
         \A m \in 1 .. 16 : m # 4 => SameGroup(p, q, m),
         SameGroup(p, q, 4) \/ (p[4] # <<>> /\ p[4][1].group = "topdown_be" /\ q[4] = <<>>)
  PROVE  /\ Existing(p) \in GroupSeqs(host) /\ Existing(q) \in GroupSeqs(host)
         /\ IF SameGroup(p, q, 4) THEN GroupsOf(Existing(p)) = GroupsOf(Existing(q))
            ELSE Len(HeadersOf(GroupsOf(Existing(p)))) = Len(HeadersOf(GroupsOf(Existing(q)))) + 10
<1>1. PICK u : ExistingUp(u, 16, p) /\ Existing(p) = u[16]
  BY ExistingIs
<1>2. PICK v : ExistingUp(v, 16, q) /\ Existing(q) = v[16]
  BY ExistingIs
<1> DEFINE Width(s) == Len(HeadersOf(GroupsOf(s)))
           Both(s, t, k) == /\ s \in GroupSeqs(host) /\ t \in GroupSeqs(host)
                            /\ k < 4 \/ SameGroup(p, q, 4) => GroupsOf(s) = GroupsOf(t)
                            /\ k >= 4 /\ ~SameGroup(p, q, 4) => Width(s) = Width(t) + 10
           K == {k \in Nat : k <= 16 => Both(u[k], v[k], k)}
<1>3. ASSUME NEW s \in GroupSeqs(host) PROVE Width(s) \in Nat
  <2>1. HeadersOf(GroupsOf(s)) \in Seq(Plain)
    BY GroupsTyped, HeadersTyped
  <2> QED
    BY <2>1
<1>4. ASSUME NEW s \in GroupSeqs(host), NEW cg \in Shaped(host), cg # <<>>
      PROVE  /\ Append(s, cg) \in GroupSeqs(host)
             /\ GroupsOf(Append(s, cg)) = GroupsOf(s) \o <<cg[1].group>>
             /\ Width(Append(s, cg)) = Width(s) + Len(GroupHeader(cg[1].group))
             /\ Len(GroupHeader(cg[1].group)) \in Nat
  BY SMTT(30), <1>4, GroupsAppend
<1>5. Len(GroupHeader("topdown_be")) = 10
  BY DEF GroupHeader, TopdownBeColumns
<1> HIDE DEF Width
<1>6. 0 \in K
  <2>1. u[0] = <<>> /\ v[0] = <<>>
    BY <1>1, <1>2 DEF ExistingUp
  <2>2. <<>> \in GroupSeqs(host)
    BY DEF GroupSeqs
  <2> QED
    BY <2>1, <2>2
<1>7. ASSUME NEW k \in Nat, k \in K PROVE k + 1 \in K
  <2> SUFFICES ASSUME k + 1 <= 16 PROVE Both(u[k + 1], v[k + 1], k + 1)
    OBVIOUS
  <2>1. PICK m \in 1 .. 16 : m = k + 1 /\ m - 1 = k
    OBVIOUS
  <2>2. PICK s, t : s = u[k] /\ t = v[k] /\ Both(s, t, k)
    BY <1>7
  <2>3. PICK a \in Shaped(host), b \in Shaped(host) : a = p[m] /\ b = q[m]
    BY Element
  <2>4. /\ u[m] = IF a = <<>> THEN s ELSE Append(s, a)
        /\ v[m] = IF b = <<>> THEN t ELSE Append(t, b)
    BY <1>1, <1>2, <2>1, <2>2, <2>3 DEF ExistingUp
  <2>5. /\ s \in GroupSeqs(host) /\ t \in GroupSeqs(host)
        /\ k < 4 \/ SameGroup(p, q, 4) => GroupsOf(s) = GroupsOf(t)
        /\ k >= 4 /\ ~SameGroup(p, q, 4) => Width(s) = Width(t) + 10
    BY <2>2
  <2>6. CASE SameGroup(p, q, m)
    <3>1. (a = <<>> <=> b = <<>>) /\ (a # <<>> => a[1].group = b[1].group)
      BY <2>3, <2>6 DEF SameGroup
    <3>2. m # 4 \/ SameGroup(p, q, 4)
      BY <2>6
    <3>3. CASE a = <<>>
      <4>1. u[m] = s /\ v[m] = t
        BY <2>4, <3>1, <3>3
      <4>2. Both(s, t, m)
        BY <2>1, <2>5, <3>2
      <4> QED
        BY <2>1, <4>1, <4>2
    <3>4. CASE a # <<>>
      <4>1. u[m] = Append(s, a) /\ v[m] = Append(t, b)
        BY <2>4, <3>1, <3>4
      <4>2. PICK x, y : x = Append(s, a) /\ y = Append(t, b)
        OBVIOUS
      <4>3. /\ x \in GroupSeqs(host) /\ GroupsOf(x) = GroupsOf(s) \o <<a[1].group>>
            /\ Width(x) = Width(s) + Len(GroupHeader(a[1].group)) /\ Len(GroupHeader(a[1].group)) \in Nat
        BY <1>4, <2>5, <3>4, <4>2
      <4>4. /\ y \in GroupSeqs(host) /\ GroupsOf(y) = GroupsOf(t) \o <<a[1].group>>
            /\ Width(y) = Width(t) + Len(GroupHeader(a[1].group))
        BY <1>4, <2>5, <3>1, <3>4, <4>2
      <4>5. Width(s) \in Nat /\ Width(t) \in Nat
        BY <1>3, <2>5
      <4>6. k < 4 \/ SameGroup(p, q, 4) => GroupsOf(x) = GroupsOf(y)
        BY <2>5, <4>3, <4>4
      <4>7. k >= 4 /\ ~SameGroup(p, q, 4) => Width(x) = Width(y) + 10
        BY SMTT(20), <2>5, <4>3, <4>4, <4>5
      <4>8. Both(x, y, m)
        <5>1. /\ m < 4 \/ SameGroup(p, q, 4) => k < 4 \/ SameGroup(p, q, 4)
              /\ m >= 4 /\ ~SameGroup(p, q, 4) => k >= 4 /\ ~SameGroup(p, q, 4)
          BY <2>1, <3>2
        <5>2. m < 4 \/ SameGroup(p, q, 4) => GroupsOf(x) = GroupsOf(y)
          BY <4>6, <5>1
        <5>3. m >= 4 /\ ~SameGroup(p, q, 4) => Width(x) = Width(y) + 10
          BY <4>7, <5>1
        <5> QED
          BY <4>3, <4>4, <5>2, <5>3
      <4> QED
        BY <2>1, <4>1, <4>2, <4>8
    <3> QED
      BY <3>3, <3>4
  <2>7. CASE ~SameGroup(p, q, m)
    <3>1. m = 4 /\ k = 3 /\ a # <<>> /\ a[1].group = "topdown_be" /\ b = <<>>
      BY <2>1, <2>3, <2>7
    <3>2. u[m] = Append(s, a) /\ v[m] = t
      BY <2>4, <3>1
    <3>3. GroupsOf(s) = GroupsOf(t)
      BY <2>5, <3>1
    <3>4. Width(s) = Width(t) /\ Width(t) \in Nat
      BY <1>3, <2>5, <3>3 DEF Width
    <3>5. PICK x : x = Append(s, a)
      OBVIOUS
    <3>6. x \in GroupSeqs(host) /\ Width(x) = Width(t) + 10
      BY <1>4, <1>5, <2>5, <3>1, <3>4, <3>5
    <3>7. Both(x, t, m)
      BY <2>5, <2>7, <3>1, <3>6
    <3> QED
      BY <2>1, <3>2, <3>5, <3>7
  <2> QED
    BY <2>6, <2>7
<1> HIDE DEF K
<1>8. Nat \subseteq K
  BY <1>6, <1>7, SetInduction
<1>9. Both(u[16], v[16], 16)
  BY <1>8 DEF K
<1> QED
  BY <1>1, <1>2, <1>9 DEF Width

\* The event tables of a machine's cores differ in whether they have an event only for
\* topdown_be.
LEMMA TablesAlike ==
  ASSUME NEW h \in Hosts, NEW a, NEW b, NEW g \in RawGroups, g # "topdown_be"
  PROVE  Events(h, a)[g] > 0 <=> Events(h, b)[g] > 0
<1>1. CASE h.vendor = "amd" \/ h.vendor = "arm"
  <2>1. Events(h, a) = Events(h, b)
    BY <1>1 DEF Events
  <2> QED
    BY <2>1
<1>2. CASE h.vendor = "intel"
  <2>1. IntelEvents[g] > 0 <=> AtomEvents[g] > 0
    <3> DEFINE t == [IntelEvents EXCEPT !["topdown2"] = 5]
    <3>1. t \in [RawGroups -> Nat] /\ t["topdown2"] = 5 /\ \A k \in RawGroups : k # "topdown2" => t[k] = IntelEvents[k]
      BY IntelTable DEF RawGroups
    <3>2. AtomEvents = [t EXCEPT !["topdown_be"] = 0]
      BY AtomTable
    <3> HIDE DEF t
    <3>3. AtomEvents[g] = t[g]
      BY <3>1, <3>2
    <3>4. g # "topdown2" => AtomEvents[g] = IntelEvents[g]
      BY <3>1, <3>3
    <3>5. g = "topdown2" => AtomEvents[g] = 5 /\ IntelEvents[g] = 9
      BY <3>1, <3>3, IntelTable
    <3> QED
      BY <3>4, <3>5
  <2>2. \A class : Events(h, class) = AtomEvents \/ Events(h, class) = IntelEvents
    BY <1>2 DEF Events
  <2> QED
    BY <2>1, <2>2
<1> QED
  BY <1>1, <1>2, CountersAssumption DEF Vendors

\* The lists of two cores have the same groups, or headers of different lengths.
LEMMA ClassesDiffer ==
  ASSUME host \in Hosts, NEW r, NEW a, NEW b
  PROVE  LET Groups(class) == GroupsOf(CounterGroups(host, r, class)) IN
         /\ CounterGroups(host, r, a) \in GroupSeqs(host) /\ CounterGroups(host, r, b) \in GroupSeqs(host)
         /\ Groups(a) = Groups(b) \/ Len(HeadersOf(Groups(a))) # Len(HeadersOf(Groups(b)))
<1> DEFINE Groups(class) == GroupsOf(CounterGroups(host, r, class))
           Claim(x, y) == /\ CounterGroups(host, r, x) \in GroupSeqs(host)
                          /\ CounterGroups(host, r, y) \in GroupSeqs(host)
                          /\ Groups(x) = Groups(y) \/ Len(HeadersOf(Groups(x))) # Len(HeadersOf(Groups(y)))
<1>1. ASSUME NEW x, NEW y,
             LET p == ToLink(host, r, x)
                 q == ToLink(host, r, y)
             IN  SameGroup(p, q, 4) \/ (p[4] # <<>> /\ q[4] = <<>>)
      PROVE  Claim(x, y)
  <2>1. PICK p \in Seq(Shaped(host)) : /\ p = ToLink(host, r, x) /\ Len(p) = 16
                                       /\ \A m \in 1 .. 15 : Asked(host, r, x, RawOrder[m], p[m])
                                       /\ p[16] = CacheCounters(host, r)
    BY ToLinkShaped
  <2>2. PICK q \in Seq(Shaped(host)) : /\ q = ToLink(host, r, y) /\ Len(q) = 16
                                       /\ \A m \in 1 .. 15 : Asked(host, r, y, RawOrder[m], q[m])
                                       /\ q[16] = CacheCounters(host, r)
    BY ToLinkShaped
  <2>3. ASSUME NEW m \in 1 .. 16, m # 4 PROVE SameGroup(p, q, m)
    <3>1. CASE m = 16
      BY <2>1, <2>2, <3>1 DEF SameGroup
    <3>2. CASE m \in 1 .. 15
      <4>1. PICK g \in RawGroups : g = RawOrder[m] /\ g # "topdown_be"
        BY <2>3, <3>2, OrderOfLists
      <4>2. Asked(host, r, x, g, p[m]) /\ Asked(host, r, y, g, q[m])
        BY <2>1, <2>2, <3>2, <4>1
      <4>3. Events(host, x)[g] > 0 <=> Events(host, y)[g] > 0
        BY <4>1, TablesAlike
      <4> QED
        BY <4>2, <4>3 DEF Asked, SameGroup
    <3> QED
      BY <3>1, <3>2
  <2>4. SameGroup(p, q, 4) \/ (p[4] # <<>> /\ p[4][1].group = "topdown_be" /\ q[4] = <<>>)
    <3>1. Asked(host, r, x, "topdown_be", p[4])
      BY <2>1, OrderOfLists
    <3>2. SameGroup(p, q, 4) \/ (p[4] # <<>> /\ q[4] = <<>>)
      BY <1>1, <2>1, <2>2
    <3> QED
      BY <3>1, <3>2 DEF Asked
  <2>5. CounterGroups(host, r, x) = Existing(p) /\ CounterGroups(host, r, y) = Existing(q)
    BY <2>1, <2>2, Linking
  <2>6. /\ Existing(p) \in GroupSeqs(host) /\ Existing(q) \in GroupSeqs(host)
        /\ IF SameGroup(p, q, 4) THEN GroupsOf(Existing(p)) = GroupsOf(Existing(q))
           ELSE Len(HeadersOf(GroupsOf(Existing(p)))) = Len(HeadersOf(GroupsOf(Existing(q)))) + 10
    BY <2>1, <2>2, <2>3, <2>4, AlikeButOne
  <2>7. Len(HeadersOf(GroupsOf(Existing(q)))) \in Nat
    <3>1. HeadersOf(GroupsOf(Existing(q))) \in Seq(Plain)
      BY <2>6, GroupsTyped, HeadersTyped
    <3> QED
      BY <3>1
  <2>8. CASE SameGroup(p, q, 4)
    BY <2>5, <2>6, <2>8
  <2>9. CASE ~SameGroup(p, q, 4)
    <3>1. Len(HeadersOf(GroupsOf(Existing(p)))) # Len(HeadersOf(GroupsOf(Existing(q))))
      BY <2>6, <2>7, <2>9
    <3> QED
      BY <2>5, <2>6, <3>1
  <2> QED
    BY <2>8, <2>9
<1>2. PICK p, q : p = ToLink(host, r, a) /\ q = ToLink(host, r, b)
  OBVIOUS
<1>3. Asked(host, r, a, "topdown_be", p[4]) /\ Asked(host, r, b, "topdown_be", q[4])
  <2>1. 4 \in 1 .. 15 /\ RawOrder[4] = "topdown_be"
    BY OrderOfLists
  <2>2. Asked(host, r, a, RawOrder[4], p[4])
    BY <1>2, <2>1, ToLinkShaped
  <2>3. Asked(host, r, b, RawOrder[4], q[4])
    BY <1>2, <2>1, ToLinkShaped
  <2> QED
    BY <2>1, <2>2, <2>3
<1>4. \/ SameGroup(p, q, 4)
      \/ p[4] # <<>> /\ q[4] = <<>>
      \/ q[4] # <<>> /\ p[4] = <<>>
  BY <1>3 DEF Asked, SameGroup
<1>5. Claim(a, b) \/ Claim(b, a)
  <2> HIDE DEF Claim
  <2> QED
    BY <1>1, <1>2, <1>4
<1> QED
  BY <1>5

LEMMA CoresDiffer ==
  ASSUME host \in Hosts, NEW c \in CoresWithCounters, NEW d \in CoresWithCounters
  PROVE  \/ GroupsOf(Lists(c)) = GroupsOf(Lists(d))
         \/ Len(HeaderOf(Lists(c))) # Len(HeaderOf(Lists(d)))
<1> DEFINE first(k) == IF HasPowerCore(host, request) THEN <<PowerCoreGroup(host, k)>> ELSE <<>>
           rest(k) == CounterGroups(host, request, host.class[k])
<1>1. ASSUME NEW k \in CoresWithCounters PROVE Lists(k) = first(k) \o rest(k)
  BY DEF CoresWithCounters, Lists, CoreList
<1>2. PICK gs \in Seq(GroupNames) : \A k : first(k) \in GroupSeqs(host) /\ GroupsOf(first(k)) = gs
  <2>1. CASE HasPowerCore(host, request)
    <3>1. ASSUME NEW k
          PROVE  <<PowerCoreGroup(host, k)>> \in GroupSeqs(host)
                 /\ GroupsOf(<<PowerCoreGroup(host, k)>>) = <<"power_core">>
      <4>1. PICK cg : cg = PowerCoreGroup(host, k)
        OBVIOUS
      <4>2. Shape(host.budget, cg) /\ cg # <<>> /\ cg[1].group = "power_core"
        BY <4>1, OtherShapes
      <4>3. cg \in {x \in Shaped(host) : x # <<>>}
        BY <4>2 DEF Shaped, Shape
      <4>4. PICK S : S = {x \in Shaped(host) : x # <<>>} /\ cg \in S
        BY <4>3
      <4>5. <<cg>> \in Seq(S) /\ Len(<<cg>>) = 1 /\ <<cg>>[1] = cg
        BY <4>4
      <4>6. GroupsOf(<<cg>>) = <<"power_core">>
        BY <4>2, <4>5 DEF GroupsOf
      <4> QED
        BY <4>1, <4>4, <4>5, <4>6 DEF GroupSeqs
    <3>2. <<"power_core">> \in Seq(GroupNames)
      BY DEF GroupNames, Others
    <3>3. \A k : first(k) = <<PowerCoreGroup(host, k)>>
      BY <2>1
    <3> QED
      BY <3>1, <3>2, <3>3
  <2>2. CASE ~HasPowerCore(host, request)
    <3>1. \A k : first(k) = <<>>
      BY <2>2
    <3>2. <<>> \in GroupSeqs(host)
      BY DEF GroupSeqs
    <3> HIDE DEF first
    <3>3. GroupsOf(<<>>) \in Seq(GroupNames)
      BY <3>2, GroupsTyped
    <3> QED
      BY <3>1, <3>2, <3>3
  <2> QED
    BY <2>1, <2>2
<1>3. PICK x, y : x = rest(c) /\ y = rest(d)
  OBVIOUS
<1>4. /\ x \in GroupSeqs(host) /\ y \in GroupSeqs(host)
      /\ GroupsOf(x) = GroupsOf(y) \/ Len(HeadersOf(GroupsOf(x))) # Len(HeadersOf(GroupsOf(y)))
  BY <1>3, ClassesDiffer
<1> HIDE DEF first, rest
<1>5. GroupsOf(Lists(c)) = gs \o GroupsOf(x) /\ GroupsOf(Lists(d)) = gs \o GroupsOf(y)
  <2>1. PICK f, g : f = first(c) /\ g = first(d)
    OBVIOUS
  <2>2. /\ f \in GroupSeqs(host) /\ g \in GroupSeqs(host)
        /\ GroupsOf(f) = gs /\ GroupsOf(g) = gs
    BY <1>2, <2>1
  <2>3. Lists(c) = f \o x /\ Lists(d) = g \o y
    BY <1>1, <1>3, <2>1
  <2>4. GroupsOf(f \o x) = gs \o GroupsOf(x) /\ GroupsOf(g \o y) = gs \o GroupsOf(y)
    BY ZenonT(40), <1>4, <2>2, GroupsConcat
  <2> QED
    BY <2>3, <2>4
<1>6. HeaderOf(Lists(c)) = HeadersOf(GroupsOf(Lists(c))) /\ HeaderOf(Lists(d)) = HeadersOf(GroupsOf(Lists(d)))
  BY RowHeaders
<1>7. GroupsOf(x) \in Seq(GroupNames) /\ GroupsOf(y) \in Seq(GroupNames)
  BY <1>4, GroupsTyped
<1>8. ASSUME NEW t \in Seq(GroupNames)
      PROVE  /\ Len(HeadersOf(gs \o t)) = Len(HeadersOf(gs)) + Len(HeadersOf(t))
             /\ Len(HeadersOf(gs)) \in Nat /\ Len(HeadersOf(t)) \in Nat
  <2>1. HeadersOf(gs \o t) = HeadersOf(gs) \o HeadersOf(t)
    BY HeadersConcat
  <2>2. HeadersOf(gs) \in Seq(Plain) /\ HeadersOf(t) \in Seq(Plain)
    BY HeadersTyped
  <2> QED
    BY <2>1, <2>2, ConcatProperties
<1>9. /\ Len(HeaderOf(Lists(c))) = Len(HeadersOf(gs)) + Len(HeadersOf(GroupsOf(x)))
      /\ Len(HeaderOf(Lists(d))) = Len(HeadersOf(gs)) + Len(HeadersOf(GroupsOf(y)))
      /\ Len(HeadersOf(gs)) \in Nat /\ Len(HeadersOf(GroupsOf(x))) \in Nat /\ Len(HeadersOf(GroupsOf(y))) \in Nat
  BY <1>5, <1>6, <1>7, <1>8
<1>10. CASE GroupsOf(x) = GroupsOf(y)
  BY <1>5, <1>10
<1>11. CASE Len(HeadersOf(GroupsOf(x))) # Len(HeadersOf(GroupsOf(y)))
  BY <1>9, <1>11
<1> QED
  BY <1>4, <1>10, <1>11

-----------------------------------------------------------------------------
(* The rows against the header. *)

LEMMA WiderSeq ==
  ASSUME NEW V, NEW W, V \subseteq W, NEW s \in Seq(V)
  PROVE  s \in Seq(W)
  OBVIOUS

LEMMA IfTyped ==
  ASSUME NEW W, NEW condition, NEW s \in Seq(W)
  PROVE  If(condition, s) \in Seq(W)
<1>1. <<>> \in Seq(W)
  OBVIOUS
<1> QED
  BY <1>1 DEF If

\* The columns of the system and the GPU after those of the time, with and without
\* those of the usage
Machine(t) ==
  t \o If(~flags.system /\ "busy" \in flags.gpu, <<"gpu_busy">>)
    \o If("metrics" \in flags.gpu, GpuMetricsColumns)
    \o If("smi" \in flags.gpu, GpuSmiColumns)
    \o If("nvidia" \in flags.gpu, NvidiaColumns)
System == If(flags.system, SystemColumns)
Usage == If(~flags.interval /\ flags.usage, UsageColumns)

LEMMA MachineTyped ==
  ASSUME NEW W, Plain \subseteq W, NEW t \in Seq(W)
  PROVE  Machine(t) \in Seq(W)
<1>1. GpuMetricsColumns \in Seq(W) /\ GpuSmiColumns \in Seq(W) /\ NvidiaColumns \in Seq(W)
  BY ColumnsPlain, WiderSeq
<1>2. <<"gpu_busy">> \in Seq(W)
  <2>1. SystemColumns[19] = "gpu_busy" /\ 19 \in 1 .. Len(SystemColumns)
    BY DEF SystemColumns
  <2>2. "gpu_busy" \in Plain
    BY <2>1, ColumnsPlain, Element
  <2> QED
    BY <2>2
<1>3. PICK a \in Seq(W) : a = If(~flags.system /\ "busy" \in flags.gpu, <<"gpu_busy">>)
  BY <1>2, IfTyped
<1>4. PICK b \in Seq(W) : b = If("metrics" \in flags.gpu, GpuMetricsColumns)
  BY <1>1, IfTyped
<1>5. PICK c \in Seq(W) : c = If("smi" \in flags.gpu, GpuSmiColumns)
  BY <1>1, IfTyped
<1>6. PICK d \in Seq(W) : d = If("nvidia" \in flags.gpu, NvidiaColumns)
  BY <1>1, IfTyped
<1>7. Machine(t) = t \o a \o b \o c \o d
  BY <1>3, <1>4, <1>5, <1>6 DEF Machine
<1>8. t \o a \in Seq(W)
  BY ConcatProperties
<1>9. (t \o a) \o b \in Seq(W)
  BY <1>8, ConcatProperties
<1>10. ((t \o a) \o b) \o c \in Seq(W)
  BY <1>9, ConcatProperties
<1>11. (((t \o a) \o b) \o c) \o d \in Seq(W)
  BY <1>10, ConcatProperties
<1> QED
  BY <1>7, <1>11

Time == <<"time">> \o If(PhaseEnabled, <<"phase">>)
Before == Machine(If(flags.interval, Time) \o System \o Usage)
CoreRow(c) ==
  Before \o <<"core">> \o If(flags.freq, <<"core_freq_mhz">>)
    \o HeaderOf(Lists(c)) \o HeaderOf(WholeRun) \o CoverageColumns

\* The columns there may be
Columns ==
  Plain \cup {"time", "core_freq_mhz"} \cup (IF PerCoreCsv THEN {"core"} ELSE {})
        \cup (IF PhaseEnabled THEN {"phase"} ELSE {})

\* The parts that the header and the rows have in common
LEMMA PartsTyped ==
  /\ <<"time">> \in Seq(Columns) /\ Time \in Seq(Columns)
  /\ System \in Seq(Columns) /\ Usage \in Seq(Columns) /\ CoverageColumns \in Seq(Columns)
  /\ If(flags.freq, <<"core_freq_mhz">>) \in Seq(Columns)
  /\ PerCoreCsv => <<"core">> \in Seq(Columns)
  /\ <<>> \in Seq(Columns) /\ Plain \subseteq Columns
<1>1. Plain \subseteq Columns /\ "time" \in Columns /\ "core_freq_mhz" \in Columns
      /\ (PerCoreCsv => "core" \in Columns) /\ (PhaseEnabled => "phase" \in Columns)
  BY DEF Columns
<1>2. PICK W : W = Columns
  OBVIOUS
<1>3. <<"time">> \in Seq(W) /\ <<"core_freq_mhz">> \in Seq(W) /\ <<>> \in Seq(W)
  BY <1>1, <1>2
<1>4. If(PhaseEnabled, <<"phase">>) \in Seq(W)
  BY <1>1, <1>2, <1>3 DEF If
<1>5. Time \in Seq(W)
  BY <1>3, <1>4, ConcatProperties DEF Time
<1>6. System \in Seq(W) /\ Usage \in Seq(W) /\ CoverageColumns \in Seq(W)
  <2>1. SystemColumns \in Seq(W) /\ UsageColumns \in Seq(W) /\ CoverageColumns \in Seq(W)
    BY <1>1, <1>2, ColumnsPlain, WiderSeq
  <2> QED
    BY <2>1, IfTyped DEF System, Usage
<1>7. If(flags.freq, <<"core_freq_mhz">>) \in Seq(W)
  BY <1>3, IfTyped
<1>8. PerCoreCsv => <<"core">> \in Seq(W)
  BY <1>1, <1>2
<1> QED
  BY <1>1, <1>2, <1>3, <1>5, <1>6, <1>7, <1>8

\* With and without --per-core
LEMMA HeaderParts ==
  ASSUME host \in Hosts
  PROVE  /\ Before \in Seq(Columns)
         /\ ~PerCoreCsv => Header = Before \o HeaderOf(WholeRun) \o CoverageColumns
         /\ PerCoreCsv => Header = CoreRow(FirstCore)
<1>1. PICK W : W = Columns
  OBVIOUS
<1>2. Before \in Seq(W)
  <2>1. If(flags.interval, Time) \in Seq(W) /\ System \in Seq(W) /\ Usage \in Seq(W) /\ Plain \subseteq W
    BY <1>1, PartsTyped, IfTyped
  <2>2. If(flags.interval, Time) \o System \in Seq(W)
    BY <2>1, ConcatProperties
  <2>3. (If(flags.interval, Time) \o System) \o Usage \in Seq(W)
    BY <2>1, <2>2, ConcatProperties
  <2> QED
    BY <2>1, <2>3, MachineTyped DEF Before
<1>3. PICK h1, h2, f : /\ h1 = HeaderOf(Lists(FirstCore)) /\ h2 = HeaderOf(WholeRun)
                       /\ f = If(flags.freq, <<"core_freq_mhz">>)
  OBVIOUS
<1>4. Header = Before \o If(PerCoreCsv, <<"core">> \o f \o h1) \o h2 \o CoverageColumns
  BY <1>3 DEF Header, Before, Machine, Time, System, Usage
<1>5. CASE ~PerCoreCsv
  <2>1. If(PerCoreCsv, <<"core">> \o f \o h1) = <<>>
    BY <1>5 DEF If
  <2>2. Before \o <<>> = Before
    BY <1>2, ConcatEmptySeq
  <2> QED
    BY <1>1, <1>2, <1>3, <1>4, <1>5, <2>1, <2>2
<1>6. CASE PerCoreCsv
  <2>1. If(PerCoreCsv, <<"core">> \o f \o h1) = <<"core">> \o f \o h1
    BY <1>6 DEF If
  <2>2. <<"core">> \in Seq(W) /\ f \in Seq(W) /\ h1 \in Seq(W)
    <3>1. h1 \in Seq(Plain)
      BY <1>3, RowHeaders
    <3> QED
      BY <1>1, <1>3, <1>6, <3>1, PartsTyped, WiderSeq
  <2>3. PICK k \in Seq(W) : k = <<"core">>
    BY <2>2
  <2>4. PICK b \in Seq(W) : b = Before
    BY <1>2
  <2>5. b \o ((k \o f) \o h1) = ((b \o k) \o f) \o h1
    <3>1. k \o f \in Seq(W) /\ b \o k \in Seq(W)
      BY <2>2, ConcatProperties
    <3>2. b \o ((k \o f) \o h1) = (b \o (k \o f)) \o h1
      BY SMTT(30), <2>2, <3>1, ConcatAssociative
    <3>3. b \o (k \o f) = (b \o k) \o f
      BY SMTT(30), <2>2, ConcatAssociative
    <3> QED
      BY <3>2, <3>3
  <2> QED
    BY <1>1, <1>2, <1>3, <1>4, <1>6, <2>1, <2>3, <2>4, <2>5 DEF CoreRow
<1> QED
  BY <1>5, <1>6

\* With --per-core there is no phase, with ticks no usage.
LEMMA CoresAre ==
  /\ PerCoreCsv => FirstCore \in CoresWithCounters /\ request.percore /\ ~PhaseEnabled /\ Time = <<"time">>
  /\ CoresWithCounters \subseteq Cores /\ CoresWithCounters \subseteq Nat
  /\ \A c \in CoresWithCounters : CoreAfter(c) \in CoresWithCounters \cup {NumCores}
  /\ NumCores \in Nat /\ NumCores \notin CoresWithCounters /\ NoCore \notin CoresWithCounters
<1>1. CoresWithCounters \subseteq Cores /\ Cores \subseteq Nat /\ NumCores \in Nat /\ NumCores \notin Cores
  BY CountersAssumption DEF CoresWithCounters, Cores
<1>2. ASSUME PerCoreCsv
      PROVE  FirstCore \in CoresWithCounters
  <2>1. \E c \in CoresWithCounters : \A d \in CoresWithCounters : c <= d
    BY <1>1, <1>2, Smallest DEF PerCoreCsv
  <2> QED
    BY <2>1 DEF FirstCore
<1>3. ASSUME PerCoreCsv
      PROVE  request.percore /\ ~PhaseEnabled /\ Time = <<"time">>
  <2>1. request.percore
    BY <1>3 DEF PerCoreCsv, CoresWithCounters, Lists, CoreList
  <2>2. ~PhaseEnabled
    BY <2>1 DEF PhaseEnabled
  <2>3. Time = <<"time">> \o <<>>
    BY <2>2 DEF Time, If
  <2>4. <<"time">> \o <<>> = <<"time">>
    BY PartsTyped, ConcatEmptySeq
  <2> QED
    BY <2>1, <2>2, <2>3, <2>4
<1>4. ASSUME NEW c \in CoresWithCounters
      PROVE  CoreAfter(c) \in CoresWithCounters \cup {NumCores}
  <2> DEFINE Later == {d \in CoresWithCounters : d > c}
  <2>1. CASE Later = {}
    BY <2>1 DEF CoreAfter
  <2>2. CASE Later # {}
    <3>1. PICK d \in Later : \A e \in Later : d <= e
      BY <1>1, <2>2, Smallest
    <3>2. \E x \in CoresWithCounters : x > c /\ \A e \in CoresWithCounters : e > c => x <= e
      BY <3>1
    <3> QED
      BY <3>1, <3>2 DEF CoreAfter
  <2> QED
    BY <2>1, <2>2
<1> QED
  BY <1>1, <1>2, <1>3, <1>4, FeatureAssumption

LEMMA UsageParts ==
  /\ If(flags.usage /\ ~flags.interval, UsageColumns) = Usage
  /\ flags.interval => If(flags.interval, Time) \o System \o Usage = Time \o System
<1>1. If(flags.usage /\ ~flags.interval, UsageColumns) = Usage
  BY DEF If, Usage
<1>2. ASSUME flags.interval PROVE If(flags.interval, Time) \o System \o Usage = Time \o System
  <2>1. If(flags.interval, Time) = Time /\ Usage = <<>>
    BY <1>2 DEF If, Usage
  <2>2. Time \o System \in Seq(Columns)
    BY PartsTyped, ConcatProperties
  <2>3. (Time \o System) \o <<>> = Time \o System
    BY <2>2, ConcatEmptySeq
  <2> QED
    BY <2>1, <2>3
<1> QED
  BY <1>1, <1>2

\* Without --per-core, or with no core that has counters
LEMMA RunRowsAre ==
  ASSUME host \in Hosts, ~PerCoreCsv
  PROVE  LastRow = Header /\ (flags.interval => TickRow = Header)
<1>1. Header = Before \o HeaderOf(WholeRun) \o CoverageColumns
  BY HeaderParts
<1>2. ValuesOf(WholeRun) = HeaderOf(WholeRun)
  BY RowHeaders
<1>3. PICK v : v = HeaderOf(WholeRun)
  OBVIOUS
<1>4. LastRow = Header
  <2>1. PICK u : u = Usage /\ If(flags.usage /\ ~flags.interval, UsageColumns) = u
    BY UsageParts
  <2>2. LastRow = Machine(If(flags.interval, Time) \o System \o u) \o v \o CoverageColumns
    BY <1>2, <1>3, <2>1 DEF LastRow, Machine, Time, System
  <2> QED
    BY <1>1, <1>3, <2>1, <2>2 DEF Before
<1>5. ASSUME flags.interval PROVE TickRow = Header
  <2>1. TickRow = Machine(Time \o System) \o v \o CoverageColumns
    BY <1>2, <1>3 DEF TickRow, Machine, Time, System
  <2>2. Before = Machine(Time \o System)
    BY <1>5, UsageParts DEF Before
  <2> QED
    BY <1>1, <1>3, <2>1, <2>2
<1> QED
  BY <1>4, <1>5

LEMMA CoreRowsAre ==
  ASSUME host \in Hosts, NEW c \in CoresWithCounters
  PROVE  LastCoreRow(c) = CoreRow(c) /\ (flags.interval => TickCoreRow(c) = CoreRow(c))
<1>1. Time = <<"time">>
  BY CoresAre DEF PerCoreCsv
<1>2. ValuesOf(WholeRun) = HeaderOf(WholeRun) /\ ValuesOf(Lists(c)) = HeaderOf(Lists(c))
  BY RowHeaders
<1>3. PICK v, w, t : v = HeaderOf(WholeRun) /\ w = HeaderOf(Lists(c)) /\ t = <<"time">>
  OBVIOUS
<1>4. LastCoreRow(c) = CoreRow(c)
  <2>1. PICK u : u = Usage /\ If(flags.usage /\ ~flags.interval, UsageColumns) = u
    BY UsageParts
  <2>2. LastCoreRow(c) = Machine(If(flags.interval, t) \o System \o u) \o <<"core">>
                           \o If(flags.freq, <<"core_freq_mhz">>) \o w \o v \o CoverageColumns
    BY <1>2, <1>3, <2>1 DEF LastCoreRow, Machine, System
  <2> QED
    BY <1>1, <1>3, <2>1, <2>2 DEF Before, CoreRow
<1>5. ASSUME flags.interval PROVE TickCoreRow(c) = CoreRow(c)
  <2>1. TickCoreRow(c) = Machine(t \o System) \o <<"core">>
                           \o If(flags.freq, <<"core_freq_mhz">>) \o w \o v \o CoverageColumns
    BY <1>2, <1>3 DEF TickCoreRow, Machine, System
  <2>2. Before = Machine(t \o System)
    BY <1>1, <1>3, <1>5, UsageParts DEF Before
  <2> QED
    BY <1>3, <2>1, <2>2 DEF CoreRow
<1> QED
  BY <1>4, <1>5

\* What the header has a column for
Has(s, x) == \E k \in DOMAIN s : s[k] = x

LEMMA HasEither ==
  ASSUME NEW W, NEW s \in Seq(W), NEW t \in Seq(W), NEW x, Has(s, x)
  PROVE  s \o t \in Seq(W) /\ Len(s \o t) = Len(s) + Len(t) /\ Has(s \o t, x)
<1>1. PICK k \in 1 .. Len(s) : s[k] = x
  BY DEF Has
<1>2. /\ s \o t \in Seq(W) /\ Len(s \o t) = Len(s) + Len(t)
      /\ \A i \in 1 .. Len(s) : (s \o t)[i] = s[i]
  BY ConcatProperties
<1>3. k \in DOMAIN (s \o t) /\ (s \o t)[k] = x
  BY <1>1, <1>2
<1> QED
  BY <1>2, <1>3 DEF Has

LEMMA CoreRowTyped ==
  ASSUME host \in Hosts, NEW c \in CoresWithCounters
  PROVE  /\ CoreRow(c) \in Seq(Columns) /\ Has(CoreRow(c), "core")
         /\ Len(CoreRow(c)) = Len(Before) + 1 + Len(If(flags.freq, <<"core_freq_mhz">>))
                                + Len(HeaderOf(Lists(c))) + Len(HeaderOf(WholeRun)) + Len(CoverageColumns)
         /\ Len(Before) \in Nat /\ Len(If(flags.freq, <<"core_freq_mhz">>)) \in Nat
         /\ Len(HeaderOf(Lists(c))) \in Nat /\ Len(HeaderOf(WholeRun)) \in Nat /\ Len(CoverageColumns) \in Nat
<1>1. PICK W : W = Columns
  OBVIOUS
<1>2. PerCoreCsv
  BY DEF PerCoreCsv
<1>3. PICK b \in Seq(W) : b = Before
  BY <1>1, HeaderParts
<1>4. PICK k \in Seq(W) : k = <<"core">> /\ Len(k) = 1 /\ k[1] = "core"
  <2>1. <<"core">> \in Seq(W)
    BY <1>1, <1>2, PartsTyped
  <2> QED
    BY <2>1
<1>5. PICK f \in Seq(W) : f = If(flags.freq, <<"core_freq_mhz">>)
  BY <1>1, PartsTyped
<1>6. PICK h1 \in Seq(W), h2 \in Seq(W) : h1 = HeaderOf(Lists(c)) /\ h2 = HeaderOf(WholeRun)
  BY <1>1, RowHeaders, PartsTyped, WiderSeq
<1>7. PICK v \in Seq(W) : v = CoverageColumns
  BY <1>1, PartsTyped
<1>8. CoreRow(c) = ((((b \o k) \o f) \o h1) \o h2) \o v
  BY <1>3, <1>4, <1>5, <1>6, <1>7 DEF CoreRow
<1>9. b \o k \in Seq(W) /\ Len(b \o k) = Len(b) + 1 /\ Has(b \o k, "core")
  <2>1. /\ b \o k \in Seq(W) /\ Len(b \o k) = Len(b) + Len(k)
        /\ \A i \in 1 .. Len(k) : (b \o k)[Len(b) + i] = k[i]
    BY ConcatProperties
  <2>2. (b \o k)[Len(b) + 1] = "core" /\ Len(b) + 1 \in DOMAIN (b \o k)
    BY <1>4, <2>1
  <2> QED
    BY <1>4, <2>1, <2>2 DEF Has
<1>10. (b \o k) \o f \in Seq(W) /\ Len((b \o k) \o f) = Len(b) + 1 + Len(f) /\ Has((b \o k) \o f, "core")
  BY <1>9, HasEither
<1>11. PICK x \in Seq(W) : x = (b \o k) \o f /\ Len(x) = Len(b) + 1 + Len(f) /\ Has(x, "core")
  BY <1>10
<1>12. x \o h1 \in Seq(W) /\ Len(x \o h1) = Len(x) + Len(h1) /\ Has(x \o h1, "core")
  BY <1>11, HasEither
<1>13. PICK y \in Seq(W) : y = x \o h1 /\ Len(y) = Len(x) + Len(h1) /\ Has(y, "core")
  BY <1>12
<1>14. y \o h2 \in Seq(W) /\ Len(y \o h2) = Len(y) + Len(h2) /\ Has(y \o h2, "core")
  BY <1>13, HasEither
<1>15. PICK z \in Seq(W) : z = y \o h2 /\ Len(z) = Len(y) + Len(h2) /\ Has(z, "core")
  BY <1>14
<1>16. z \o v \in Seq(W) /\ Len(z \o v) = Len(z) + Len(v) /\ Has(z \o v, "core")
  BY <1>15, HasEither
<1>17. CoreRow(c) = z \o v
  BY <1>8, <1>11, <1>13, <1>15
<1>18. Len(CoreRow(c)) = Len(b) + 1 + Len(f) + Len(h1) + Len(h2) + Len(v)
  BY <1>11, <1>13, <1>15, <1>16, <1>17
<1> QED
  BY <1>1, <1>3, <1>5, <1>6, <1>7, <1>16, <1>17, <1>18

\* RowsWhole of the row of a core
LEMMA CoreRowWhole ==
  ASSUME host \in Hosts, NEW c \in CoresWithCounters
  PROVE  CoreRow(c) = Header \/ (~SameGroups /\ Len(CoreRow(c)) # Len(Header))
<1>1. Header = CoreRow(FirstCore) /\ FirstCore \in CoresWithCounters
  BY CoresAre, HeaderParts DEF PerCoreCsv
<1>2. CASE GroupsOf(Lists(c)) = GroupsOf(Lists(FirstCore))
  <2>1. HeaderOf(Lists(c)) = HeaderOf(Lists(FirstCore))
    BY <1>2, RowHeaders
  <2> QED
    BY <1>1, <2>1 DEF CoreRow
<1>3. CASE GroupsOf(Lists(c)) # GroupsOf(Lists(FirstCore))
  <2>1. ~SameGroups
    BY <1>3 DEF SameGroups
  <2>2. Len(HeaderOf(Lists(c))) # Len(HeaderOf(Lists(FirstCore)))
    BY <1>1, <1>3, CoresDiffer
  <2>3. Len(CoreRow(c)) # Len(CoreRow(FirstCore))
    BY <1>1, <2>2, CoreRowTyped
  <2> QED
    BY <1>1, <2>1, <2>3
<1> QED
  BY <1>2, <1>3

\* The header has a column of the core, or of the phase, only if the rows have.
LEMMA HeaderIs ==
  ASSUME host \in Hosts
  PROVE  /\ Header \in Seq(Columns)
         /\ (Has(Header, "core") <=> PerCoreCsv)
         /\ Has(Header, "phase") => ~PerCoreCsv
<1>1. Header \in Seq(Columns)
  <2>1. CASE PerCoreCsv
    BY <2>1, HeaderParts, CoresAre, CoreRowTyped
  <2>2. CASE ~PerCoreCsv
    <3>1. HeaderOf(WholeRun) \in Seq(Columns) /\ CoverageColumns \in Seq(Columns) /\ Before \in Seq(Columns)
      BY RowHeaders, PartsTyped, WiderSeq, HeaderParts
    <3>2. Before \o HeaderOf(WholeRun) \in Seq(Columns)
      BY <3>1, ConcatProperties
    <3>3. (Before \o HeaderOf(WholeRun)) \o CoverageColumns \in Seq(Columns)
      BY <3>1, <3>2, ConcatProperties
    <3> QED
      BY <2>2, <3>3, HeaderParts
  <2> QED
    BY <2>1, <2>2
<1>2. ASSUME NEW x, Has(Header, x) PROVE x \in Columns
  BY <1>1, <1>2, Element DEF Has
<1>3. ASSUME Has(Header, "core") PROVE PerCoreCsv
  BY <1>2, <1>3, PlainColumns DEF Columns
<1>4. ASSUME PerCoreCsv PROVE Has(Header, "core")
  BY <1>4, HeaderParts, CoresAre, CoreRowTyped
<1>5. ASSUME Has(Header, "phase") PROVE ~PerCoreCsv
  BY <1>2, <1>5, PlainColumns, CoresAre DEF Columns
<1> QED
  BY <1>1, <1>3, <1>4, <1>5

-----------------------------------------------------------------------------
(* The rows as they are printed. *)

\* Once the options are read, what the rows are made of stays.
RowsKept ==
  /\ CoresWithCounters' = CoresWithCounters /\ FirstCore' = FirstCore
  /\ Header' = Header /\ Columns' = Columns
  /\ (PerCoreCsv' <=> PerCoreCsv) /\ (SameGroups' <=> SameGroups)

LEMMA OptionsKeep ==
  ASSUME UNCHANGED <<host, request, flags>>
  PROVE  RowsKept
<1>1. CoresWithCounters' = CoresWithCounters
  BY DEF CoresWithCounters, Lists
<1>2. FirstCore' = FirstCore
  BY <1>1 DEF FirstCore
<1>3. (PerCoreCsv' <=> PerCoreCsv) /\ (PhaseEnabled' <=> PhaseEnabled)
  BY <1>1 DEF PerCoreCsv, PhaseEnabled
<1>4. ASSUME NEW g PROVE GroupHeader(g)' = GroupHeader(g)
  BY DEF GroupHeader, BranchColumns, CacheColumns, IbsColumns, IbsSampleColumns, SoftwareColumns,
         TopdownColumns, TopdownBeColumns, IpcColumns, FrontendColumns, OpColumns, L2Columns, L3Columns,
         MemoryColumns, OpcacheColumns, FloatColumns, ArmMemColumns, ArmIcacheColumns, ArmDcacheColumns,
         PowerColumns, PowerCoreColumns
<1>5. ASSUME NEW list PROVE HeaderOf(list)' = HeaderOf(list)
  <2>1. [i \in 1..Len(list) |-> GroupHeader(list[i][1].group)]' =
          [i \in 1..Len(list) |-> GroupHeader(list[i][1].group)]
    BY <1>4
  <2> QED
    BY <2>1 DEF HeaderOf
<1>6. \A c : Lists(c)' = Lists(c)
  BY DEF Lists
<1>7. HeaderOf(WholeRun)' = HeaderOf(WholeRun) /\ HeaderOf(Lists(FirstCore))' = HeaderOf(Lists(FirstCore))
  <2>1. PICK x, y : x = WholeRun /\ y = Lists(FirstCore)
    OBVIOUS
  <2>2. WholeRun' = x /\ Lists(FirstCore)' = y
    BY <1>2, <2>1 DEF WholeRun, Lists
  <2>3. HeaderOf(x)' = HeaderOf(x) /\ HeaderOf(y)' = HeaderOf(y)
    BY <1>5
  <2> QED
    BY <2>1, <2>2, <2>3 DEF HeaderOf, GroupHeader
<1>8. Header' = Header
  BY ZenonT(40), <1>3, <1>7 DEF Header, If
<1>9. Columns' = Columns
  BY <1>3 DEF Columns
<1>10. SameGroups' <=> SameGroups
  BY <1>1, <1>2 DEF SameGroups, Lists, GroupsOf
<1> QED
  BY <1>1, <1>2, <1>3, <1>8, <1>9, <1>10 DEF RowsKept

\* The last row is the header's, or tells that it is not; the next is of a core that has
\* counters, or of the run.
RowInv ==
  /\ stage \in {"setup", "header", "running", "tick", "last", "done"}
  /\ stage \in {"setup", "header"} => row = <<>>
  /\ stage \notin {"setup", "header"} => header = Header
  /\ stage = "tick" => flags.interval
  /\ stage \in {"tick", "last"} => core \in CoresWithCounters \/ (~PerCoreCsv /\ core = NumCores)
  /\ RowsWhole

\* A row that is printed, and what it leaves behind
LEMMA PrintedIs ==
  ASSUME NEW columns, NEW gs, NEW me, Printed(columns, gs, me)
  PROVE  row' = columns /\ divided'.row = me
<1>1. row' = columns
  BY DEF Printed
<1>2. CASE "topdown_be" \in {gs[i] : i \in DOMAIN gs}
  <2>1. divided' = [by |-> DivisorIn(gs, me), row |-> me]
    BY <1>2 DEF Printed
  <2> QED
    BY <1>1, <2>1
<1>3. CASE "topdown_be" \notin {gs[i] : i \in DOMAIN gs}
  <2>1. divided' = [by |-> NoSlots, row |-> me]
    BY <1>3 DEF Printed
  <2> QED
    BY <1>1, <2>1
<1> QED
  BY <1>2, <1>3

\* Which rows there are
LEMMA RowsOfCores ==
  ASSUME host \in Hosts, RowInv, PrintCoreRow
  PROVE  /\ core \in CoresWithCounters /\ row' = CoreRow(core) /\ divided'.row = Reading(core)
         /\ UNCHANGED <<host, request, flags, header, reading>> /\ stage \in {"tick", "last"}
         /\ core' \in CoresWithCounters \cup {NumCores}
         /\ stage' = IF core' < NumCores THEN stage ELSE IF stage = "tick" THEN "running" ELSE "done"
<1>1. /\ stage \in {"tick", "last"} /\ core < NumCores
      /\ Printed(IF stage = "tick" THEN TickCoreRow(core) ELSE LastCoreRow(core),
                 GroupsOf(Lists(core)) \o GroupsOf(WholeRun), Reading(core))
      /\ core' = CoreAfter(core)
      /\ UNCHANGED <<host, request, flags, header, reading>>
  BY DEF PrintCoreRow, setupVars
<1>2. core \in CoresWithCounters
  BY <1>1, CoresAre DEF RowInv
<1>3. row' = (IF stage = "tick" THEN TickCoreRow(core) ELSE LastCoreRow(core)) /\ divided'.row = Reading(core)
  BY <1>1, PrintedIs
<1>4. row' = CoreRow(core)
  <2>1. LastCoreRow(core) = CoreRow(core) /\ (flags.interval => TickCoreRow(core) = CoreRow(core))
    BY <1>2, CoreRowsAre
  <2>2. CASE stage = "tick"
    BY <1>3, <2>1, <2>2 DEF RowInv
  <2>3. CASE stage # "tick"
    BY <1>3, <2>1, <2>3
  <2> QED
    BY <2>2, <2>3
<1>5. core' \in CoresWithCounters \cup {NumCores}
  BY <1>1, <1>2, CoresAre
<1>6. stage' = IF core' < NumCores THEN stage ELSE IF stage = "tick" THEN "running" ELSE "done"
  BY <1>1 DEF PrintCoreRow
<1> QED
  BY <1>1, <1>2, <1>3, <1>4, <1>5, <1>6

LEMMA RowsOfRun ==
  ASSUME host \in Hosts, RowInv, PrintRow
  PROVE  /\ ~PerCoreCsv /\ core = NumCores /\ row' = Header /\ divided'.row = Reading(NumCores)
         /\ UNCHANGED <<host, request, flags, header, core, reading>> /\ stage \in {"tick", "last"}
         /\ stage' = IF stage = "tick" THEN "running" ELSE "done"
<1>1. /\ stage \in {"tick", "last"} /\ core = NumCores
      /\ Printed(IF stage = "tick" THEN TickRow ELSE LastRow, GroupsOf(WholeRun), Reading(NumCores))
      /\ stage' = IF stage = "tick" THEN "running" ELSE "done"
      /\ UNCHANGED <<host, request, flags, header, core, reading>>
  BY DEF PrintRow, setupVars
<1>2. ~PerCoreCsv
  BY <1>1, CoresAre DEF RowInv
<1>3. row' = (IF stage = "tick" THEN TickRow ELSE LastRow) /\ divided'.row = Reading(NumCores)
  BY <1>1, PrintedIs
<1>4. row' = Header
  <2>1. LastRow = Header /\ (flags.interval => TickRow = Header)
    BY <1>2, RunRowsAre
  <2>2. CASE stage = "tick"
    BY <1>3, <2>1, <2>2 DEF RowInv
  <2>3. CASE stage # "tick"
    BY <1>3, <2>1, <2>3
  <2> QED
    BY <2>2, <2>3
<1> QED
  BY <1>1, <1>2, <1>3, <1>4

LEMMA RowStep ==
  ASSUME host \in Hosts, RowInv, [FeatureNext]_allVars
  PROVE  RowInv'
<1>1. CASE Setup \/ PrintHeader
  <2>1. stage' \in {"setup", "header"} /\ row' = <<>>
    BY <1>1 DEF Setup, PrintHeader, rowVars, RowInv
  <2> QED
    BY <2>1 DEF RowInv, RowsWhole
<1>2. CASE Launch
  <2>1. /\ stage = "header" /\ stage' = "running" /\ header' = Header /\ row' = row
        /\ UNCHANGED <<host, request, flags>>
    BY <1>2 DEF Launch, setupVars
  <2>2. RowsKept
    BY <2>1, OptionsKeep
  <2>3. row' = <<>> /\ header' = Header'
    BY <2>1, <2>2 DEF RowInv, RowsKept
  <2> QED
    BY <2>1, <2>3 DEF RowInv, RowsWhole
<1>3. CASE Tick \/ ChildExits
  <2>1. /\ stage = "running" /\ stage' \in {"tick", "last"} /\ (stage' = "tick" => flags.interval)
        /\ core' = (IF PerCoreCsv THEN FirstCore ELSE NumCores)
        /\ UNCHANGED <<host, request, flags, header, row>>
    BY <1>3 DEF Tick, ChildExits, setupVars
  <2>2. RowsKept
    BY <2>1, OptionsKeep
  <2>3. core' \in CoresWithCounters' \/ (~PerCoreCsv' /\ core' = NumCores)
    <3>1. CASE PerCoreCsv
      BY <2>1, <2>2, <3>1, CoresAre DEF RowsKept
    <3>2. CASE ~PerCoreCsv
      BY <2>1, <2>2, <3>2 DEF RowsKept
    <3> QED
      BY <3>1, <3>2
  <2>4. RowsWhole' /\ header' = Header'
    BY <2>1, <2>2 DEF RowInv, RowsWhole, RowsKept
  <2> QED
    BY <2>1, <2>3, <2>4 DEF RowInv
<1>4. CASE PrintCoreRow
  <2>1. /\ core \in CoresWithCounters /\ row' = CoreRow(core) /\ divided'.row = Reading(core)
        /\ UNCHANGED <<host, request, flags, header, reading>> /\ stage \in {"tick", "last"}
        /\ core' \in CoresWithCounters \cup {NumCores}
        /\ stage' = IF core' < NumCores THEN stage ELSE IF stage = "tick" THEN "running" ELSE "done"
    BY <1>4, RowsOfCores
  <2>2. RowsKept
    BY <2>1, OptionsKeep
  <2>3. RowsWhole' /\ header' = Header'
    <3>1. CoreRow(core) = Header \/ (~SameGroups /\ Len(CoreRow(core)) # Len(Header))
      BY <2>1, CoreRowWhole
    <3>2. header = Header
      BY <2>1 DEF RowInv
    <3> QED
      BY <2>1, <2>2, <3>1, <3>2 DEF RowsWhole, RowsKept
  <2>4. CASE core' < NumCores
    <3>1. core' \in CoresWithCounters' /\ stage' = stage
      BY <2>1, <2>2, <2>4, CoresAre DEF RowsKept
    <3> QED
      BY <2>1, <2>3, <3>1 DEF RowInv
  <2>5. CASE ~(core' < NumCores)
    <3>1. stage' \in {"running", "done"}
      BY <2>1, <2>5
    <3> QED
      BY <2>3, <3>1 DEF RowInv
  <2> QED
    BY <2>4, <2>5
<1>5. CASE PrintRow
  <2>1. /\ row' = Header /\ UNCHANGED <<host, request, flags, header, core, reading>>
        /\ stage \in {"tick", "last"} /\ stage' = IF stage = "tick" THEN "running" ELSE "done"
    BY <1>5, RowsOfRun
  <2>2. RowsKept
    BY <2>1, OptionsKeep
  <2>3. RowsWhole' /\ header' = Header'
    BY <2>1, <2>2 DEF RowInv, RowsWhole, RowsKept
  <2>4. stage' \in {"running", "done"}
    BY <2>1
  <2> QED
    BY <2>3, <2>4 DEF RowInv
<1>6. CASE PrintNothing \/ Ingest \/ Extract \/ UNCHANGED allVars
  <2>1. /\ UNCHANGED <<host, request, flags, header, row, core>>
        /\ stage' = stage \/ (stage = "tick" /\ stage' = "running")
    BY <1>6 DEF PrintNothing, Ingest, Extract, allVars, vars, rowVars, setupVars
  <2>2. RowsKept
    BY <2>1, OptionsKeep
  <2>3. RowsWhole'
    BY <2>1, <2>2 DEF RowInv, RowsWhole, RowsKept
  <2> QED
    BY <2>1, <2>2, <2>3 DEF RowInv, RowsKept
<1> QED
  BY <1>1, <1>2, <1>3, <1>4, <1>5, <1>6 DEF FeatureNext, Run, Next

LEMMA RowInit ==
  ASSUME FeatureInit
  PROVE  RowInv
  BY DEF FeatureInit, Init, RowInv, RowsWhole

\* RowsWhole, for any machines, requests and options: a value always stands under its
\* own column, or its row has another number of columns than the header.
THEOREM RowsAreWhole == FeatureSpec => []RowsWhole
<1>1. FeatureInit => GroupedInv /\ RowInv
  BY GroupedInit, RowInit
<1>2. GroupedInv /\ RowInv /\ [FeatureNext]_allVars => GroupedInv' /\ RowInv'
  BY GroupedStep, RowStep DEF GroupedInv
<1>3. RowInv => RowsWhole
  BY DEF RowInv
<1> QED
  BY <1>1, <1>2, <1>3, PTL DEF FeatureSpec

-----------------------------------------------------------------------------
(* The file of the rows, and the features made of it. *)

CsvRow == [columns : Seq(Columns), core : CoresWithCounters \cup {NumCores}, reading : Nat]

\* The rows in the order of the readings
Ordered ==
  /\ \A i \in 1 .. Len(csv) : csv[i].reading <= reading
  /\ \A i \in 1 .. Len(csv) : stage \in {"tick", "last"} => csv[i].reading < reading
  /\ \A i, j \in 1 .. Len(csv) : i < j => csv[i].reading < csv[j].reading

\* A metric value is of a row of the file, and of the core of that row where the header
\* has one.
Taken(v) ==
  /\ v.row \in 1 .. Len(csv)
  /\ Has(header, "core") => v.core = csv[v.row].core
  /\ ~Has(header, "core") => v.core = NoCore

FileInv ==
  /\ reading \in Nat
  /\ csv \in Seq(CsvRow)
  /\ PerCoreCsv => \A i \in 1 .. Len(csv) : csv[i].core \in CoresWithCounters
  /\ ~PerCoreCsv => Ordered
  /\ stage \in {"setup", "header"} => csv = <<>>
  /\ stage # "done" => metric_values = {} /\ features = NotIngested
  /\ \A v \in metric_values : Taken(v)
  /\ FeaturesComparable

LEMMA OneMore ==
  ASSUME NEW S, NEW s \in Seq(S), NEW e \in S
  PROVE  /\ Append(s, e) \in Seq(S) /\ Len(Append(s, e)) = Len(s) + 1 /\ Len(s) \in Nat
         /\ \A i \in 1 .. Len(s) : Append(s, e)[i] = s[i]
         /\ Append(s, e)[Len(s) + 1] = e
  BY AppendProperties

\* Of rows that are each of a reading of their own there are as many as readings.
LEMMA OnePerReading ==
  ASSUME csv \in Seq(CsvRow), \A i, j \in 1 .. Len(csv) : i < j => csv[i].reading < csv[j].reading,
         NEW q, q \subseteq 1 .. Len(csv)
  PROVE  Cardinality(Readings(q)) = Cardinality(q)
<1> DEFINE f == [i \in q |-> csv[i].reading]
<1>1. Len(csv) \in Nat /\ \A i \in 1 .. Len(csv) : csv[i].reading \in Nat
  <2>1. \A i \in 1 .. Len(csv) : csv[i] \in CsvRow
    BY Element
  <2>2. \A e \in CsvRow : e.reading \in Nat
    BY DEF CsvRow
  <2>3. Len(csv) \in Nat
    OBVIOUS
  <2> QED
    BY <2>1, <2>2, <2>3
<1>2. IsFiniteSet(q)
  <2>1. IsFiniteSet(1 .. Len(csv))
    BY <1>1, FS_Interval
  <2> QED
    BY <2>1, FS_Subset
<1>3. \A i, j \in q : csv[i].reading = csv[j].reading => i = j
  BY <1>1
<1>4. f \in Bijection(q, Readings(q))
  <2>1. f \in [q -> Readings(q)] /\ \A i \in q : f[i] = csv[i].reading
    BY DEF Readings
  <2>2. \A x \in Readings(q) : \E i \in q : f[i] = x
    BY <2>1 DEF Readings
  <2> HIDE DEF f
  <2> QED
    BY <1>3, <2>1, <2>2 DEF Bijection, Injection, Surjection, IsInjective
<1> HIDE DEF f
<1>5. ExistsBijection(q, Readings(q))
  BY <1>4 DEF ExistsBijection
<1> QED
  BY <1>2, <1>5, FS_Bijection

\* What extract_run_features() makes of the values of the file
LEMMA ExtractedComparable ==
  ASSUME host \in Hosts, RowInv, FileInv, stage = "done"
  PROVE  /\ LET q == Features.ipc_quantiles.over IN Cardinality(Readings(q)) = Cardinality(q)
         /\ LET q == Features.phase_stability.over IN Cardinality(Readings(q)) = Cardinality(q)
         /\ Features.active_core_count.over \subseteq CoresWithCounters
<1>1. /\ Features.ipc_quantiles = Quantiles("ipc") /\ Features.phase_stability = PhaseStability
      /\ Features.active_core_count = ActiveCoreCount
  <2> DEFINE O == OtherFeatures
  <2>1. /\ "ipc_quantiles" \in DOMAIN O /\ O.ipc_quantiles = Quantiles("ipc")
        /\ "phase_stability" \in DOMAIN O /\ O.phase_stability = PhaseStability
        /\ "active_core_count" \in DOMAIN O /\ O.active_core_count = ActiveCoreCount
    BY DEF OtherFeatures
  <2>2. ASSUME NEW f \in DOMAIN O PROVE Features[f] = O[f]
    BY DEF Features
  <2> HIDE DEF O
  <2> QED
    BY <2>1, <2>2
<1>2. header = Header /\ (Has(header, "core") <=> PerCoreCsv) /\ (Has(header, "phase") => ~PerCoreCsv)
  BY HeaderIs DEF RowInv
<1>3. ASSUME NEW v \in metric_values
      PROVE  /\ v.row \in 1 .. Len(csv) /\ v.core = (IF PerCoreCsv THEN csv[v.row].core ELSE NoCore)
             /\ PerCoreCsv => csv[v.row].core \in CoresWithCounters /\ v.core \in CoresWithCounters /\ v.core # NoCore
  <2>1. Taken(v)
    BY DEF FileInv
  <2>2. v.row \in 1 .. Len(csv) /\ v.core = (IF PerCoreCsv THEN csv[v.row].core ELSE NoCore)
    BY <1>2, <2>1 DEF Taken
  <2> QED
    BY <2>2, CoresAre DEF FileInv
<1>4. ASSUME NEW values, values \subseteq metric_values PROVE Rows(values) \subseteq 1 .. Len(csv)
  BY <1>3, <1>4 DEF Rows
<1>5. ASSUME NEW q, q \subseteq 1 .. Len(csv), PerCoreCsv => q = {}
      PROVE  Cardinality(Readings(q)) = Cardinality(q)
  <2>1. CASE PerCoreCsv
    <3>1. q = {} /\ Readings(q) = {}
      BY <1>5, <2>1 DEF Readings
    <3> QED
      BY <3>1
  <2>2. CASE ~PerCoreCsv
    <3>1. csv \in Seq(CsvRow) /\ \A i, j \in 1 .. Len(csv) : i < j => csv[i].reading < csv[j].reading
      BY <2>2 DEF FileInv, Ordered
    <3> QED
      BY <1>5, <3>1, OnePerReading
  <2> QED
    BY <2>1, <2>2
<1>6. LET q == Quantiles("ipc").over IN Cardinality(Readings(q)) = Cardinality(q)
  <2> DEFINE ticks == {v \in Of("ipc") : v.core = NoCore}
             q == Quantiles("ipc").over
  <2>1. q = Rows(ticks) \/ q = {}
    BY DEF Quantiles, Feature
  <2>2. ticks \subseteq metric_values /\ (PerCoreCsv => ticks = {})
    BY <1>3 DEF Of
  <2>3. Rows(ticks) \subseteq 1 .. Len(csv) /\ (PerCoreCsv => Rows(ticks) = {})
    BY <1>4, <2>2 DEF Rows
  <2> HIDE DEF ticks
  <2>4. q \subseteq 1 .. Len(csv) /\ (PerCoreCsv => q = {})
    BY <2>1, <2>3
  <2> HIDE DEF q
  <2>5. Cardinality(Readings(q)) = Cardinality(q)
    BY <1>5, <2>4
  <2> QED
    BY <2>5 DEF q
<1>7. LET q == PhaseStability.over IN Cardinality(Readings(q)) = Cardinality(q)
  <2> DEFINE ticks == IF "phase" \in {header[k] : k \in DOMAIN header} THEN Rows(metric_values) ELSE {}
             q == PhaseStability.over
  <2>1. q = ticks \/ q = {}
    BY DEF PhaseStability, Feature
  <2>2. Rows(metric_values) \subseteq 1 .. Len(csv)
    BY <1>4
  <2>3. ticks \subseteq 1 .. Len(csv) /\ (PerCoreCsv => ticks = {})
    <3>1. "phase" \in {header[k] : k \in DOMAIN header} => ~PerCoreCsv
      BY <1>2 DEF Has
    <3> QED
      BY <2>2, <3>1
  <2> HIDE DEF ticks
  <2>4. q \subseteq 1 .. Len(csv) /\ (PerCoreCsv => q = {})
    BY <2>1, <2>3
  <2> HIDE DEF q
  <2>5. Cardinality(Readings(q)) = Cardinality(q)
    BY <1>5, <2>4
  <2> QED
    BY <2>5 DEF q
<1>8. ActiveCoreCount.over \subseteq CoresWithCounters
  <2>1. CoresOf("ipc") \subseteq CoresWithCounters
    BY <1>3 DEF CoresOf, Of
  <2>2. ActiveCoreCount.over \in {CoresOf("ipc"), {}}
    BY DEF ActiveCoreCount, Feature
  <2> QED
    BY <2>1, <2>2
<1> QED
  BY <1>1, <1>6, <1>7, <1>8

LEMMA FileStep ==
  ASSUME host \in Hosts, RowInv, FileInv, [FeatureNext]_allVars
  PROVE  FileInv'
<1>1. CASE Run /\ (Setup \/ PrintHeader)
  <2>1. /\ stage = "setup" /\ stage' \in {"setup", "header"}
        /\ UNCHANGED <<reading, csv, metric_values, features>>
    BY <1>1 DEF Run, Setup, PrintHeader, rowVars
  <2>2. csv' = <<>> /\ metric_values' = {} /\ features' = NotIngested
    BY <2>1 DEF FileInv
  <2>3. csv' \in Seq(CsvRow)' /\ Len(csv') = 0
    BY <2>2
  <2>4. \A i : i \notin 1 .. Len(csv')
    BY <2>3
  <2> QED
    BY <2>1, <2>2, <2>3, <2>4 DEF FileInv, Ordered, FeaturesComparable
<1>2. ASSUME UNCHANGED <<host, request, flags, csv>>, FeaturesComparable', reading' \in Nat, reading <= reading',
             stage' \in {"tick", "last"} => reading < reading' \/ stage' = stage,
             stage \notin {"setup", "header"} => stage' \notin {"setup", "header"},
             stage = "setup" => stage' # "header",
             stage' # "done" => metric_values' = {} /\ features' = NotIngested,
             \A v \in metric_values' : Taken(v)'
      PROVE  FileInv'
  <2>1. RowsKept
    BY <1>2, OptionsKeep
  <2>2. CsvRow' = CsvRow
    BY <2>1 DEF CsvRow, RowsKept
  <2>3. csv' \in Seq(CsvRow')
    BY <1>2, <2>2 DEF FileInv
  <2>4. ASSUME ~PerCoreCsv PROVE Ordered'
    <3>1. Ordered
      BY <2>4 DEF FileInv
    <3>2. \A i \in 1 .. Len(csv) : csv[i].reading \in Nat
      <4>1. \A i \in 1 .. Len(csv) : csv[i] \in CsvRow
        BY Element DEF FileInv
      <4>2. \A e \in CsvRow : e.reading \in Nat
        BY DEF CsvRow
      <4> QED
        BY <4>1, <4>2
    <3> QED
      BY <1>2, <3>1, <3>2 DEF Ordered, FileInv
  <2>5. PerCoreCsv' => \A i \in 1 .. Len(csv') : csv'[i].core \in CoresWithCounters'
    BY <1>2, <2>1 DEF FileInv, RowsKept
  <2>6. stage' \in {"setup", "header"} => csv' = <<>>
    BY <1>2 DEF FileInv
  <2> QED
    BY <1>2, <2>1, <2>3, <2>4, <2>5, <2>6 DEF FileInv, RowsKept
<1>3. ASSUME UNCHANGED <<host, request, flags, csv, features>> PROVE FeaturesComparable'
  <2>1. RowsKept
    BY <1>3, OptionsKeep
  <2> QED
    BY <1>3, <2>1 DEF FileInv, FeaturesComparable, Readings, RowsKept
<1>4. CASE Run /\ (Launch \/ Tick \/ ChildExits \/ PrintNothing)
  <2>1. UNCHANGED <<host, request, flags, csv, metric_values, features>>
    BY <1>4 DEF Run, Launch, Tick, ChildExits, PrintNothing, setupVars
  <2>2. /\ reading' \in Nat /\ reading <= reading' /\ (stage' \in {"tick", "last"} => reading < reading')
        /\ stage \in {"header", "running", "tick"} /\ stage' \in {"running", "tick", "last"}
    BY <1>4 DEF Launch, Tick, ChildExits, PrintNothing, FileInv
  <2>3. metric_values' = {} /\ features' = NotIngested
    BY <2>1, <2>2 DEF FileInv
  <2> QED
    BY <1>2, <1>3, <2>1, <2>2, <2>3
<1>5. CASE Ingest \/ Extract \/ UNCHANGED allVars
  <2>1. /\ UNCHANGED <<host, request, flags, header, reading, stage, csv>>
        /\ reading \in Nat
    BY <1>5 DEF Ingest, Extract, allVars, featureVars, vars, rowVars, setupVars, FileInv
  <2>2. ASSUME NEW v, Taken(v) PROVE Taken(v)'
    BY <2>1, <2>2 DEF Taken
  <2>3. CASE Ingest
    <3>1. features' = NotIngested /\ metric_values' = MetricValues /\ stage = "done"
      BY <2>3 DEF Ingest
    <3>2. \A v \in MetricValues : Taken(v)
      BY DEF MetricValues, Cells, Taken, Has, FileInv
    <3>3. \A v \in metric_values' : Taken(v)'
      BY <2>2, <3>1, <3>2
    <3>4. FeaturesComparable'
      BY <3>1 DEF FeaturesComparable
    <3> QED
      BY <1>2, <2>1, <3>1, <3>3, <3>4
  <2>4. CASE Extract
    <3>1. features' = Features /\ metric_values' = metric_values /\ stage = "done"
      BY <2>4 DEF Extract
    <3>2. \A v \in metric_values' : Taken(v)'
      BY <2>2, <3>1 DEF FileInv
    <3>3. FeaturesComparable'
      <4>1. RowsKept
        BY <2>1, OptionsKeep
      <4>2. \A q : Readings(q)' = Readings(q)
        BY <2>1 DEF Readings
      <4> QED
        BY <3>1, <4>1, <4>2, ExtractedComparable DEF FeaturesComparable, RowsKept
    <3> QED
      BY <1>2, <2>1, <3>1, <3>2, <3>3
  <2>5. CASE UNCHANGED allVars
    <3>1. UNCHANGED <<csv, metric_values, features>>
      BY <2>5 DEF allVars, featureVars
    <3>2. \A v \in metric_values' : Taken(v)'
      BY <2>2, <3>1 DEF FileInv
    <3>3. FeaturesComparable'
      BY <1>3, <2>1, <3>1
    <3>4. stage' # "done" => metric_values' = {} /\ features' = NotIngested
      BY <2>1, <3>1 DEF FileInv
    <3> QED
      BY <1>2, <2>1, <3>2, <3>3, <3>4
  <2> QED
    BY <1>5, <2>3, <2>4, <2>5
<1>6. ASSUME Run, PrintCoreRow \/ PrintRow
      PROVE  FileInv'
  <2>1. PICK e : e = [columns |-> row', core |-> divided'.row.core, reading |-> reading]
    OBVIOUS
  <2>2. csv' \in {csv, Append(csv, e)} /\ UNCHANGED <<metric_values, features>>
    BY <1>6, <2>1 DEF Run
  <2>3. /\ UNCHANGED <<host, request, flags, header, reading>> /\ stage \in {"tick", "last"}
        /\ row' \in Seq(Columns) /\ divided'.row.core \in CoresWithCounters \cup {NumCores}
        /\ PerCoreCsv => divided'.row.core \in CoresWithCounters
        /\ stage' \notin {"setup", "header"}
        /\ ~PerCoreCsv => stage' \notin {"tick", "last"}
    <3>1. CASE PrintCoreRow
      <4>1. /\ core \in CoresWithCounters /\ row' = CoreRow(core) /\ divided'.row = Reading(core)
            /\ UNCHANGED <<host, request, flags, header, reading>> /\ stage \in {"tick", "last"}
            /\ stage' = IF core' < NumCores THEN stage ELSE IF stage = "tick" THEN "running" ELSE "done"
        BY <3>1, RowsOfCores
      <4>2. row' \in Seq(Columns) /\ PerCoreCsv
        BY <4>1, CoreRowTyped DEF PerCoreCsv
      <4>3. divided'.row.core = core
        BY <4>1 DEF Reading
      <4> QED
        BY <4>1, <4>2, <4>3
    <3>2. CASE PrintRow
      <4>1. /\ ~PerCoreCsv /\ row' = Header /\ divided'.row = Reading(NumCores)
            /\ UNCHANGED <<host, request, flags, header, reading>> /\ stage \in {"tick", "last"}
            /\ stage' = IF stage = "tick" THEN "running" ELSE "done"
        BY <3>2, RowsOfRun
      <4>2. row' \in Seq(Columns)
        BY <4>1, HeaderIs
      <4>3. divided'.row.core = NumCores
        BY <4>1 DEF Reading
      <4> QED
        BY <4>1, <4>2, <4>3
    <3> QED
      BY <1>6, <3>1, <3>2
  <2>4. RowsKept /\ CsvRow' = CsvRow
    <3>1. RowsKept
      BY <2>3, OptionsKeep
    <3> QED
      BY <3>1 DEF CsvRow, RowsKept
  <2>5. metric_values' = {} /\ features' = NotIngested
    BY <2>2, <2>3 DEF FileInv
  <2>6. csv \in Seq(CsvRow) /\ e \in CsvRow /\ reading \in Nat
        /\ e.reading = reading /\ e.core = divided'.row.core
    BY <2>1, <2>3 DEF FileInv, CsvRow
  <2>7. PICK n \in Nat : n = Len(csv)
    BY <2>6
  <2>8. CASE csv' = csv
    <3>1. ~PerCoreCsv => Ordered'
      BY <2>3, <2>8 DEF FileInv, Ordered
    <3>2. PerCoreCsv' => \A i \in 1 .. Len(csv') : csv'[i].core \in CoresWithCounters'
      BY <2>4, <2>8 DEF FileInv, RowsKept
    <3> QED
      BY <2>3, <2>4, <2>5, <2>6, <2>8, <3>1, <3>2 DEF FileInv, FeaturesComparable, RowsKept
  <2>9. CASE csv' = Append(csv, e)
    <3>1. /\ csv' \in Seq(CsvRow) /\ Len(csv') = n + 1
          /\ \A i \in 1 .. n : csv'[i] = csv[i]
          /\ csv'[n + 1] = e
      BY <2>6, <2>7, <2>9, OneMore
    <3>2. \A i \in 1 .. Len(csv') : (i \in 1 .. n /\ csv'[i] = csv[i]) \/ (i = n + 1 /\ csv'[i] = e)
      BY <3>1
    <3>3. PerCoreCsv' => \A i \in 1 .. Len(csv') : csv'[i].core \in CoresWithCounters'
      BY <2>3, <2>4, <2>6, <2>7, <3>2 DEF FileInv, RowsKept
    <3>4. ASSUME ~PerCoreCsv PROVE Ordered'
      <4>1. \A i \in 1 .. n : csv[i].reading < reading
        BY <2>3, <2>7, <3>4 DEF FileInv, Ordered
      <4>2. \A i \in 1 .. n : csv[i].reading \in Nat
        <5>1. \A i \in 1 .. n : csv[i] \in CsvRow
          BY <2>6, <2>7, Element
        <5>2. \A x \in CsvRow : x.reading \in Nat
          BY DEF CsvRow
        <5> QED
          BY <5>1, <5>2
      <4>3. \A i, j \in 1 .. n : i < j => csv[i].reading < csv[j].reading
        BY <2>7, <3>4 DEF FileInv, Ordered
      <4>4. \A i \in 1 .. Len(csv') : csv'[i].reading <= reading
        BY <2>6, <3>2, <4>1, <4>2
      <4>5. \A i, j \in 1 .. Len(csv') : i < j => csv'[i].reading < csv'[j].reading
        BY <2>6, <3>1, <3>2, <4>1, <4>3
      <4> QED
        BY <2>3, <3>4, <4>4, <4>5 DEF Ordered
    <3> QED
      BY <2>3, <2>4, <2>5, <2>6, <3>1, <3>3, <3>4 DEF FileInv, FeaturesComparable, RowsKept
  <2> QED
    BY <2>2, <2>8, <2>9
<1> QED
  BY <1>1, <1>4, <1>5, <1>6 DEF FeatureNext, Run, Next

LEMMA FileInit ==
  ASSUME FeatureInit
  PROVE  FileInv
<1>1. csv = <<>> /\ reading = 0 /\ metric_values = {} /\ features = NotIngested /\ stage = "setup"
  BY DEF FeatureInit, Init
<1>2. <<>> \in Seq(CsvRow) /\ \A i : i \notin 1 .. Len(<<>>)
  OBVIOUS
<1> QED
  BY <1>1, <1>2 DEF FileInv, Ordered, FeaturesComparable

\* FeaturesComparable, for any machines, requests and options: a quantile is over one
\* value of each reading, and the spread over the cores has the cores that were counted.
THEOREM FeaturesCompare == FeatureSpec => []FeaturesComparable
<1>1. FeatureInit => GroupedInv /\ RowInv /\ FileInv
  BY GroupedInit, RowInit, FileInit
<1>2. GroupedInv /\ RowInv /\ FileInv /\ [FeatureNext]_allVars => GroupedInv' /\ RowInv' /\ FileInv'
  BY GroupedStep, RowStep, FileStep DEF GroupedInv
<1>3. FileInv => FeaturesComparable
  BY DEF FileInv
<1> QED
  BY <1>1, <1>2, <1>3, PTL DEF FeatureSpec
=============================================================================
