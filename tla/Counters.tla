------------------------------- MODULE Counters -------------------------------
(***************************************************************************)
(* Opening the counters of a run (setup_counter_groups, setup_counters).   *)
(* The requested counter groups of wspy become lists of counters, one list *)
(* per core with --per-core and one for the whole run; the lists are gone  *)
(* through in order, and each counter is opened either as the leader of a  *)
(* new perf group or as a member of the last leader's.  The kernel refuses *)
(* a member with another target or another PMU than its leader's, and a    *)
(* group that needs more hardware counters than there are.                 *)
(***************************************************************************)
EXTENDS Integers, Sequences

CONSTANTS
  NumCores,
  Hosts,      \* the machines
  Requests,   \* the counter groups asked for, and whether --per-core is
  Process     \* the target "this process and its children"

Cores == 0..NumCores - 1
NoGroup == [target |-> Process, pmu |-> "none", size |-> 0]     \* group_id is -1
Vendors == {"amd", "intel", "arm"}

ASSUME CountersAssumption ==
  /\ NumCores \in Nat \ {0}
  /\ Process \notin Cores
  /\ \A h \in Hosts : /\ h.vendor \in Vendors /\ h.budget \in {5, 6} /\ h.ibs \in Nat
                       /\ h.power \in {"pmu", "sysfs", "none"}

VARIABLES
  host, request,
  at,        \* what to open next: the list, the counter group in it, the counter in that
  group,     \* the perf group open for members: group_id and what the kernel knows of it
  refused    \* the counter groups with a counter that had no place in its perf group

setupVars == <<host, request, at, group, refused>>

-----------------------------------------------------------------------------
(* The event tables: how many events each counter group has on which core. *)

AmdEvents ==
  [ipc |-> 3, topdown |-> 6, topdown2 |-> 12, topdown_be |-> 0, topdown_fe |-> 6, topdown_op |-> 5,
   branch |-> 9, l2 |-> 6, l3 |-> 1, memory |-> 0, opcache |-> 3, float |-> 6,
   arm_mem_align_tlb |-> 0, arm_icache_tlb |-> 0, arm_dcache_mem |-> 0]

IntelEvents ==
  [AmdEvents EXCEPT !.ipc = 2, !.topdown = 5, !.topdown2 = 9, !.topdown_be = 6, !.topdown_fe = 0,
                    !.topdown_op = 0, !.branch = 5, !.l2 = 3, !.l3 = 0, !.opcache = 0, !.float = 0]

AtomEvents == [IntelEvents EXCEPT !.topdown2 = 5, !.topdown_be = 0]

ArmEvents ==
  [IntelEvents EXCEPT !.topdown2 = 10, !.topdown_be = 3, !.topdown_fe = 1, !.branch = 7,
                      !.memory = 2, !.arm_mem_align_tlb = 5, !.arm_icache_tlb = 4,
                      !.arm_dcache_mem = 5]

\* requires=<path>: events of a PMU or a NUMA node the machine may not have
AmdAvailable(h) ==
  [AmdEvents EXCEPT !.l3 = IF h.l3 THEN @ + 2 ELSE @, !.memory = IF h.node1 THEN 4 ELSE 0]

\* The table is that of the vendor, or of the core when the list is for an E-core.
Events(h, class) ==
  IF h.vendor = "amd" THEN AmdAvailable(h)
  ELSE IF h.vendor = "arm" THEN ArmEvents
  ELSE IF class = "atom" THEN AtomEvents ELSE IntelEvents

CacheEvents == [dcache |-> 2, icache |-> 2, tlb |-> 4]
CacheGroups == DOMAIN CacheEvents

-----------------------------------------------------------------------------
(* The counters of a group. *)

Counter(g, pmu, leader, wide) ==
  [group |-> g, pmu |-> pmu, leader |-> leader, wide |-> wide]

\* slip: one group however many counters there are
Unchunked(h, i) == i = 1

StartsChunk(h, i) == (i - 1) % h.budget = 0

IsL3(g, i) == g = "l3" /\ i > 1

\* raw_counter_group(): chunks of as many events as there are hardware counters;
\* an event of another PMU is alone; Intel's slots events all go with the first.
RawGroup(h, class, g) ==
  [i \in 1..Events(h, class)[g] |->
     IF h.vendor = "intel" /\ class # "atom" /\ g \in {"topdown", "topdown2"}
     THEN Counter(g, "slots", i = 1, FALSE)
     ELSE Counter(g, IF IsL3(g, i) THEN "l3" ELSE "core", StartsChunk(h, i) \/ IsL3(g, i), IsL3(g, i))]

\* cache_counter_group(): the events of the requested caches, and the instructions
CacheGroup(h, groups) ==
  LET Of(cache) == IF cache \in groups THEN CacheEvents[cache] ELSE 0 IN
  [i \in 1..1 + Of("dcache") + Of("icache") + Of("tlb") |-> Counter("cache", "core", StartsChunk(h, i), FALSE)]

SoftwareGroup == [i \in 1..9 |-> Counter("software", "software", FALSE, FALSE)]

IbsGroup(h, g) == [i \in 1..h.ibs |-> Counter(g, "ibs", TRUE, TRUE)]

PowerGroup(h) ==
  CASE h.power = "pmu" -> <<Counter("power", "power", TRUE, TRUE)>>
    [] h.power = "sysfs" -> <<Counter("power", "file", TRUE, FALSE)>>
    [] h.power = "none" -> <<>>

PowerCoreGroup(h, c) ==
  <<Counter("power_core", IF c \in h.powerCores THEN "power" ELSE "none", TRUE, FALSE)>>

-----------------------------------------------------------------------------
(* The lists. *)

\* slip: a list with the memory-bound levels first
BeFirstOrder ==
  <<"ipc", "topdown_be", "topdown", "topdown2", "topdown_fe", "topdown_op", "branch", "l2", "l3",
    "memory", "opcache", "float", "arm_mem_align_tlb", "arm_icache_tlb", "arm_dcache_mem">>

\* The order of a list; print_topdown_be() must come after print_topdown().
RawOrder ==
  <<"ipc", "topdown", "topdown2", "topdown_be", "topdown_fe", "topdown_op", "branch", "l2", "l3",
    "memory", "opcache", "float", "arm_mem_align_tlb", "arm_icache_tlb", "arm_dcache_mem">>

\* A group is linked to the list if it has any counters.
Existing(groups) ==
  LET linked[i \in 0..Len(groups)] ==
        IF i = 0 THEN <<>>
        ELSE IF groups[i] = <<>> THEN linked[i - 1] ELSE Append(linked[i - 1], groups[i])
  IN linked[Len(groups)]

\* setup_counter_groups(): a sequence of groups, each the sequence of its counters
CounterGroups(h, r, class) ==
  LET raw == [i \in 1..Len(RawOrder) |->
                IF RawOrder[i] \in r.groups THEN RawGroup(h, class, RawOrder[i]) ELSE <<>>]
      cache == IF r.groups \cap CacheGroups # {} THEN CacheGroup(h, r.groups) ELSE <<>>
  IN Existing(Append(raw, cache))

Requested(r, g, counters) == IF g \in r.groups THEN counters ELSE <<>>

HasPowerCore(h, r) == "power" \in r.groups /\ h.powerCores # {}

\* core_specific_counters of core c
CoreList(h, r, c) ==
  IF ~r.percore \/ c \notin h.usable THEN <<>>
  ELSE (IF HasPowerCore(h, r) THEN <<PowerCoreGroup(h, c)>> ELSE <<>>)
         \o CounterGroups(h, r, h.class[c])

\* systemwide_counters
SystemList(h, r) ==
  Existing(<<Requested(r, "power", PowerGroup(h)), Requested(r, "ibs_sample", IbsGroup(h, "ibs_sample")),
             Requested(r, "ibs", IbsGroup(h, "ibs")), Requested(r, "software", SoftwareGroup)>>)
    \o (IF r.percore THEN <<>> ELSE CounterGroups(h, r, "unknown"))

\* The calls of setup_counters(): for each core, and for the whole run
NumLists == NumCores + 1
ListAt(l) == IF l < NumLists THEN CoreList(host, request, l - 1) ELSE SystemList(host, request)

-----------------------------------------------------------------------------
(* setup_counters() *)

CountersOf(l, g) == ListAt(l)[g]
ToOpen == at[2] <= Len(ListAt(at[1]))
Current == CountersOf(at[1], at[2])[at[3]]
Advance ==
  at' = IF at[3] < Len(CountersOf(at[1], at[2])) THEN <<at[1], at[2], at[3] + 1>> ELSE <<at[1], at[2] + 1, 1>>

Target(c) ==
  IF at[1] < NumLists THEN at[1] - 1 ELSE IF c.wide THEN 0 ELSE Process

\* perf_event_open(2) with the fd of a leader
Fits(c, g) ==
  g # NoGroup =>
  /\ g.target = Target(c)
  /\ c.pmu = "software" \/ g.pmu = "software" \/ c.pmu = g.pmu
  /\ c.pmu = "core" => g.size < host.budget

Opened(c, g) ==
  IF g = NoGroup THEN [target |-> Target(c), pmu |-> c.pmu, size |-> 1]
  ELSE [g EXCEPT !.size = @ + 1, !.pmu = IF @ = "software" THEN c.pmu ELSE @]

\* is_group_leader: group_id = -1
GroupFor(c) == IF c.leader THEN NoGroup ELSE group

\* A power_core counter of a core without one, and the sysfs file for power,
\* have no part in the groups.
Skip ==
  /\ ToOpen /\ Current.pmu \in {"none", "file"}
  /\ Advance
  /\ UNCHANGED <<host, request, group, refused>>

Open ==
  LET c == Current
      g == GroupFor(c)
  IN
  /\ ToOpen /\ c.pmu \notin {"none", "file"}
  /\ Fits(c, g)
  /\ group' = Opened(c, g)
  /\ Advance
  /\ UNCHANGED <<host, request, refused>>

\* The kernel may refuse any counter; a failed leader leaves group_id at -1, and
\* the next counter to open leads.
FailToOpen ==
  LET c == Current
      g == GroupFor(c)
  IN
  /\ ToOpen /\ c.pmu \notin {"none", "file"}
  /\ group' = g
  /\ refused' = IF Fits(c, g) THEN refused ELSE refused \cup {c.group}
  /\ Advance
  /\ UNCHANGED <<host, request>>

\* The next call starts with group_id = -1.
NextList ==
  /\ at[1] < NumLists /\ ~ToOpen
  /\ at' = <<at[1] + 1, 1, 1>>
  /\ group' = NoGroup
  /\ UNCHANGED <<host, request, refused>>

SetupInit ==
  /\ host \in Hosts /\ request \in Requests
  /\ at = <<1, 1, 1>>
  /\ group = NoGroup
  /\ refused = {}

SetupStep == Skip \/ Open \/ FailToOpen \/ NextList

IsSetUp == at[1] = NumLists /\ ~ToOpen

-----------------------------------------------------------------------------
\* Whatever opens and whatever fails, no hardware counter is lost because it was
\* put in a perf group it cannot be a member of: with the leader of another list
\* or another PMU, or beyond the hardware counters there are.
HardwareGrouped == refused \subseteq {"software"}

=============================================================================
