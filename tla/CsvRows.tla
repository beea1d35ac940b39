------------------------------- MODULE CsvRows -------------------------------
(***************************************************************************)
(* The CSV of a run: one header, then the rows of each --interval tick and *)
(* of the end of the run, with --per-core one row per core.  Header, ticks *)
(* and last rows are printed by code of their own in three places, group   *)
(* by group; wspy-store and the viewers find a value by the position of    *)
(* its column in the header.                                               *)
(***************************************************************************)
EXTENDS Counters

CONSTANTS
  Flags,      \* the option sets that decide about columns
  NoSlots,
  MaxTicks    \* bound: ticks of the interval timer

VARIABLES
  stage,      \* what wspy is doing
  flags,
  header,     \* the columns of the header
  row,        \* the columns the values of the last printed row are for; <<>>: none yet
  core,       \* the core whose row is printed next
  reading,    \* how often the counters were read
  slots,      \* shared_slots_no_contention: the core and the reading it is from
  divided     \* the slots print_topdown_be() divided the values of the last row by

rowVars == <<stage, flags, header, row, core, reading, slots, divided>>
vars == <<setupVars, rowVars>>

-----------------------------------------------------------------------------
(* The columns of the counter groups (print_ipc() to print_power_core()). *)

TopdownColumns ==
  <<"retire", "frontend", "backend", "speculate", "confidence", "sanity", "contention_pct",
    "retire_ucode_pct", "retire_fastpath_pct", "frontend_latency_pct", "frontend_bandwidth_pct",
    "backend_cpu_pct", "backend_memory_pct", "spec_branch_pct", "spec_pipeline_pct">>

TopdownBeColumns ==
  <<"l1_bound", "l2_bound", "l3_bound", "dram_bound", "store_bound", "l1_bound_slots_pct",
    "l2_bound_slots_pct", "l3_bound_slots_pct", "dram_bound_slots_pct", "store_bound_slots_pct">>

BranchColumns ==
  CASE host.vendor = "arm" ->
         <<"branch miss", "br_immed_retired", "br_return_retired", "br_pred", "br_mis_pred">>
    [] host.vendor = "amd" ->
         <<"branch miss", "near_return", "near_return_mispredicted", "indirect_branch_mispredicted">>
    [] host.vendor = "intel" -> <<"branch miss">>

CacheColumns ==
  Requested(request, "dcache", <<"L1-dcache miss">>) \o Requested(request, "icache", <<"L1-icache miss">>)
    \o Requested(request, "tlb", <<"dTLB miss", "iTLB miss">>)

SoftwareColumns ==
  <<"cpu-clock", "task-clock", "page faults", "context switches", "cpu migrations",
    "major page faults", "minor page faults", "alignment faults", "emulation faults">>

\* ibs-memory-deep also counts unfiltered operations
IbsColumns ==
  <<"ibs_fetch", "ibs_op">>
    \o IF flags.deep THEN <<"ibs_op_unfiltered", "ibs_op_accepted_ratio", "ibs_l3missonly",
                            "ibs_ldlat_threshold", "ibs_fetchlat_threshold">> ELSE <<>>

IbsSampleColumns ==
  <<"ibs_sample_fetch_count", "ibs_sample_ic_miss_rate", "ibs_sample_l1tlb_miss_rate",
    "ibs_sample_l2tlb_miss_rate", "ibs_sample_op_count", "ibs_sample_dc_miss_rate",
    "ibs_sample_dc_l1tlb_miss_rate", "ibs_sample_dc_l2tlb_miss_rate", "ibs_sample_brn_misp_rate",
    "ibs_sample_lost", "ibs_sample_dram_rate", "ibs_sample_remote_node_rate">>

IpcColumns == <<"ipc">>
FrontendColumns == <<"icache", "itlb1", "itlb2", "tlbflush">>
OpColumns == <<"opcache", "dtlb1", "dtlb2">>
L2Columns == <<"l2miss">>
L3Columns == <<"l3miss">>
MemoryColumns == <<"bandwidth">>
OpcacheColumns == <<"opcache miss">>
FloatColumns == <<"float">>
ArmMemColumns == <<"dtlb_walk", "itlb_walk", "ld_align_lat", "st_align_lat">>
ArmIcacheColumns == <<"l1i_cache_refill", "l1i_tlb_refill", "l2i_tlb_refill">>
ArmDcacheColumns == <<"l1d_cache_refill", "l1d_tlb_refill", "l2d_cache_refill", "l2d_tlb_refill">>
PowerColumns == <<"pkg_joules", "pkg_watts">>
PowerCoreColumns == <<"core_joules", "core_watts">>

\* print_metrics(): the print function of a group, by the header it prints
GroupHeader(g) ==
  CASE g = "ipc" -> IpcColumns
    [] g \in {"topdown", "topdown2"} -> TopdownColumns
    [] g = "topdown_be" -> TopdownBeColumns
    [] g = "topdown_fe" -> FrontendColumns
    [] g = "topdown_op" -> OpColumns
    [] g = "branch" -> BranchColumns
    [] g = "l2" -> L2Columns
    [] g = "l3" -> L3Columns
    [] g = "memory" -> MemoryColumns
    [] g = "opcache" -> OpcacheColumns
    [] g = "float" -> FloatColumns
    [] g = "arm_mem_align_tlb" -> ArmMemColumns
    [] g = "arm_icache_tlb" -> ArmIcacheColumns
    [] g = "arm_dcache_mem" -> ArmDcacheColumns
    [] g = "cache" -> CacheColumns
    [] g = "software" -> SoftwareColumns
    [] g = "ibs" -> IbsColumns
    [] g = "ibs_sample" -> IbsSampleColumns
    [] g = "power" -> PowerColumns
    [] g = "power_core" -> PowerCoreColumns

\* ... and by its values: some return without any on another vendor's machine
GroupValues(g) ==
  IF \/ g \in {"l3", "float"} /\ host.vendor # "amd"
     \/ g = "topdown_be" /\ host.vendor = "amd"
  THEN <<>> ELSE GroupHeader(g)

\* print_metrics(): the groups of a list in order
Joined(parts) ==
  LET upTo[i \in 0..Len(parts)] == IF i = 0 THEN <<>> ELSE upTo[i - 1] \o parts[i] IN upTo[Len(parts)]
GroupsOf(list) == [i \in 1..Len(list) |-> list[i][1].group]
HeaderOf(list) == Joined([i \in 1..Len(list) |-> GroupHeader(list[i][1].group)])
ValuesOf(list) == Joined([i \in 1..Len(list) |-> GroupValues(list[i][1].group)])

-----------------------------------------------------------------------------
(* The columns before them. *)

If(condition, columns) == IF condition THEN columns ELSE <<>>

\* print_system() with every part of --system; one network device and one disk
SystemColumns ==
  <<"load", "runnable", "cpu", "idle", "iowait", "irq", "freq", "cpu_temp", "net", "disk read",
    "disk write", "disk time", "mem_free_mb", "mem_cached_mb", "mem_dirty_mb", "mem_writeback_mb",
    "swap_free_mb", "committed_as_mb", "gpu_busy">>

UsageColumns ==
  <<"elapsed", "on_cpu", "utime", "stime", "nvcsw", "nivcsw", "inblock", "oublock", "maxrss",
    "minflt", "majflt", "nswap">>

GpuMetricsColumns ==
  <<"gpu_temp", "gpu_activity", "gpu_power", "gpu_freq", "gpu_vram_used", "gpu_vram_total",
    "gpu_temp_source", "gpu_activity_source">>

GpuSmiColumns == <<"gpu_smi_temp", "gpu_smi_activity", "gpu_smi_vram_used", "gpu_smi_vram_total">>
NvidiaColumns == <<"nv_gpu_busy", "nv_vram_used_mb", "nv_vram_total_mb">>
CoverageColumns == <<"counters_measured", "counters_requested">>

PhaseEnabled == flags.interval /\ flags.phase /\ "ipc" \in request.groups /\ ~request.percore

-----------------------------------------------------------------------------
Lists(c) == CoreList(host, request, c)
WholeRun == SystemList(host, request)
CoresWithCounters == {c \in Cores : Lists(c) # <<>>}
FirstCore == CHOOSE c \in CoresWithCounters : \A d \in CoresWithCounters : c <= d
PerCoreCsv == CoresWithCounters # {}
CoreAfter(c) ==
  IF \E d \in CoresWithCounters : d > c
  THEN CHOOSE d \in CoresWithCounters : d > c /\ \A e \in CoresWithCounters : e > c => d <= e
  ELSE NumCores

Header ==
  If(flags.interval, <<"time">> \o If(PhaseEnabled, <<"phase">>))
    \o If(flags.system, SystemColumns)
    \o If(~flags.interval /\ flags.usage, UsageColumns)
    \o If(~flags.system /\ "busy" \in flags.gpu, <<"gpu_busy">>)
    \o If("metrics" \in flags.gpu, GpuMetricsColumns)
    \o If("smi" \in flags.gpu, GpuSmiColumns)
    \o If("nvidia" \in flags.gpu, NvidiaColumns)
    \o If(PerCoreCsv, <<"core">> \o If(flags.freq, <<"core_freq_mhz">>) \o HeaderOf(Lists(FirstCore)))
    \o HeaderOf(WholeRun)
    \o CoverageColumns

\* slip: the GPU columns after those of the counters
GpuLastRow ==
  <<"time">> \o If(PhaseEnabled, <<"phase">>)
    \o If(flags.system, SystemColumns)
    \o ValuesOf(WholeRun)
    \o If(~flags.system /\ "busy" \in flags.gpu, <<"gpu_busy">>)
    \o If("metrics" \in flags.gpu, GpuMetricsColumns)
    \o If("smi" \in flags.gpu, GpuSmiColumns)
    \o If("nvidia" \in flags.gpu, NvidiaColumns)
    \o CoverageColumns

\* timer_callback() without --per-core
TickRow ==
  <<"time">> \o If(PhaseEnabled, <<"phase">>)
    \o If(flags.system, SystemColumns)
    \o If(~flags.system /\ "busy" \in flags.gpu, <<"gpu_busy">>)
    \o If("metrics" \in flags.gpu, GpuMetricsColumns)
    \o If("smi" \in flags.gpu, GpuSmiColumns)
    \o If("nvidia" \in flags.gpu, NvidiaColumns)
    \o ValuesOf(WholeRun)
    \o CoverageColumns

\* timer_callback() with --per-core: no phase
TickCoreRow(c) ==
  <<"time">>
    \o If(flags.system, SystemColumns)
    \o If(~flags.system /\ "busy" \in flags.gpu, <<"gpu_busy">>)
    \o If("metrics" \in flags.gpu, GpuMetricsColumns)
    \o If("smi" \in flags.gpu, GpuSmiColumns)
    \o If("nvidia" \in flags.gpu, NvidiaColumns)
    \o <<"core">> \o If(flags.freq, <<"core_freq_mhz">>)
    \o ValuesOf(Lists(c)) \o ValuesOf(WholeRun)
    \o CoverageColumns

\* main(): the rows at the end of the run
LastRow ==
  If(flags.interval, <<"time">> \o If(PhaseEnabled, <<"phase">>))
    \o If(flags.system, SystemColumns)
    \o If(flags.usage /\ ~flags.interval, UsageColumns)
    \o If(~flags.system /\ "busy" \in flags.gpu, <<"gpu_busy">>)
    \o If("metrics" \in flags.gpu, GpuMetricsColumns)
    \o If("smi" \in flags.gpu, GpuSmiColumns)
    \o If("nvidia" \in flags.gpu, NvidiaColumns)
    \o ValuesOf(WholeRun)
    \o CoverageColumns

LastCoreRow(c) ==
  If(flags.interval, <<"time">>)
    \o If(flags.system, SystemColumns)
    \o If(flags.usage /\ ~flags.interval, UsageColumns)
    \o If(~flags.system /\ "busy" \in flags.gpu, <<"gpu_busy">>)
    \o If("metrics" \in flags.gpu, GpuMetricsColumns)
    \o If("smi" \in flags.gpu, GpuSmiColumns)
    \o If("nvidia" \in flags.gpu, NvidiaColumns)
    \o <<"core">> \o If(flags.freq, <<"core_freq_mhz">>)
    \o ValuesOf(Lists(c)) \o ValuesOf(WholeRun)
    \o CoverageColumns

-----------------------------------------------------------------------------
(* print_topdown() leaves its slots in a static variable, print_topdown_be() *)
(* divides by them.                                                          *)

Topdowns == {"topdown", "topdown2"}
HasTopdown(gs) == \E i \in DOMAIN gs : gs[i] \in Topdowns

\* What print_topdown_be() finds when the groups gs are printed for me
DivisorIn(gs, me) ==
  IF \E i, j \in DOMAIN gs : i < j /\ gs[i] \in Topdowns /\ gs[j] = "topdown_be" THEN me ELSE slots

Printed(columns, gs, me) ==
  /\ row' = columns
  /\ slots' = IF HasTopdown(gs) THEN me ELSE slots
  /\ divided' = IF "topdown_be" \in {gs[i] : i \in DOMAIN gs}
                THEN [by |-> DivisorIn(gs, me), row |-> me] ELSE [by |-> NoSlots, row |-> me]

Reading(c) == [core |-> c, reading |-> reading]

-----------------------------------------------------------------------------
Init ==
  /\ SetupInit
  /\ stage = "setup"
  /\ flags = CHOOSE f \in Flags : TRUE
  /\ header = <<>> /\ row = <<>>
  /\ core = 0 /\ reading = 0
  /\ slots = NoSlots /\ divided = [by |-> NoSlots, row |-> NoSlots]

Setup == stage = "setup" /\ SetupStep /\ UNCHANGED rowVars

\* --per-core-freq is fatal without --per-core.
PrintHeader ==
  /\ stage = "setup" /\ IsSetUp
  /\ stage' = "header"
  /\ flags' \in {f \in Flags : f.freq => request.percore}
  /\ at' = <<NumLists, 1, 1>> /\ group' = NoGroup     \* of no use from here
  /\ UNCHANGED <<host, request, refused, header, row, core, reading, slots, divided>>

Launch ==
  /\ stage = "header"
  /\ header' = Header
  /\ stage' = "running"
  /\ UNCHANGED <<setupVars, flags, row, core, reading, slots, divided>>

\* SIGALRM: the counters are read, with --per-core those of every core first.
Tick ==
  /\ stage = "running" /\ flags.interval /\ reading < MaxTicks
  /\ reading' = reading + 1
  /\ core' = IF PerCoreCsv THEN FirstCore ELSE NumCores
  /\ stage' = "tick"
  /\ UNCHANGED <<setupVars, flags, header, row, slots, divided>>

\* The child has exited; SIGALRM is blocked from here.
ChildExits ==
  /\ stage = "running"
  /\ reading' = reading + 1
  /\ core' = IF PerCoreCsv THEN FirstCore ELSE NumCores
  /\ stage' = "last"
  /\ UNCHANGED <<setupVars, flags, header, row, slots, divided>>

\* One row per core, ...
PrintCoreRow ==
  /\ stage \in {"tick", "last"} /\ core < NumCores
  /\ Printed(IF stage = "tick" THEN TickCoreRow(core) ELSE LastCoreRow(core),
             GroupsOf(Lists(core)) \o GroupsOf(WholeRun), Reading(core))
  /\ core' = CoreAfter(core)
  /\ stage' = IF CoreAfter(core) < NumCores THEN stage ELSE IF stage = "tick" THEN "running" ELSE "done"
  /\ UNCHANGED <<setupVars, flags, header, reading>>

\* ... or one row.
PrintRow ==
  /\ stage \in {"tick", "last"} /\ core = NumCores /\ ~(stage = "tick" /\ request.percore)
  /\ Printed(IF stage = "tick" THEN TickRow ELSE LastRow, GroupsOf(WholeRun), Reading(NumCores))
  /\ stage' = IF stage = "tick" THEN "running" ELSE "done"
  /\ UNCHANGED <<setupVars, flags, header, core, reading>>

\* With --per-core a tick prints the rows of the cores that have counters, if any.
PrintNothing ==
  /\ stage = "tick" /\ core = NumCores /\ request.percore
  /\ stage' = "running"
  /\ UNCHANGED <<setupVars, flags, header, row, core, reading, slots, divided>>

Next ==
  Setup \/ PrintHeader \/ Launch \/ Tick \/ ChildExits \/ PrintCoreRow \/ PrintRow \/ PrintNothing

Spec == Init /\ [][Next]_vars

-----------------------------------------------------------------------------
SameGroups == \A c \in CoresWithCounters : GroupsOf(Lists(c)) = GroupsOf(Lists(FirstCore))

\* A value always stands under its own column: every row, of a tick or of the end,
\* of a core or of the run, has the header's columns in the header's order.  Where
\* the cores have different counter groups a row may have more or fewer values than
\* the header has columns, but then wspy-store can tell, and takes no value from it.
RowsWhole ==
  row # <<>> => row = header \/ (~SameGroups /\ Len(row) # Len(header))

\* The slots print_topdown_be() divides by are those of the same core and the same
\* reading, or none: never what an earlier row or another core has left behind.
SlotsOwnRow == divided.by \in {divided.row, NoSlots}

=============================================================================
