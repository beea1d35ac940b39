------------------------------ MODULE MCCsvRows ------------------------------
(* Instances of CsvRows for TLC: one machine of each kind, the requests in     *)
(* which groups share a list, and the options that add columns.                *)
EXTENDS RunFeatures, TLC

Plain == [usable |-> {0, 1}, budget |-> 5, l3 |-> FALSE, node1 |-> FALSE, power |-> "none",
          powerCores |-> {}, ibs |-> 0]
With(changes) == changes @@ Plain

AmdServer ==
  With([vendor |-> "amd", class |-> <<"zen", "zen">>, l3 |-> TRUE, node1 |-> TRUE, power |-> "pmu",
        powerCores |-> {0}, ibs |-> 2])
AmdLaptop ==
  With([vendor |-> "amd", class |-> <<"zen", "zen">>, budget |-> 6, power |-> "sysfs", usable |-> {1}])
IntelHybrid ==
  With([vendor |-> "intel", class |-> <<"core", "atom">>, power |-> "pmu"])
IntelServer ==
  With([vendor |-> "intel", class |-> <<"core", "core">>, budget |-> 6, power |-> "pmu"])
Arm == With([vendor |-> "arm", class |-> <<"arm", "arm">>])

\* The tables of a machine start with core 0.
CoreZero(h) == [h EXCEPT !.class = [c \in Cores |-> h.class[c + 1]]]
Machines == {CoreZero(h) : h \in {AmdServer, AmdLaptop, IntelHybrid, IntelServer, Arm}}

GroupSets ==
  {{"ipc"}, {"software"}, {"ipc", "software", "topdown", "topdown_be", "branch"},
   {"topdown", "topdown2", "topdown_be", "l2", "l3", "memory"},
   {"ipc", "power", "cache", "dcache", "icache", "tlb"},
   {"ibs", "ibs_sample", "power", "topdown_fe", "topdown_op", "opcache", "float"},
   {"ipc", "tlb", "float", "arm_mem_align_tlb", "arm_icache_tlb", "arm_dcache_mem"}}

AllRequests == [groups : GroupSets, percore : BOOLEAN]

Plainly == [interval |-> FALSE, phase |-> FALSE, system |-> FALSE, usage |-> FALSE, gpu |-> {},
            freq |-> FALSE, deep |-> FALSE]
AllFlags ==
  [interval : BOOLEAN, phase : BOOLEAN, system : BOOLEAN, usage : BOOLEAN,
   gpu : {{}, {"busy"}, {"busy", "metrics", "smi", "nvidia"}}, freq : BOOLEAN, deep : {FALSE}]
    \cup {[Plainly EXCEPT !.deep = TRUE], [Plainly EXCEPT !.deep = TRUE, !.interval = TRUE]}
=============================================================================
