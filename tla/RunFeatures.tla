------------------------------ MODULE RunFeatures ------------------------------
(***************************************************************************)
(* What wspy-store makes of the CSV of a run: a metric value for each cell *)
(* of each row that has as many cells as the header, found by position     *)
(* (ingest_csv_metrics), and from those the features that the archetypes   *)
(* and comparisons work on (extract_run_features).                         *)
(*                                                                         *)
(* A value is the row it is from; a feature is whether it is measured, and *)
(* the rows its query goes over.                                           *)
(***************************************************************************)
EXTENDS CsvRows, FiniteSets

CONSTANTS
  NoCore,
  MinTicks    \* QUANTILE_MIN_TICKS

ASSUME FeatureAssumption == MinTicks \in Nat \ {0} /\ NoCore \notin Cores

VARIABLES
  csv,            \* the rows of the file: their columns, and when and where they are from
  metric_values,
  features

featureVars == <<csv, metric_values, features>>
allVars == <<vars, featureVars>>

NotIngested == <<>>

FeatureInit ==
  /\ Init
  /\ csv = <<>> /\ metric_values = {} /\ features = NotIngested

-----------------------------------------------------------------------------
(* ingest_csv_metrics() *)

Dimensions == {"time", "core", "phase"}

\* The cells of row i: what the header has the column for
Cells(i) ==
  {[row |-> i, metric |-> header[j], core |-> IF "core" \in {header[k] : k \in DOMAIN header}
                                             THEN csv[i].core ELSE NoCore] :
     j \in {k \in DOMAIN header : header[k] \notin Dimensions}}

MetricValues == UNION {Cells(i) : i \in {k \in DOMAIN csv : Len(csv[k].columns) = Len(header)}}

Of(metric) == {v \in metric_values : v.metric = metric}
Rows(values) == {v.row : v \in values}

-----------------------------------------------------------------------------
(* extract_run_features() *)

\* SIMPLE_METRIC_FEATURES
MetricOf ==
  [ipc_mean |-> "ipc", retire_pct |-> "retire", frontend_pct |-> "frontend", backend_pct |-> "backend",
   speculate_pct |-> "speculate", dcache_miss_pct |-> "L1-dcache miss", icache_miss_pct |-> "icache",
   l2_miss_pct |-> "l2miss", l3_miss_pct |-> "l3miss", branch_mispredict_pct |-> "branch miss",
   itlb_miss_per1k |-> "itlb2", dtlb_miss_per1k |-> "dtlb2", smt_contention_pct |-> "contention_pct",
   ibs_dc_miss_pct |-> "ibs_sample_dc_miss_rate", ibs_dram_pct |-> "ibs_sample_dram_rate",
   ibs_dc_l1tlb_miss_pct |-> "ibs_sample_dc_l1tlb_miss_rate",
   ibs_dc_l2tlb_miss_pct |-> "ibs_sample_dc_l2tlb_miss_rate",
   ibs_remote_node_pct |-> "ibs_sample_remote_node_rate", backend_memory_pct |-> "backend_memory_pct",
   itlb_generic_miss_pct |-> "iTLB miss", dtlb_generic_miss_pct |-> "dTLB miss",
   float_pct |-> "float", retire_ucode_pct |-> "retire_ucode_pct",
   retire_fastpath_pct |-> "retire_fastpath_pct", frontend_latency_pct |-> "frontend_latency_pct",
   frontend_bandwidth_pct |-> "frontend_bandwidth_pct"]

\* upsert_feature(): measured, with what the value is made of, or unavailable
Feature(measured, over) == [measured |-> measured, over |-> IF measured THEN over ELSE {}]

\* AVG(value)
Average(metric) == Feature(Of(metric) # {}, Rows(Of(metric)))

\* slip: core IS NULL left out
AnyCore(metric) ==
  Feature(Cardinality(Of(metric)) >= MinTicks, Rows(Of(metric)))

\* p10, p90 and iqr: over the values of the whole machine
Quantiles(metric) ==
  LET ticks == {v \in Of(metric) : v.core = NoCore} IN
  Feature(Cardinality(ticks) >= MinTicks, Rows(ticks))

\* sum_metric_value() of two rusage columns, over elapsed_seconds
Rate(one, other) == Feature(Of(one) \cup Of(other) # {}, Rows(Of(one) \cup Of(other)))

\* SELECT DISTINCT row_index, phase
PhaseStability ==
  LET ticks == IF "phase" \in {header[k] : k \in DOMAIN header} THEN Rows(metric_values) ELSE {} IN
  Feature(ticks # {}, ticks)

\* AVG(value) ... GROUP BY core
CoresOf(metric) == {v.core : v \in Of(metric)} \ {NoCore}
ParallelismProxy == Feature(Cardinality(CoresOf("ipc")) >= 2, CoresOf("ipc"))
ActiveCoreCount == Feature(CoresOf("ipc") # {}, CoresOf("ipc"))

OtherFeatures ==
  [ipc_quantiles |-> Quantiles("ipc"), fault_rate |-> Rate("minflt", "majflt"),
   ctxswitch_rate |-> Rate("nvcsw", "nivcsw"), on_cpu |-> Rate("utime", "stime"),
   phase_stability |-> PhaseStability, parallelism_proxy |-> ParallelismProxy,
   active_core_count |-> ActiveCoreCount]

Features ==
  [f \in DOMAIN MetricOf \cup DOMAIN OtherFeatures |->
     IF f \in DOMAIN OtherFeatures THEN OtherFeatures[f] ELSE Average(MetricOf[f])]

-----------------------------------------------------------------------------
Run ==
  /\ Next
  /\ csv' = IF divided' = divided THEN csv
            ELSE Append(csv, [columns |-> row', core |-> divided'.row.core, reading |-> reading])
  /\ UNCHANGED <<metric_values, features>>

\* wspy-store, after the run
Ingest ==
  /\ stage = "done" /\ metric_values = {} /\ features = NotIngested
  /\ metric_values' = MetricValues
  /\ UNCHANGED <<vars, csv, features>>

Extract ==
  /\ stage = "done" /\ metric_values # {} /\ features = NotIngested
  /\ features' = Features
  /\ UNCHANGED <<vars, csv, metric_values>>

FeatureNext == Run \/ Ingest \/ Extract

FeatureSpec == FeatureInit /\ [][FeatureNext]_allVars

-----------------------------------------------------------------------------
Readings(rows) == {csv[i].reading : i \in rows}

(* A feature compares like with like: quantiles go over one value of the whole *)
(* machine per reading, never over the cores; the phases count each reading    *)
(* once however many columns it has; and the spread over the cores has each    *)
(* core once however often it was read.                                        *)
FeaturesComparable ==
  features # NotIngested =>
    /\ LET q == features.ipc_quantiles.over IN Cardinality(Readings(q)) = Cardinality(q)
    /\ LET q == features.phase_stability.over IN Cardinality(Readings(q)) = Cardinality(q)
    /\ features.active_core_count.over \subseteq CoresWithCounters

(* "rusage-based rate features [...], whose source columns [...] are emitted    *)
(* exactly once per run regardless of --interval, so SUM() and a single value  *)
(* coincide" (store.c).                                                        *)
UsageOnce ==
  features # NotIngested =>
    \A f \in {"fault_rate", "ctxswitch_rate", "on_cpu"} : Cardinality(features[f].over) <= 1
=============================================================================
