------------------------------- MODULE MCReports -------------------------------
(* Instances of the reporting tools for TLC.  A behaviour is of one tool, which *)
(* `tool' names; the tools share no state.                                      *)
EXTENDS Ledger, Clusters, Archetype, Summary, TreeDiff, TLC

CONSTANTS
  w1, w2, r1, r2, r3,     \* workloads and runs, for the ledger
  fa, fb, fc,             \* features, for the clusters
  Absentee                \* a feature that a run does not have

VARIABLE tool

-----------------------------------------------------------------------------
(* Ledger: two workloads, the name of one also in a command of the other; two  *)
(* runs or, with one that is being recorded, three.                            *)

Record(i, words, ok, files) ==
  [run |-> <<r1, r2, r3>>[i], start |-> i, command |-> words, succeeded |-> ok, paths |-> files, torn |-> FALSE]
RecordsOf(i) == {Record(i, words, ok, files) : words \in {{w1}, {w1, w2}}, ok \in BOOLEAN, files \in BOOLEAN}
TornRecord == [Record(3, {w1}, TRUE, FALSE) EXCEPT !.torn = TRUE]
SomeIndexes ==
  {<<a, b>> : a \in RecordsOf(1), b \in RecordsOf(2)}
    \cup {<<b, a, TornRecord>> : a \in RecordsOf(1), b \in RecordsOf(2)}
Profile(n, missing, c) == [base |-> n, unavailable |-> missing, combos |-> c]
SomeProfiles ==
  {<<>>, <<Profile(w1, TRUE, 1), Profile(w2, FALSE, 2)>>,
   <<Profile(w2, FALSE, 2), Profile(w1, FALSE, 2), Profile(w2, TRUE, 4), Profile(w1, TRUE, 2)>>}
SomeLists ==
  {<<Line(w1), Line(w2)>>, <<Line(w1), [name |-> w2, status |-> "unsupported"]>>, <<>>, Absent}

-----------------------------------------------------------------------------
(* Clusters: four runs, in each order of eight kinds of vectors or its reverse. *)

Vector == <<fa :> 0, fa :> 2, fb :> 0, fb :> 3, fa :> 0 @@ fb :> 0, fa :> 2 @@ fb :> 3, fa :> 1 @@ fb :> 3, fc :> 1>>
Sorted == {s \in [1..4 -> 1..8] : \A i \in 1..3 : s[i] <= s[i + 1]}
SomeFeatures == <<fa, fb, fc>>
SomePools ==
  {[i \in 1..4 |-> Vector[s[i]]] : s \in Sorted} \cup {[i \in 1..4 |-> Vector[s[5 - i]]] : s \in Sorted}
    \cup {<<Vector[1]>>}

-----------------------------------------------------------------------------
(* Archetype: a first run of three kinds, and a second with any features of     *)
(* memory, or of the topdown categories, in bands on both sides of thresholds.  *)

FeatureOrder ==
  <<"backend_memory_pct", "backend_pct", "blocking_wait_pct", "branch_mispredict_pct", "dcache_miss_pct",
    "frontend_pct", "ibs_dc_miss_pct", "ibs_dram_pct", "ibs_remote_node_pct", "l2_miss_pct", "l3_miss_pct",
    "on_cpu", "retire_pct", "smt_contention_pct", "speculate_pct">>
RowsOfRun(s) ==
  LET names == SelectSeq(FeatureOrder, LAMBDA f : f \in DOMAIN s /\ s[f] # Absentee)
  IN [i \in DOMAIN names |-> <<names[i], s[names[i]]>>]
MemoryRuns ==
  [backend_pct : {30}, backend_memory_pct : {Absentee, 5, 30}, blocking_wait_pct : {Absentee, 30},
   ibs_dc_miss_pct : {Absentee, 5, 15, 30}, ibs_dram_pct : {Absentee, Unavailable, 5, 15},
   ibs_remote_node_pct : {Absentee, 15}, l3_miss_pct : {Absentee, 5, 15}, l2_miss_pct : {Absentee, 15},
   dcache_miss_pct : {Absentee, 15}, smt_contention_pct : {Absentee, 15}]
TopdownRuns ==
  [retire_pct : {Absentee, 5, 30}, frontend_pct : {Absentee, 5, 20}, backend_pct : {Absentee, Unavailable, 5, 30},
   speculate_pct : {Absentee, 20, 30}, branch_mispredict_pct : {Absentee, 15}, on_cpu : {Absentee, Unavailable, 30}]
NoFeatures == [retire_pct |-> Absentee]
CacheRun == [backend_pct |-> 30, l3_miss_pct |-> 15]
SampledRun == [backend_memory_pct |-> 30, backend_pct |-> 30, ibs_dram_pct |-> 15, on_cpu |-> 15]
SomeDatabases ==
  {<<RowsOfRun(a), RowsOfRun(b)>> : a \in {NoFeatures, CacheRun}, b \in MemoryRuns}
    \cup {<<RowsOfRun(a), RowsOfRun(b)>> : a \in {CacheRun, SampledRun}, b \in TopdownRuns}

-----------------------------------------------------------------------------
(* Summary: three runs with any keys, or four with any environments.           *)

NoEnv == [e \in {} |-> 0]
Keyed ==
  {[group |-> g, option |-> o, start |-> s, metrics |-> m, pmu |-> 1, env |-> NoEnv] :
     g \in {Null, <<1, 0>>}, o \in {Null, <<1, 0>>}, s \in {1, 2}, m \in {<<100>>, <<100, 100>>}}
Envs ==
  {NoEnv, [memory_total_kb |-> 100, cpu_governor |-> 1], [memory_total_kb |-> 104],
   [memory_total_kb |-> 120, cpu_governor |-> 2]}
RunAt(s, v, p, e) == [group |-> <<1, 0>>, option |-> Null, start |-> s, metrics |-> <<v>>, pmu |-> p, env |-> e]
SomeSummaries ==
  [1..3 -> Keyed]
    \cup {<<RunAt(1, v, p, a), RunAt(2, 100, 1, b), RunAt(3, 100, q, c), RunAt(4, w, 1, a)>> :
            a, b, c \in Envs, v, w \in {100, 120}, p, q \in {1, 2}}
SomeMeans == UNION {[1..n -> UNION {[ps -> {10, 20, 40}] : ps \in {{}, {1, 2}, {3}}}] : n \in 1..3}

-----------------------------------------------------------------------------
(* Tree diff: a tree of at most four processes against one of at most three.   *)

Proc(p, c, u, s) == [parent |-> p, comm |-> c, utime |-> u, stime |-> s]
Forked(p) == {Proc(p, "x", 0, 0), Proc(p, "x", 2, 0), Proc(p, "y", 0, 2), Proc(p, Unnamed, 1, 0)}
Grown(trees) == UNION {{Append(t, q) : q \in UNION {Forked(p) : p \in DOMAIN t}} : t \in trees}
Alone == {<<Proc(Nobody, "x", 0, 0)>>}
SmallTrees == Alone \cup Grown(Alone) \cup Grown(Grown(Alone))
SomeTrees == (SmallTrees \cup Grown(Grown(Grown(Alone)))) \X SmallTrees

-----------------------------------------------------------------------------
ReportsInit ==
  /\ tool \in {"ledger", "clusters", "archetype", "summary", "diff"}
  /\ LedgerInit /\ ClustersInit /\ ArchetypeInit /\ SummaryInit /\ DiffInit

ReportsNext ==
  /\ UNCHANGED tool
  /\ \/ tool = "ledger" /\ LedgerNext /\ UNCHANGED <<clustersVars, archetypeVars, summaryVars, diffVars>>
     \/ tool = "clusters" /\ ClustersNext /\ UNCHANGED <<ledgerVars, archetypeVars, summaryVars, diffVars>>
     \/ tool = "archetype" /\ ArchetypeNext /\ UNCHANGED <<ledgerVars, clustersVars, summaryVars, diffVars>>
     \/ tool = "summary" /\ SummaryNext /\ UNCHANGED <<ledgerVars, clustersVars, archetypeVars, diffVars>>
     \/ tool = "diff" /\ DiffNext /\ UNCHANGED <<ledgerVars, clustersVars, archetypeVars, summaryVars>>

Spec == ReportsInit /\ [][ReportsNext]_<<tool, ledgerVars, clustersVars, archetypeVars, summaryVars, diffVars>>
=============================================================================
