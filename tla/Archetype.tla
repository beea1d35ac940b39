------------------------------ MODULE Archetype ------------------------------
(***************************************************************************)
(* wspy-archetype: the scorecard of a run.  The rows of run_features come  *)
(* run by run and fill one snapshot; --run and --run-guest fill a snapshot *)
(* of their own.  A value is one of few bands around the thresholds.       *)
(***************************************************************************)
EXTENDS Integers, FiniteSetsExt, SequencesExt, Functions

CONSTANTS
  Databases,    \* what a store may hold: the rows <<feature, band>> of each of its runs
  Unavailable   \* coverage = 'unavailable'

\* UNIQUE(run_id, feature_name)
Tables == UNION {ToSet(d) : d \in Databases}
ASSUME ArchetypeAssumption ==
  /\ Unavailable \notin Int
  /\ Databases \subseteq Seq(Tables)
  /\ \A t \in Tables :
       /\ t \in Seq(ToSet(t))
       /\ \A row \in ToSet(t) :
            row[2] \in Int \cup {Unavailable} /\ (row[1] = "ibs_dram_pct" => row[2] \in Nat \cup {Unavailable})
       /\ \A n, m \in DOMAIN t : t[n][1] = t[m][1] => n = m

VARIABLES
  db,      \* the features of each run; empty before the store is open
  query,   \* the runs whose rows the query has still to return
  snap,    \* struct run_snapshot: the run, and the features measured
  cards,   \* the scorecards printed: <<run, scorecard>>
  single   \* --run and --run-guest: the run, and its scorecard

archetypeVars == <<db, query, snap, cards, single>>

Elevated == 10          \* *_ELEVATED_PCT; the other thresholds are scaled to it
Floor == 20             \* MEMORY_ATTRIBUTION_FLOOR_PCT, *_WAIT_*, *_RUNDELAY_ELEVATED_PCT
HighMargin == 20        \* DOMINANCE_HIGH_MARGIN
MediumMargin == 10      \* DOMINANCE_MEDIUM_MARGIN

Has(s, f) == f \in DOMAIN s
Reaches(s, f, threshold) == Has(s, f) /\ s[f] >= threshold

-----------------------------------------------------------------------------
(* classify_simple_axis(): a band of the value, or unknown                 *)
Axis(s, axis) ==
  CASE axis = "parallelism_proxy" -> IF s[axis] <= 10 THEN "balanced-parallel" ELSE "imbalanced"
    [] axis = "branch_mispredict_pct" -> IF s[axis] <= 10 THEN "straight-line" ELSE "branch-heavy"
    [] axis = "phase_stability" -> IF s[axis] <= 10 THEN "erratic" ELSE IF s[axis] <= 20 THEN "phased" ELSE "steady"
    [] OTHER -> IF s[axis] <= 10 THEN "low" ELSE IF s[axis] <= 20 THEN "moderate" ELSE "high"

SimpleAxes == {"parallelism_proxy", "branch_mispredict_pct", "phase_stability",
               "fault_rate", "float_pct", "on_cpu"}
Simple(s) == [axis \in SimpleAxes |-> IF Has(s, axis) THEN Axis(s, axis) ELSE "unknown"]

\* classify_resource_dominance(): the two greatest of the categories measured, the
\* first in the table among equals
Categories == <<"retire_pct", "frontend_pct", "backend_pct", "speculate_pct">>
Candidates(s) == {i \in DOMAIN Categories : Has(s, Categories[i])}
Greatest(s, among) ==
  CHOOSE i \in among : \A j \in among :
    s[Categories[i]] > s[Categories[j]] \/ (s[Categories[i]] = s[Categories[j]] /\ i <= j)
Best(s) == Greatest(s, Candidates(s))
Rest(s) == Candidates(s) \ {Best(s)}
Dominance(s) ==
  IF Candidates(s) = {} THEN <<>>
  ELSE IF Rest(s) = {} THEN <<Categories[Best(s)]>>
  ELSE <<Categories[Best(s)], Categories[Greatest(s, Rest(s))]>>

\* compute_overall_confidence()
Margin(s) ==
  s[Categories[Best(s)]] - (IF Rest(s) = {} THEN 0 ELSE s[Categories[Greatest(s, Rest(s))]])

Confidence(s) ==
  LET known == Cardinality({axis \in SimpleAxes : Has(s, axis)}) IN
  IF Candidates(s) = {} THEN "insufficient-data"
  ELSE IF Margin(s) >= HighMargin /\ known >= 2 THEN "high"
  ELSE IF Margin(s) >= MediumMargin /\ known >= 1 THEN "medium"
  ELSE "low"

Reasons(s) ==
  IF Candidates(s) = {} THEN {"no-topdown-data"}
  ELSE (IF Margin(s) < HighMargin THEN {"narrow-margin"} ELSE {}) \cup {a \in SimpleAxes : ~Has(s, a)}

\* classify_memory_attribution()
Signals == {"dcache_miss_pct", "l2_miss_pct", "l3_miss_pct", "itlb_miss_per1k", "dtlb_miss_per1k",
            "itlb_generic_miss_pct", "dtlb_generic_miss_pct", "ibs_dc_miss_pct", "ibs_dram_pct",
            "smt_contention_pct"}

Attribution(s) ==
  IF ~Has(s, "backend_pct") THEN "unknown"
  ELSE IF s.backend_pct < Floor THEN "not-memory-bound"
  ELSE IF Reaches(s, "blocking_wait_pct", Floor) THEN "blocked"
  ELSE IF Reaches(s, "sched_rundelay_pct", Floor) THEN "oversubscribed"
  ELSE IF \E f \in Signals : Reaches(s, f, Elevated) THEN "corroborated"
  ELSE IF \E f \in Signals : Has(s, f) THEN "uncorroborated"
  ELSE "unknown"

\* classify_memory_locus(): samples, or else miss counters
IbsLocus(s) ==
  IF ~Has(s, "ibs_dc_miss_pct") THEN "unknown"
  ELSE IF Reaches(s, "ibs_remote_node_pct", Elevated) THEN "remote-numa"
  ELSE IF Reaches(s, "ibs_dram_pct", Elevated) THEN "dram"
  ELSE IF Has(s, "ibs_dram_pct") /\ s.ibs_dc_miss_pct - s.ibs_dram_pct >= Elevated THEN "l2-l3"
  ELSE IF s.ibs_dc_miss_pct >= Elevated THEN "l1"
  ELSE "unknown"

CacheLocus(s) ==
  IF Reaches(s, "l3_miss_pct", Elevated) THEN "dram"
  ELSE IF Reaches(s, "l2_miss_pct", Elevated) THEN "l2-l3"
  ELSE IF Reaches(s, "dcache_miss_pct", Elevated) THEN "l1"
  ELSE "unknown"

\* slip: samples decide wherever there are any
SamplesDecide(s) ==
  IF Attribution(s) # "corroborated" \/ ~Reaches(s, "backend_memory_pct", Floor) THEN <<"unknown", {}>>
  ELSE IF Has(s, "ibs_dc_miss_pct") THEN <<IbsLocus(s), {}>>
  ELSE <<CacheLocus(s), {}>>

Locus(s) ==
  LET IbsTlb == \E f \in {"ibs_dc_l1tlb_miss_pct", "ibs_dc_l2tlb_miss_pct"} : Reaches(s, f, Elevated)
      CacheTlb == Reaches(s, "dtlb_generic_miss_pct", Elevated)
      Tagged(tlb) == IF tlb THEN {"tlb-cofire"} ELSE {}
  IN IF Attribution(s) # "corroborated" THEN <<"unknown", {}>>
     ELSE IF ~Has(s, "backend_memory_pct") THEN <<"unknown", {"missing-backend_memory_pct"}>>
     ELSE IF s.backend_memory_pct < Floor THEN <<"unknown", {}>>
     ELSE IF IbsLocus(s) # "unknown" THEN <<IbsLocus(s), {"tier=ibs-sample"} \cup Tagged(IbsTlb)>>
     ELSE IF CacheLocus(s) # "unknown" THEN <<CacheLocus(s), {"tier=cache-counter"} \cup Tagged(CacheTlb)>>
     ELSE <<"unknown", {}>>

\* score_snapshot()
Score(s) ==
  [dominance |-> Dominance(s), simple |-> Simple(s), confidence |-> Confidence(s), reasons |-> Reasons(s),
   attribution |-> Attribution(s), locus |-> Locus(s)]

-----------------------------------------------------------------------------
NoSnap == [run |-> 0, features |-> [f \in {} |-> 0]]
Reset(i) == [NoSnap EXCEPT !.run = i]        \* run_snapshot_reset()

ArchetypeInit == db = <<>> /\ query = {} /\ snap = NoSnap /\ cards = <<>> /\ single = <<>>

\* ORDER BY r.id; a run without features has no rows
OpenArchetype ==
  /\ db = <<>>
  /\ db' \in Databases
  /\ query' = {i \in DOMAIN db' : db'[i] # <<>>}
  /\ UNCHANGED <<snap, cards, single>>

\* run_snapshot_apply_feature(): a value counts if it is measured
Apply(s, row) ==
  IF row[2] = Unavailable THEN s
  ELSE [s EXCEPT !.features = [f \in DOMAIN @ \cup {row[1]} |-> IF f = row[1] THEN row[2] ELSE @[f]]]

Applied(s, rows) ==
  LET upTo[n \in 0 .. Len(rows)] == IF n = 0 THEN s ELSE Apply(upTo[n - 1], rows[n]) IN upTo[Len(rows)]

Snapshot(i) == Applied(Reset(i), db[i])

Card(s) == <<s.run, Score(s.features)>>
Printed(s) == cards' = IF s = NoSnap THEN cards ELSE Append(cards, Card(s))

\* score_runs(): a run is scored when the rows of the next one begin.
NextRun ==
  /\ Printed(snap)
  /\ \E i \in query :
       /\ \A j \in query : i <= j
       /\ snap' = Snapshot(i) /\ query' = query \ {i}
  /\ UNCHANGED <<db, single>>

EndOfQuery ==
  /\ query = {} /\ snap # NoSnap
  /\ Printed(snap)
  /\ snap' = NoSnap
  /\ UNCHANGED <<db, query, single>>

\* --run: the rows come in any order.
TraceRun(i) ==
  /\ query = {} /\ snap = NoSnap /\ single = <<>>
  /\ single' = Card(Applied(Reset(i), Reverse(db[i])))
  /\ UNCHANGED <<db, query, snap, cards>>

\* --run-guest: an object; what is not a number in it is passed over.
TraceGuest(i) ==
  /\ query = {} /\ snap = NoSnap /\ single = <<>>
  /\ single' = Card(Snapshot(i))
  /\ UNCHANGED <<db, query, snap, cards>>

ArchetypeNext ==
  \/ OpenArchetype
  \/ NextRun \/ EndOfQuery
  \/ \E i \in DOMAIN db : TraceRun(i) \/ TraceGuest(i)

ArchetypeSpec == ArchetypeInit /\ [][ArchetypeNext]_archetypeVars

-----------------------------------------------------------------------------
\* The features that may support each place
Witnesses(place) ==
  CASE place = "remote-numa" -> {"ibs_remote_node_pct"}
    [] place = "dram" -> {"ibs_dram_pct", "l3_miss_pct"}
    [] place = "l2-l3" -> {"ibs_dc_miss_pct", "l2_miss_pct"}
    [] place = "l1" -> {"ibs_dc_miss_pct", "dcache_miss_pct"}

(* A scorecard rests on what was measured of its own run: the table has one     *)
(* for each run with features, in order, and --run and --run-guest print the    *)
(* same; an axis is unknown only if its feature is; the dominant category is    *)
(* ahead of all others measured, by a wide margin if the confidence is high;    *)
(* and memory is blamed, at a place, only if the backend stalls on memory and a *)
(* measured signal of that place is elevated, samples before counters, while    *)
(* counters that are elevated are not lost because samples were taken too.      *)
ScoredFromEvidence ==
  LET RowsOf(i) == {row \in ToSet(db[i]) : row[2] # Unavailable}
      Measured(i) == [f \in {row[1] : row \in RowsOf(i)} |-> (CHOOSE row \in RowsOf(i) : row[1] = f)[2]]
      Grounded(card) ==
        LET s == Measured(card[1])
            c == card[2]
            blamed == /\ Reaches(s, "backend_pct", Floor) /\ Reaches(s, "backend_memory_pct", Floor)
                      /\ ~Reaches(s, "blocking_wait_pct", Floor) /\ ~Reaches(s, "sched_rundelay_pct", Floor)
            elevated == {f \in DOMAIN s : s[f] >= Elevated}
        IN /\ \A axis \in SimpleAxes : c.simple[axis] = "unknown" <=> axis \notin DOMAIN s
           /\ \A f \in ToSet(Categories) \cap DOMAIN s :
                /\ c.dominance # <<>> /\ s[c.dominance[1]] >= s[f]
                /\ c.confidence = "high" /\ f # c.dominance[1] => s[c.dominance[1]] - s[f] >= HighMargin
           /\ c.locus[1] # "unknown" => blamed /\ Witnesses(c.locus[1]) \cap elevated # {}
           /\ blamed /\ elevated \cap {"l3_miss_pct", "l2_miss_pct", "dcache_miss_pct"} # {} =>
                c.locus[1] # "unknown"
           /\ blamed /\ {"ibs_dc_miss_pct", "ibs_dram_pct"} \subseteq elevated =>
                c.locus[1] \in {"dram", "remote-numa"}
  IN /\ \A n \in DOMAIN cards : Grounded(cards[n])
     /\ \A n, m \in DOMAIN cards : n < m => cards[n][1] < cards[m][1]
     /\ query = {} /\ snap = NoSnap => {cards[n][1] : n \in DOMAIN cards} = {i \in DOMAIN db : db[i] # <<>>}
     /\ single # <<>> => Grounded(single) /\ \A n \in DOMAIN cards : cards[n][1] = single[1] => cards[n] = single
=============================================================================
