------------------------------- MODULE Summary -------------------------------
(***************************************************************************)
(* wspy-summary: runs of a store in buckets by group, option and metric,   *)
(* the verdict on each bucket, --check-regression of a run against the     *)
(* earlier runs of its bucket, and --phase-topdown.  A run is              *)
(*   [group, option, start, metrics, pmu, env]                             *)
(* where metrics are the averages of its rows.  A text is <<head, tail>>,  *)
(* of which a buffer holds the head; Null sorts before all texts.          *)
(***************************************************************************)
EXTENDS Integers, FiniteSetsExt, SequencesExt, Functions

CONSTANTS
  Summaries,    \* what the store may hold: sequences of runs
  PhaseMeans,   \* for --phase-topdown: the metrics' means by phase, in tables' order
  EnvFields,    \* the fields compared; "memory_total_kb" is one
  MinRuns,      \* --min-runs
  MaxCv,        \* --max-cv, percent
  MinEnvScore   \* --min-env-score, percent

KnownRuns == UNION {ToSet(s) : s \in Summaries}

ASSUME SummaryAssumption ==
  /\ MinRuns \in Nat \ {0} /\ {MaxCv, MinEnvScore} \subseteq Nat /\ IsFiniteSet(EnvFields)
  /\ Summaries \subseteq Seq(KnownRuns)
  /\ \A r \in KnownRuns :
       /\ r.start \in Nat /\ {r.group, r.option} \subseteq Nat \X Nat
       /\ DOMAIN r.metrics \subseteq Nat
       /\ DOMAIN r.env \subseteq EnvFields /\ \A e \in DOMAIN r.env : r.env[e] \in Nat

VARIABLES
  stored,     \* the runs of the store
  left,       \* rows the query has still to return: <<run, metric>>
  bucket,     \* the bucket being filled
  emitted,    \* the buckets printed
  skipped,    \* groups_skipped_min_runs
  check,      \* --check-regression: target, baselines, status of its metrics
  drift       \* --phase-topdown: the means, and the largest drift

summaryVars == <<stored, left, bucket, emitted, skipped, check, drift>>

Null == <<0, 0>>
UnknownText == <<0, 1>>      \* "(unknown)"
Shown(text) == IF text = Null THEN UnknownText ELSE text
Copy(text) == <<text[1], IF text = UnknownText THEN 1 ELSE 0>>     \* snprintf() into a buffer

NoBucket == [n |-> 0]
NoCheck == [target |-> 0]
NoDrift == [means |-> <<>>, metric |-> 0]

SummaryInit ==
  /\ stored = <<>> /\ left = {} /\ bucket = NoBucket /\ emitted = {} /\ skipped = 0
  /\ check = NoCheck /\ drift = NoDrift

OpenSummary ==
  /\ stored = <<>> /\ drift = NoDrift
  /\ stored' \in Summaries
  /\ left' = UNION {{i} \X DOMAIN stored'[i].metrics : i \in DOMAIN stored'}
  /\ UNCHANGED <<bucket, emitted, skipped, check, drift>>

-----------------------------------------------------------------------------
(* Buckets                                                                 *)

TextBefore(a, b) == a[1] < b[1] \/ (a[1] = b[1] /\ a[2] < b[2])

\* ORDER BY group_val, secondary_val, metric_name, start_time, id
RowBefore(x, y) ==
  LET a == stored[x[1]]
      b == stored[y[1]]
  IN \/ TextBefore(a.group, b.group)
     \/ a.group = b.group /\ TextBefore(a.option, b.option)
     \/ a.group = b.group /\ a.option = b.option /\ x[2] < y[2]
     \/ a.group = b.group /\ a.option = b.option /\ x[2] = y[2] /\ a.start < b.start
     \/ a.group = b.group /\ a.option = b.option /\ x[2] = y[2] /\ a.start = b.start /\ x[1] < y[1]

\* bucket_reset()
NewBucket(group, option, metric) ==
  [n |-> 0, group |-> Copy(group), option |-> Copy(option), metric |-> metric, members |-> {},
   pmu |-> 0, pmuMixed |-> FALSE, sig |-> [e \in {} |-> 0], compared |-> {}, mismatched |-> {}]

Agrees(field, sig, value) ==
  IF field = "memory_total_kb" THEN 20 * Max({value - sig, sig - value}) <= sig ELSE value = sig

\* bucket_add()
Added(b, i) ==
  LET r == stored[i]
      both == DOMAIN r.env \cap DOMAIN b.sig
  IN [b EXCEPT !.n = @ + 1, !.members = @ \cup {i},
               !.pmu = IF b.n = 0 THEN r.pmu ELSE @,
               !.pmuMixed = @ \/ (b.n > 0 /\ r.pmu # b.pmu),
               !.sig = [e \in DOMAIN r.env \cup DOMAIN @ |-> IF e \in DOMAIN @ THEN @[e] ELSE r.env[e]],
               !.compared = @ \cup both,
               !.mismatched = @ \cup {e \in both : ~Agrees(e, b.sig[e], r.env[e])}]

\* slip: each run is compared with the one before it
SigMoves(b, i) == [Added(b, i) EXCEPT !.pmu = stored[i].pmu, !.pmuMixed = b.n > 0 /\ stored[i].pmu # b.pmu]

AddRow(b, i) == Added(b, i)

\* compute_stats(): n times the mean, and n(n-1) times the variance
Total(xs) == SumFunction(xs)
Spread(xs) == Cardinality(DOMAIN xs) * Total([i \in DOMAIN xs |-> xs[i] * xs[i]]) - Total(xs) * Total(xs)

Values(b) == [i \in b.members |-> stored[i].metrics[b.metric]]

\* The relative standard deviation is above MaxCv percent
Noisy(xs) ==
  LET n == Cardinality(DOMAIN xs) IN
  n >= 2 /\ Total(xs) # 0 /\ Spread(xs) * n * 10000 > (n - 1) * MaxCv * MaxCv * Total(xs) * Total(xs)

\* compute_env_score(), in percent; -1 if no field was compared
EnvScore(b) ==
  IF b.compared = {} THEN -1
  ELSE (100 * Cardinality(b.compared \ b.mismatched)) \div Cardinality(b.compared)

\* compute_verdict(): the reasons of a warning
Verdict(b) ==
  {w \in {"thin", "noisy", "mixed-pmu", "mixed-env"} :
     \/ w = "thin" /\ b.n < 3
     \/ w = "noisy" /\ Noisy(Values(b))
     \/ w = "mixed-pmu" /\ b.pmuMixed
     \/ w = "mixed-env" /\ EnvScore(b) \in 0..MinEnvScore - 1}

\* emit_bucket()
Emit ==
  LET b == bucket IN
  IF b.n = 0 THEN UNCHANGED <<emitted, skipped>>
  ELSE IF b.n < MinRuns THEN skipped' = skipped + 1 /\ UNCHANGED emitted
  ELSE /\ emitted' = emitted \cup {[group |-> b.group, option |-> b.option, metric |-> b.metric,
                                    members |-> b.members, verdict |-> Verdict(b)]}
       /\ UNCHANGED skipped

Belongs(b, r, m) ==
  b.n > 0 /\ b.group = Shown(r.group) /\ b.option = Shown(r.option) /\ b.metric = m

\* summarize(): a row of the query; another key closes the bucket.
ReadRow ==
  /\ left # {}
  /\ LET row == CHOOSE x \in left : \A y \in left \ {x} : RowBefore(x, y)
         r == stored[row[1]]
     IN /\ left' = left \ {row}
        /\ IF Belongs(bucket, r, row[2]) THEN bucket' = AddRow(bucket, row[1]) /\ UNCHANGED <<emitted, skipped>>
           ELSE bucket' = AddRow(NewBucket(Shown(r.group), Shown(r.option), row[2]), row[1]) /\ Emit
  /\ UNCHANGED <<stored, check, drift>>

CloseLast ==
  /\ left = {} /\ bucket.n > 0
  /\ Emit /\ bucket' = NoBucket
  /\ UNCHANGED <<stored, left, check, drift>>

Summarized == stored # <<>> /\ left = {} /\ bucket.n = 0

\* main(): the exit status with --strict
Insufficient == skipped > 0 \/ emitted = {} \/ \E b \in emitted : b.verdict # {}

-----------------------------------------------------------------------------
(* --check-regression, of a run of the same store                          *)

\* slip: = instead of IS, so that NULL matches nothing
EqualText(a, b) == a # Null /\ a = Copy(b)

\* The column IS the target's value, which went through a buffer
SameText(a, target) == a = IF target = Null THEN Null ELSE Copy(target)

\* load_baseline_buckets(): the runs before the target
Baseline(t, m) ==
  {i \in DOMAIN stored \ {t} : /\ stored[i].start < stored[t].start
                               /\ m \in DOMAIN stored[i].metrics
                               /\ SameText(stored[i].group, stored[t].group)
                               /\ SameText(stored[i].option, stored[t].option)}

\* t_critical_95(), in tenths
T95(df) == IF df > 10 THEN 20 ELSE <<127, 43, 32, 28, 26, 24, 24, 23, 23, 22>>[df]

\* The value against the interval of compute_ci95() around the baseline's mean
Compared(value, xs) ==
  LET n == Cardinality(DOMAIN xs)
      away == n * value - Total(xs)
      outside == IF n < 2 THEN away # 0
                 ELSE 100 * away * away * (n - 1) > T95(n - 1) * T95(n - 1) * Spread(xs)
  IN IF n = 0 THEN "no-baseline"
     ELSE IF n < MinRuns THEN "thin"
     ELSE IF ~outside THEN "within"
     ELSE IF away > 0 THEN "above" ELSE "below"

CheckRegression(t) ==
  /\ Summarized /\ check = NoCheck
  /\ LET metrics == stored[t].metrics
         base == [m \in DOMAIN metrics |-> Baseline(t, m)]
         Value(m, i) == stored[i].metrics[m]
     IN check' = [target |-> t, baseline |-> base,
                  status |-> [m \in DOMAIN metrics |->
                                Compared(metrics[m], [i \in base[m] |-> Value(m, i)])]]
  /\ UNCHANGED <<stored, left, bucket, emitted, skipped, drift>>

-----------------------------------------------------------------------------
(* --phase-topdown: by metric, the means of the phases that have any       *)

\* The first phases with the least and the greatest mean
LowPhase(row) == Min({p \in DOMAIN row : \A q \in DOMAIN row : row[p] <= row[q]})
HighPhase(row) == Min({p \in DOMAIN row : \A q \in DOMAIN row : row[p] >= row[q]})
DriftOf(row) == row[HighPhase(row)] - row[LowPhase(row)]

\* The metric with the largest drift so far; 0 is none
Larger(best, means, m) ==
  IF /\ DOMAIN means[m] # {} /\ LowPhase(means[m]) # HighPhase(means[m])
     /\ best = 0 \/ DriftOf(means[m]) > DriftOf(means[best])
  THEN m ELSE best

PhaseTopdown ==
  /\ stored = <<>> /\ drift = NoDrift
  /\ \E means \in PhaseMeans :
       drift' = [means |-> means,
                 metric |-> FoldLeft(LAMBDA best, m : Larger(best, means, m), 0, [m \in DOMAIN means |-> m])]
  /\ UNCHANGED <<stored, left, bucket, emitted, skipped, check>>

SummaryNext ==
  \/ OpenSummary
  \/ ReadRow \/ CloseLast
  \/ \E t \in DOMAIN stored : CheckRegression(t)
  \/ PhaseTopdown

SummarySpec == SummaryInit /\ [][SummaryNext]_summaryVars

-----------------------------------------------------------------------------

(* The baseline of a run is the bucket that the table shows it in, without the  *)
(* run itself and those that did not start before it - in groups without a name *)
(* as well; a run whose bucket was too small to show has a baseline as small.   *)
(* With --strict the exit status is 0 only if each average of each run went     *)
(* into a bucket that was shown, and passed.                                    *)
BaselineIsBucket ==
  LET Bucket(i, m) == {b \in emitted : b.metric = m /\ i \in b.members} IN
  Summarized =>
    /\ check # NoCheck =>
         \A m \in DOMAIN stored[check.target].metrics :
           LET shown == Bucket(check.target, m) IN
           IF shown = {} THEN Cardinality(check.baseline[m]) + 1 < MinRuns
           ELSE \A b \in shown : check.baseline[m] =
                                   {i \in b.members : stored[i].start < stored[check.target].start}
    /\ ~Insufficient =>
         \A i \in DOMAIN stored : \A m \in DOMAIN stored[i].metrics : \E b \in Bucket(i, m) : b.verdict = {}

(* A verdict is about the runs, not about the order they came in: a bucket is   *)
(* mixed if two of its runs differ, wherever they stand, fields that only one   *)
(* run has do not count, and memory sizes may differ a little.                  *)
VerdictOfAllPairs ==
  \A b \in emitted :
    LET in == b.members
        Have(e) == {i \in in : e \in DOMAIN stored[i].env}
        compared == {e \in EnvFields : Cardinality(Have(e)) >= 2}
        Spans(e, percent) == \E i, j \in Have(e) : 100 * stored[i].env[e] > percent * stored[j].env[e]
        unequal == {e \in compared : Spans(e, 100)}
        far == {e \in compared : Spans(e, IF e = "memory_total_kb" THEN 111 ELSE 100)}
        Score(bad) == (100 * Cardinality(compared \ bad)) \div Cardinality(compared)
    IN /\ "mixed-pmu" \in b.verdict <=> \E i, j \in in : stored[i].pmu # stored[j].pmu
       /\ compared = {} => "mixed-env" \notin b.verdict
       /\ compared # {} /\ Score(far) < MinEnvScore => "mixed-env" \in b.verdict
       /\ compared # {} /\ "mixed-env" \in b.verdict => Score(unequal) < MinEnvScore

=============================================================================
