------------------------------- MODULE Clusters -------------------------------
(***************************************************************************)
(* wspy-archetype --kmeans and --nearest: distances between runs that have *)
(* not measured the same features, and k-means over them.  Values are the  *)
(* standardized ones; a feature that does not vary is not used.            *)
(***************************************************************************)
EXTENDS Sums, FiniteSetsExt, SequencesExt, Functions

CONSTANTS
  Features,    \* the names of features, in an order in which they are added up
  Pools,       \* the runs that may be loaded: sequences of functions [features -> Int]
  Counts,      \* --kmeans
  Iterations,  \* --iterations
  Scale        \* a multiple of every size of a cluster: means are integers
ASSUME ClustersAssumption ==
  /\ Features \in Seq(ToSet(Features)) /\ IsInjective(Features)
  /\ Iterations \in Nat \ {0} /\ Scale \in Nat \ {0} /\ Counts \subseteq Nat \ {0}
  /\ \A vs \in Pools :
       /\ vs \in Seq(ToSet(vs))
       /\ \A i \in DOMAIN vs : DOMAIN vs[i] \subseteq ToSet(Features) /\ \A f \in DOMAIN vs[i] : vs[i][f] \in Int

VARIABLES
  vectors,    \* the runs
  points,     \* the runs as points, with the features a distance uses
  kmeans_k,   \* how many clusters
  chosen,     \* the seeds so far
  dist2,      \* squared distance of each run to the nearest seed
  centroids,  \* functions from features; values are Scale times the standardized ones
  of,         \* the cluster of each run; empty before the first pass
  iter, changed,
  phase,      \* "idle", "seed", "iterate", "done", "ranked" or "few"
  ranking     \* --nearest: the run asked for and its neighbours, nearest first

clustersVars == <<vectors, points, kmeans_k, chosen, dist2, centroids, of, iter, changed, phase, ranking>>

Runs == DOMAIN vectors
Ids == 1..kmeans_k

\* compute_feature_stats() leaves a positive standard deviation
Varies(vs, f) == \E i, j \in DOMAIN vs : f \in DOMAIN vs[i] \cap DOMAIN vs[j] /\ vs[i][f] # vs[j][f]
Points(vs) == [i \in DOMAIN vs |-> [f \in {g \in DOMAIN vs[i] : Varies(vs, g)} |-> Scale * vs[i][f]]]

\* Mean square over the shared features, as a fraction; no distance, and
\* DBL_MAX, are more than any other: a fraction with denominator 0.
Far == [sum |-> 1, n |-> 0]
Zero == [sum |-> 0, n |-> 1]
Less(d, e) == d.sum * e.n < e.sum * d.n
Distance(a, b) ==
  LET shared == DOMAIN a \cap DOMAIN b IN
  IF shared = {} THEN Far
  ELSE [sum |-> SumOf([n \in DOMAIN Features |->
                         LET f == Features[n] IN IF f \in shared THEN (a[f] - b[f]) * (a[f] - b[f]) ELSE 0]),
        n |-> Cardinality(shared)]

ClustersInit ==
  /\ vectors = <<>> /\ points = <<>> /\ kmeans_k = 0 /\ chosen = <<>> /\ dist2 = <<>> /\ centroids = <<>> /\ of = <<>>
  /\ iter = 0 /\ changed = FALSE /\ phase = "idle" /\ ranking = <<>>

\* load_feature_vectors(); a run without a measured feature is not among them
LoadVectors ==
  /\ phase = "idle"
  /\ vectors' \in Pools /\ points' = Points(vectors') /\ kmeans_k' \in Counts
  /\ phase' = IF Len(vectors') < kmeans_k' THEN "few" ELSE "seed"
  /\ UNCHANGED <<chosen, dist2, centroids, of, iter, changed, ranking>>

\* --nearest: the other runs that share a feature, by distance
Neighbors(ps, t) ==
  SetToSortSeq({i \in DOMAIN ps \ {t} : Distance(ps[t], ps[i]) # Far},
               LAMBDA i, j : Less(Distance(ps[t], ps[i]), Distance(ps[t], ps[j])))

Rank ==
  /\ phase = "idle"
  /\ vectors' \in Pools /\ points' = Points(vectors') /\ phase' = "ranked"
  /\ \E t \in DOMAIN vectors' : ranking' = <<t, Neighbors(points', t)>>
  /\ UNCHANGED <<kmeans_k, chosen, dist2, centroids, of, iter, changed>>

-----------------------------------------------------------------------------
(* kmeans_plusplus_init().  A draw of exactly 0 is left out.               *)

SeedFirst(i) ==
  /\ phase = "seed" /\ chosen = <<>>
  /\ chosen' = <<i>>
  /\ dist2' = [j \in Runs |-> IF j = i THEN Zero ELSE Far]
  /\ UNCHANGED <<vectors, points, kmeans_k, centroids, of, iter, changed, phase, ranking>>

\* The distances after one more seed: nearest, capped, and 0 for the seed
Measured(i) ==
  LET d == Distance(points[i], points[chosen[Len(chosen)]])
  IN IF Less(d, dist2[i]) THEN d ELSE dist2[i]

Weight(i) ==
  LET reached == {Measured(j) : j \in {h \in Runs : Measured(h) # Far}}
      most == CHOOSE d \in reached : \A e \in reached : ~Less(d, e)
  IN IF i = chosen[Len(chosen)] THEN Zero
     ELSE IF Measured(i) = Far THEN most ELSE Measured(i)

\* Any run with a weight may be drawn; without weights it is the first left.
SeedNext(i) ==
  /\ phase = "seed" /\ chosen # <<>> /\ Len(chosen) < kmeans_k
  /\ IF \E j \in Runs : Weight(j).sum > 0 THEN Weight(i).sum > 0
     ELSE i = Min(Runs \ ToSet(chosen))
  /\ chosen' = Append(chosen, i)
  /\ dist2' = [j \in Runs |-> Weight(j)]
  /\ UNCHANGED <<vectors, points, kmeans_k, centroids, of, iter, changed, phase, ranking>>

Seeded ==
  /\ phase = "seed" /\ Len(chosen) = kmeans_k
  /\ centroids' = [c \in Ids |-> points[chosen[c]]]
  /\ phase' = "iterate"
  /\ UNCHANGED <<vectors, points, kmeans_k, chosen, dist2, of, iter, changed, ranking>>

-----------------------------------------------------------------------------
(* kmeans_cluster()                                                        *)

Size(a, c) == Cardinality({i \in DOMAIN a : a[i] = c})
ToCentroid(i, c) == Distance(points[i], centroids[c])

\* The first of the nearest, or of the smallest so far if none is in reach
Nearest(a, i) ==
  IF \A c \in Ids : ToCentroid(i, c) = Far
  THEN Min({c \in Ids : \A d \in Ids : Size(a, c) <= Size(a, d)})
  ELSE Min({c \in Ids : \A d \in Ids : ~Less(ToCentroid(i, d), ToCentroid(i, c))})

Assigned ==
  LET upTo[n \in 0 .. Len(vectors)] == IF n = 0 THEN <<>> ELSE Append(upTo[n - 1], Nearest(upTo[n - 1], n))
  IN upTo[Len(vectors)]

\* distances[]: a parked run and one that was moved fit perfectly
Misfit(a, i) == IF a[i] # Assigned[i] \/ ToCentroid(i, a[i]) = Far THEN Zero ELSE ToCentroid(i, a[i])

\* An empty cluster takes the worst fit of the clusters that can spare one.
Filled(a, c) ==
  LET donors == {i \in Runs : Size(a, a[i]) > 1} IN
  IF Size(a, c) > 0 THEN a
  ELSE [a EXCEPT ![Min({i \in donors : \A j \in donors : ~Less(Misfit(a, i), Misfit(a, j))})] = c]

\* Each empty cluster in turn
AllFilled ==
  LET upTo[c \in 0 .. kmeans_k] == IF c = 0 THEN Assigned ELSE Filled(upTo[c - 1], c) IN upTo[kmeans_k]

Members(a, c) == {i \in Runs : a[i] = c}

\* slip: the mean over the members, measured or not
MeanOfAll(a, c) ==
  [f \in UNION {DOMAIN points[i] : i \in Members(a, c)} |->
     SumOf([i \in Runs |-> IF a[i] = c /\ f \in DOMAIN points[i] THEN points[i][f] ELSE 0]) \div Size(a, c)]

\* centroid_update(): the mean over the members that measured the feature
Centroid(a, c) ==
  [f \in UNION {DOMAIN points[i] : i \in Members(a, c)} |->
     LET with == {i \in Members(a, c) : f \in DOMAIN points[i]}
     IN SumOf([i \in Runs |-> IF i \in with THEN points[i][f] ELSE 0]) \div Cardinality(with)]

Iterate ==
  /\ phase = "iterate"
  /\ of' = AllFilled
  /\ changed' = (Assigned # of \/ of' # Assigned)
  /\ centroids' = [c \in Ids |-> Centroid(of', c)]
  /\ iter' = iter + 1
  /\ phase' = IF (~changed' /\ iter > 0) \/ iter' = Iterations THEN "done" ELSE "iterate"
  /\ UNCHANGED <<vectors, points, kmeans_k, chosen, dist2, ranking>>

ClustersNext ==
  \/ LoadVectors \/ Rank
  \/ \E i \in Runs : SeedFirst(i) \/ SeedNext(i)
  \/ Seeded \/ Iterate

ClustersSpec == ClustersInit /\ [][ClustersNext]_clustersVars

-----------------------------------------------------------------------------
(* No cluster is ever left empty, although runs may share no feature with any   *)
(* seed; and when k-means ends because nothing changed, every run is in a       *)
(* cluster whose mean - over the members that measured a feature - is nearest   *)
(* to it by the features they share, if it shares any with a cluster: an        *)
(* average of what was not measured, or a cluster filled by force, would leave  *)
(* runs astray.                                                                 *)
NearestAtRest ==
  /\ of # <<>> => {of[i] : i \in Runs} = Ids
  /\ phase = "done" /\ ~changed =>
       LET Mean(c, f) ==
             LET with == {i \in Members(of, c) : f \in DOMAIN vectors[i]}
             IN SumOf([i \in Runs |-> IF i \in with THEN Scale * vectors[i][f] ELSE 0]) \div Cardinality(with)
           Center(c) == [f \in UNION {DOMAIN points[i] : i \in Members(of, c)} |-> Mean(c, f)]
       IN \A i \in Runs, c \in Ids : ~Less(Distance(points[i], Center(c)), Distance(points[i], Center(of[i])))
=============================================================================
