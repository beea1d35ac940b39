------------------------------- MODULE TreeDiff -------------------------------
(***************************************************************************)
(* proctree --json and proctree --diff: the totals per command name, and   *)
(* the comparison of two exported trees.  Pids mean nothing from one run   *)
(* to another, so merge_nodes() walks both trees at once and pairs the     *)
(* children of a pair that have the same name, the first with the first,   *)
(* the second with the second; what is left over is added or removed.      *)
(*                                                                         *)
(* A tree is a sequence of processes, each after its parent, node 1 the    *)
(* root; siblings stand eldest first.                                      *)
(***************************************************************************)
EXTENDS Sums, FiniteSets, SequencesExt

CONSTANTS
  TreePairs,     \* the trees of run A and run B
  Unnamed,       \* comm of a process without a comm line, null in JSON, "?" in the diff
  Threshold      \* --diff-threshold

Nobody == 0

IsTree(tree) ==
  /\ tree \in Seq(ToSet(tree)) /\ tree # <<>> /\ tree[1].parent = Nobody
  /\ \A n \in 2 .. Len(tree) : tree[n].parent \in 1 .. n - 1
  /\ \A n \in DOMAIN tree : tree[n].utime \in Int /\ tree[n].stime \in Int
ASSUME TreeDiffAssumption == \A pair \in TreePairs : IsTree(pair[1]) /\ IsTree(pair[2])

VARIABLES
  treeA, treeB,
  calls,         \* the calls of merge_nodes() still to make, the next one first
  merged,        \* the diff nodes, in the order they were made
  exit           \* the exit status with and without --json

diffVars == <<treeA, treeB, calls, merged, exit>>

DiffInit == treeA = <<>> /\ treeB = <<>> /\ calls = <<>> /\ merged = <<>> /\ exit = <<>>

-----------------------------------------------------------------------------
(* The export. *)

\* collect_process_totals(): a process is added to the entry of its name, or makes one
Tallied(table, p) ==
  IF p.comm = Unnamed THEN table
  ELSE [c \in DOMAIN table \cup {p.comm} |->
          IF c # p.comm THEN table[c]
          ELSE IF c \notin DOMAIN table THEN [count |-> 1, utime |-> p.utime, stime |-> p.stime]
          ELSE [count |-> table[c].count + 1, utime |-> table[c].utime + p.utime, stime |-> table[c].stime + p.stime]]

\* The array "summary" of an export
CommTable(tree) ==
  LET upTo[n \in 0 .. Len(tree)] == IF n = 0 THEN [c \in {} |-> 0] ELSE Tallied(upTo[n - 1], tree[n])
  IN upTo[Len(tree)]

ReadExports(a, b) ==
  /\ treeA = <<>>
  /\ treeA' = a /\ treeB' = b
  /\ calls' = <<[a |-> 1, b |-> 1, up |-> Nobody, occurrence |-> 0]>>
  /\ UNCHANGED <<merged, exit>>

-----------------------------------------------------------------------------
(* merge_nodes() *)

\* comm_group_table_find_or_add(), comm_group_add_item()
AddItem(table, c, i) ==
  IF \E g \in DOMAIN table : table[g].comm = c
  THEN [g \in DOMAIN table |->
          IF table[g].comm = c THEN [comm |-> c, items |-> Append(table[g].items, i)] ELSE table[g]]
  ELSE Append(table, [comm |-> c, items |-> <<i>>])

\* build_comm_group_table(), from the array "children" of a node
Groups(tree, n) ==
  LET upTo[i \in 0 .. Len(tree)] ==
        IF i = 0 THEN <<>>
        ELSE IF n # Nobody /\ tree[i].parent = n THEN AddItem(upTo[i - 1], tree[i].comm, i) ELSE upTo[i - 1]
  IN upTo[Len(tree)]

Comms(table) == [g \in DOMAIN table |-> table[g].comm]
Items(table, c) ==
  IF \E g \in DOMAIN table : table[g].comm = c
  THEN table[CHOOSE g \in DOMAIN table : table[g].comm = c].items ELSE <<>>

Item(group, i) == IF i \in DOMAIN group THEN group[i] ELSE Nobody

OfTheFirst(ga, gb) == Len(ga) \* slip: what B has more of is left out
Longer(ga, gb) == IF Len(ga) > Len(gb) THEN Len(ga) ELSE Len(gb)

\* The calls for the children of one name
PairedUp(ga, gb, node) ==
  [i \in 1 .. Longer(ga, gb) |-> [a |-> Item(ga, i), b |-> Item(gb, i), up |-> node, occurrence |-> i - 1]]

\* The names in A, then those that are only in B
CallsBelow(ta, tb, node) ==
  LET names == Comms(ta) \o Comms(tb)
      Found(g) == g > Len(ta) /\ names[g] \in ToSet(Comms(ta))
      upTo[g \in 0 .. Len(names)] ==
        IF g = 0 THEN <<>>
        ELSE IF Found(g) THEN upTo[g - 1]
        ELSE upTo[g - 1] \o PairedUp(Items(ta, names[g]), Items(tb, names[g]), node)
  IN upTo[Len(names)]

Abs(x) == IF x < 0 THEN -x ELSE x
Delta(p, q) == [utime |-> q.utime - p.utime, stime |-> q.stime - p.stime]
Beyond(d) == Abs(d.utime) + Abs(d.stime) > Threshold

DiffNode(call) ==
  [a |-> call.a, b |-> call.b, up |-> call.up, occurrence |-> call.occurrence,
   status |-> IF call.b = Nobody THEN "removed"
              ELSE IF call.a = Nobody THEN "added"
              ELSE IF Beyond(Delta(treeA[call.a], treeB[call.b])) THEN "changed" ELSE "same"]

MergeNodes ==
  /\ calls # <<>>
  /\ merged' = Append(merged, DiffNode(calls[1]))
  /\ calls' = CallsBelow(Groups(treeA, calls[1].a), Groups(treeB, calls[1].b), Len(merged) + 1) \o Tail(calls)
  /\ UNCHANGED <<treeA, treeB, exit>>

-----------------------------------------------------------------------------
(* run_diff(), after the merge *)

Matched(n) == merged[n].status \in {"same", "changed"}

\* collect_topmost_changes() does not go below an added or removed node.
Everywhere(n, up) == TRUE \* slip: it does
GoesTo(n, up) == n = 1 \/ Matched(up)
Topmost(status) ==
  LET visited[n \in DOMAIN merged] == GoesTo(n, merged[n].up) /\ (n = 1 \/ visited[merged[n].up])
  IN {n \in DOMAIN merged : visited[n] /\ merged[n].status = status}

\* diff_node_subtree_totals(): the processes below a node, and their cpu time
Cpu(node) == IF node.a # Nobody THEN treeA[node.a].utime + treeA[node.a].stime
             ELSE treeB[node.b].utime + treeB[node.b].stime
Subtree(n) ==
  LET below[m \in DOMAIN merged] == m = n \/ (m > n /\ below[merged[m].up])
  IN [count |-> SumOf([m \in DOMAIN merged |-> IF below[m] THEN 1 ELSE 0]),
      cpu |-> SumOf([m \in DOMAIN merged |-> IF below[m] THEN Cpu(merged[m]) ELSE 0])]

\* The summaries, joined by name
SummaryDiffers == CommTable(treeA) # CommTable(treeB)

TreesDiffer ==
  (\E n \in DOMAIN merged : merged[n].status = "changed") \/ Topmost("added") # {} \/ Topmost("removed") # {}

\* Text output looks at the summaries too.
Compare ==
  /\ calls = <<>> /\ merged # <<>> /\ exit = <<>>
  /\ exit' = [json |-> IF TreesDiffer THEN 1 ELSE 0, text |-> IF TreesDiffer \/ SummaryDiffers THEN 1 ELSE 0]
  /\ UNCHANGED <<treeA, treeB, calls, merged>>

DiffNext ==
  \/ merged = <<>> /\ exit = <<>> /\ \E pair \in TreePairs : ReadExports(pair[1], pair[2])
  \/ MergeNodes
  \/ Compare

DiffSpec == DiffInit /\ [][DiffNext]_diffVars

-----------------------------------------------------------------------------
\* Where a process is, without pids: the name and the occurrence of each of its
\* ancestors and of itself
Signature(tree) ==
  LET Rank(n) == Cardinality({m \in 1 .. n - 1 : tree[m].parent = tree[n].parent /\ tree[m].comm = tree[n].comm})
      sig[n \in DOMAIN tree] ==
        IF n = 1 THEN <<>> ELSE Append(sig[tree[n].parent], <<tree[n].comm, Rank(n)>>)
  IN sig

(* "matches subtrees structurally ... by ancestor-comm-path, disambiguated by       *)
(* same-comm sibling occurrence order" (proctree.c, above diff_metrics): the merge   *)
(* of the two trees finds what a map from signatures to processes would.  Each       *)
(* process is in exactly one diff node, and shares it with the process of the other  *)
(* tree that has its signature, if there is one; the exit status is 0 exactly if     *)
(* every process has a partner and none differs beyond the threshold - and, without  *)
(* --json, no command name's totals differ either.                                   *)
DiffBySignature ==
  exit # <<>> =>
    LET sigA == Signature(treeA)
        sigB == Signature(treeB)
        pairs == {p \in (DOMAIN treeA) \X (DOMAIN treeB) : sigA[p[1]] = sigB[p[2]]}
        onlyA == {a \in DOMAIN treeA : \A b \in DOMAIN treeB : sigA[a] # sigB[b]}
        onlyB == {b \in DOMAIN treeB : \A a \in DOMAIN treeA : sigA[a] # sigB[b]}
        found == {<<merged[n].a, merged[n].b>> : n \in DOMAIN merged}
    IN /\ found = pairs \cup {<<a, Nobody>> : a \in onlyA} \cup {<<Nobody, b>> : b \in onlyB}
       /\ Len(merged) = Cardinality(found)
       /\ exit.json = 0 <=> onlyA = {} /\ onlyB = {} /\ \A p \in pairs : ~Beyond(Delta(treeA[p[1]], treeB[p[2]]))
       /\ exit.text = 0 <=> exit.json = 0 /\ CommTable(treeA) = CommTable(treeB)

CpuOf(tree) == SumOf([n \in DOMAIN tree |-> tree[n].utime + tree[n].stime])

(* What the report shows adds up: the processes and the cpu time of B are those of A *)
(* plus what the matched pairs gained, plus the added subtrees, less the removed     *)
(* ones - nothing is hidden inside a subtree or counted again there - and the        *)
(* summary has every named process of its tree.                                      *)
DiffBalances ==
  exit # <<>> =>
    LET Shown(status) ==
          [n \in DOMAIN merged |-> IF n \in Topmost(status) THEN Subtree(n) ELSE [count |-> 0, cpu |-> 0]]
        Processes(subtrees) == SumOf([n \in DOMAIN subtrees |-> subtrees[n].count])
        Time(subtrees) == SumOf([n \in DOMAIN subtrees |-> subtrees[n].cpu])
        Gain(d) == d.utime + d.stime
        gains == [n \in DOMAIN merged |-> IF Matched(n) THEN Gain(Delta(treeA[merged[n].a], treeB[merged[n].b])) ELSE 0]
    IN /\ Len(treeB) - Len(treeA) = Processes(Shown("added")) - Processes(Shown("removed"))
       /\ CpuOf(treeB) - CpuOf(treeA) = SumOf(gains) + Time(Shown("added")) - Time(Shown("removed"))
       /\ \A tree \in {treeA, treeB} : \A c \in {tree[n].comm : n \in DOMAIN tree} \ {Unnamed} :
            LET own == {n \in DOMAIN tree : tree[n].comm = c}
                time == [n \in DOMAIN tree |-> IF n \in own THEN tree[n].utime + tree[n].stime ELSE 0]
                entry == CommTable(tree)[c]
            IN entry.utime + entry.stime = SumOf(time) /\ entry.count = Cardinality(own)
=============================================================================
