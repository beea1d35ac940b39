----------------------------- MODULE ReportsProofs -----------------------------
(***************************************************************************)
(* Proofs about the tools that report on many runs.                        *)
(*                                                                         *)
(* The edits of the ledger's list (EditInv), for any lists, names and      *)
(* editors: as long as no --remove meets another edit, what is to be kept  *)
(* is in the list, or else in what the one --remove has read.  The report  *)
(* meanwhile (EvidenceInv): what an entry counts lies between the runs     *)
(* still there and the runs there when it began.                           *)
(*                                                                         *)
(* The summary, for any store: what a bucket has added up row by row is    *)
(* what all pairs of its runs say (SummaryInv); and the rows of a bucket   *)
(* come one after the other, so that a bucket that is closed has them all  *)
(* (KeyInv).                                                               *)
(*                                                                         *)
(* The scorecards, for any database whose rows are unique: a snapshot has  *)
(* what was measured of its run in whatever order the rows come, and       *)
(* nothing of the run before (ScoringInv).                                 *)
(*                                                                         *)
(* The clusters, for any runs and any --kmeans: there is always a nearest  *)
(* centroid and a run to spare for an empty cluster, and the centroids are *)
(* the means of the clusters that runs are in (ClusterInv).                *)
(***************************************************************************)
EXTENDS Ledger, Summary, Archetype, Clusters, WellFoundedInduction, SequenceTheorems, FiniteSetTheorems, TLAPS

-----------------------------------------------------------------------------
(* Loops over a sequence.  Induction over the natural numbers is done with    *)
(* the set of those that a fact holds for.                                    *)

LEMMA Smallest ==
  ASSUME NEW T, T \subseteq Nat, T # {}
  PROVE  \E n \in T : \A m \in T : n <= m
<1> DEFINE R == {ss \in Nat \X Nat : ss[1] < ss[2]}
<1>1. IsWellFoundedOn(R, Nat)
  BY NatLessThanWellFounded DEF OpToRel
<1> HIDE DEF R
<1>2. PICK n \in T : \A m \in T : ~(<<m, n>> \in R)
  BY <1>1, WFMin
<1>3. ASSUME NEW m \in T PROVE n <= m
  <2>1. ~(<<m, n>> \in R)
    BY <1>2
  <2> QED
    BY <2>1 DEF R
<1> QED
  BY <1>3

LEMMA SetInduction ==
  ASSUME NEW S, 0 \in S, \A n \in Nat : n \in S => n + 1 \in S
  PROVE  Nat \subseteq S
<1> SUFFICES ASSUME Nat \ S # {} PROVE FALSE
  OBVIOUS
<1>1. PICK n \in Nat \ S : \A m \in Nat \ S : n <= m
  BY Smallest
<1>2. n - 1 \in Nat
  BY <1>1
<1> QED
  BY <1>1, <1>2

\* f is what a loop over q computes from b, a step for each element.
Loops(f, S, b, T, q, step) ==
  /\ f \in [0 .. Len(q) -> S] /\ f[0] = b
  /\ \A i \in 1 .. Len(q) : f[i] = step[<<f[i - 1], q[i]>>]

LEMMA LoopEnds ==
  ASSUME NEW S, NEW b \in S, NEW T, NEW q \in Seq(T), NEW step \in [S \X T -> S]
  PROVE  \E f : Loops(f, S, b, T, q, step)
<1>0. PICK n \in Nat : n = Len(q)
  OBVIOUS
<1> DEFINE Upto(k, f) == /\ f \in [0 .. k -> S] /\ f[0] = b
                         /\ \A i \in 1 .. k : f[i] = step[<<f[i - 1], q[i]>>]
           K == {k \in Nat : k <= n => \E f : Upto(k, f)}
<1>1. 0 \in K
  <2>1. Upto(0, [i \in 0 .. 0 |-> b])
    OBVIOUS
  <2> HIDE DEF Upto
  <2> QED
    BY <2>1
<1>2. ASSUME NEW k \in Nat, k \in K PROVE k + 1 \in K
  <2> SUFFICES ASSUME k + 1 <= n PROVE \E f : Upto(k + 1, f)
    OBVIOUS
  <2>1. PICK f : Upto(k, f)
    BY <1>2
  <2>2. f[k] \in S /\ q[k + 1] \in T
    BY <1>0, <2>1
  <2>3. step[<<f[k], q[k + 1]>>] \in S
    BY <2>2
  <2> DEFINE e == [i \in 0 .. k + 1 |-> IF i = k + 1 THEN step[<<f[k], q[k + 1]>>] ELSE f[i]]
  <2>4. \A i \in 0 .. k : e[i] = f[i] /\ f[i] \in S
    BY <2>1
  <2>5. e[k + 1] = step[<<e[k], q[k + 1]>>]
    <3>1. e[k] = f[k]
      BY <2>4
    <3>2. e[k + 1] = step[<<f[k], q[k + 1]>>]
      OBVIOUS
    <3> QED
      BY <3>1, <3>2
  <2>6. e \in [0 .. k + 1 -> S]
    BY <2>1, <2>3, <2>4
  <2>7. ASSUME NEW i \in 1 .. k + 1 PROVE e[i] = step[<<e[i - 1], q[i]>>]
    <3>1. CASE i = k + 1
      BY <2>5, <3>1
    <3>2. CASE i \in 1 .. k
      <4>1. i \in 0 .. k /\ i - 1 \in 0 .. k
        BY <3>2
      <4>2. f[i] = step[<<f[i - 1], q[i]>>]
        BY <2>1, <3>2
      <4> HIDE DEF e
      <4> QED
        BY <2>4, <4>1, <4>2
    <3> QED
      BY <3>1, <3>2
  <2>8. e[0] = b
    BY <2>1, <2>4
  <2> HIDE DEF e
  <2> QED
    BY <2>6, <2>7, <2>8
<1> HIDE DEF K
<1>3. Nat \subseteq K
  BY <1>1, <1>2, SetInduction
<1>4. PICK f : Upto(n, f)
  <2> HIDE DEF Upto
  <2> QED
    BY <1>3 DEF K
<1> QED
  BY <1>0, <1>4 DEF Loops

-----------------------------------------------------------------------------
(* The edits of the list. *)

\* remove_from_list() keeps each line of another name.
Keeping(rest, lines, n) ==
  \A i \in DOMAIN lines : lines[i].name # n => \E k \in DOMAIN rest : rest[k] = lines[i]

LEMMA LinesKept ==
  ASSUME NEW E, NEW lines \in Seq(E), NEW n
  PROVE  Without(lines, n) \in Seq(E) /\ Keeping(Without(lines, n), lines, n)
<1>0. PICK c \in Nat : c = Len(lines)
  OBVIOUS
<1> DEFINE Is(u) == u = [i \in 0 .. Len(lines) |->
                           IF i = 0 THEN <<>>
                           ELSE IF lines[i].name = n THEN u[i - 1] ELSE Append(u[i - 1], lines[i])]
           u == CHOOSE u : Is(u)
<1>1. Without(lines, n) = u[c]
  BY <1>0 DEF Without
<1>2. \E f : Is(f)
  <2> DEFINE step == [x \in Seq(E) \X E |-> IF x[2].name = n THEN x[1] ELSE Append(x[1], x[2])]
  <2>1. step \in [Seq(E) \X E -> Seq(E)]
    OBVIOUS
  <2>2. \A s \in Seq(E), l \in E : step[<<s, l>>] = IF l.name = n THEN s ELSE Append(s, l)
    OBVIOUS
  <2> HIDE DEF step
  <2>3. <<>> \in Seq(E)
    OBVIOUS
  <2>4. PICK f : Loops(f, Seq(E), <<>>, E, lines, step)
    BY <2>1, <2>3, LoopEnds
  <2>5. f \in [0 .. c -> Seq(E)] /\ f[0] = <<>> /\ \A i \in 1 .. c : f[i] = step[<<f[i - 1], lines[i]>>]
    BY <1>0, <2>4 DEF Loops
  <2>6. ASSUME NEW i \in 1 .. c
        PROVE  f[i] = IF lines[i].name = n THEN f[i - 1] ELSE Append(f[i - 1], lines[i])
    <3>1. i - 1 \in 0 .. c
      OBVIOUS
    <3>2. f[i - 1] \in Seq(E)
      BY ONLY <2>5, <3>1
    <3>3. lines[i] \in E
      BY <1>0
    <3> QED
      BY <2>2, <2>5, <3>2, <3>3
  <2> DEFINE Val(i) == IF i = 0 THEN <<>>
                       ELSE IF lines[i].name = n THEN f[i - 1] ELSE Append(f[i - 1], lines[i])
  <2>7. ASSUME NEW i \in 0 .. c PROVE f[i] = Val(i)
    <3>1. CASE i = 0
      BY <2>5, <3>1
    <3>2. CASE i \in 1 .. c
      <4>1. i # 0 /\ f[i] = IF lines[i].name = n THEN f[i - 1] ELSE Append(f[i - 1], lines[i])
        BY <2>6, <3>2
      <4> QED
        BY <4>1
    <3> QED
      BY <3>1, <3>2
  <2>8. f = [i \in 0 .. c |-> Val(i)]
    <3> HIDE DEF Val
    <3> QED
      BY <2>5, <2>7
  <2> QED
    BY <1>0, <2>8
<1>3. Is(u)
  <2> HIDE DEF Is
  <2> QED
    BY <1>2
<1>4. /\ u[0] = <<>>
      /\ \A i \in 1 .. c : u[i] = IF lines[i].name = n THEN u[i - 1] ELSE Append(u[i - 1], lines[i])
  <2> HIDE DEF u
  <2> DEFINE Val(i) == IF i = 0 THEN <<>>
                       ELSE IF lines[i].name = n THEN u[i - 1] ELSE Append(u[i - 1], lines[i])
  <2>1. u = [i \in 0 .. c |-> Val(i)]
    BY <1>0, <1>3
  <2>2. Val(0) = <<>> /\ 0 \in 0 .. c
    OBVIOUS
  <2>3. ASSUME NEW i \in 1 .. c
        PROVE  Val(i) = (IF lines[i].name = n THEN u[i - 1] ELSE Append(u[i - 1], lines[i])) /\ i \in 0 .. c
    OBVIOUS
  <2> HIDE DEF Val
  <2>4. \A i \in 0 .. c : u[i] = Val(i)
    BY <2>1
  <2> QED
    BY <2>2, <2>3, <2>4
<1> HIDE DEF u
<1> DEFINE SoFar(s, k) == /\ s \in Seq(E)
                          /\ \A i \in 1 .. k : lines[i].name # n => \E j \in DOMAIN s : s[j] = lines[i]
           K == {k \in Nat : k <= c => SoFar(u[k], k)}
<1>5. 0 \in K
  <2>1. SoFar(<<>>, 0)
    OBVIOUS
  <2>2. u[0] = <<>>
    BY <1>4
  <2> HIDE DEF SoFar
  <2> QED
    BY <2>1, <2>2
<1>6. ASSUME NEW k \in Nat, k \in K PROVE k + 1 \in K
  <2> SUFFICES ASSUME k + 1 <= c PROVE SoFar(u[k + 1], k + 1)
    OBVIOUS
  <2>1. PICK s \in Seq(E) : s = u[k] /\ \A i \in 1 .. k : lines[i].name # n => \E j \in DOMAIN s : s[j] = lines[i]
    BY <1>6
  <2>2. PICK i \in 1 .. c : i = k + 1 /\ i - 1 = k
    OBVIOUS
  <2>3. lines[i] \in E
    BY <1>0
  <2>4. u[i] = IF lines[i].name = n THEN s ELSE Append(s, lines[i])
    BY <1>4, <2>1, <2>2
  <2>5. CASE lines[i].name = n
    BY <2>1, <2>2, <2>4, <2>5
  <2>6. CASE lines[i].name # n
    <3>1. PICK t \in Seq(E) : t = Append(s, lines[i])
      <4>1. s \in Seq(E)
        BY <2>1
      <4> QED
        BY <2>3, <4>1, AppendProperties
    <3>2. /\ \A j \in DOMAIN s : j \in DOMAIN t /\ t[j] = s[j]
          /\ Len(t) \in DOMAIN t /\ t[Len(t)] = lines[i]
      BY <2>1, <2>3, <3>1
    <3>3. ASSUME NEW m \in 1 .. k + 1, lines[m].name # n PROVE \E j \in DOMAIN t : t[j] = lines[m]
      BY <2>1, <2>2, <3>2, <3>3
    <3> QED
      BY <2>2, <2>4, <2>6, <3>1, <3>3
  <2> QED
    BY <2>5, <2>6
<1> HIDE DEF K
<1>7. Nat \subseteq K
  BY <1>5, <1>6, SetInduction
<1>8. SoFar(u[c], c)
  <2> HIDE DEF SoFar
  <2> QED
    BY <1>7 DEF K
<1> QED
  BY <1>0, <1>1, <1>8 DEF Keeping

\* What the edits so far have asked for
RemovedNames == {editor[e].name : e \in {f \in Editors : editor[f].pc # "idle" /\ editor[f].op = "remove"}}
AddedNames == {editor[e].name : e \in {f \in Editors : editor[f].pc = "done" /\ editor[f].op = "add"}}

\* The lines l have it.
Preserved(l) ==
  /\ first # Absent => l # Absent /\ \A i \in DOMAIN first :
                         first[i].name \notin RemovedNames => \E k \in DOMAIN l : l[k] = first[i]
  /\ \A n \in AddedNames \ RemovedNames : l # Absent /\ \E k \in DOMAIN l : l[k].name = n

Pcs == {"append", "open", "write", "done"}
Edits == [pc : Pcs, op : {"add", "remove"}, name : Names, read : Seq(Entries)]
EditTypes ==
  /\ list = Absent \/ list \in Seq(Entries)
  /\ first = Absent \/ first \in Seq(Entries)
  /\ editor \in [Editors -> {[pc |-> "idle"]} \cup Edits]
  /\ \A e \in Editors : editor[e].pc = "append" => editor[e].op = "add"
  /\ \A e \in Editors : editor[e].pc \in {"open", "write"} => editor[e].op = "remove" /\ list # Absent

\* Edits are made before the report.
EditsFirst == report.pc # "list" => \A e \in Editors : editor[e].pc = "idle"

EditsApart ==
  ~overlap =>
    /\ \A e, f \in Editors : Removing(e) /\ Busy(f) => e = f
    /\ \A e \in Editors : editor[e].pc = "open" => editor[e].read = list /\ list # Absent
    /\ \A e \in Editors : editor[e].pc = "write" => list = <<>> /\ Preserved(editor[e].read)
    /\ (\A e \in Editors : editor[e].pc # "write") => Preserved(list)

EditInv == EditTypes /\ EditsFirst /\ EditsApart

LEMMA EditsKeep == EditInv => KeepsOthers
<1> SUFFICES ASSUME EditInv, ~overlap, \A e \in Editors : editor[e].pc # "write"
             PROVE  /\ first # Absent => list # Absent /\ \A i \in DOMAIN first :
                          first[i].name \notin RemovedNames => \E k \in DOMAIN list : list[k] = first[i]
                    /\ AddedNames \ RemovedNames # {} =>
                          list # Absent /\ AddedNames \ RemovedNames \subseteq NamesOf(list)
  BY DEF KeepsOthers, RemovedNames, AddedNames
<1>1. Preserved(list)
  BY DEF EditInv, EditsApart
<1> QED
  BY <1>1 DEF Preserved, NamesOf

LEMMA EditorSet ==
  ASSUME EditTypes, NEW e \in Editors, NEW r, editor' = [editor EXCEPT ![e] = r]
  PROVE  /\ editor'[e] = r
         /\ \A f \in Editors : f # e => editor'[f] = editor[f]
  BY DEF EditTypes

LEMMA EditorGoes ==
  ASSUME EditTypes, NEW e \in Editors, editor[e].pc # "idle", NEW to \in Pcs, Goto(e, to)
  PROVE  /\ editor[e] \in Edits
         /\ editor'[e] = [editor[e] EXCEPT !.pc = to]
         /\ editor'[e] \in Edits /\ editor'[e].pc = to /\ editor'[e].op = editor[e].op
         /\ editor'[e].name = editor[e].name /\ editor'[e].read = editor[e].read
         /\ \A f \in Editors : f # e => editor'[f] = editor[f]
<1>1. editor[e] \in Edits
  BY DEF EditTypes
<1>2. editor'[e] = [editor[e] EXCEPT !.pc = to] /\ \A f \in Editors : f # e => editor'[f] = editor[f]
  BY DEF EditTypes, Goto
<1> QED
  BY <1>1, <1>2 DEF Edits

\* An edit leaves the type alone if it puts lines in the list.
LEMMA EditTypesKept ==
  ASSUME EditTypes, NEW e \in Editors, editor'[e] \in Edits,
         editor'[e].pc = "append" => editor'[e].op = "add",
         editor'[e].pc \in {"open", "write"} => editor'[e].op = "remove" /\ list # Absent,
         \A f \in Editors : f # e => editor'[f] = editor[f],
         \E r : editor' = [editor EXCEPT ![e] = r],
         list' = Absent \/ list' \in Seq(Entries), list # Absent => list' # Absent, UNCHANGED first
  PROVE  EditTypes'
<1>1. editor' \in [Editors -> {[pc |-> "idle"]} \cup Edits]
  BY DEF EditTypes
<1> QED
  BY <1>1 DEF EditTypes

LEMMA CheckKeeps ==
  ASSUME EditInv, NEW e \in Editors, NEW n \in Names, Check(e, n)
  PROVE  EditInv'
<1> DEFINE pc == IF list # Absent /\ n \in NamesOf(list) THEN "done" ELSE "append"
           r == [pc |-> pc, op |-> "add", name |-> n, read |-> <<>>]
<1>1. /\ report.pc = "list" /\ editor[e].pc = "idle"
      /\ editor' = [editor EXCEPT ![e] = r]
      /\ overlap' = (overlap \/ \E f \in Editors \ {e} : Removing(f))
      /\ UNCHANGED <<list, first, report>>
  BY DEF Check, Begin, Others
<1>2. r \in Edits /\ r.op = "add" /\ r.name = n /\ r.pc = pc /\ pc \in {"append", "done"}
  BY DEF Edits, Pcs
<1>3. pc = "done" => list # Absent /\ n \in NamesOf(list)
  OBVIOUS
<1> HIDE DEF r, pc
<1>4. editor'[e] = r /\ \A f \in Editors : f # e => editor'[f] = editor[f]
  BY <1>1, EditorSet DEF EditInv
<1>5. EditTypes'
  <2>1. editor'[e] \in Edits /\ editor'[e].pc \in {"append", "done"} /\ editor'[e].op = "add"
    BY <1>2, <1>4
  <2>2. list' = Absent \/ list' \in Seq(Entries)
    BY <1>1 DEF EditInv, EditTypes
  <2> QED
    BY <1>1, <1>4, <2>1, <2>2, EditTypesKept DEF EditInv
<1>6. EditsFirst'
  BY <1>1 DEF EditsFirst
<1>7. ASSUME ~overlap' PROVE EditsApart'
  <2>1. ~overlap /\ \A f \in Editors : ~Removing(f) /\ ~Removing(f)'
    <3>1. \A f \in Editors \ {e} : ~Removing(f)
      BY <1>1, <1>7
    <3>2. ~Removing(e)
      BY <1>1 DEF Removing, Busy
    <3>3. ~Removing(e)'
      BY <1>2, <1>4 DEF Removing, Busy
    <3>4. \A f \in Editors : f # e => ~Removing(f)'
      BY <1>4, <3>1 DEF Removing, Busy
    <3> QED
      BY <1>1, <1>7, <3>1, <3>2, <3>3, <3>4
  <2>2. \A f \in Editors : editor[f].pc \notin {"open", "write"} /\ editor'[f].pc \notin {"open", "write"}
    BY <2>1, <1>5 DEF Removing, Busy, EditInv, EditTypes
  <2>3. Preserved(list)
    BY <2>1, <2>2 DEF EditInv, EditsApart
  <2>4. RemovedNames' = RemovedNames
    BY <1>1, <1>2, <1>4 DEF RemovedNames
  <2>5. AddedNames' \subseteq AddedNames \cup (IF pc = "done" THEN {n} ELSE {})
    BY <1>1, <1>2, <1>4 DEF AddedNames
  <2>6. Preserved(list)'
    BY <1>1, <1>3, <2>3, <2>4, <2>5 DEF Preserved, NamesOf
  <2> QED
    BY <2>1, <2>2, <2>6 DEF EditsApart
<1> QED
  BY <1>5, <1>6, <1>7 DEF EditInv, EditsApart

LEMMA AppendKeeps ==
  ASSUME EditInv, NEW e \in Editors, AppendName(e)
  PROVE  EditInv'
<1> DEFINE line == Line(editor[e].name)
           after == IF list = Absent THEN <<line>> ELSE Append(list, line)
<1>1. /\ editor[e].pc = "append" /\ Goto(e, "done") /\ list' = after
      /\ UNCHANGED <<overlap, first, report>>
  BY DEF AppendName, Others
<1>2. /\ editor[e] \in Edits /\ editor[e].op = "add"
      /\ editor'[e] \in Edits /\ editor'[e].pc = "done" /\ editor'[e].op = "add"
      /\ editor'[e].name = editor[e].name
      /\ \A f \in Editors : f # e => editor'[f] = editor[f]
      /\ \E r : editor' = [editor EXCEPT ![e] = r]
  <2>1. editor[e].op = "add" /\ editor[e].pc # "idle" /\ "done" \in Pcs
    BY <1>1 DEF EditInv, EditTypes, Pcs
  <2> QED
    BY <1>1, <2>1, EditorGoes DEF EditInv, Goto
<1>3. line \in Entries /\ line.name = editor[e].name
  BY <1>2 DEF Edits, Entries, Line
<1>4. list = Absent \/ list \in Seq(Entries)
  BY DEF EditInv, EditTypes
<1>5. /\ after \in Seq(Entries) /\ after # Absent
      /\ \E k \in DOMAIN after : after[k].name = editor[e].name
      /\ list # Absent => \A i \in DOMAIN list : i \in DOMAIN after /\ after[i] = list[i]
  <2> HIDE DEF line
  <2>1. CASE list = Absent
    <3>1. after = <<line>>
      BY <2>1
    <3>2. <<line>> \in Seq(Entries) /\ 1 \in DOMAIN <<line>> /\ <<line>>[1] = line
      BY <1>3
    <3> HIDE DEF after
    <3> QED
      BY <1>3, <2>1, <3>1, <3>2, LedgerAssumption
  <2>2. CASE list # Absent
    <3>1. after = Append(list, line) /\ list \in Seq(Entries)
      BY <1>4, <2>2
    <3> HIDE DEF after
    <3>2. PICK c \in Nat : c = Len(list)
      BY <3>1
    <3>3. /\ after \in Seq(Entries) /\ DOMAIN after = 1 .. c + 1 /\ after[c + 1] = line
          /\ DOMAIN list = 1 .. c /\ \A i \in 1 .. c : after[i] = list[i]
      BY <1>3, <3>1, <3>2
    <3> QED
      BY <1>3, <3>2, <3>3, LedgerAssumption
  <2> QED
    BY <2>1, <2>2
<1> HIDE DEF line, after
<1>6. EditTypes'
  BY <1>1, <1>2, <1>5, EditTypesKept DEF EditInv
<1>7. EditsFirst'
  BY <1>1, <1>2 DEF EditInv, EditsFirst
<1>8. ASSUME ~overlap' PROVE EditsApart'
  <2>1. ~overlap /\ \A f \in Editors : ~Removing(f) /\ ~Removing(f)'
    <3>1. ~overlap /\ Busy(e) /\ ~Removing(e)
      BY <1>1, <1>2, <1>8 DEF Busy, Removing
    <3>2. \A f \in Editors : ~Removing(f)
      BY <3>1 DEF EditInv, EditsApart
    <3> QED
      BY <1>2, <3>1, <3>2 DEF Removing, Busy
  <2>2. \A f \in Editors : editor[f].pc \notin {"open", "write"} /\ editor'[f].pc \notin {"open", "write"}
    BY <2>1, <1>6 DEF Removing, Busy, EditInv, EditTypes
  <2>3. Preserved(list)
    BY <2>1, <2>2 DEF EditInv, EditsApart
  <2>4. RemovedNames' = RemovedNames
    BY <1>1, <1>2 DEF RemovedNames
  <2>5. AddedNames' \subseteq AddedNames \cup {editor[e].name}
    BY <1>1, <1>2 DEF AddedNames
  <2>6. Preserved(list)'
    BY <1>1, <1>5, <2>3, <2>4, <2>5 DEF Preserved
  <2> QED
    BY <2>1, <2>2, <2>6 DEF EditsApart
<1> QED
  BY <1>6, <1>7, <1>8 DEF EditInv, EditsApart

LEMMA ReadKeeps ==
  ASSUME EditInv, NEW e \in Editors, NEW n \in Names, ReadList(e, n)
  PROVE  EditInv'
<1>1. PICK r : /\ report.pc = "list" /\ editor[e].pc = "idle"
               /\ editor' = [editor EXCEPT ![e] = r]
               /\ overlap' = (overlap \/ \E f \in Editors \ {e} : Busy(f))
               /\ UNCHANGED <<list, first, report>>
               /\ r \in Edits /\ r.op = "remove" /\ r.name = n
               /\ IF list = Absent THEN r.pc = "done" ELSE r.pc = "open" /\ r.read = list
  <2>1. CASE list = Absent
    <3>1. <<>> \in Seq(Entries)
      OBVIOUS
    <3>2. [pc |-> "done", op |-> "remove", name |-> n, read |-> <<>>] \in Edits
      BY <3>1 DEF Edits, Pcs
    <3> QED
      BY <2>1, <3>2 DEF ReadList, Begin, Others
  <2>2. CASE list # Absent
    <3>1. list \in Seq(Entries)
      BY <2>2 DEF EditInv, EditTypes
    <3>2. [pc |-> "open", op |-> "remove", name |-> n, read |-> list] \in Edits
      BY <3>1 DEF Edits, Pcs
    <3> QED
      BY <2>2, <3>2 DEF ReadList, Begin, Others
  <2> QED
    BY <2>1, <2>2
<1>2. editor'[e] = r /\ \A f \in Editors : f # e => editor'[f] = editor[f]
  BY <1>1, EditorSet DEF EditInv
<1>3. EditTypes'
  <2>1. editor'[e] \in Edits /\ editor'[e].pc \in {"open", "done"} /\ editor'[e].op = "remove"
    BY <1>1, <1>2
  <2>2. list' = Absent \/ list' \in Seq(Entries)
    BY <1>1 DEF EditInv, EditTypes
  <2> QED
    BY <1>1, <1>2, <2>1, <2>2, EditTypesKept DEF EditInv
<1>4. EditsFirst'
  BY <1>1 DEF EditsFirst
<1>5. ASSUME ~overlap' PROVE EditsApart'
  <2>1. ~overlap /\ \A f \in Editors : ~Busy(f)
    <3>1. ~Busy(e)
      BY <1>1 DEF Busy
    <3> QED
      BY <1>1, <1>5, <3>1
  <2>2. \A f \in Editors : editor[f].pc \in {"idle", "done"}
    BY <2>1 DEF Busy
  <2>3. Preserved(list)
    BY <2>1, <2>2 DEF EditInv, EditsApart
  <2>4. RemovedNames' = RemovedNames \cup {n}
    BY <1>1, <1>2 DEF RemovedNames
  <2>5. AddedNames' = AddedNames
    BY <1>1, <1>2 DEF AddedNames
  <2>6. Preserved(list)'
    BY <1>1, <2>3, <2>4, <2>5 DEF Preserved
  <2>7. \A f \in Editors : f # e => editor'[f].pc \in {"idle", "done"}
    BY <1>2, <2>2
  <2>8. editor'[e].pc # "write" /\ (editor'[e].pc = "open" => editor'[e].read = list' /\ list' # Absent)
    BY <1>1, <1>2
  <2>9. \A f \in Editors : Busy(f)' => f = e
    BY <2>7 DEF Busy
  <2>10. \A f, g \in Editors : Removing(f)' /\ Busy(g)' => f = g
    BY <2>9 DEF Removing
  <2> QED
    BY <2>6, <2>7, <2>8, <2>10 DEF EditsApart
<1> QED
  BY <1>3, <1>4, <1>5 DEF EditInv, EditsApart

LEMMA TruncateKeeps ==
  ASSUME EditInv, NEW e \in Editors, Truncate(e)
  PROVE  EditInv'
<1>1. /\ editor[e].pc = "open" /\ Goto(e, "write") /\ list' = <<>>
      /\ UNCHANGED <<overlap, first, report>>
  BY DEF Truncate, Others
<1>2. /\ editor[e] \in Edits /\ editor[e].op = "remove"
      /\ editor'[e] \in Edits /\ editor'[e].pc = "write" /\ editor'[e].op = "remove"
      /\ editor'[e].name = editor[e].name /\ editor'[e].read = editor[e].read
      /\ \A f \in Editors : f # e => editor'[f] = editor[f]
      /\ \E r : editor' = [editor EXCEPT ![e] = r]
  <2>1. editor[e].op = "remove" /\ editor[e].pc # "idle" /\ "write" \in Pcs
    BY <1>1 DEF EditInv, EditTypes, Pcs
  <2> QED
    BY <1>1, <2>1, EditorGoes DEF EditInv, Goto
<1>3. EditTypes'
  <2>1. list' \in Seq(Entries)
    BY <1>1
  <2>2. list' # Absent /\ list # Absent
    BY <1>1, <2>1, LedgerAssumption DEF EditInv, EditTypes
  <2> QED
    BY <1>1, <1>2, <2>1, <2>2, EditTypesKept DEF EditInv
<1>4. EditsFirst'
  BY <1>1, <1>2 DEF EditInv, EditsFirst
<1>5. ASSUME ~overlap' PROVE EditsApart'
  <2>1. ~overlap /\ Removing(e) /\ \A f \in Editors : Busy(f) => f = e
    <3>1. ~overlap /\ Removing(e)
      BY <1>1, <1>2, <1>5 DEF Busy, Removing
    <3> QED
      BY <3>1 DEF EditInv, EditsApart
  <2>2. \A f \in Editors : f # e => editor[f].pc \in {"idle", "done"} /\ editor'[f].pc \in {"idle", "done"}
    BY <1>2, <2>1 DEF Busy
  <2>3. Preserved(list) /\ editor[e].read = list
    BY <1>1, <2>1, <2>2 DEF EditInv, EditsApart
  <2>4. RemovedNames' = RemovedNames /\ AddedNames' = AddedNames
    BY <1>1, <1>2 DEF RemovedNames, AddedNames
  <2>5. Preserved(editor[e].read)'
    BY <1>1, <1>2, <2>3, <2>4 DEF Preserved
  <2>6. \A f \in Editors : Busy(f)' => f = e
    BY <2>2 DEF Busy
  <2>7. \A f, g \in Editors : Removing(f)' /\ Busy(g)' => f = g
    BY <2>6 DEF Removing
  <2>8. \A f \in Editors : editor'[f].pc = "write" => f = e
    BY <2>2
  <2>9. \A f \in Editors : editor'[f].pc # "open"
    BY <1>2, <2>2
  <2> QED
    BY <1>1, <1>2, <2>5, <2>7, <2>8, <2>9 DEF EditsApart
<1> QED
  BY <1>3, <1>4, <1>5 DEF EditInv, EditsApart

LEMMA RewriteKeeps ==
  ASSUME EditInv, NEW e \in Editors, Rewrite(e)
  PROVE  EditInv'
<1> DEFINE rest == SubSeq(list, Len(Kept(e)) + 1, Len(list))
<1>1. /\ editor[e].pc = "write" /\ Goto(e, "done") /\ list' = Kept(e) \o rest
      /\ UNCHANGED <<overlap, first, report>>
  BY DEF Rewrite, Others
<1>2. /\ editor[e] \in Edits /\ editor[e].op = "remove"
      /\ editor'[e] \in Edits /\ editor'[e].pc = "done" /\ editor'[e].op = "remove"
      /\ editor'[e].name = editor[e].name /\ editor'[e].read = editor[e].read
      /\ \A f \in Editors : f # e => editor'[f] = editor[f]
      /\ \E r : editor' = [editor EXCEPT ![e] = r]
  <2>1. editor[e].op = "remove" /\ editor[e].pc # "idle" /\ "done" \in Pcs
    BY <1>1 DEF EditInv, EditTypes, Pcs
  <2> QED
    BY <1>1, <2>1, EditorGoes DEF EditInv, Goto
<1>3. /\ Kept(e) \in Seq(Entries)
      /\ \A i \in DOMAIN editor[e].read : editor[e].read[i].name # editor[e].name =>
           \E k \in DOMAIN Kept(e) : Kept(e)[k] = editor[e].read[i]
  <2>1. PICK lines \in Seq(Entries) : lines = editor[e].read
    BY <1>2 DEF Edits
  <2> DEFINE n == editor[e].name
  <2>2. Kept(e) = Without(lines, n)
    BY <2>1 DEF Kept
  <2> HIDE DEF n
  <2>3. Without(lines, n) \in Seq(Entries) /\ Keeping(Without(lines, n), lines, n)
    BY LinesKept
  <2> QED
    BY <2>1, <2>2, <2>3 DEF Keeping, n
<1>4. list' \in Seq(Entries)
  <2>1. list \in Seq(Entries)
    BY <1>1 DEF EditInv, EditTypes
  <2>2. /\ Len(list) \in Nat /\ Len(Kept(e)) \in Nat
        /\ \A i \in 1 .. Len(list) : list[i] \in Entries
    BY <1>3, <2>1
  <2>3. rest \in Seq(Entries)
    <3>1. PICK m \in Nat, c \in Nat : m = Len(Kept(e)) + 1 /\ m >= 1 /\ c = Len(list)
      BY <2>2
    <3>2. \A i \in m .. c : list[i] \in Entries
      BY <2>2, <3>1
    <3>3. SubSeq(list, m, c) \in Seq(Entries)
      BY <3>1, <3>2, SubSeqProperties
    <3> QED
      BY <3>1, <3>3
  <2> QED
    BY <1>1, <1>3, <2>3, ConcatProperties
<1> HIDE DEF rest
<1>5. EditTypes'
  <2>1. list' # Absent
    BY <1>4, LedgerAssumption
  <2> QED
    BY <1>1, <1>2, <1>4, <2>1, EditTypesKept DEF EditInv
<1>6. EditsFirst'
  BY <1>1, <1>2 DEF EditInv, EditsFirst
<1>7. ASSUME ~overlap' PROVE EditsApart'
  <2>1. ~overlap /\ Removing(e) /\ \A f \in Editors : Busy(f) => f = e
    <3>1. ~overlap /\ Removing(e)
      BY <1>1, <1>2, <1>7 DEF Busy, Removing
    <3> QED
      BY <3>1 DEF EditInv, EditsApart
  <2>2. \A f \in Editors : editor'[f].pc \in {"idle", "done"}
    BY <1>2, <2>1 DEF Busy
  <2>3. list = <<>> /\ Preserved(editor[e].read)
    BY <1>1, <2>1 DEF EditInv, EditsApart
  <2>4. list' = Kept(e)
    <3>1. rest = <<>>
      <4>1. PICK m \in Nat : m = Len(Kept(e)) + 1 /\ m > 0
        BY <1>3
      <4>2. rest = SubSeq(<<>>, m, 0)
        BY <2>3, <4>1 DEF rest
      <4>3. SubSeq(<<>>, m, 0) = <<>>
        BY <4>1
      <4> QED
        BY <4>2, <4>3
    <3> QED
      BY <1>1, <1>3, <3>1, ConcatEmptySeq
  <2>5. RemovedNames' = RemovedNames /\ AddedNames' = AddedNames /\ editor[e].name \in RemovedNames
    BY <1>1, <1>2 DEF RemovedNames, AddedNames
  <2>6. Preserved(list)'
    <3>1. list' # Absent
      BY <1>4, LedgerAssumption
    <3>2. ASSUME first # Absent, NEW i \in DOMAIN first, first[i].name \notin RemovedNames
          PROVE  \E k \in DOMAIN Kept(e) : Kept(e)[k] = first[i]
      <4>1. PICK k \in DOMAIN editor[e].read : editor[e].read[k] = first[i]
        BY <2>3, <3>2 DEF Preserved
      <4>2. editor[e].read[k].name # editor[e].name
        BY <2>5, <3>2, <4>1
      <4> QED
        BY <1>3, <4>1, <4>2
    <3>3. ASSUME NEW n \in AddedNames \ RemovedNames
          PROVE  \E k \in DOMAIN Kept(e) : Kept(e)[k].name = n
      <4>1. PICK k \in DOMAIN editor[e].read : editor[e].read[k].name = n
        BY <2>3 DEF Preserved
      <4> QED
        BY <1>3, <2>5, <4>1
    <3> QED
      BY <1>1, <2>4, <2>5, <3>1, <3>2, <3>3 DEF Preserved
  <2> QED
    BY <2>2, <2>6 DEF EditsApart, Busy, Removing
<1> QED
  BY <1>5, <1>6, <1>7 DEF EditInv, EditsApart

\* What the report does is not about the list.
LEMMA ReportKeeps ==
  ASSUME EditInv, UNCHANGED <<list, first, editor, overlap>>,
         report.pc = "list" => \A e \in Editors : editor[e].pc = "idle"
  PROVE  EditInv'
<1>1. EditTypes' /\ (EditsApart => EditsApart')
  BY DEF EditInv, EditTypes, EditsApart, Preserved, RemovedNames, AddedNames, Busy, Removing
<1> QED
  BY <1>1 DEF EditInv, EditsFirst

LEMMA StartKeeps ==
  ASSUME EditInv, LedgerStart
  PROVE  EditInv'
<1>1. /\ \A e \in Editors : editor[e].pc = "idle"
      /\ first' \in Lists /\ list' = first' /\ UNCHANGED <<editor, overlap>>
  BY DEF LedgerStart, EditInv, EditsFirst, NoReport
<1>2. first' = Absent \/ first' \in Seq(Entries)
  BY <1>1, LedgerAssumption
<1>3. EditTypes'
  BY <1>1, <1>2 DEF EditInv, EditTypes
<1>4. Preserved(list)'
  BY <1>1 DEF Preserved, AddedNames
<1> QED
  BY <1>1, <1>3, <1>4 DEF EditInv, EditsFirst, EditsApart, Busy, Removing

LEMMA EditStep == EditInv /\ [LedgerNext]_ledgerVars => EditInv'
<1> SUFFICES ASSUME EditInv, [LedgerNext]_ledgerVars PROVE EditInv'
  OBVIOUS
<1>1. CASE LedgerStart
  BY <1>1, StartKeeps
<1>2. ASSUME NEW e \in Editors, Edit(e) PROVE EditInv'
  BY <1>2, CheckKeeps, ReadKeeps, AppendKeeps, TruncateKeeps, RewriteKeeps DEF Edit
<1>3. CASE LoadList
  BY <1>3, ReportKeeps DEF LoadList
<1>4. CASE ScanRecord
  BY <1>4, ReportKeeps DEF ScanRecord
<1>5. CASE ScanProfiles
  BY <1>5, ReportKeeps DEF ScanProfiles
<1>6. ASSUME NEW r \in dirs, DeleteRun(r) PROVE EditInv'
  BY <1>6, ReportKeeps DEF DeleteRun
<1>7. CASE UNCHANGED ledgerVars
  <2>1. EditTypes' /\ EditsFirst' /\ EditsApart'
    BY <1>7 DEF ledgerVars, EditInv, EditTypes, EditsFirst, EditsApart, Preserved, RemovedNames, AddedNames,
                Busy, Removing
  <2> QED
    BY <2>1 DEF EditInv
<1> QED
  BY <1>1, <1>2, <1>3, <1>4, <1>5, <1>6, <1>7 DEF LedgerNext

LEMMA EditStart == LedgerInit => EditInv
  BY DEF LedgerInit, EditInv, EditTypes, EditsFirst, EditsApart, Preserved, AddedNames, Busy, Removing

(* Whatever the list, and whoever edits it in whatever order: what no --remove *)
(* asked to go stays, and what an --add has put there is there, unless a       *)
(* --remove ran together with another edit (add_to_list, remove_from_list).    *)
THEOREM EditsKeepOthers == LedgerSpec => []KeepsOthers
  BY EditStart, EditStep, EditsKeep, PTL DEF LedgerSpec

-----------------------------------------------------------------------------
(* The report. *)

\* An entry while the report is made
Cards == [name : {l.name : l \in Entries}, annotation : {l.status : l \in Entries},
          matched : Nat, succeeded : Nat, stale : Nat,
          last : {NoRun} \cup {r.run : r \in AllOf(Indexes)}, lastStart : Nat,
          dep : BOOLEAN, combos : Nat, ambiguous : BOOLEAN]

\* The record is one of a run of the workload, and the run's files are there.
Attempted(record, entry, there) ==
  ~record.torn /\ Matches(record, entry) /\ (record.paths => record.run \in there)

\* What an entry says of the first k records: the runs there now count, and what
\* counts are runs that were there at first.
Counting(entry, index, k, now, then) ==
  /\ \A i \in 1 .. k : Attempted(index[i], entry, now) =>
       /\ entry.matched > 0 /\ index[i].start <= entry.lastStart
       /\ index[i].succeeded => entry.succeeded > 0
  /\ entry.matched > 0 => \E i \in 1 .. k : Attempted(index[i], entry, then)
  /\ entry.succeeded > 0 => \E i \in 1 .. k : Attempted(index[i], entry, then) /\ index[i].succeeded
  /\ entry.last # NoRun => \E i \in 1 .. k : Attempted(index[i], entry, then) /\ index[i].run = entry.last

Fresh(entry) == ~entry.dep /\ entry.combos = 0 /\ ~entry.ambiguous

Scanning ==
  report.pc = "scan" =>
    /\ report = [pc |-> "scan", index |-> report.index, at |-> report.at, entries |-> report.entries]
    /\ report.index \in Indexes /\ report.at \in 1 .. Len(report.index) + 1
    /\ \A i \in DOMAIN report.entries :
         /\ report.entries[i] \in Cards /\ Fresh(report.entries[i])
         /\ Counting(report.entries[i], report.index, report.at - 1, dirs, before)

\* What an entry says of the first k profiles: that of one of them, and whether
\* another says otherwise.
Offering(entry, tree, k) ==
  /\ entry.combos = 0 => \A i \in 1 .. k : tree[i].base # entry.name
  /\ entry.combos # 0 => \E i \in 1 .. k : tree[i].base = entry.name /\ tree[i].combos = entry.combos
  /\ entry.ambiguous => \E i, j \in 1 .. k : /\ tree[i].base = entry.name /\ tree[j].base = entry.name
                                             /\ tree[i].combos # tree[j].combos
  /\ ~entry.ambiguous => \A i \in 1 .. k : tree[i].base = entry.name => tree[i].combos = entry.combos

Missing(entry, tree) ==
  entry.dep => \E i \in DOMAIN tree : tree[i].base = entry.name /\ tree[i].unavailable

EntriesPrinted ==
  report.pc = "printed" =>
    /\ report.index \in Indexes /\ report.tree \in Profiles
    /\ \A i \in DOMAIN report.entries :
         /\ report.entries[i] \in Cards /\ Missing(report.entries[i], report.tree)
         /\ Counting(report.entries[i], report.index, Len(report.index), dirs, before)
         /\ report.combos => Offering(report.entries[i], report.tree, Len(report.tree))

EvidenceInv == dirs \subseteq before /\ Scanning /\ EntriesPrinted

LEMMA CountedCard ==
  ASSUME NEW entry \in Cards, NEW record \in AllOf(Indexes)
  PROVE  LET after == Counted(entry, record) IN
         /\ after \in Cards
         /\ after.name = entry.name /\ after.annotation = entry.annotation
         /\ after.dep = entry.dep /\ after.combos = entry.combos /\ after.ambiguous = entry.ambiguous
         /\ ~Matches(record, entry) \/ Stale(record) =>
              /\ after.matched = entry.matched /\ after.succeeded = entry.succeeded
              /\ after.last = entry.last /\ after.lastStart = entry.lastStart
         /\ Matches(record, entry) /\ ~Stale(record) =>
              /\ after.matched = entry.matched + 1
              /\ after.succeeded = IF record.succeeded THEN entry.succeeded + 1 ELSE entry.succeeded
              /\ after.last = IF record.start >= entry.lastStart THEN record.run ELSE entry.last
              /\ after.lastStart = IF record.start >= entry.lastStart THEN record.start ELSE entry.lastStart
<1>1. record.start \in Nat /\ record.run \in {r.run : r \in AllOf(Indexes)}
  BY LedgerAssumption
<1>2. CASE ~Matches(record, entry)
  BY <1>2 DEF Counted
<1>3. CASE Matches(record, entry) /\ Stale(record)
  BY <1>3 DEF Counted, Cards
<1>4. CASE Matches(record, entry) /\ ~Stale(record)
  <2> DEFINE newest == record.start >= entry.lastStart
             m == entry.matched + 1
             n == IF record.succeeded THEN entry.succeeded + 1 ELSE entry.succeeded
             l == IF newest THEN record.run ELSE entry.last
             t == IF newest THEN record.start ELSE entry.lastStart
             after == [entry EXCEPT !.matched = m, !.succeeded = n, !.last = l, !.lastStart = t]
  <2>1. Counted(entry, record) = after
    BY <1>4 DEF Counted
  <2>2. m \in Nat /\ n \in Nat /\ t \in Nat /\ l \in {NoRun} \cup {r.run : r \in AllOf(Indexes)}
    BY <1>1 DEF Cards
  <2>3. /\ m = entry.matched + 1
        /\ n = IF record.succeeded THEN entry.succeeded + 1 ELSE entry.succeeded
        /\ l = IF record.start >= entry.lastStart THEN record.run ELSE entry.last
        /\ t = IF record.start >= entry.lastStart THEN record.start ELSE entry.lastStart
    OBVIOUS
  <2> HIDE DEF newest, m, n, l, t
  <2>4. /\ after \in Cards
        /\ after.name = entry.name /\ after.annotation = entry.annotation
        /\ after.dep = entry.dep /\ after.combos = entry.combos /\ after.ambiguous = entry.ambiguous
        /\ after.matched = m /\ after.succeeded = n /\ after.last = l /\ after.lastStart = t
    BY <2>2 DEF Cards
  <2> QED
    BY <1>4, <2>1, <2>3, <2>4
<1> QED
  BY <1>2, <1>3, <1>4

LEMMA CountedCounts ==
  ASSUME NEW entry \in Cards, NEW index \in Seq(AllOf(Indexes)), NEW k \in Nat, k < Len(index),
         dirs \subseteq before, ~index[k + 1].torn, Counting(entry, index, k, dirs, before)
  PROVE  Counting(Counted(entry, index[k + 1]), index, k + 1, dirs, before)
<1>1. PICK record \in AllOf(Indexes), n \in Nat : n = k + 1 /\ record = index[n]
  OBVIOUS
<1>2. PICK after : after = Counted(entry, record)
  OBVIOUS
<1>3. /\ after.name = entry.name
      /\ ~Matches(record, entry) \/ Stale(record) =>
           /\ after.matched = entry.matched /\ after.succeeded = entry.succeeded
           /\ after.last = entry.last /\ after.lastStart = entry.lastStart
      /\ Matches(record, entry) /\ ~Stale(record) =>
           /\ after.matched = entry.matched + 1
           /\ after.succeeded = IF record.succeeded THEN entry.succeeded + 1 ELSE entry.succeeded
           /\ after.last = IF record.start >= entry.lastStart THEN record.run ELSE entry.last
           /\ after.lastStart = IF record.start >= entry.lastStart THEN record.start ELSE entry.lastStart
  BY <1>2, CountedCard
<1>4. /\ entry.matched \in Nat /\ entry.succeeded \in Nat /\ entry.lastStart \in Nat
      /\ record.start \in Nat /\ \A i \in 1 .. k : index[i].start \in Nat
  BY LedgerAssumption DEF Cards
<1>5. \A r, there : Attempted(r, after, there) <=> Attempted(r, entry, there)
  BY <1>3 DEF Attempted, Matches
<1>6. Attempted(record, entry, dirs) <=> Matches(record, entry) /\ ~Stale(record)
  BY <1>1 DEF Attempted, Stale
<1>7. Attempted(record, entry, dirs) => Attempted(record, entry, before)
  BY DEF Attempted
<1>8. \A i \in 1 .. n : i \in 1 .. k \/ i = n
  BY <1>1
<1>9. n \in 1 .. n /\ \A i \in 1 .. k : i \in 1 .. n
  BY <1>1
<1>10. CASE Attempted(record, entry, dirs)
  <2>1. /\ after.matched = entry.matched + 1
        /\ after.succeeded = IF record.succeeded THEN entry.succeeded + 1 ELSE entry.succeeded
        /\ after.last = IF record.start >= entry.lastStart THEN record.run ELSE entry.last
        /\ after.lastStart = IF record.start >= entry.lastStart THEN record.start ELSE entry.lastStart
    BY <1>3, <1>6, <1>10
  <2>2. ASSUME NEW i \in 1 .. n, Attempted(index[i], entry, dirs)
        PROVE  /\ after.matched > 0 /\ index[i].start <= after.lastStart
               /\ index[i].succeeded => after.succeeded > 0
    BY <1>1, <1>4, <1>8, <2>1, <2>2 DEF Counting
  <2>3. \E i \in 1 .. n : Attempted(index[i], entry, before)
    BY <1>1, <1>7, <1>9, <1>10
  <2>4. after.succeeded > 0 => \E i \in 1 .. n : Attempted(index[i], entry, before) /\ index[i].succeeded
    BY <1>1, <1>7, <1>9, <1>10, <2>1 DEF Counting
  <2>5. after.last # NoRun => \E i \in 1 .. n : Attempted(index[i], entry, before) /\ index[i].run = after.last
    BY <1>1, <1>7, <1>9, <1>10, <2>1 DEF Counting
  <2> QED
    BY <1>1, <1>2, <1>5, <2>2, <2>3, <2>4, <2>5 DEF Counting
<1>11. CASE ~Attempted(record, entry, dirs)
  <2>1. /\ after.matched = entry.matched /\ after.succeeded = entry.succeeded
        /\ after.last = entry.last /\ after.lastStart = entry.lastStart
    BY <1>3, <1>6, <1>11
  <2>2. ASSUME NEW i \in 1 .. n, Attempted(index[i], entry, dirs)
        PROVE  /\ after.matched > 0 /\ index[i].start <= after.lastStart
               /\ index[i].succeeded => after.succeeded > 0
    BY <1>1, <1>8, <1>11, <2>1, <2>2 DEF Counting
  <2>3. after.matched > 0 => \E i \in 1 .. n : Attempted(index[i], entry, before)
    BY <1>9, <2>1 DEF Counting
  <2>4. after.succeeded > 0 => \E i \in 1 .. n : Attempted(index[i], entry, before) /\ index[i].succeeded
    BY <1>9, <2>1 DEF Counting
  <2>5. after.last # NoRun => \E i \in 1 .. n : Attempted(index[i], entry, before) /\ index[i].run = after.last
    BY <1>9, <2>1 DEF Counting
  <2> QED
    BY <1>1, <1>2, <1>5, <2>2, <2>3, <2>4, <2>5 DEF Counting
<1> QED
  BY <1>10, <1>11

LEMMA NewEntryCard ==
  ASSUME NEW line \in Entries
  PROVE  /\ NewEntry(line) \in Cards /\ Fresh(NewEntry(line))
         /\ \A index : Counting(NewEntry(line), index, 0, dirs, before)
  BY DEF NewEntry, Cards, Fresh, Counting

LEMMA LoadCounts ==
  ASSUME EditInv, EvidenceInv, LoadList
  PROVE  EvidenceInv'
<1>1. CASE list \in {Absent, <<>>}
  <2>1. report' = [pc |-> "failed"] /\ UNCHANGED <<dirs, before>>
    BY <1>1 DEF LoadList
  <2>2. report'.pc = "failed"
    BY <2>1
  <2> QED
    BY <2>1, <2>2 DEF EvidenceInv, Scanning, EntriesPrinted
<1>2. CASE list \notin {Absent, <<>>}
  <2>1. PICK index \in Indexes : /\ before' = dirs'
                                 /\ report' = [pc |-> "scan", index |-> index, at |-> 1,
                                               entries |-> [i \in DOMAIN list |-> NewEntry(list[i])]]
    BY <1>2 DEF LoadList
  <2>2. /\ report'.pc = "scan" /\ report'.index = index /\ report'.at = 1
        /\ report'.entries = [i \in DOMAIN list |-> NewEntry(list[i])]
    BY <2>1
  <2>3. report' = [pc |-> "scan", index |-> report'.index, at |-> report'.at, entries |-> report'.entries]
    BY <2>1, <2>2
  <2>4. list \in Seq(Entries)
    BY <1>2 DEF EditInv, EditTypes
  <2>5. \A i \in DOMAIN list : list[i] \in Entries
    BY <2>4
  <2>6. index \in Seq(AllOf(Indexes))
    BY LedgerAssumption
  <2>7. ASSUME NEW i \in DOMAIN report'.entries
        PROVE  /\ report'.entries[i] \in Cards /\ Fresh(report'.entries[i])
               /\ Counting(report'.entries[i], report'.index, 0, dirs', before')
    <3>1. i \in DOMAIN list /\ report'.entries[i] = NewEntry(list[i])
      BY <2>2
    <3>2. Counting(NewEntry(list[i]), report'.index, 0, dirs', before')
      BY DEF NewEntry, Counting
    <3> QED
      BY <2>5, <3>1, <3>2, NewEntryCard
  <2>8. report'.at - 1 = 0 /\ report'.at \in 1 .. Len(report'.index) + 1
    BY <2>2, <2>6
  <2>9. Scanning'
    BY <2>1, <2>2, <2>3, <2>7, <2>8 DEF Scanning
  <2> QED
    BY <2>1, <2>2, <2>9 DEF EvidenceInv, EntriesPrinted
<1> QED
  BY <1>1, <1>2

LEMMA ScanCounts ==
  ASSUME EvidenceInv, ScanRecord
  PROVE  EvidenceInv'
<1> DEFINE record == report.index[report.at]
           after == IF record.torn THEN report.entries
                    ELSE [i \in DOMAIN report.entries |-> Counted(report.entries[i], record)]
<1>1. /\ report.pc = "scan" /\ report.at <= Len(report.index)
      /\ report' = [report EXCEPT !.at = @ + 1, !.entries = after]
      /\ UNCHANGED <<dirs, before>>
  BY DEF ScanRecord
<1>2. /\ report = [pc |-> "scan", index |-> report.index, at |-> report.at, entries |-> report.entries]
      /\ report.index \in Indexes /\ report.at \in 1 .. Len(report.index) + 1
      /\ \A i \in DOMAIN report.entries :
           /\ report.entries[i] \in Cards /\ Fresh(report.entries[i])
           /\ Counting(report.entries[i], report.index, report.at - 1, dirs, before)
  BY <1>1 DEF EvidenceInv, Scanning
<1>3. PICK index \in Seq(AllOf(Indexes)), k \in Nat :
        index = report.index /\ k + 1 = report.at /\ k < Len(index) /\ k = report.at - 1
  <2>1. report.index \in Seq(AllOf(Indexes))
    BY <1>2, LedgerAssumption
  <2>2. Len(report.index) \in Nat
    BY <2>1
  <2>3. report.at - 1 \in Nat /\ (report.at - 1) + 1 = report.at /\ report.at - 1 < Len(report.index)
    BY <1>1, <1>2, <2>2
  <2> QED
    BY <2>1, <2>3
<1>4. DOMAIN after = DOMAIN report.entries
  OBVIOUS
<1>5. ASSUME NEW i \in DOMAIN report.entries
      PROVE  /\ after[i] \in Cards /\ Fresh(after[i])
             /\ Counting(after[i], index, k + 1, dirs, before)
  <2>1. PICK entry \in Cards : /\ entry = report.entries[i] /\ Fresh(entry)
                               /\ Counting(entry, index, k, dirs, before)
    BY <1>2, <1>3
  <2>2. CASE record.torn
    <3>1. after[i] = entry
      BY <2>1, <2>2
    <3>2. index[k + 1].torn /\ \A j \in 1 .. k + 1 : j \in 1 .. k \/ j = k + 1
      BY <1>3, <2>2
    <3>3. \A there : \A j \in 1 .. k + 1 : Attempted(index[j], entry, there) => j \in 1 .. k
      BY <3>2 DEF Attempted
    <3>4. \A j \in 1 .. k : j \in 1 .. k + 1
      OBVIOUS
    <3>5. Counting(entry, index, k + 1, dirs, before)
      BY <2>1, <3>3, <3>4 DEF Counting
    <3> QED
      BY <2>1, <3>1, <3>5
  <2>3. CASE ~record.torn
    <3>1. after[i] = Counted(entry, index[k + 1]) /\ ~index[k + 1].torn
      BY <1>3, <2>1, <2>3
    <3>2. index[k + 1] \in AllOf(Indexes) /\ dirs \subseteq before
      BY <1>3 DEF EvidenceInv
    <3>3. Counted(entry, index[k + 1]) \in Cards /\ Fresh(Counted(entry, index[k + 1]))
      <4>1. PICK line \in AllOf(Indexes) : line = index[k + 1]
        BY <3>2
      <4>2. PICK card : card = Counted(entry, line)
        OBVIOUS
      <4>3. /\ card \in Cards
            /\ card.dep = entry.dep /\ card.combos = entry.combos /\ card.ambiguous = entry.ambiguous
        BY <4>2, CountedCard
      <4> QED
        BY <2>1, <4>1, <4>2, <4>3 DEF Fresh
    <3>4. Counting(Counted(entry, index[k + 1]), index, k + 1, dirs, before)
      BY <1>3, <2>1, <3>1, <3>2, CountedCounts
    <3> QED
      BY <3>1, <3>3, <3>4
  <2> QED
    BY <2>2, <2>3
<1> HIDE DEF after, record
<1>6. report' = [pc |-> "scan", index |-> report.index, at |-> report.at + 1, entries |-> after]
  BY <1>1, <1>2
<1>7. /\ report'.pc = "scan" /\ report'.index = index /\ report'.at = report.at + 1
      /\ report'.entries = after
  BY <1>3, <1>6
<1>8. report'.at - 1 = k + 1 /\ report'.at \in 1 .. Len(report'.index) + 1
  BY <1>2, <1>3, <1>7
<1>9. Scanning'
  <2>1. report' = [pc |-> "scan", index |-> report'.index, at |-> report'.at, entries |-> report'.entries]
    BY <1>6, <1>7
  <2>2. report'.index \in Indexes
    BY <1>2, <1>3, <1>7
  <2>3. \A i \in DOMAIN report'.entries :
           /\ report'.entries[i] \in Cards /\ Fresh(report'.entries[i])
           /\ Counting(report'.entries[i], report'.index, report'.at - 1, dirs', before')
    BY <1>1, <1>4, <1>5, <1>7, <1>8
  <2> QED
    BY <1>8, <2>1, <2>2, <2>3 DEF Scanning
<1> QED
  BY <1>1, <1>7, <1>9 DEF EvidenceInv, EntriesPrinted

\* What looking at profiles leaves alone
SameRuns(a, b) ==
  /\ a.name = b.name /\ a.annotation = b.annotation /\ a.matched = b.matched /\ a.succeeded = b.succeeded
  /\ a.last = b.last /\ a.lastStart = b.lastStart

LEMMA DependentCard ==
  ASSUME NEW entry \in Cards, NEW tree, Fresh(entry)
  PROVE  LET after == Dependent(entry, tree) IN
         /\ after \in Cards /\ SameRuns(after, entry) /\ Missing(after, tree)
         /\ after.combos = 0 /\ ~after.ambiguous
<1> DEFINE missing == entry.annotation = "none" /\
                        \E i \in DOMAIN tree : tree[i].base = entry.name /\ tree[i].unavailable
           after == [entry EXCEPT !.dep = missing]
<1>1. Dependent(entry, tree) = after
  BY DEF Dependent
<1>2. missing \in BOOLEAN
  OBVIOUS
<1>3. missing => \E i \in DOMAIN tree : tree[i].base = entry.name /\ tree[i].unavailable
  OBVIOUS
<1> HIDE DEF missing
<1>4. /\ after \in Cards /\ SameRuns(after, entry) /\ after.dep = missing
      /\ after.combos = 0 /\ after.ambiguous = entry.ambiguous /\ after.name = entry.name
  BY <1>2 DEF Cards, SameRuns, Fresh
<1> HIDE DEF after
<1>5. Missing(after, tree)
  BY <1>3, <1>4 DEF Missing
<1> QED
  BY <1>1, <1>4, <1>5 DEF Fresh

LEMMA CombiningCard ==
  ASSUME NEW entry \in Cards, NEW profile \in AllOf(Profiles)
  PROVE  LET after == Combining(entry, profile) IN
         /\ after \in Cards /\ SameRuns(after, entry) /\ after.dep = entry.dep
         /\ entry.name # profile.base => after.combos = entry.combos /\ after.ambiguous = entry.ambiguous
         /\ entry.name = profile.base /\ entry.combos = 0 =>
              after.combos = profile.combos /\ after.ambiguous = entry.ambiguous
         /\ entry.name = profile.base /\ entry.combos # 0 =>
              /\ after.combos = entry.combos
              /\ after.ambiguous = (entry.ambiguous \/ entry.combos # profile.combos)
<1>1. CASE entry.name # profile.base
  BY <1>1 DEF Combining, SameRuns
<1>2. CASE entry.name = profile.base /\ entry.combos = 0
  <2>1. profile.combos \in Nat
    BY LedgerAssumption
  <2>2. Combining(entry, profile) = [entry EXCEPT !.combos = profile.combos]
    BY <1>2 DEF Combining
  <2> QED
    BY <1>2, <2>1, <2>2 DEF Cards, SameRuns
<1>3. CASE entry.name = profile.base /\ entry.combos # 0
  <2> DEFINE differs == entry.ambiguous \/ entry.combos # profile.combos
  <2>1. Combining(entry, profile) = [entry EXCEPT !.ambiguous = differs]
    BY <1>3 DEF Combining
  <2>2. differs \in BOOLEAN
    OBVIOUS
  <2> HIDE DEF differs
  <2>3. LET after == [entry EXCEPT !.ambiguous = differs] IN
        /\ after \in Cards /\ SameRuns(after, entry) /\ after.dep = entry.dep
        /\ after.combos = entry.combos /\ after.ambiguous = differs
    BY <2>2 DEF Cards, SameRuns
  <2> QED
    BY <1>3, <2>1, <2>3 DEF differs
<1> QED
  BY <1>1, <1>2, <1>3

LEMMA CombiningOffers ==
  ASSUME NEW entry \in Cards, NEW tree \in Seq(AllOf(Profiles)), NEW n \in 1 .. Len(tree),
         Offering(entry, tree, n - 1)
  PROVE  Offering(Combining(entry, tree[n]), tree, n)
<1> DEFINE profile == tree[n]
           after == Combining(entry, profile)
<1>1. profile \in AllOf(Profiles) /\ profile = tree[n] /\ after = Combining(entry, profile)
  OBVIOUS
<1> HIDE DEF profile, after
<1>2. /\ after \in Cards /\ SameRuns(after, entry)
      /\ entry.name # profile.base => after.combos = entry.combos /\ after.ambiguous = entry.ambiguous
      /\ entry.name = profile.base /\ entry.combos = 0 =>
           after.combos = profile.combos /\ after.ambiguous = entry.ambiguous
      /\ entry.name = profile.base /\ entry.combos # 0 =>
           /\ after.combos = entry.combos
           /\ after.ambiguous = (entry.ambiguous \/ entry.combos # profile.combos)
  BY <1>1, CombiningCard
<1>3. after.name = entry.name /\ profile.combos \in Nat \ {0}
  BY <1>1, <1>2, LedgerAssumption DEF SameRuns
<1>4. PICK k : k = n - 1
  OBVIOUS
<1>5. /\ \A i \in 1 .. n : i \in 1 .. k \/ i = n
      /\ n \in 1 .. n /\ \A i \in 1 .. k : i \in 1 .. n
  BY <1>4
<1>6. Offering(entry, tree, k)
  BY <1>4
<1>7. CASE entry.name # profile.base
  BY <1>1, <1>2, <1>3, <1>5, <1>6, <1>7 DEF Offering
<1>8. CASE entry.name = profile.base /\ entry.combos = 0
  BY <1>1, <1>2, <1>3, <1>5, <1>6, <1>8 DEF Offering
<1>9. CASE entry.name = profile.base /\ entry.combos # 0
  <2>1. PICK i \in 1 .. k : tree[i].base = entry.name /\ tree[i].combos = entry.combos
    BY <1>6, <1>9 DEF Offering
  <2>2. /\ after.combos = entry.combos /\ i \in 1 .. n
        /\ after.ambiguous = (entry.ambiguous \/ entry.combos # profile.combos)
    BY <1>2, <1>5, <1>9, <2>1
  <2>3. after.ambiguous => \E a, b \in 1 .. n : /\ tree[a].base = after.name /\ tree[b].base = after.name
                                                /\ tree[a].combos # tree[b].combos
    <3>1. CASE entry.ambiguous
      <4>1. PICK a, b \in 1 .. k : /\ tree[a].base = entry.name /\ tree[b].base = entry.name
                                   /\ tree[a].combos # tree[b].combos
        BY <1>6, <3>1 DEF Offering
      <4>2. a \in 1 .. n /\ b \in 1 .. n
        BY <1>5, <4>1
      <4> QED
        BY ONLY <1>3, <4>1, <4>2
    <3>2. CASE entry.combos # profile.combos
      <4>1. tree[n].base = entry.name /\ tree[n].combos # entry.combos
        BY <1>1, <1>9, <3>2
      <4> QED
        BY ONLY <1>3, <1>5, <2>1, <2>2, <4>1
    <3> QED
      BY <2>2, <3>1, <3>2
  <2>4. ~after.ambiguous => \A a \in 1 .. n : tree[a].base = after.name => tree[a].combos = after.combos
    BY <1>1, <1>3, <1>5, <1>6, <1>9, <2>2 DEF Offering
  <2> QED
    BY <1>1, <1>3, <1>9, <2>1, <2>2, <2>3, <2>4 DEF Offering
<1> QED
  BY <1>1, <1>7, <1>8, <1>9

LEMMA CombinedCard ==
  ASSUME NEW entry \in Cards, NEW tree \in Seq(AllOf(Profiles)), entry.combos = 0, ~entry.ambiguous
  PROVE  /\ Combined(entry, tree) \in Cards /\ SameRuns(Combined(entry, tree), entry)
         /\ Combined(entry, tree).dep = entry.dep
         /\ Offering(Combined(entry, tree), tree, Len(tree))
<1>0. PICK c \in Nat : c = Len(tree)
  OBVIOUS
<1> DEFINE Is(u) == u = [i \in 0 .. Len(tree) |-> IF i = 0 THEN entry ELSE Combining(u[i - 1], tree[i])]
           u == CHOOSE u : Is(u)
<1>1. Combined(entry, tree) = u[c]
  BY <1>0 DEF Combined
<1>2. \E f : Is(f)
  <2> DEFINE step == [x \in Cards \X AllOf(Profiles) |-> Combining(x[1], x[2])]
  <2>1. step \in [Cards \X AllOf(Profiles) -> Cards]
    BY CombiningCard
  <2>2. \A s \in Cards, l \in AllOf(Profiles) : step[<<s, l>>] = Combining(s, l)
    OBVIOUS
  <2> HIDE DEF step
  <2>3. PICK f : Loops(f, Cards, entry, AllOf(Profiles), tree, step)
    BY <2>1, LoopEnds
  <2>4. f \in [0 .. c -> Cards] /\ f[0] = entry /\ \A i \in 1 .. c : f[i] = step[<<f[i - 1], tree[i]>>]
    BY <1>0, <2>3 DEF Loops
  <2>5. ASSUME NEW i \in 1 .. c PROVE f[i] = Combining(f[i - 1], tree[i])
    <3>1. f[i - 1] \in Cards /\ tree[i] \in AllOf(Profiles)
      BY <1>0, <2>4
    <3> QED
      BY <2>2, <2>4, <3>1
  <2> DEFINE Val(i) == IF i = 0 THEN entry ELSE Combining(f[i - 1], tree[i])
  <2>6. ASSUME NEW i \in 0 .. c PROVE f[i] = Val(i)
    <3>1. CASE i = 0
      BY <2>4, <3>1
    <3>2. CASE i \in 1 .. c
      BY <2>5, <3>2
    <3> QED
      BY <3>1, <3>2
  <2>7. f = [i \in 0 .. c |-> Val(i)]
    <3> HIDE DEF Val
    <3> QED
      BY <2>4, <2>6
  <2> QED
    BY <1>0, <2>7
<1>3. Is(u)
  <2> HIDE DEF Is
  <2> QED
    BY <1>2
<1>4. u[0] = entry /\ \A i \in 1 .. c : u[i] = Combining(u[i - 1], tree[i])
  <2> HIDE DEF u
  <2> DEFINE Val(i) == IF i = 0 THEN entry ELSE Combining(u[i - 1], tree[i])
  <2>1. u = [i \in 0 .. c |-> Val(i)]
    BY <1>0, <1>3
  <2>2. Val(0) = entry /\ 0 \in 0 .. c
    OBVIOUS
  <2>3. ASSUME NEW i \in 1 .. c PROVE Val(i) = Combining(u[i - 1], tree[i]) /\ i \in 0 .. c
    OBVIOUS
  <2> HIDE DEF Val
  <2>4. \A i \in 0 .. c : u[i] = Val(i)
    BY <2>1
  <2> QED
    BY <2>2, <2>3, <2>4
<1> HIDE DEF u
<1> DEFINE SoFar(x, k) == x \in Cards /\ SameRuns(x, entry) /\ x.dep = entry.dep /\ Offering(x, tree, k)
           K == {k \in Nat : k <= c => SoFar(u[k], k)}
<1>5. 0 \in K
  <2>1. SoFar(entry, 0)
    BY DEF SameRuns, Offering
  <2> HIDE DEF SoFar
  <2> QED
    BY <1>4, <2>1
<1>6. ASSUME NEW k \in Nat, k \in K PROVE k + 1 \in K
  <2> SUFFICES ASSUME k + 1 <= c PROVE SoFar(u[k + 1], k + 1)
    OBVIOUS
  <2>1. PICK x \in Cards : x = u[k] /\ SoFar(x, k)
    BY <1>6
  <2>2. PICK n \in 1 .. Len(tree) : n = k + 1 /\ n - 1 = k
    BY <1>0
  <2>3. u[n] = Combining(x, tree[n])
    BY <1>0, <1>4, <2>1, <2>2
  <2>4. Offering(x, tree, n - 1)
    BY <2>1, <2>2
  <2>5. Offering(Combining(x, tree[n]), tree, n)
    BY <2>4, CombiningOffers
  <2>6. tree[n] \in AllOf(Profiles)
    OBVIOUS
  <2>7. /\ Combining(x, tree[n]) \in Cards /\ SameRuns(Combining(x, tree[n]), x)
        /\ Combining(x, tree[n]).dep = x.dep
    BY <2>6, CombiningCard
  <2> QED
    BY <2>1, <2>2, <2>3, <2>5, <2>7 DEF SameRuns
<1> HIDE DEF K
<1>7. Nat \subseteq K
  BY <1>5, <1>6, SetInduction
<1>8. SoFar(u[c], c)
  <2> HIDE DEF SoFar
  <2> QED
    BY <1>7 DEF K
<1> QED
  BY <1>0, <1>1, <1>8

LEMMA PrintCounts ==
  ASSUME EvidenceInv, ScanProfiles
  PROVE  EvidenceInv'
<1>1. PICK tree \in Profiles, unavailable \in BOOLEAN, combos \in BOOLEAN :
        LET Marked(entry) == IF unavailable THEN Dependent(entry, tree) ELSE entry
            Done(entry) == IF combos THEN Combined(Marked(entry), tree) ELSE Marked(entry)
        IN report' = [pc |-> "printed", index |-> report.index, tree |-> tree, combos |-> combos,
                      entries |-> [i \in DOMAIN report.entries |-> Done(report.entries[i])]]
  BY DEF ScanProfiles
<1> DEFINE Marked(entry) == IF unavailable THEN Dependent(entry, tree) ELSE entry
           Done(entry) == IF combos THEN Combined(Marked(entry), tree) ELSE Marked(entry)
<1>2. /\ report.pc = "scan" /\ report.at > Len(report.index) /\ UNCHANGED <<dirs, before>>
      /\ report'.pc = "printed" /\ report'.index = report.index /\ report'.tree = tree /\ report'.combos = combos
      /\ report'.entries = [i \in DOMAIN report.entries |-> Done(report.entries[i])]
  BY <1>1 DEF ScanProfiles
<1>3. /\ report.index \in Indexes /\ report.at \in 1 .. Len(report.index) + 1
      /\ \A i \in DOMAIN report.entries :
           /\ report.entries[i] \in Cards /\ Fresh(report.entries[i])
           /\ Counting(report.entries[i], report.index, report.at - 1, dirs, before)
  BY <1>2 DEF EvidenceInv, Scanning
<1>4. report.at - 1 = Len(report.index)
  <2>1. report.index \in Seq(AllOf(Indexes))
    BY <1>3, LedgerAssumption
  <2>2. Len(report.index) \in Nat
    BY <2>1
  <2> QED
    BY <1>2, <1>3, <2>2
<1>5. tree \in Seq(AllOf(Profiles))
  BY LedgerAssumption
<1>6. ASSUME NEW entry \in Cards, Fresh(entry)
      PROVE  /\ Marked(entry) \in Cards /\ SameRuns(Marked(entry), entry) /\ Missing(Marked(entry), tree)
             /\ Marked(entry).combos = 0 /\ ~Marked(entry).ambiguous
  <2>1. CASE unavailable
    BY <1>6, <2>1, DependentCard
  <2>2. CASE ~unavailable
    BY <1>6, <2>2 DEF Fresh, SameRuns, Missing
  <2> QED
    BY <2>1, <2>2
<1> HIDE DEF Marked
<1>7. ASSUME NEW entry \in Cards, Fresh(entry)
      PROVE  /\ Done(entry) \in Cards /\ SameRuns(Done(entry), entry) /\ Missing(Done(entry), tree)
             /\ combos => Offering(Done(entry), tree, Len(tree))
  <2>1. PICK card \in Cards : /\ card = Marked(entry) /\ SameRuns(card, entry) /\ Missing(card, tree)
                              /\ card.combos = 0 /\ ~card.ambiguous
    BY <1>6, <1>7
  <2>2. CASE combos
    <3>1. Done(entry) = Combined(card, tree)
      BY <2>1, <2>2
    <3>2. /\ Combined(card, tree) \in Cards /\ SameRuns(Combined(card, tree), card)
          /\ Combined(card, tree).dep = card.dep
          /\ Offering(Combined(card, tree), tree, Len(tree))
      BY <1>5, <2>1, CombinedCard
    <3> QED
      BY <2>1, <3>1, <3>2 DEF SameRuns, Missing
  <2>3. CASE ~combos
    BY <2>1, <2>3
  <2> QED
    BY <2>2, <2>3
<1> HIDE DEF Done
<1>8. ASSUME NEW a, NEW b, SameRuns(a, b), NEW index, NEW k, Counting(b, index, k, dirs, before)
      PROVE  Counting(a, index, k, dirs, before)
  <2>1. \A r, there : Attempted(r, a, there) <=> Attempted(r, b, there)
    BY <1>8 DEF SameRuns, Attempted, Matches
  <2> QED
    BY <1>8, <2>1 DEF SameRuns, Counting
<1>9. ASSUME NEW i \in DOMAIN report.entries
      PROVE  /\ report'.entries[i] \in Cards /\ Missing(report'.entries[i], tree)
             /\ Counting(report'.entries[i], report.index, Len(report.index), dirs, before)
             /\ combos => Offering(report'.entries[i], tree, Len(tree))
  <2>1. PICK entry \in Cards : /\ entry = report.entries[i] /\ Fresh(entry)
                               /\ Counting(entry, report.index, Len(report.index), dirs, before)
    BY <1>3, <1>4
  <2>2. report'.entries[i] = Done(entry)
    BY <1>2, <2>1
  <2>3. /\ Done(entry) \in Cards /\ SameRuns(Done(entry), entry) /\ Missing(Done(entry), tree)
        /\ combos => Offering(Done(entry), tree, Len(tree))
    BY <1>7, <2>1
  <2> QED
    BY <1>8, <2>1, <2>2, <2>3
<1>10. DOMAIN report'.entries = DOMAIN report.entries
  BY <1>2
<1>11. EntriesPrinted'
  BY <1>2, <1>3, <1>9, <1>10 DEF EntriesPrinted
<1> QED
  BY <1>2, <1>11 DEF EvidenceInv, Scanning

\* The claims of ReportFromEvidence about one entry
Claims(entry) ==
  LET counts == {p.combos : p \in OfProfiles(entry)} IN
  /\ entry.annotation = "none" =>
       /\ Successes(entry, dirs) # {} => Status(entry) = "done"
       /\ Status(entry) = "done" => Successes(entry, before) # {}
       /\ Status(entry) = "skipped" => Attempts(entry, dirs) = {}
       /\ Status(entry) = "needs-tool-support" => Attempts(entry, before) # {}
       /\ ~Strict => Successes(entry, before) # {} \/ \E p \in OfProfiles(entry) : p.unavailable
  /\ \A r \in Attempts(entry, dirs) : r.start <= entry.lastStart
  /\ entry.last # NoRun => \E r \in Attempts(entry, before) : r.run = entry.last
  /\ report.combos => IF entry.ambiguous THEN Cardinality(counts) > 1 ELSE counts \subseteq {entry.combos}

LEMMA TwoInSet ==
  ASSUME NEW S, IsFiniteSet(S), NEW a \in S, NEW b \in S, a # b
  PROVE  Cardinality(S) > 1
<1>1. /\ IsFiniteSet({a}) /\ Cardinality({a}) = 1
      /\ IsFiniteSet({a, b}) /\ Cardinality({a, b}) = 2
  <2>1. IsFiniteSet({a}) /\ Cardinality({a}) = 1
    BY FS_Singleton
  <2>2. {a, b} = {a} \cup {b} /\ b \notin {a}
    OBVIOUS
  <2>3. IsFiniteSet({a} \cup {b})
    BY <2>1, FS_AddElement
  <2>4. Cardinality({a} \cup {b}) = Cardinality({a}) + 1
    BY <2>1, <2>2, FS_AddElement
  <2>5. Cardinality({a, b}) = 2
    BY <2>1, <2>2, <2>4
  <2> QED
    BY <2>1, <2>2, <2>3, <2>5
<1>2. {a, b} \subseteq S
  OBVIOUS
<1>3. Cardinality({a, b}) <= Cardinality(S)
  BY <1>2, FS_Subset
<1>4. Cardinality(S) \in Nat
  BY FS_CardinalityType
<1> QED
  BY <1>1, <1>3, <1>4

LEMMA EvidenceReported == EvidenceInv => ReportFromEvidence
<1> SUFFICES ASSUME EvidenceInv, report.pc = "printed", NEW e \in DOMAIN report.entries
             PROVE  Claims(report.entries[e])
  BY DEF ReportFromEvidence, Claims
<1>1. PICK entry \in Cards, index \in Seq(AllOf(Indexes)), tree \in Seq(AllOf(Profiles)) :
        /\ entry = report.entries[e] /\ index = report.index /\ tree = report.tree
        /\ Missing(entry, tree) /\ Counting(entry, index, Len(index), dirs, before)
        /\ report.combos => Offering(entry, tree, Len(tree))
  <2>1. report.index \in Indexes /\ report.tree \in Profiles
    BY DEF EvidenceInv, EntriesPrinted
  <2>2. report.index \in Seq(AllOf(Indexes)) /\ report.tree \in Seq(AllOf(Profiles))
    BY <2>1, LedgerAssumption
  <2> QED
    BY <2>2 DEF EvidenceInv, EntriesPrinted
<1>2. PICK n \in Nat, m \in Nat : /\ n = Len(index) /\ DOMAIN index = 1 .. n
                                  /\ m = Len(tree) /\ DOMAIN tree = 1 .. m
  OBVIOUS
<1>3. \A r, there : r \in Attempts(entry, there) <=> \E i \in 1 .. n : r = index[i] /\ Attempted(index[i], entry, there)
  BY <1>1, <1>2 DEF Attempts, Records, Attempted
<1>4. \A r, there : r \in Successes(entry, there) <=> r \in Attempts(entry, there) /\ r.succeeded
  BY DEF Successes
<1>5. /\ \A i \in 1 .. n : Attempted(index[i], entry, dirs) =>
           /\ entry.matched > 0 /\ index[i].start <= entry.lastStart
           /\ index[i].succeeded => entry.succeeded > 0
      /\ entry.matched > 0 => \E i \in 1 .. n : Attempted(index[i], entry, before)
      /\ entry.succeeded > 0 => \E i \in 1 .. n : Attempted(index[i], entry, before) /\ index[i].succeeded
      /\ entry.last # NoRun => \E i \in 1 .. n : Attempted(index[i], entry, before) /\ index[i].run = entry.last
  BY <1>1, <1>2 DEF Counting
<1>6. entry.matched \in Nat /\ entry.succeeded \in Nat
  BY DEF Cards
<1>7. \A p : p \in OfProfiles(entry) <=> \E i \in 1 .. m : p = tree[i] /\ tree[i].base = entry.name
  BY <1>1, <1>2 DEF OfProfiles
<1>8. \A r \in Attempts(entry, dirs) : r.start <= entry.lastStart
  BY <1>3, <1>5
<1>9. entry.last # NoRun => \E r \in Attempts(entry, before) : r.run = entry.last
  BY <1>3, <1>5
<1>10. Successes(entry, dirs) # {} => entry.succeeded > 0
  BY <1>3, <1>4, <1>5
<1>11. entry.succeeded > 0 => Successes(entry, before) # {}
  BY <1>3, <1>4, <1>5
<1>12. Attempts(entry, dirs) # {} => entry.matched > 0
  BY <1>3, <1>5
<1>13. entry.matched > 0 => Attempts(entry, before) # {}
  BY <1>3, <1>5
<1>14. entry.dep => \E p \in OfProfiles(entry) : p.unavailable
  BY <1>1, <1>2, <1>7 DEF Missing
<1>15. ASSUME entry.annotation = "none"
       PROVE  /\ Successes(entry, dirs) # {} => Status(entry) = "done"
              /\ Status(entry) = "done" => Successes(entry, before) # {}
              /\ Status(entry) = "skipped" => Attempts(entry, dirs) = {}
              /\ Status(entry) = "needs-tool-support" => Attempts(entry, before) # {}
              /\ ~Strict => Successes(entry, before) # {} \/ \E p \in OfProfiles(entry) : p.unavailable
  <2>1. Status(entry) = IF entry.succeeded > 0 THEN "done"
                        ELSE IF entry.dep THEN "unsupported"
                        ELSE IF entry.matched = 0 THEN "skipped" ELSE "needs-tool-support"
    BY <1>15 DEF Status
  <2>2. ~Strict => Status(entry) \notin {"skipped", "needs-tool-support"}
    BY <1>1 DEF Strict
  <2> QED
    BY <1>6, <1>10, <1>11, <1>12, <1>13, <1>14, <2>1, <2>2
<1> DEFINE counts == {p.combos : p \in OfProfiles(entry)}
<1>16. \A c : c \in counts <=> \E i \in 1 .. m : c = tree[i].combos /\ tree[i].base = entry.name
  BY <1>7
<1>17. IsFiniteSet(counts)
  <2>1. IsFiniteSet(1 .. m)
    BY FS_Interval
  <2>2. IsFiniteSet({tree[i].combos : i \in 1 .. m})
    <3> DEFINE T == {tree[i].combos : i \in 1 .. m}
               offered == [i \in 1 .. m |-> tree[i].combos]
    <3>1. offered \in [1 .. m -> T] /\ \A t \in T : \E i \in 1 .. m : offered[i] = t
      OBVIOUS
    <3> HIDE DEF offered, T
    <3>2. offered \in Surjection(1 .. m, T)
      BY <3>1 DEF Surjection
    <3>3. IsFiniteSet(T)
      BY <2>1, <3>2, FS_Surjection
    <3> QED
      BY <3>3 DEF T
  <2>3. counts \subseteq {tree[i].combos : i \in 1 .. m}
    BY <1>16
  <2> QED
    BY <2>2, <2>3, FS_Subset
<1> HIDE DEF counts
<1>18. ASSUME report.combos
       PROVE  IF entry.ambiguous THEN Cardinality(counts) > 1 ELSE counts \subseteq {entry.combos}
  <2>1. Offering(entry, tree, m)
    BY <1>1, <1>2, <1>18
  <2>2. CASE entry.ambiguous
    <3>1. PICK i \in 1 .. m, j \in 1 .. m : /\ tree[i].base = entry.name /\ tree[j].base = entry.name
                                            /\ tree[i].combos # tree[j].combos
      BY <2>1, <2>2 DEF Offering
    <3>2. tree[i].combos \in counts /\ tree[j].combos \in counts
      BY <1>16, <3>1
    <3> QED
      BY <1>17, <2>2, <3>1, <3>2, TwoInSet
  <2>3. CASE ~entry.ambiguous
    BY <1>16, <2>1, <2>3 DEF Offering
  <2> QED
    BY <2>2, <2>3
<1> QED
  BY <1>1, <1>8, <1>9, <1>15, <1>18 DEF Claims, counts

LEMMA EvidenceStep == EditInv /\ EvidenceInv /\ [LedgerNext]_ledgerVars => EvidenceInv'
<1> SUFFICES ASSUME EditInv, EvidenceInv, [LedgerNext]_ledgerVars PROVE EvidenceInv'
  OBVIOUS
<1>1. CASE UNCHANGED <<dirs, before, report>>
  BY <1>1 DEF EvidenceInv, Scanning, EntriesPrinted
<1>2. CASE LedgerStart
  <2>1. report' = [pc |-> "list"] /\ UNCHANGED <<dirs, before>>
    BY <1>2 DEF LedgerStart
  <2>2. report'.pc = "list"
    BY <2>1
  <2> QED
    BY <2>1, <2>2 DEF EvidenceInv, Scanning, EntriesPrinted
<1>3. ASSUME NEW e \in Editors, Edit(e) PROVE UNCHANGED <<dirs, before, report>>
  BY <1>3 DEF Edit, Check, ReadList, AppendName, Truncate, Rewrite, Others
<1>4. CASE LoadList
  BY <1>4, LoadCounts
<1>5. CASE ScanRecord
  BY <1>5, ScanCounts
<1>6. CASE ScanProfiles
  BY <1>6, PrintCounts
<1>7. ASSUME NEW r \in dirs, DeleteRun(r) PROVE EvidenceInv'
  <2>1. /\ report.pc = "scan" /\ dirs' \subseteq dirs /\ UNCHANGED <<report, before>>
    BY <1>7 DEF DeleteRun
  <2>2. \A record, entry : Attempted(record, entry, dirs') => Attempted(record, entry, dirs)
    BY <2>1 DEF Attempted
  <2>3. \A entry, index, k : Counting(entry, index, k, dirs, before) => Counting(entry, index, k, dirs', before)
    BY <2>2 DEF Counting
  <2>4. Scanning'
    BY <2>1, <2>3 DEF EvidenceInv, Scanning
  <2> QED
    BY <2>1, <2>4 DEF EvidenceInv, EntriesPrinted
<1>8. CASE UNCHANGED ledgerVars
  BY <1>1, <1>8 DEF ledgerVars
<1> QED
  BY <1>1, <1>2, <1>3, <1>4, <1>5, <1>6, <1>7, <1>8 DEF LedgerNext

LEMMA EvidenceStart == LedgerInit => EvidenceInv
  BY DEF LedgerInit, NoReport, EvidenceInv, Scanning, EntriesPrinted

(* Whatever the run indexes, lists and profiles hold, and whichever runs are      *)
(* deleted while wspy-ledger reads them: a workload is reported on the evidence   *)
(* of runs that were there when the report began, and of all that still are       *)
(* (scan_run_index, scan_phoronix_option_combinations, entry_status).             *)
THEOREM ReportOnEvidence == LedgerSpec => []ReportFromEvidence
<1>1. LedgerInit => EditInv /\ EvidenceInv
  BY EditStart, EvidenceStart
<1>2. EditInv /\ EvidenceInv /\ [LedgerNext]_ledgerVars => (EditInv /\ EvidenceInv)'
  BY EditStep, EvidenceStep
<1>3. EditInv /\ EvidenceInv => ReportFromEvidence
  BY EvidenceReported
<1> QED
  BY <1>1, <1>2, <1>3, PTL DEF LedgerSpec

-----------------------------------------------------------------------------
(* The summary reads the rows in the order of the query. *)

Rows(s) == {x \in (DOMAIN s) \X Nat : x[2] \in DOMAIN s[x[1]].metrics}
Opened == stored \in Seq(KnownRuns)

LEMMA RunFacts ==
  ASSUME Opened, NEW i \in DOMAIN stored
  PROVE  /\ stored[i] \in KnownRuns /\ i \in Nat
         /\ stored[i].start \in Nat /\ stored[i].group \in Nat \X Nat /\ stored[i].option \in Nat \X Nat
         /\ DOMAIN stored[i].metrics \subseteq Nat
         /\ DOMAIN stored[i].env \subseteq EnvFields
         /\ \A e \in DOMAIN stored[i].env : stored[i].env[e] \in Nat
<1>1. stored[i] \in KnownRuns /\ i \in Nat
  BY DEF Opened
<1> QED
  BY <1>1, SummaryAssumption

\* The members of T for which k is least
Lowest(T, k) == {x \in T : \A y \in T : k[x] <= k[y]}

LEMMA LowestSome ==
  ASSUME NEW S, NEW k \in [S -> Nat], NEW T \in SUBSET S, T # {}
  PROVE  /\ Lowest(T, k) # {} /\ Lowest(T, k) \in SUBSET S /\ Lowest(T, k) \subseteq T
         /\ \A x \in Lowest(T, k), y \in T : k[x] < k[y] \/ (k[x] = k[y] /\ y \in Lowest(T, k))
<1> DEFINE N == {k[x] : x \in T}
<1>1. N \subseteq Nat /\ N # {}
  OBVIOUS
<1> HIDE DEF N
<1>2. PICK n \in N : \A m \in N : n <= m
  BY <1>1, Smallest
<1>3. PICK x \in T : k[x] = n
  BY <1>2 DEF N
<1>4. \A y \in T : k[x] <= k[y]
  BY <1>2, <1>3 DEF N
<1>5. x \in Lowest(T, k)
  BY <1>4 DEF Lowest
<1>6. ASSUME NEW u \in Lowest(T, k), NEW y \in T
      PROVE  k[u] < k[y] \/ (k[u] = k[y] /\ y \in Lowest(T, k))
  <2>1. u \in T /\ k[u] <= k[y] /\ \A z \in T : k[u] <= k[z]
    BY DEF Lowest
  <2>2. k[u] \in Nat /\ k[y] \in Nat
    BY <2>1
  <2>3. k[u] = k[y] => y \in Lowest(T, k)
    BY <2>1 DEF Lowest
  <2> QED
    BY <2>1, <2>2, <2>3
<1> QED
  BY <1>5, <1>6 DEF Lowest

LEMMA FirstRow ==
  ASSUME Opened, NEW S \in SUBSET Rows(stored), S # {}
  PROVE  \E x \in S : \A y \in S \ {x} : RowBefore(x, y)
<1> DEFINE run(x) == stored[x[1]]
           g1 == [x \in S |-> run(x).group[1]]
           g2 == [x \in S |-> run(x).group[2]]
           o1 == [x \in S |-> run(x).option[1]]
           o2 == [x \in S |-> run(x).option[2]]
           m == [x \in S |-> x[2]]
           t == [x \in S |-> run(x).start]
           d == [x \in S |-> x[1]]
<1>1. ASSUME NEW x \in S
      PROVE  /\ x = <<x[1], x[2]>> /\ x[1] \in Nat /\ x[2] \in Nat /\ run(x).start \in Nat
             /\ run(x).group \in Nat \X Nat /\ run(x).option \in Nat \X Nat
  <2>1. x \in (DOMAIN stored) \X Nat
    BY DEF Rows
  <2>2. PICK i \in DOMAIN stored, k \in Nat : x = <<i, k>>
    BY <2>1
  <2>3. x[1] = i /\ x[2] = k
    BY <2>2
  <2>4. /\ i \in Nat /\ stored[i].start \in Nat
        /\ stored[i].group \in Nat \X Nat /\ stored[i].option \in Nat \X Nat
    BY RunFacts
  <2> QED
    BY <2>2, <2>3, <2>4
<1>2. \A x \in S : /\ run(x).group[1] \in Nat /\ run(x).group[2] \in Nat
                   /\ run(x).option[1] \in Nat /\ run(x).option[2] \in Nat
  BY <1>1
<1>3. /\ g1 \in [S -> Nat] /\ g2 \in [S -> Nat] /\ o1 \in [S -> Nat] /\ o2 \in [S -> Nat]
      /\ m \in [S -> Nat] /\ t \in [S -> Nat] /\ d \in [S -> Nat]
  BY <1>1, <1>2
<1> DEFINE A == Lowest(S, g1)
           B == Lowest(A, g2)
           C == Lowest(B, o1)
           D == Lowest(C, o2)
           E == Lowest(D, m)
           F == Lowest(E, t)
           G == Lowest(F, d)
<1>k. ASSUME NEW x \in S
      PROVE  /\ g1[x] = run(x).group[1] /\ g2[x] = run(x).group[2]
             /\ o1[x] = run(x).option[1] /\ o2[x] = run(x).option[2]
             /\ m[x] = x[2] /\ t[x] = run(x).start /\ d[x] = x[1]
  OBVIOUS
<1> HIDE DEF g1, g2, o1, o2, m, t, d
<1>4. /\ A # {} /\ A \in SUBSET S
      /\ \A x \in A, y \in S : g1[x] < g1[y] \/ (g1[x] = g1[y] /\ y \in A)
  BY <1>3, LowestSome
<1> HIDE DEF A
<1>5. /\ B # {} /\ B \in SUBSET S /\ B \subseteq A
      /\ \A x \in B, y \in A : g2[x] < g2[y] \/ (g2[x] = g2[y] /\ y \in B)
  BY <1>3, <1>4, LowestSome
<1> HIDE DEF B
<1>6. /\ C # {} /\ C \in SUBSET S /\ C \subseteq B
      /\ \A x \in C, y \in B : o1[x] < o1[y] \/ (o1[x] = o1[y] /\ y \in C)
  BY <1>3, <1>5, LowestSome
<1> HIDE DEF C
<1>7. /\ D # {} /\ D \in SUBSET S /\ D \subseteq C
      /\ \A x \in D, y \in C : o2[x] < o2[y] \/ (o2[x] = o2[y] /\ y \in D)
  BY <1>3, <1>6, LowestSome
<1> HIDE DEF D
<1>8. /\ E # {} /\ E \in SUBSET S /\ E \subseteq D
      /\ \A x \in E, y \in D : m[x] < m[y] \/ (m[x] = m[y] /\ y \in E)
  BY <1>3, <1>7, LowestSome
<1> HIDE DEF E
<1>9. /\ F # {} /\ F \in SUBSET S /\ F \subseteq E
      /\ \A x \in F, y \in E : t[x] < t[y] \/ (t[x] = t[y] /\ y \in F)
  BY <1>3, <1>8, LowestSome
<1> HIDE DEF F
<1>10. /\ G # {} /\ G \in SUBSET S /\ G \subseteq F
       /\ \A x \in G, y \in F : d[x] < d[y] \/ (d[x] = d[y] /\ y \in G)
  BY <1>3, <1>9, LowestSome
<1> HIDE DEF G
<1>11. PICK x \in G : TRUE
  BY <1>10
<1>12. x \in S /\ x \in A /\ x \in B /\ x \in C /\ x \in D /\ x \in E /\ x \in F
  BY <1>4, <1>5, <1>6, <1>7, <1>8, <1>9, <1>10
<1>13. ASSUME NEW y \in S \ {x} PROVE RowBefore(x, y)
  <2> DEFINE a == run(x)
             b == run(y)
  <2>1. /\ a.group = <<a.group[1], a.group[2]>> /\ a.option = <<a.option[1], a.option[2]>>
        /\ b.group = <<b.group[1], b.group[2]>> /\ b.option = <<b.option[1], b.option[2]>>
        /\ x = <<x[1], x[2]>> /\ y = <<y[1], y[2]>>
    BY <1>1, <1>12
  <2>2. a.group[1] < b.group[1] \/ (a.group[1] = b.group[1] /\ y \in A)
    BY <1>4, <1>k, <1>12
  <2>3. y \in A => a.group[2] < b.group[2] \/ (a.group[2] = b.group[2] /\ y \in B)
    BY <1>5, <1>k, <1>12
  <2>4. y \in B => a.option[1] < b.option[1] \/ (a.option[1] = b.option[1] /\ y \in C)
    BY <1>6, <1>k, <1>12
  <2>5. y \in C => a.option[2] < b.option[2] \/ (a.option[2] = b.option[2] /\ y \in D)
    BY <1>7, <1>k, <1>12
  <2>6. y \in D => x[2] < y[2] \/ (x[2] = y[2] /\ y \in E)
    BY <1>8, <1>k, <1>12
  <2>7. y \in E => a.start < b.start \/ (a.start = b.start /\ y \in F)
    BY <1>9, <1>k, <1>12
  <2>8. y \in F => x[1] < y[1] \/ x[1] = y[1]
    BY <1>10, <1>11, <1>k, <1>12
  <2>9. x[1] # y[1] \/ x[2] # y[2]
    BY <2>1
  <2>10. TextBefore(a.group, b.group) \/ (a.group = b.group /\ y \in B)
    BY <2>1, <2>2, <2>3 DEF TextBefore
  <2>11. y \in B => TextBefore(a.option, b.option) \/ (a.option = b.option /\ y \in D)
    BY <2>1, <2>4, <2>5 DEF TextBefore
  <2>12. a = stored[x[1]] /\ b = stored[y[1]]
    OBVIOUS
  <2> HIDE DEF a, b
  <2> QED
    BY <2>6, <2>7, <2>8, <2>9, <2>10, <2>11, <2>12 DEF RowBefore
<1> QED
  BY <1>12, <1>13

-----------------------------------------------------------------------------
(* What bucket_add() accumulates is about pairs of runs. *)

HasEnv(s, i, e) == e \in DOMAIN s[i].env
EnvOf(s, i, e) == s[i].env[e]

Signatures == UNION {[D -> Nat] : D \in SUBSET EnvFields}
Pmus == {r.pmu : r \in KnownRuns} \cup {0}
Buckets(s) ==
  [n : Nat, group : Nat \X Nat, option : Nat \X Nat, metric : Nat, members : SUBSET DOMAIN s, pmu : Pmus,
   pmuMixed : BOOLEAN, sig : Signatures, compared : SUBSET EnvFields, mismatched : SUBSET EnvFields]

PmuCollected(s, b) ==
  /\ b.members # {} => \E i \in b.members : s[i].pmu = b.pmu
  /\ b.pmuMixed <=> \E i \in b.members : s[i].pmu # b.pmu
SigCollected(s, b) ==
  \A e \in EnvFields :
    /\ e \in DOMAIN b.sig <=> \E i \in b.members : HasEnv(s, i, e)
    /\ e \in DOMAIN b.sig => \E i \in b.members : HasEnv(s, i, e) /\ b.sig[e] = EnvOf(s, i, e)
ComparedCollected(s, b) ==
  \A e \in EnvFields :
    e \in b.compared <=> \E i, j \in b.members : i # j /\ HasEnv(s, i, e) /\ HasEnv(s, j, e)
MismatchCollected(s, b) ==
  \A e \in EnvFields :
    e \in b.mismatched <=> \E i \in b.members : HasEnv(s, i, e) /\ ~Agrees(e, b.sig[e], EnvOf(s, i, e))

Collected(s, b) ==
  /\ b.n = Cardinality(b.members)
  /\ PmuCollected(s, b) /\ SigCollected(s, b) /\ ComparedCollected(s, b) /\ MismatchCollected(s, b)

LEMMA AgreesItself ==
  ASSUME NEW e, NEW v \in Nat
  PROVE  Agrees(e, v, v)
<1>1. Max({v - v, v - v}) = 0
  BY DEF Max
<1> QED
  BY <1>1 DEF Agrees

LEMMA AddedFields ==
  ASSUME Opened, NEW b \in Buckets(stored), NEW i \in DOMAIN stored
  PROVE  LET r == stored[i]
             both == DOMAIN r.env \cap DOMAIN b.sig
             c == Added(b, i)
         IN /\ c \in Buckets(stored)
            /\ c.n = b.n + 1 /\ c.members = b.members \cup {i}
            /\ c.group = b.group /\ c.option = b.option /\ c.metric = b.metric
            /\ c.pmu = IF b.n = 0 THEN r.pmu ELSE b.pmu
            /\ c.pmuMixed <=> b.pmuMixed \/ (b.n > 0 /\ r.pmu # b.pmu)
            /\ DOMAIN c.sig = DOMAIN r.env \cup DOMAIN b.sig
            /\ \A e \in DOMAIN c.sig : c.sig[e] = IF e \in DOMAIN b.sig THEN b.sig[e] ELSE r.env[e]
            /\ c.compared = b.compared \cup both
            /\ c.mismatched = b.mismatched \cup {e \in both : ~Agrees(e, b.sig[e], r.env[e])}
<1> DEFINE r == stored[i]
           both == DOMAIN r.env \cap DOMAIN b.sig
           n1 == b.n + 1
           members1 == b.members \cup {i}
           pmu1 == IF b.n = 0 THEN r.pmu ELSE b.pmu
           mixed1 == b.pmuMixed \/ (b.n > 0 /\ r.pmu # b.pmu)
           sig1 == [e \in DOMAIN r.env \cup DOMAIN b.sig |-> IF e \in DOMAIN b.sig THEN b.sig[e] ELSE r.env[e]]
           compared1 == b.compared \cup both
           mismatched1 == b.mismatched \cup {e \in both : ~Agrees(e, b.sig[e], r.env[e])}
           c == Added(b, i)
<1>1. c = [b EXCEPT !.n = n1, !.members = members1, !.pmu = pmu1, !.pmuMixed = mixed1, !.sig = sig1,
                    !.compared = compared1, !.mismatched = mismatched1]
  BY DEF Added
<1>2. /\ b.n \in Nat /\ b.members \in SUBSET DOMAIN stored /\ b.pmu \in Pmus /\ b.sig \in Signatures
      /\ b.compared \in SUBSET EnvFields /\ b.mismatched \in SUBSET EnvFields /\ b.pmuMixed \in BOOLEAN
  BY DEF Buckets
<1>3. /\ r \in KnownRuns /\ DOMAIN r.env \subseteq EnvFields /\ \A e \in DOMAIN r.env : r.env[e] \in Nat
  BY RunFacts
<1>4. DOMAIN b.sig \subseteq EnvFields /\ \A e \in DOMAIN b.sig : b.sig[e] \in Nat
  BY <1>2 DEF Signatures
<1>5. /\ n1 \in Nat /\ members1 \in SUBSET DOMAIN stored /\ pmu1 \in Pmus /\ mixed1 \in BOOLEAN
      /\ compared1 \in SUBSET EnvFields /\ mismatched1 \in SUBSET EnvFields
  <2>1. pmu1 \in Pmus
    BY <1>2, <1>3 DEF Pmus
  <2>2. both \subseteq EnvFields
    BY <1>4
  <2> HIDE DEF both
  <2>3. compared1 \in SUBSET EnvFields /\ mismatched1 \in SUBSET EnvFields
    BY <1>2, <2>2
  <2> QED
    BY <1>2, <2>1, <2>3
<1>6. sig1 \in Signatures /\ DOMAIN sig1 = DOMAIN r.env \cup DOMAIN b.sig
      /\ \A e \in DOMAIN sig1 : sig1[e] = IF e \in DOMAIN b.sig THEN b.sig[e] ELSE r.env[e]
  <2> DEFINE D == DOMAIN r.env \cup DOMAIN b.sig
  <2>1. D \in SUBSET EnvFields
    BY <1>3, <1>4
  <2>2. sig1 \in [D -> Nat]
    BY <1>3, <1>4
  <2>3. DOMAIN sig1 = D /\ \A e \in D : sig1[e] = IF e \in DOMAIN b.sig THEN b.sig[e] ELSE r.env[e]
    OBVIOUS
  <2> HIDE DEF D, sig1
  <2> QED
    BY <2>1, <2>2, <2>3 DEF Signatures, D
<1>7. /\ mixed1 <=> b.pmuMixed \/ (b.n > 0 /\ r.pmu # b.pmu)
      /\ pmu1 = IF b.n = 0 THEN r.pmu ELSE b.pmu
      /\ n1 = b.n + 1 /\ members1 = b.members \cup {i} /\ compared1 = b.compared \cup both
      /\ mismatched1 = b.mismatched \cup {e \in both : ~Agrees(e, b.sig[e], r.env[e])}
  OBVIOUS
<1> HIDE DEF n1, members1, pmu1, mixed1, sig1, compared1, mismatched1, both
<1>8. /\ c \in Buckets(stored)
      /\ c.n = n1 /\ c.members = members1 /\ c.pmu = pmu1 /\ c.sig = sig1
      /\ c.compared = compared1 /\ c.mismatched = mismatched1
      /\ c.group = b.group /\ c.option = b.option /\ c.metric = b.metric
  BY <1>1, <1>5, <1>6 DEF Buckets
<1>9. c.pmuMixed = mixed1
  BY <1>1 DEF Buckets
<1> HIDE DEF c, r
<1> QED
  BY <1>6, <1>7, <1>8, <1>9 DEF c, r, both

LEMMA RunsFinite ==
  ASSUME Opened, NEW S \in SUBSET DOMAIN stored
  PROVE  IsFiniteSet(S) /\ Cardinality(S) \in Nat /\ (Cardinality(S) = 0 <=> S = {})
<1>1. PICK n \in Nat : DOMAIN stored = 1 .. n
  BY DEF Opened
<1>2. IsFiniteSet(1 .. n)
  BY FS_Interval
<1>3. IsFiniteSet(S)
  BY <1>1, <1>2, FS_Subset
<1> QED
  BY <1>3, FS_CardinalityType, FS_EmptySet

LEMMA AddedCollects ==
  ASSUME Opened, NEW b \in Buckets(stored), Collected(stored, b), NEW i \in (DOMAIN stored) \ b.members
  PROVE  Collected(stored, Added(b, i))
<1>1. PICK c : c = Added(b, i)
  OBVIOUS
<1>2. PICK r : r = stored[i]
  OBVIOUS
<1>3. /\ c \in Buckets(stored)
      /\ c.n = b.n + 1 /\ c.members = b.members \cup {i}
      /\ c.pmu = IF b.n = 0 THEN r.pmu ELSE b.pmu
      /\ c.pmuMixed <=> b.pmuMixed \/ (b.n > 0 /\ r.pmu # b.pmu)
      /\ DOMAIN c.sig = DOMAIN r.env \cup DOMAIN b.sig
      /\ \A e \in DOMAIN c.sig : c.sig[e] = IF e \in DOMAIN b.sig THEN b.sig[e] ELSE r.env[e]
      /\ c.compared = b.compared \cup (DOMAIN r.env \cap DOMAIN b.sig)
      /\ c.mismatched = b.mismatched \cup {e \in DOMAIN r.env \cap DOMAIN b.sig : ~Agrees(e, b.sig[e], r.env[e])}
  BY <1>1, <1>2, AddedFields
<1>4. DOMAIN r.env \subseteq EnvFields /\ \A e \in DOMAIN r.env : r.env[e] \in Nat
  BY <1>2, RunFacts
<1>5. b.members \in SUBSET DOMAIN stored /\ b.n \in Nat /\ b.pmuMixed \in BOOLEAN
  BY DEF Buckets
<1>6. b.n = Cardinality(b.members) /\ (b.n = 0 <=> b.members = {}) /\ IsFiniteSet(b.members)
  BY <1>5, RunsFinite DEF Collected
<1>7. c.n = Cardinality(c.members)
  <2>1. i \notin b.members
    OBVIOUS
  <2>2. Cardinality(b.members \cup {i}) = Cardinality(b.members) + 1
    BY <1>6, <2>1, FS_AddElement
  <2> QED
    BY <1>3, <1>6, <2>2
<1>8. PmuCollected(stored, c)
  <2>1. b.members # {} => \E k \in b.members : stored[k].pmu = b.pmu
    BY DEF Collected, PmuCollected
  <2>2. b.pmuMixed <=> \E k \in b.members : stored[k].pmu # b.pmu
    BY DEF Collected, PmuCollected
  <2>3. CASE b.n = 0
    <3>1. b.members = {} /\ ~b.pmuMixed /\ c.members = {i} /\ c.pmu = stored[i].pmu /\ ~c.pmuMixed
      BY <1>2, <1>3, <1>6, <2>2, <2>3
    <3> QED
      BY <3>1 DEF PmuCollected
  <2>4. CASE b.n # 0
    <3>1. b.members # {} /\ c.pmu = b.pmu /\ (c.pmuMixed <=> b.pmuMixed \/ stored[i].pmu # b.pmu)
      BY <1>2, <1>3, <1>5, <1>6, <2>4
    <3>2. \E k \in c.members : stored[k].pmu = c.pmu
      BY <1>3, <2>1, <3>1
    <3>3. c.pmuMixed <=> \E k \in c.members : stored[k].pmu # c.pmu
      BY <1>3, <2>2, <3>1
    <3> QED
      BY <3>2, <3>3 DEF PmuCollected
  <2> QED
    BY <2>3, <2>4
<1>9. ASSUME NEW e \in EnvFields
      PROVE  /\ e \in DOMAIN b.sig <=> \E k \in b.members : HasEnv(stored, k, e)
             /\ e \in DOMAIN b.sig => \E k \in b.members : HasEnv(stored, k, e) /\ b.sig[e] = EnvOf(stored, k, e)
             /\ e \in b.compared <=> \E k, j \in b.members : k # j /\ HasEnv(stored, k, e) /\ HasEnv(stored, j, e)
             /\ e \in b.mismatched <=> \E k \in b.members : HasEnv(stored, k, e) /\ ~Agrees(e, b.sig[e], EnvOf(stored, k, e))
  <2>1. SigCollected(stored, b) /\ ComparedCollected(stored, b) /\ MismatchCollected(stored, b)
    BY DEF Collected
  <2>2. /\ e \in DOMAIN b.sig <=> \E k \in b.members : HasEnv(stored, k, e)
        /\ e \in DOMAIN b.sig => \E k \in b.members : HasEnv(stored, k, e) /\ b.sig[e] = EnvOf(stored, k, e)
    BY <2>1 DEF SigCollected
  <2>3. e \in b.compared <=> \E k, j \in b.members : k # j /\ HasEnv(stored, k, e) /\ HasEnv(stored, j, e)
    BY <2>1 DEF ComparedCollected
  <2>4. e \in b.mismatched <=> \E k \in b.members : HasEnv(stored, k, e) /\ ~Agrees(e, b.sig[e], EnvOf(stored, k, e))
    BY <2>1 DEF MismatchCollected
  <2> QED
    BY <2>2, <2>3, <2>4
<1>10. \A e \in EnvFields : /\ HasEnv(stored, i, e) <=> e \in DOMAIN r.env
                            /\ e \in DOMAIN r.env => EnvOf(stored, i, e) = r.env[e]
  BY <1>2 DEF HasEnv, EnvOf
<1>11. ASSUME NEW e \in EnvFields
       PROVE  /\ e \in DOMAIN c.sig <=> HasEnv(stored, i, e) \/ e \in DOMAIN b.sig
              /\ e \in DOMAIN b.sig => c.sig[e] = b.sig[e]
              /\ HasEnv(stored, i, e) /\ e \notin DOMAIN b.sig => c.sig[e] = EnvOf(stored, i, e)
              /\ e \in c.compared <=> e \in b.compared \/ (HasEnv(stored, i, e) /\ e \in DOMAIN b.sig)
              /\ e \in c.mismatched <=>
                   e \in b.mismatched \/ (HasEnv(stored, i, e) /\ e \in DOMAIN b.sig /\ ~Agrees(e, b.sig[e], EnvOf(stored, i, e)))
  BY <1>3, <1>10
<1>12. SigCollected(stored, c)
  <2> SUFFICES ASSUME NEW e \in EnvFields
               PROVE  /\ e \in DOMAIN c.sig <=> \E k \in c.members : HasEnv(stored, k, e)
                      /\ e \in DOMAIN c.sig => \E k \in c.members : HasEnv(stored, k, e) /\ c.sig[e] = EnvOf(stored, k, e)
    BY DEF SigCollected
  <2>1. e \in DOMAIN c.sig <=> \E k \in c.members : HasEnv(stored, k, e)
    BY <1>3, <1>9, <1>11
  <2>2. CASE e \in DOMAIN b.sig
    BY <1>3, <1>9, <1>11, <2>1, <2>2
  <2>3. CASE HasEnv(stored, i, e) /\ e \notin DOMAIN b.sig
    BY <1>3, <1>11, <2>1, <2>3
  <2> QED
    BY <1>11, <2>1, <2>2, <2>3
<1>13. ComparedCollected(stored, c)
  <2> SUFFICES ASSUME NEW e \in EnvFields
               PROVE  e \in c.compared <=> \E k, j \in c.members : k # j /\ HasEnv(stored, k, e) /\ HasEnv(stored, j, e)
    BY DEF ComparedCollected
  <2>1. i \notin b.members
    OBVIOUS
  <2> QED
    BY <1>3, <1>9, <1>11, <2>1
<1>14. MismatchCollected(stored, c)
  <2> SUFFICES ASSUME NEW e \in EnvFields
               PROVE  e \in c.mismatched <=> \E k \in c.members : HasEnv(stored, k, e) /\ ~Agrees(e, c.sig[e], EnvOf(stored, k, e))
    BY DEF MismatchCollected
  <2>1. CASE e \in DOMAIN b.sig
    BY <1>3, <1>9, <1>11, <2>1
  <2>2. CASE e \notin DOMAIN b.sig
    <3>1. \A k \in b.members : ~HasEnv(stored, k, e)
      BY <1>9, <2>2
    <3>2. e \notin c.mismatched
      BY <1>9, <1>11, <2>2, <3>1
    <3>3. HasEnv(stored, i, e) => EnvOf(stored, i, e) \in Nat /\ c.sig[e] = EnvOf(stored, i, e)
      BY <1>4, <1>10, <1>11, <2>2
    <3>4. HasEnv(stored, i, e) => Agrees(e, c.sig[e], EnvOf(stored, i, e))
      BY <3>3, AgreesItself
    <3> QED
      BY <1>3, <3>1, <3>2, <3>4
  <2> QED
    BY <2>1, <2>2
<1> HIDE DEF HasEnv, EnvOf
<1> QED
  BY <1>1, <1>7, <1>8, <1>12, <1>13, <1>14 DEF Collected

\* A quotient grows with its dividend.
LEMMA QuotientGrows ==
  ASSUME NEW a \in Nat, NEW b \in Nat, NEW c \in Nat, c > 0, a <= b
  PROVE  (100 * a) \div c \in Nat /\ (100 * a) \div c <= (100 * b) \div c
<1>1. ASSUME NEW x \in Nat
      PROVE  x \div c \in Nat /\ c * (x \div c) <= x /\ x < c * (x \div c) + c
  OBVIOUS
<1>2. PICK x \in Nat : x = 100 * a
  OBVIOUS
<1>3. PICK y \in Nat : y = 100 * b
  OBVIOUS
<1>4. x <= y
  BY <1>2, <1>3
<1>5. PICK p \in Nat : p = x \div c /\ c * p <= x /\ x < c * p + c
  BY <1>1
<1>6. PICK q \in Nat : q = y \div c /\ c * q <= y /\ y < c * q + c
  BY <1>1
<1>7. p <= q
  <2> SUFFICES ASSUME q + 1 <= p PROVE FALSE
    BY <1>5, <1>6
  <2>1. c * (q + 1) <= c * p
    <3>1. PICK k \in Nat : p = q + 1 + k
      <4>1. p - (q + 1) \in Nat
        BY <1>5, <1>6
      <4> QED
        BY <4>1
    <3>2. c * p = c * (q + 1) + c * k
      BY <3>1
    <3>3. c * k \in Nat /\ c * (q + 1) \in Nat
      OBVIOUS
    <3> QED
      BY <3>2, <3>3
  <2>2. c * (q + 1) = c * q + c
    OBVIOUS
  <2>3. c * q \in Nat /\ c * p \in Nat
    OBVIOUS
  <2> QED
    BY <1>4, <1>5, <1>6, <2>1, <2>2, <2>3
<1> QED
  BY <1>2, <1>3, <1>5, <1>6, <1>7

\* How far apart two values that agree with a third may be
LEMMA AgreeNear ==
  ASSUME NEW e, NEW s \in Nat, NEW v \in Nat, NEW w \in Nat, Agrees(e, s, v), Agrees(e, s, w)
  PROVE  ~(100 * v > (IF e = "memory_total_kb" THEN 111 ELSE 100) * w)
<1>1. CASE e # "memory_total_kb"
  BY <1>1 DEF Agrees
<1>2. CASE e = "memory_total_kb"
  <2>1. ASSUME NEW x \in Nat, Agrees(e, s, x) PROVE 20 * (x - s) <= s /\ 20 * (s - x) <= s
    <3> DEFINE m == Max({x - s, s - x})
    <3>1. \E z \in {x - s, s - x} : \A y \in {x - s, s - x} : z >= y
      OBVIOUS
    <3>2. m \in {x - s, s - x} /\ \A y \in {x - s, s - x} : m >= y
      BY <3>1 DEF Max
    <3>3. 20 * m <= s
      BY <1>2, <2>1 DEF Agrees
    <3> HIDE DEF m
    <3> QED
      BY <3>2, <3>3
  <2>2. 20 * (v - s) <= s /\ 20 * (s - w) <= s
    BY <2>1
  <2> QED
    BY <1>2, <2>2
<1> QED
  BY <1>1, <1>2

LEMMA DisagreeDiffers ==
  ASSUME NEW e, NEW s \in Nat, NEW v \in Nat, ~Agrees(e, s, v)
  PROVE  v # s
BY AgreesItself

\* A verdict about all pairs of the runs of a bucket
Judged(s, members, verdict) ==
  LET in == members
      Have(e) == {i \in in : e \in DOMAIN s[i].env}
      compared == {e \in EnvFields : Cardinality(Have(e)) >= 2}
      Spans(e, percent) == \E i, j \in Have(e) : 100 * s[i].env[e] > percent * s[j].env[e]
      unequal == {e \in compared : Spans(e, 100)}
      far == {e \in compared : Spans(e, IF e = "memory_total_kb" THEN 111 ELSE 100)}
      Share(bad) == (100 * Cardinality(compared \ bad)) \div Cardinality(compared)
  IN /\ "mixed-pmu" \in verdict <=> \E i, j \in in : s[i].pmu # s[j].pmu
     /\ compared = {} => "mixed-env" \notin verdict
     /\ compared # {} /\ Share(far) < MinEnvScore => "mixed-env" \in verdict
     /\ compared # {} /\ "mixed-env" \in verdict => Share(unequal) < MinEnvScore

LEMMA TwoOf ==
  ASSUME NEW S, IsFiniteSet(S)
  PROVE  Cardinality(S) >= 2 <=> \E a, b \in S : a # b
<1>1. Cardinality(S) \in Nat
  BY FS_CardinalityType
<1>2. (\E a, b \in S : a # b) => Cardinality(S) >= 2
  <2> SUFFICES ASSUME NEW a \in S, NEW b \in S, a # b PROVE Cardinality(S) >= 2
    OBVIOUS
  <2> QED
    BY <1>1, TwoInSet
<1>3. ASSUME \A a, b \in S : a = b PROVE Cardinality(S) <= 1
  <2>1. CASE S = {}
    BY <2>1, FS_EmptySet
  <2>2. CASE S # {}
    <3>1. PICK a \in S : S = {a}
      BY <1>3, <2>2
    <3> QED
      BY <3>1, FS_Singleton
  <2> QED
    BY <2>1, <2>2
<1> QED
  BY <1>1, <1>2, <1>3

LEMMA CollectedJudges ==
  ASSUME Opened, NEW b \in Buckets(stored), Collected(stored, b), b.members # {}
  PROVE  Judged(stored, b.members, Verdict(b))
<1> DEFINE Have(e) == {i \in b.members : e \in DOMAIN stored[i].env}
           compared == {e \in EnvFields : Cardinality(Have(e)) >= 2}
           Spans(e, percent) == \E i, j \in Have(e) : 100 * stored[i].env[e] > percent * stored[j].env[e]
           unequal == {e \in compared : Spans(e, 100)}
           far == {e \in compared : Spans(e, IF e = "memory_total_kb" THEN 111 ELSE 100)}
           Share(bad) == (100 * Cardinality(compared \ bad)) \div Cardinality(compared)
           verdict == Verdict(b)
<1>0. /\ b.members \in SUBSET DOMAIN stored /\ b.compared \in SUBSET EnvFields
      /\ b.mismatched \in SUBSET EnvFields /\ b.pmuMixed \in BOOLEAN
  BY DEF Buckets
<1>1. /\ "mixed-pmu" \in verdict <=> b.pmuMixed
      /\ "mixed-env" \in verdict <=> EnvScore(b) \in 0 .. MinEnvScore - 1
  BY DEF Verdict
<1>2. "mixed-pmu" \in verdict <=> \E i, j \in b.members : stored[i].pmu # stored[j].pmu
  BY <1>0, <1>1 DEF Collected, PmuCollected
<1>3. compared = b.compared
  <2>1. ASSUME NEW e \in EnvFields PROVE e \in compared <=> e \in b.compared
    <3>1. Have(e) \in SUBSET DOMAIN stored
      BY <1>0
    <3>2. IsFiniteSet(Have(e))
      BY <3>1, RunsFinite
    <3>3. Cardinality(Have(e)) >= 2 <=> \E i, j \in Have(e) : i # j
      BY <3>2, TwoOf
    <3>4. e \in b.compared <=> \E i, j \in b.members : i # j /\ HasEnv(stored, i, e) /\ HasEnv(stored, j, e)
      BY DEF Collected, ComparedCollected
    <3> QED
      BY <3>3, <3>4 DEF HasEnv
  <2> QED
    BY <1>0, <2>1
<1>4. ASSUME NEW e \in b.compared
      PROVE  /\ e \in EnvFields
             /\ \A i \in Have(e) : EnvOf(stored, i, e) \in Nat
             /\ \E i \in Have(e) : b.sig[e] = EnvOf(stored, i, e)
             /\ b.sig[e] \in Nat
             /\ e \in b.mismatched <=> \E i \in Have(e) : ~Agrees(e, b.sig[e], EnvOf(stored, i, e))
  <2>1. e \in EnvFields
    BY <1>0
  <2>2. \A i \in Have(e) : EnvOf(stored, i, e) \in Nat
    BY <1>0, RunFacts DEF EnvOf
  <2>3. \E i \in b.members : HasEnv(stored, i, e)
    BY <2>1 DEF Collected, ComparedCollected
  <2>4. \E i \in b.members : HasEnv(stored, i, e) /\ b.sig[e] = EnvOf(stored, i, e)
    BY <2>1, <2>3 DEF Collected, SigCollected
  <2>5. \E i \in Have(e) : b.sig[e] = EnvOf(stored, i, e)
    BY <2>4 DEF HasEnv
  <2>6. e \in b.mismatched <=> \E i \in b.members : HasEnv(stored, i, e) /\ ~Agrees(e, b.sig[e], EnvOf(stored, i, e))
    BY <2>1 DEF Collected, MismatchCollected
  <2>7. e \in b.mismatched <=> \E i \in Have(e) : ~Agrees(e, b.sig[e], EnvOf(stored, i, e))
    BY <2>6 DEF HasEnv
  <2>8. b.sig[e] \in Nat
    BY <2>2, <2>5
  <2> QED
    BY <2>1, <2>2, <2>5, <2>7, <2>8
<1>5. far \subseteq b.mismatched
  <2> SUFFICES ASSUME NEW e \in far, e \notin b.mismatched PROVE FALSE
    OBVIOUS
  <2>1. PICK i \in Have(e), j \in Have(e) :
          100 * EnvOf(stored, i, e) > (IF e = "memory_total_kb" THEN 111 ELSE 100) * EnvOf(stored, j, e)
    BY DEF EnvOf
  <2>2. e \in b.compared
    BY <1>3
  <2>3. /\ EnvOf(stored, i, e) \in Nat /\ EnvOf(stored, j, e) \in Nat /\ b.sig[e] \in Nat
        /\ Agrees(e, b.sig[e], EnvOf(stored, i, e)) /\ Agrees(e, b.sig[e], EnvOf(stored, j, e))
    BY <1>4, <2>2
  <2> HIDE DEF Have, compared, far, EnvOf
  <2> QED
    BY <2>1, <2>3, AgreeNear
<1>6. b.compared \cap b.mismatched \subseteq unequal
  <2> SUFFICES ASSUME NEW e \in b.compared, e \in b.mismatched PROVE Spans(e, 100)
    BY <1>3
  <2>1. PICK i \in Have(e) : ~Agrees(e, b.sig[e], EnvOf(stored, i, e))
    BY <1>4
  <2>2. PICK j \in Have(e) : b.sig[e] = EnvOf(stored, j, e)
    BY <1>4
  <2>3. EnvOf(stored, i, e) \in Nat /\ EnvOf(stored, j, e) \in Nat /\ b.sig[e] \in Nat
    BY <1>4
  <2>4. EnvOf(stored, i, e) # EnvOf(stored, j, e)
    BY <2>1, <2>2, <2>3, DisagreeDiffers
  <2>5. 100 * EnvOf(stored, i, e) > 100 * EnvOf(stored, j, e) \/ 100 * EnvOf(stored, j, e) > 100 * EnvOf(stored, i, e)
    BY <2>3, <2>4
  <2> QED
    BY <2>5 DEF EnvOf
<1>7. /\ IsFiniteSet(b.compared)
      /\ \A S \in SUBSET b.compared : IsFiniteSet(S) /\ Cardinality(S) \in Nat
  BY <1>0, FS_Subset, FS_CardinalityType, SummaryAssumption
<1>8. EnvScore(b) = IF b.compared = {} THEN -1 ELSE Share(b.mismatched)
  BY <1>3 DEF EnvScore
<1> DEFINE cc == Cardinality(b.compared)
           cm == Cardinality(b.compared \ b.mismatched)
           cf == Cardinality(b.compared \ far)
           cu == Cardinality(b.compared \ unequal)
<1>9. /\ cc \in Nat /\ cm \in Nat /\ cf \in Nat /\ cu \in Nat
      /\ cm <= cf /\ cu <= cm /\ (b.compared # {} => cc > 0)
  <2>1. /\ b.compared \ b.mismatched \subseteq b.compared \ far
        /\ b.compared \ unequal \subseteq b.compared \ b.mismatched
    BY <1>5, <1>6
  <2> HIDE DEF far, unequal
  <2>2. \A S \in SUBSET b.compared : \A T \in SUBSET S : Cardinality(T) <= Cardinality(S)
    BY <1>7, FS_Subset
  <2>3. cm <= cf /\ cu <= cm
    BY <2>1, <2>2
  <2>4. cc \in Nat /\ cm \in Nat /\ cf \in Nat /\ cu \in Nat
    BY <1>7
  <2>5. b.compared # {} => cc # 0
    BY <1>7, FS_EmptySet
  <2> QED
    BY <2>3, <2>4, <2>5
<1>10. /\ Share(b.mismatched) = (100 * cm) \div cc /\ Share(far) = (100 * cf) \div cc
       /\ Share(unequal) = (100 * cu) \div cc
  <2> HIDE DEF far, unequal, compared
  <2> QED
    BY <1>3
<1>11. MinEnvScore \in Nat
  BY SummaryAssumption
<1>12. b.compared # {} =>
         /\ (100 * cm) \div cc \in Nat /\ (100 * cf) \div cc \in Nat /\ (100 * cu) \div cc \in Nat
         /\ (100 * cm) \div cc <= (100 * cf) \div cc /\ (100 * cu) \div cc <= (100 * cm) \div cc
  <2> HIDE DEF cc, cm, cf, cu
  <2> HAVE b.compared # {}
  <2>1. cc > 0
    BY <1>9
  <2>2. (100 * cm) \div cc \in Nat /\ (100 * cm) \div cc <= (100 * cf) \div cc
    BY <1>9, <2>1, QuotientGrows
  <2>3. (100 * cu) \div cc \in Nat /\ (100 * cu) \div cc <= (100 * cm) \div cc
    BY <1>9, <2>1, QuotientGrows
  <2>4. (100 * cf) \div cc \in Nat
    BY <1>9, <2>1, QuotientGrows
  <2> QED
    BY <2>2, <2>3, <2>4
<1>13. PICK sm, sf, su : sm = Share(b.mismatched) /\ sf = Share(far) /\ su = Share(unequal)
  OBVIOUS
<1>14. b.compared # {} => sm \in Nat /\ sf \in Nat /\ su \in Nat /\ sm <= sf /\ su <= sm
  <2> HIDE DEF cc, cm, cf, cu, Share, far, unequal, compared
  <2> QED
    BY <1>10, <1>12, <1>13
<1>15. /\ compared = {} => "mixed-env" \notin verdict
       /\ compared # {} /\ sf < MinEnvScore => "mixed-env" \in verdict
       /\ compared # {} /\ "mixed-env" \in verdict => su < MinEnvScore
  <2> HIDE DEF Share, far, unequal, compared, verdict
  <2>1. EnvScore(b) = IF b.compared = {} THEN -1 ELSE sm
    BY <1>8, <1>13
  <2>2. CASE b.compared = {}
    <3>1. EnvScore(b) = -1
      BY <2>1, <2>2
    <3> QED
      BY <1>1, <1>3, <2>2, <3>1
  <2>3. CASE b.compared # {}
    <3>1. EnvScore(b) = sm /\ sm \in Nat /\ sf \in Nat /\ su \in Nat /\ sm <= sf /\ su <= sm
      BY <1>14, <2>1, <2>3
    <3> QED
      BY <1>1, <1>3, <1>11, <2>3, <3>1
  <2> QED
    BY <2>2, <2>3
<1>16. /\ compared = {} => "mixed-env" \notin verdict
       /\ compared # {} /\ Share(far) < MinEnvScore => "mixed-env" \in verdict
       /\ compared # {} /\ "mixed-env" \in verdict => Share(unequal) < MinEnvScore
  <2> HIDE DEF Share, far, unequal, compared, verdict
  <2> QED
    BY <1>13, <1>15
<1> QED
  BY <1>2, <1>16, Zenon DEF Judged

-----------------------------------------------------------------------------
(* Each bucket that is being filled or was printed is judged as all pairs of   *)
(* its runs say (SummaryInv).                                                  *)

BucketInv(s, l, b) ==
  /\ b \in Buckets(s) /\ Collected(s, b) /\ b.members # {}
  /\ \A i \in b.members : <<i, b.metric>> \in Rows(s) \ l
JudgedAll(s, printed) ==
  \A b \in printed : b.members \in SUBSET DOMAIN s /\ b.members # {} /\ Judged(s, b.members, b.verdict)

SummaryInv ==
  /\ Opened /\ left \in SUBSET Rows(stored) /\ skipped \in Nat
  /\ bucket = NoBucket \/ BucketInv(stored, left, bucket)
  /\ JudgedAll(stored, emitted)

\* What emit_bucket() does with the bucket b, given what was printed and skipped
BucketPrinted(b, old, new, oldSkipped, newSkipped) ==
  \/ b = NoBucket /\ new = old /\ newSkipped = oldSkipped
  \/ b # NoBucket /\ Cardinality(b.members) < MinRuns /\ new = old /\ newSkipped = oldSkipped + 1
  \/ /\ b # NoBucket /\ newSkipped = oldSkipped
     /\ \E e : new = old \cup {e} /\ e.members = b.members /\ e.metric = b.metric /\ e.verdict = Verdict(b)

LEMMA SomeInBucket ==
  ASSUME Opened, NEW l, NEW b, BucketInv(stored, l, b)
  PROVE  b.n \in Nat /\ b.n > 0 /\ b.n = Cardinality(b.members) /\ b # NoBucket
<1>1. b.members \in SUBSET DOMAIN stored /\ b.members # {} /\ b.n = Cardinality(b.members)
  BY DEF BucketInv, Buckets, Collected
<1>2. b.n \in Nat /\ b.n # 0
  BY <1>1, RunsFinite
<1>3. NoBucket.n = 0
  BY DEF NoBucket
<1> QED
  BY <1>1, <1>2, <1>3

LEMMA EmitPrints ==
  ASSUME SummaryInv, Emit
  PROVE  /\ BucketPrinted(bucket, emitted, emitted', skipped, skipped')
         /\ JudgedAll(stored, emitted') /\ skipped' \in Nat
<1>0. skipped \in Nat /\ JudgedAll(stored, emitted) /\ Opened
  BY DEF SummaryInv
<1>1. CASE bucket = NoBucket
  <2>1. bucket.n = 0
    BY <1>1 DEF NoBucket
  <2>2. emitted' = emitted /\ skipped' = skipped
    BY <2>1 DEF Emit
  <2> QED
    BY <1>0, <1>1, <2>2 DEF BucketPrinted
<1>2. CASE bucket # NoBucket
  <2>1. BucketInv(stored, left, bucket)
    BY <1>2 DEF SummaryInv
  <2>2. bucket.n \in Nat /\ bucket.n > 0 /\ bucket.n = Cardinality(bucket.members)
    BY <1>0, <2>1, SomeInBucket
  <2>3. CASE bucket.n < MinRuns
    <3>1. skipped' = skipped + 1 /\ emitted' = emitted
      BY <2>2, <2>3 DEF Emit
    <3> QED
      BY <1>0, <1>2, <2>2, <2>3, <3>1 DEF BucketPrinted
  <2>4. CASE ~(bucket.n < MinRuns)
    <3> DEFINE e == [group |-> bucket.group, option |-> bucket.option, metric |-> bucket.metric,
                     members |-> bucket.members, verdict |-> Verdict(bucket)]
    <3>1. emitted' = emitted \cup {e} /\ skipped' = skipped
      BY <2>2, <2>4 DEF Emit
    <3>2. e.members = bucket.members /\ e.metric = bucket.metric /\ e.verdict = Verdict(bucket)
      OBVIOUS
    <3> HIDE DEF e
    <3>3. bucket \in Buckets(stored) /\ Collected(stored, bucket) /\ bucket.members # {}
      BY <2>1 DEF BucketInv
    <3>4. Judged(stored, bucket.members, Verdict(bucket))
      BY <1>0, <3>3, CollectedJudges
    <3>5. bucket.members \in SUBSET DOMAIN stored
      BY <3>3 DEF Buckets
    <3>6. JudgedAll(stored, emitted')
      BY <1>0, <3>1, <3>2, <3>3, <3>4, <3>5 DEF JudgedAll
    <3> QED
      BY <1>0, <1>2, <3>1, <3>2, <3>6 DEF BucketPrinted
  <2> QED
    BY <2>3, <2>4
<1> QED
  BY <1>1, <1>2

LEMMA RowsOfQuery ==
  ASSUME Opened, NEW x \in Rows(stored)
  PROVE  /\ x = <<x[1], x[2]>> /\ x[1] \in DOMAIN stored /\ x[2] \in Nat
         /\ x[2] \in DOMAIN stored[x[1]].metrics
<1>1. x \in (DOMAIN stored) \X Nat /\ x[2] \in DOMAIN stored[x[1]].metrics
  BY DEF Rows
<1>2. PICK i \in DOMAIN stored, k \in Nat : x = <<i, k>>
  BY <1>1
<1>3. x[1] = i /\ x[2] = k
  BY <1>2
<1> QED
  BY <1>1, <1>2, <1>3

LEMMA BucketOpens ==
  ASSUME SummaryInv, NEW row \in left
  PROVE  LET r == stored[row[1]]
             c == AddRow(NewBucket(Shown(r.group), Shown(r.option), row[2]), row[1])
         IN /\ BucketInv(stored, left \ {row}, c)
            /\ c.members = {row[1]} /\ c.metric = row[2]
            /\ c.group = Copy(Shown(r.group)) /\ c.option = Copy(Shown(r.option))
<1>1. PICK i, m, r : i = row[1] /\ m = row[2] /\ r = stored[i]
  OBVIOUS
<1>2. Opened /\ row \in Rows(stored) /\ row \notin left \ {row}
  BY DEF SummaryInv
<1>3. row = <<i, m>> /\ i \in DOMAIN stored /\ m \in Nat
  BY <1>1, <1>2, RowsOfQuery
<1>4. \A t \in Nat \X Nat : Copy(Shown(t)) \in Nat \X Nat
  BY DEF Copy, Shown, UnknownText
<1>5. r.group \in Nat \X Nat /\ r.option \in Nat \X Nat
  BY <1>1, <1>2, <1>3, RunFacts
<1> DEFINE g == Copy(Shown(r.group))
           o == Copy(Shown(r.option))
           none == [e \in {} |-> 0]
           b == [n |-> 0, group |-> g, option |-> o, metric |-> m, members |-> {},
                 pmu |-> 0, pmuMixed |-> FALSE, sig |-> none, compared |-> {}, mismatched |-> {}]
<1>6. b = NewBucket(Shown(r.group), Shown(r.option), m)
  BY DEF NewBucket
<1>7. none \in Signatures /\ DOMAIN none = {}
  <2>1. none \in [{} -> Nat] /\ {} \in SUBSET EnvFields /\ DOMAIN none = {}
    OBVIOUS
  <2> HIDE DEF none
  <2> QED
    BY <2>1 DEF Signatures
<1>8. g \in Nat \X Nat /\ o \in Nat \X Nat
  BY <1>4, <1>5
<1> HIDE DEF g, o, none
<1>9. b \in Buckets(stored)
  <2>1. 0 \in Pmus /\ {} \in SUBSET DOMAIN stored /\ {} \in SUBSET EnvFields
    BY DEF Pmus
  <2> QED
    BY <1>3, <1>7, <1>8, <2>1 DEF Buckets
<1>10. /\ b.n = 0 /\ b.members = {} /\ b.metric = m /\ b.group = g /\ b.option = o /\ ~b.pmuMixed
       /\ DOMAIN b.sig = {} /\ b.compared = {} /\ b.mismatched = {}
  BY <1>7
<1> HIDE DEF b
<1>11. Collected(stored, b)
  <2>1. b.n = Cardinality(b.members)
    BY <1>10, FS_EmptySet
  <2>2. PmuCollected(stored, b)
    BY <1>10 DEF PmuCollected
  <2>3. SigCollected(stored, b)
    BY <1>10 DEF SigCollected
  <2>4. ComparedCollected(stored, b) /\ MismatchCollected(stored, b)
    BY <1>10 DEF ComparedCollected, MismatchCollected
  <2> QED
    BY <2>1, <2>2, <2>3, <2>4 DEF Collected
<1>12. PICK c : c = Added(b, i)
  OBVIOUS
<1>13. i \in (DOMAIN stored) \ b.members
  BY <1>3, <1>10
<1>14. Collected(stored, c)
  BY <1>2, <1>9, <1>11, <1>12, <1>13, AddedCollects
<1>15. /\ c \in Buckets(stored) /\ c.members = {i}
       /\ c.group = g /\ c.option = o /\ c.metric = m
  <2>1. /\ c \in Buckets(stored) /\ c.members = b.members \cup {i}
        /\ c.group = b.group /\ c.option = b.option /\ c.metric = b.metric
    BY <1>2, <1>3, <1>9, <1>12, AddedFields
  <2> QED
    BY <1>10, <2>1
<1>16. BucketInv(stored, left \ {row}, c)
  <2>1. <<i, m>> \in Rows(stored) \ (left \ {row})
    BY <1>2, <1>3
  <2> QED
    BY <1>14, <1>15, <2>1 DEF BucketInv
<1>17. c = AddRow(NewBucket(Shown(r.group), Shown(r.option), m), i)
  BY <1>6, <1>12 DEF AddRow, b
<1> QED
  BY <1>1, <1>15, <1>16, <1>17 DEF g, o

LEMMA BucketGrows ==
  ASSUME SummaryInv, NEW row \in left, NEW b, BucketInv(stored, left, b), b.metric = row[2]
  PROVE  LET c == AddRow(b, row[1])
         IN /\ BucketInv(stored, left \ {row}, c)
            /\ c.members = b.members \cup {row[1]} /\ c.metric = b.metric
            /\ c.group = b.group /\ c.option = b.option
<1>1. PICK i, m : i = row[1] /\ m = row[2]
  OBVIOUS
<1>2. Opened /\ row \in Rows(stored)
  BY DEF SummaryInv
<1>3. row = <<i, m>> /\ i \in DOMAIN stored /\ m \in Nat
  BY <1>1, <1>2, RowsOfQuery
<1>4. /\ b \in Buckets(stored) /\ Collected(stored, b) /\ b.members # {}
      /\ \A k \in b.members : <<k, b.metric>> \in Rows(stored) \ left
  BY DEF BucketInv
<1>5. i \in (DOMAIN stored) \ b.members
  BY <1>1, <1>3, <1>4
<1>6. PICK c : c = Added(b, i)
  OBVIOUS
<1>7. Collected(stored, c)
  BY <1>2, <1>4, <1>5, <1>6, AddedCollects
<1>8. /\ c \in Buckets(stored) /\ c.members = b.members \cup {i}
      /\ c.group = b.group /\ c.option = b.option /\ c.metric = b.metric
  BY <1>2, <1>3, <1>4, <1>6, AddedFields
<1>9. \A k \in c.members : <<k, c.metric>> \in Rows(stored) \ (left \ {row})
  BY <1>1, <1>2, <1>3, <1>4, <1>8
<1>10. BucketInv(stored, left \ {row}, c)
  BY <1>4, <1>7, <1>8, <1>9 DEF BucketInv
<1>11. c = AddRow(b, i)
  BY <1>6 DEF AddRow
<1> QED
  BY <1>1, <1>8, <1>10, <1>11

\* ReadRow, of the row that comes next
RowRead(row) ==
  /\ row \in left /\ \A y \in left \ {row} : RowBefore(row, y)
  /\ left' = left \ {row}
  /\ \/ /\ Belongs(bucket, stored[row[1]], row[2])
        /\ bucket' = AddRow(bucket, row[1]) /\ UNCHANGED <<emitted, skipped>>
     \/ /\ ~Belongs(bucket, stored[row[1]], row[2])
        /\ bucket' = AddRow(NewBucket(Shown(stored[row[1]].group), Shown(stored[row[1]].option), row[2]), row[1])
        /\ Emit
  /\ UNCHANGED <<stored, check, drift>>

LEMMA RowIsRead ==
  ASSUME SummaryInv, ReadRow
  PROVE  \E row : RowRead(row)
<1> DEFINE Next(x) == \A y \in left \ {x} : RowBefore(x, y)
           row == CHOOSE x \in left : Next(x)
<1>1. left # {} /\ left \in SUBSET Rows(stored) /\ Opened
  BY DEF ReadRow, SummaryInv
<1>2. \E x \in left : Next(x)
  BY <1>1, FirstRow
<1>3. row \in left /\ Next(row)
  <2> HIDE DEF Next
  <2> QED
    BY <1>2
<1>4. /\ left' = left \ {row}
      /\ IF Belongs(bucket, stored[row[1]], row[2])
         THEN bucket' = AddRow(bucket, row[1]) /\ UNCHANGED <<emitted, skipped>>
         ELSE /\ bucket' = AddRow(NewBucket(Shown(stored[row[1]].group), Shown(stored[row[1]].option), row[2]), row[1])
              /\ Emit
      /\ UNCHANGED <<stored, check, drift>>
  BY DEF ReadRow
<1> HIDE DEF row
<1> QED
  BY <1>3, <1>4 DEF RowRead

LEMMA OpenKeeps ==
  ASSUME SummaryInv, OpenSummary
  PROVE  SummaryInv' /\ left' = Rows(stored') /\ bucket = NoBucket /\ emitted = {} /\ left = {}
<1>1. /\ stored = <<>> /\ stored' \in Summaries
      /\ left' = UNION {{i} \X DOMAIN stored'[i].metrics : i \in DOMAIN stored'}
      /\ bucket' = bucket /\ emitted' = emitted /\ skipped' = skipped
  BY DEF OpenSummary
<1>2. Opened'
  BY <1>1, SummaryAssumption DEF Opened
<1>3. bucket = NoBucket
  <2>1. ~BucketInv(stored, left, bucket)
    BY <1>1 DEF BucketInv, Buckets
  <2> QED
    BY <2>1 DEF SummaryInv
<1>4. emitted = {}
  BY <1>1 DEF SummaryInv, JudgedAll
<1>5. left = {}
  <2>1. left \in SUBSET Rows(stored)
    BY DEF SummaryInv
  <2> QED
    BY <1>1, <2>1 DEF Rows
<1>6. \A i \in DOMAIN stored' : DOMAIN stored'[i].metrics \subseteq Nat
  BY <1>1, SummaryAssumption
<1>7. left' = Rows(stored')
  <2>1. ASSUME NEW x \in left' PROVE x \in Rows(stored')
    <3>1. PICK i \in DOMAIN stored' : x \in {i} \X DOMAIN stored'[i].metrics
      BY <1>1
    <3>2. PICK m \in DOMAIN stored'[i].metrics : x = <<i, m>>
      BY <3>1
    <3>3. x[1] = i /\ x[2] = m /\ m \in Nat
      BY <1>6, <3>2
    <3> QED
      BY <3>2, <3>3 DEF Rows
  <2>2. ASSUME NEW x \in Rows(stored') PROVE x \in left'
    <3>1. x \in (DOMAIN stored') \X Nat /\ x[2] \in DOMAIN stored'[x[1]].metrics
      BY DEF Rows
    <3>2. PICK i \in DOMAIN stored', m \in Nat : x = <<i, m>>
      BY <3>1
    <3>3. x[1] = i /\ x[2] = m
      BY <3>2
    <3>4. x \in {i} \X DOMAIN stored'[i].metrics
      BY <3>1, <3>2, <3>3
    <3> QED
      BY <1>1, <3>4
  <2> QED
    BY <2>1, <2>2
<1>8. JudgedAll(stored', emitted')
  BY <1>1, <1>4 DEF JudgedAll
<1> QED
  BY <1>1, <1>2, <1>3, <1>4, <1>5, <1>7, <1>8 DEF SummaryInv

LEMMA SummaryStep == SummaryInv /\ [SummaryNext]_summaryVars => SummaryInv'
<1> SUFFICES ASSUME SummaryInv, [SummaryNext]_summaryVars PROVE SummaryInv'
  OBVIOUS
<1>1. CASE OpenSummary
  BY <1>1, OpenKeeps
<1>2. CASE ReadRow
  <2>1. PICK row : RowRead(row)
    BY <1>2, RowIsRead
  <2>2. row \in left /\ stored' = stored /\ left' = left \ {row}
    BY <2>1 DEF RowRead
  <2>3. Opened' /\ left' \in SUBSET Rows(stored')
    BY <2>2 DEF SummaryInv, Opened
  <2>4. CASE Belongs(bucket, stored[row[1]], row[2])
    <3>1. bucket' = AddRow(bucket, row[1]) /\ emitted' = emitted /\ skipped' = skipped
      BY <2>1, <2>4 DEF RowRead
    <3>2. bucket.n > 0 /\ bucket.metric = row[2]
      BY <2>4 DEF Belongs
    <3>3. BucketInv(stored, left, bucket)
      BY <3>2 DEF SummaryInv, NoBucket
    <3>4. BucketInv(stored', left', bucket')
      BY <2>2, <3>1, <3>2, <3>3, BucketGrows
    <3> QED
      BY <2>2, <2>3, <3>1, <3>4 DEF SummaryInv
  <2>5. CASE ~Belongs(bucket, stored[row[1]], row[2])
    <3>1. /\ bucket' = AddRow(NewBucket(Shown(stored[row[1]].group), Shown(stored[row[1]].option), row[2]), row[1])
          /\ Emit
      BY <2>1, <2>5 DEF RowRead
    <3>2. BucketInv(stored', left', bucket')
      BY <2>2, <3>1, BucketOpens
    <3>3. JudgedAll(stored', emitted') /\ skipped' \in Nat
      BY <2>2, <3>1, EmitPrints
    <3> QED
      BY <2>3, <3>2, <3>3 DEF SummaryInv
  <2> QED
    BY <2>4, <2>5
<1>3. CASE CloseLast
  <2>1. Emit /\ bucket' = NoBucket /\ stored' = stored /\ left' = left
    BY <1>3 DEF CloseLast
  <2>2. JudgedAll(stored, emitted') /\ skipped' \in Nat
    BY <2>1, EmitPrints
  <2> QED
    BY <2>1, <2>2 DEF SummaryInv, Opened, NoBucket
<1>4. CASE \/ \E t \in DOMAIN stored : CheckRegression(t)
           \/ PhaseTopdown
           \/ UNCHANGED summaryVars
  <2>1. stored' = stored /\ left' = left /\ bucket' = bucket /\ emitted' = emitted /\ skipped' = skipped
    BY <1>4 DEF CheckRegression, PhaseTopdown, summaryVars
  <2> QED
    BY <2>1 DEF SummaryInv, Opened, NoBucket
<1> QED
  BY <1>1, <1>2, <1>3, <1>4 DEF SummaryNext

LEMMA SummaryStart == SummaryInit => SummaryInv
<1> SUFFICES ASSUME SummaryInit PROVE SummaryInv
  OBVIOUS
<1>1. stored = <<>> /\ left = {} /\ bucket = NoBucket /\ emitted = {} /\ skipped = 0
  BY DEF SummaryInit
<1>2. Opened
  <2>1. <<>> \in Seq(KnownRuns)
    OBVIOUS
  <2> QED
    BY <1>1, <2>1 DEF Opened
<1> QED
  BY <1>1, <1>2 DEF SummaryInv, JudgedAll

\* The verdicts of the table (bucket_add(), compute_env_score() and
\* compute_verdict() of summary.c), for any runs, environments and thresholds:
\* bucket_add() compares each run with what the first runs had, and yet the
\* verdict printed is one about all pairs of runs.
THEOREM VerdictsOfAllPairs == SummarySpec => []VerdictOfAllPairs
<1>1. SummaryInv => VerdictOfAllPairs
  BY Zenon DEF SummaryInv, JudgedAll, Judged, VerdictOfAllPairs
<1> QED
  BY <1>1, SummaryStart, SummaryStep, PTL DEF SummarySpec

-----------------------------------------------------------------------------
(* The rows of a bucket come one after the other, so that none is missing from *)
(* the bucket that is closed (KeyInv).                                         *)

\* No name is longer than its buffer, and none reads "(unknown)".
ShortTexts == \A r \in KnownRuns : r.group[2] = 0 /\ r.option[2] = 0

\* The runs with the keys of the row x
RunsLike(s, x) ==
  {i \in DOMAIN s : x[2] \in DOMAIN s[i].metrics /\ s[i].group = s[x[1]].group /\ s[i].option = s[x[1]].option}
Keyed(s, b, x) == b.metric = x[2] /\ b.group = Shown(s[x[1]].group) /\ b.option = Shown(s[x[1]].option)

Filling(s, l, b) ==
  \E x \in Rows(s) \ l : Keyed(s, b, x) /\ b.members = {i \in RunsLike(s, x) : <<i, x[2]>> \notin l}

AllRead(s, l, x) == \A i \in RunsLike(s, x) : <<i, x[2]>> \notin l
Settled(s, printed, skips, x) ==
  \/ Cardinality(RunsLike(s, x)) < MinRuns /\ skips > 0
  \/ \E b \in printed : b.metric = x[2] /\ b.members = RunsLike(s, x)
Closed(s, l, printed, skips, x) == AllRead(s, l, x) /\ Settled(s, printed, skips, x)

RowsClosed(s, l, b, printed, skips) ==
  \A x \in Rows(s) \ l : (b # NoBucket /\ Keyed(s, b, x)) \/ Closed(s, l, printed, skips, x)
Whole(s, printed) == \A b \in printed : \E x \in Rows(s) : b.metric = x[2] /\ b.members = RunsLike(s, x)
InOrder == \A x \in Rows(stored) \ left, y \in left : RowBefore(x, y)
Before(s, t, m) ==
  {i \in RunsLike(s, <<t, m>>) : s[i].start < s[t].start}
Checked(s, c) ==
  c = NoCheck \/ /\ c.target \in DOMAIN s
                 /\ \A m \in DOMAIN s[c.target].metrics : c.baseline[m] = Before(s, c.target, m)

KeyInv ==
  /\ SummaryInv /\ InOrder
  /\ bucket # NoBucket => Filling(stored, left, bucket)
  /\ RowsClosed(stored, left, bucket, emitted, skipped)
  /\ Whole(stored, emitted) /\ Checked(stored, check)

LEMMA ShownShort ==
  ASSUME NEW t \in Nat \X Nat, NEW u \in Nat \X Nat, t[2] = 0, u[2] = 0
  PROVE  /\ Copy(Shown(t)) = Shown(t) /\ (Shown(t) = Shown(u) <=> t = u)
         /\ SameText(t, u) <=> t = u
<1>1. PICK a \in Nat : t = <<a, 0>>
  OBVIOUS
<1>2. PICK b \in Nat : u = <<b, 0>>
  OBVIOUS
<1>3. Shown(t) = (IF a = 0 THEN <<0, 1>> ELSE <<a, 0>>) /\ Shown(u) = (IF b = 0 THEN <<0, 1>> ELSE <<b, 0>>)
  BY <1>1, <1>2 DEF Shown, Null, UnknownText
<1>4. Copy(Shown(t)) = Shown(t)
  BY <1>3 DEF Copy, UnknownText
<1>5. Shown(t) = Shown(u) <=> t = u
  BY <1>1, <1>2, <1>3
<1>6. (IF u = Null THEN Null ELSE Copy(u)) = u
  BY <1>2 DEF Copy, Null, UnknownText
<1> QED
  BY <1>4, <1>5, <1>6 DEF SameText

LEMMA KeyTexts ==
  ASSUME ShortTexts, Opened, NEW i \in DOMAIN stored
  PROVE  /\ stored[i].group \in Nat \X Nat /\ stored[i].group[2] = 0
         /\ stored[i].option \in Nat \X Nat /\ stored[i].option[2] = 0
BY RunFacts DEF ShortTexts

\* A row between two rows of one key has that key as well.
LEMMA KeyBetween ==
  ASSUME Opened, NEW x \in Rows(stored), NEW y \in Rows(stored), NEW z \in Rows(stored),
         stored[x[1]].group = stored[y[1]].group, stored[x[1]].option = stored[y[1]].option, x[2] = y[2],
         RowBefore(x, z), RowBefore(z, y)
  PROVE  stored[z[1]].group = stored[x[1]].group /\ stored[z[1]].option = stored[x[1]].option /\ z[2] = x[2]
<1>1. PICK a, b, c : a = stored[x[1]] /\ b = stored[z[1]] /\ c = stored[y[1]]
  OBVIOUS
<1>2. x[1] \in DOMAIN stored /\ y[1] \in DOMAIN stored /\ z[1] \in DOMAIN stored
      /\ x[2] \in Nat /\ y[2] \in Nat /\ z[2] \in Nat
  BY RowsOfQuery
<1>3. /\ a.group \in Nat \X Nat /\ a.option \in Nat \X Nat
      /\ b.group \in Nat \X Nat /\ b.option \in Nat \X Nat
  BY <1>1, <1>2, RunFacts
<1>4. a.group = c.group /\ a.option = c.option
  BY <1>1
<1>5. ASSUME NEW t \in Nat \X Nat, NEW u \in Nat \X Nat
      PROVE  /\ ~(TextBefore(t, u) /\ TextBefore(u, t))
             /\ ~TextBefore(t, t)
  <2>1. t[1] \in Nat /\ t[2] \in Nat /\ u[1] \in Nat /\ u[2] \in Nat
    OBVIOUS
  <2> QED
    BY <2>1 DEF TextBefore
<1>6. \/ TextBefore(a.group, b.group)
      \/ /\ a.group = b.group
         /\ \/ TextBefore(a.option, b.option)
            \/ a.option = b.option /\ x[2] <= z[2]
  BY <1>1, <1>2 DEF RowBefore
<1>7. \/ TextBefore(b.group, a.group)
      \/ /\ b.group = a.group
         /\ \/ TextBefore(b.option, a.option)
            \/ b.option = a.option /\ z[2] <= x[2]
  BY <1>1, <1>2, <1>4 DEF RowBefore
<1>8. a.group = b.group
  BY <1>3, <1>5, <1>6, <1>7
<1>9. a.option = b.option
  BY <1>3, <1>5, <1>6, <1>7, <1>8
<1>10. x[2] = z[2]
  BY <1>2, <1>3, <1>5, <1>6, <1>7, <1>8, <1>9
<1> QED
  BY <1>1, <1>8, <1>9, <1>10

LEMMA KeyedAlike ==
  ASSUME ShortTexts, Opened, NEW b, NEW x \in Rows(stored), NEW y \in Rows(stored),
         Keyed(stored, b, x), Keyed(stored, b, y)
  PROVE  /\ stored[x[1]].group = stored[y[1]].group /\ stored[x[1]].option = stored[y[1]].option /\ x[2] = y[2]
         /\ RunsLike(stored, x) = RunsLike(stored, y)
<1>1. x[1] \in DOMAIN stored /\ y[1] \in DOMAIN stored
  BY RowsOfQuery
<1>2. /\ Shown(stored[x[1]].group) = Shown(stored[y[1]].group)
      /\ Shown(stored[x[1]].option) = Shown(stored[y[1]].option) /\ x[2] = y[2]
  BY DEF Keyed
<1>3. stored[x[1]].group = stored[y[1]].group /\ stored[x[1]].option = stored[y[1]].option
  BY <1>1, <1>2, KeyTexts, ShownShort
<1> QED
  BY <1>2, <1>3 DEF RunsLike

LEMMA RunsLikeRows ==
  ASSUME Opened, NEW x \in Rows(stored)
  PROVE  /\ x[1] \in RunsLike(stored, x)
         /\ \A i \in RunsLike(stored, x) : /\ <<i, x[2]>> \in Rows(stored)
                                           /\ stored[i].group = stored[x[1]].group
                                           /\ stored[i].option = stored[x[1]].option
<1>1. x[1] \in DOMAIN stored /\ x[2] \in Nat /\ x[2] \in DOMAIN stored[x[1]].metrics
  BY RowsOfQuery
<1> QED
  BY <1>1 DEF RunsLike, Rows

\* The baseline is what load_baseline_buckets() selects by the keys of the target.
LEMMA BaselineBefore ==
  ASSUME ShortTexts, Opened, NEW t \in DOMAIN stored, NEW m
  PROVE  Baseline(t, m) = Before(stored, t, m)
<1>1. \A i \in DOMAIN stored : /\ SameText(stored[i].group, stored[t].group) <=> stored[i].group = stored[t].group
                               /\ SameText(stored[i].option, stored[t].option) <=> stored[i].option = stored[t].option
  BY KeyTexts, ShownShort
<1>2. ~(stored[t].start < stored[t].start)
  BY RunFacts
<1>3. ASSUME NEW i PROVE i \in Baseline(t, m) <=> i \in Before(stored, t, m)
  <2>1. i \in Baseline(t, m) <=>
          /\ i \in DOMAIN stored /\ i # t /\ stored[i].start < stored[t].start /\ m \in DOMAIN stored[i].metrics
          /\ SameText(stored[i].group, stored[t].group) /\ SameText(stored[i].option, stored[t].option)
    BY DEF Baseline
  <2>2. i \in Before(stored, t, m) <=>
          /\ i \in DOMAIN stored /\ stored[i].start < stored[t].start /\ m \in DOMAIN stored[i].metrics
          /\ stored[i].group = stored[t].group /\ stored[i].option = stored[t].option
    BY DEF Before, RunsLike
  <2> QED
    BY <1>1, <1>2, <2>1, <2>2
<1> QED
  BY <1>3

LEMMA KeyInvReports ==
  ASSUME ShortTexts, KeyInv
  PROVE  BaselineIsBucket
<1> SUFFICES ASSUME Summarized PROVE BaselineIsBucket
  BY DEF BaselineIsBucket
<1> DEFINE Bucket(i, m) == {b \in emitted : b.metric = m /\ i \in b.members}
<1>1. Opened /\ Checked(stored, check) /\ Whole(stored, emitted) /\ skipped \in Nat
  BY DEF KeyInv, SummaryInv
<1>2. left = {} /\ bucket = NoBucket
  <2>1. left = {} /\ bucket.n = 0
    BY DEF Summarized
  <2>2. ~BucketInv(stored, left, bucket)
    BY <1>1, <2>1, SomeInBucket
  <2> QED
    BY <2>1, <2>2 DEF KeyInv, SummaryInv
<1>3. ASSUME NEW i \in DOMAIN stored, NEW m \in DOMAIN stored[i].metrics
      PROVE  /\ Settled(stored, emitted, skipped, <<i, m>>)
             /\ i \in RunsLike(stored, <<i, m>>)
             /\ \A b \in Bucket(i, m) : b.members = RunsLike(stored, <<i, m>>)
  <2> DEFINE x == <<i, m>>
  <2>1. x \in Rows(stored) /\ x[1] = i /\ x[2] = m
    BY <1>1, RunFacts DEF Rows
  <2> HIDE DEF x
  <2>2. Settled(stored, emitted, skipped, x)
    BY <1>2, <2>1 DEF KeyInv, RowsClosed, Closed
  <2>3. i \in RunsLike(stored, x)
    BY <1>1, <2>1, RunsLikeRows
  <2>4. ASSUME NEW b \in Bucket(i, m) PROVE b.members = RunsLike(stored, x)
    <3>1. PICK y \in Rows(stored) : b.metric = y[2] /\ b.members = RunsLike(stored, y)
      BY <1>1 DEF Whole
    <3>2. i \in RunsLike(stored, y) /\ y[2] = x[2]
      BY <2>1, <3>1
    <3>3. stored[x[1]].group = stored[y[1]].group /\ stored[x[1]].option = stored[y[1]].option
      BY <2>1, <3>2 DEF RunsLike
    <3>4. RunsLike(stored, y) = RunsLike(stored, x)
      BY <3>2, <3>3 DEF RunsLike
    <3> QED
      BY <3>1, <3>4
  <2> QED
    BY <2>2, <2>3, <2>4 DEF x
<1>4. ASSUME check # NoCheck, NEW m \in DOMAIN stored[check.target].metrics
      PROVE  IF Bucket(check.target, m) = {} THEN Cardinality(check.baseline[m]) + 1 < MinRuns
             ELSE \A b \in Bucket(check.target, m) :
                    check.baseline[m] = {i \in b.members : stored[i].start < stored[check.target].start}
  <2>1. PICK t \in DOMAIN stored : t = check.target
    BY <1>1, <1>4 DEF Checked
  <2>2. check.baseline[m] = Before(stored, t, m) /\ m \in DOMAIN stored[t].metrics
    BY <1>1, <1>4, <2>1 DEF Checked
  <2> DEFINE R == RunsLike(stored, <<t, m>>)
  <2>3. /\ Settled(stored, emitted, skipped, <<t, m>>) /\ t \in R
        /\ \A b \in Bucket(t, m) : b.members = R
    BY <1>3, <2>2
  <2>4. Before(stored, t, m) = {i \in R : stored[i].start < stored[t].start}
    BY DEF Before
  <2>5. R \in SUBSET DOMAIN stored
    BY DEF RunsLike
  <2> HIDE DEF R
  <2>6. CASE Bucket(t, m) = {}
    <3>1. ~\E b \in emitted : b.metric = m /\ b.members = R
      BY <2>3, <2>6
    <3>2. Cardinality(R) < MinRuns
      BY <2>3, <3>1 DEF Settled, R
    <3>3. Before(stored, t, m) \subseteq R \ {t}
      <4>1. ~(stored[t].start < stored[t].start)
        BY <1>1, RunFacts
      <4> QED
        BY <2>4, <4>1
    <3>4. /\ IsFiniteSet(R) /\ Cardinality(R) \in Nat
      BY <1>1, <2>5, RunsFinite
    <3>5. IsFiniteSet(R \ {t}) /\ Cardinality(R \ {t}) = Cardinality(R) - 1
      BY <2>3, <3>4, FS_RemoveElement
    <3>6. Cardinality(Before(stored, t, m)) <= Cardinality(R \ {t}) /\ IsFiniteSet(Before(stored, t, m))
      BY <3>3, <3>5, FS_Subset
    <3>7. Cardinality(Before(stored, t, m)) \in Nat
      BY <3>6, FS_CardinalityType
    <3>8. MinRuns \in Nat
      BY SummaryAssumption
    <3>9. Cardinality(Before(stored, t, m)) + 1 < MinRuns
      BY <3>2, <3>4, <3>5, <3>6, <3>7, <3>8
    <3> QED
      BY <2>1, <2>2, <2>6, <3>9
  <2>7. CASE Bucket(t, m) # {}
    BY <2>1, <2>2, <2>3, <2>4, <2>7
  <2> QED
    BY <2>1, <2>6, <2>7
<1>5. ASSUME ~Insufficient, NEW i \in DOMAIN stored, NEW m \in DOMAIN stored[i].metrics
      PROVE  \E b \in Bucket(i, m) : b.verdict = {}
  <2>1. skipped = 0 /\ \A b \in emitted : b.verdict = {}
    BY <1>1, <1>5 DEF Insufficient
  <2>2. \E b \in emitted : b.metric = m /\ b.members = RunsLike(stored, <<i, m>>)
    BY <1>3, <2>1 DEF Settled
  <2> QED
    BY <1>3, <2>1, <2>2
<1> QED
  BY <1>4, <1>5 DEF BaselineIsBucket

\* The bucket that is closed has all rows of its key, and each key is settled.
LEMMA ClosingSettles ==
  ASSUME ShortTexts, KeyInv, Emit,
         bucket # NoBucket => \A x \in Rows(stored) \ left : Keyed(stored, bucket, x) => AllRead(stored, left, x)
  PROVE  /\ \A z \in Rows(stored) \ left : Closed(stored, left, emitted', skipped', z)
         /\ Whole(stored, emitted')
<1>1. /\ Opened /\ Whole(stored, emitted) /\ skipped \in Nat
      /\ RowsClosed(stored, left, bucket, emitted, skipped)
      /\ bucket # NoBucket => Filling(stored, left, bucket)
  BY DEF KeyInv, SummaryInv
<1>2. BucketPrinted(bucket, emitted, emitted', skipped, skipped')
  BY EmitPrints DEF KeyInv
<1>3. emitted \subseteq emitted' /\ skipped' >= skipped
  BY <1>1, <1>2 DEF BucketPrinted
<1>4. ASSUME bucket # NoBucket
      PROVE  \E x \in Rows(stored) \ left :
               /\ Keyed(stored, bucket, x) /\ bucket.members = RunsLike(stored, x) /\ AllRead(stored, left, x)
  <2>1. PICK x \in Rows(stored) \ left :
          Keyed(stored, bucket, x) /\ bucket.members = {i \in RunsLike(stored, x) : <<i, x[2]>> \notin left}
    BY <1>1, <1>4 DEF Filling
  <2>2. AllRead(stored, left, x)
    BY <1>4, <2>1
  <2>3. bucket.members = RunsLike(stored, x)
    BY <2>1, <2>2 DEF AllRead
  <2> QED
    BY <2>1, <2>2, <2>3
<1>5. ASSUME NEW z \in Rows(stored) \ left PROVE Closed(stored, left, emitted', skipped', z)
  <2>1. CASE Closed(stored, left, emitted, skipped, z)
    <3>1. AllRead(stored, left, z) /\ Settled(stored, emitted, skipped, z)
      BY <2>1 DEF Closed
    <3>2. skipped > 0 => skipped' > 0
      BY <1>1, <1>2 DEF BucketPrinted
    <3>3. Settled(stored, emitted', skipped', z)
      BY <1>3, <3>1, <3>2 DEF Settled
    <3> QED
      BY <3>1, <3>3 DEF Closed
  <2>2. CASE bucket # NoBucket /\ Keyed(stored, bucket, z)
    <3>1. PICK x \in Rows(stored) \ left :
            Keyed(stored, bucket, x) /\ bucket.members = RunsLike(stored, x) /\ AllRead(stored, left, x)
      BY <1>4, <2>2
    <3>2. RunsLike(stored, z) = bucket.members /\ bucket.metric = z[2]
      <4>1. x \in Rows(stored) /\ z \in Rows(stored)
        OBVIOUS
      <4>2. RunsLike(stored, x) = RunsLike(stored, z)
        BY <1>1, <2>2, <3>1, <4>1, KeyedAlike
      <4> QED
        BY <2>2, <3>1, <4>2 DEF Keyed
    <3>3. AllRead(stored, left, z)
      BY <2>2
    <3>4. Settled(stored, emitted', skipped', z)
      BY <1>1, <1>2, <2>2, <3>2 DEF BucketPrinted, Settled
    <3> QED
      BY <3>3, <3>4 DEF Closed
  <2> QED
    BY <1>1, <2>1, <2>2 DEF RowsClosed
<1>6. Whole(stored, emitted')
  <2>1. CASE emitted' = emitted
    BY <1>1, <2>1 DEF Whole
  <2>2. CASE bucket # NoBucket /\ \E e : /\ emitted' = emitted \cup {e} /\ e.members = bucket.members
                                          /\ e.metric = bucket.metric
    <3>1. PICK x \in Rows(stored) \ left : Keyed(stored, bucket, x) /\ bucket.members = RunsLike(stored, x)
      BY <1>4, <2>2
    <3>2. bucket.metric = x[2]
      BY <3>1 DEF Keyed
    <3> QED
      BY <1>1, <2>2, <3>1, <3>2 DEF Whole
  <2> QED
    BY <1>2, <2>1, <2>2 DEF BucketPrinted
<1> QED
  BY <1>5, <1>6

LEMMA BelongsKeyed ==
  ASSUME SummaryInv, NEW row
  PROVE  Belongs(bucket, stored[row[1]], row[2]) <=> bucket # NoBucket /\ Keyed(stored, bucket, row)
<1>1. bucket = NoBucket => bucket.n = 0
  BY DEF NoBucket
<1>2. bucket # NoBucket => bucket.n > 0
  BY SomeInBucket DEF SummaryInv
<1>3. Belongs(bucket, stored[row[1]], row[2]) <=> bucket.n > 0 /\ Keyed(stored, bucket, row)
  BY DEF Belongs, Keyed
<1> QED
  BY <1>1, <1>2, <1>3

\* When a row of another key comes, the rows of the bucket's key have been read.
LEMMA KeyIsRead ==
  ASSUME ShortTexts, KeyInv, NEW row, RowRead(row), ~Belongs(bucket, stored[row[1]], row[2]),
         bucket # NoBucket, NEW x \in Rows(stored) \ left, Keyed(stored, bucket, x)
  PROVE  AllRead(stored, left, x)
<1>1. Opened /\ SummaryInv /\ left \in SUBSET Rows(stored) /\ InOrder
  BY DEF KeyInv, SummaryInv
<1>2. row \in left /\ \A y \in left \ {row} : RowBefore(row, y)
  BY DEF RowRead
<1>3. ~Keyed(stored, bucket, row)
  BY <1>1, BelongsKeyed
<1> SUFFICES ASSUME NEW i \in RunsLike(stored, x), <<i, x[2]>> \in left PROVE FALSE
  BY DEF AllRead
<1>4. PICK y : y = <<i, x[2]>>
  OBVIOUS
<1>5. y[1] = i /\ y[2] = x[2] /\ y \in Rows(stored) /\ y \in left /\ x \in Rows(stored) /\ row \in Rows(stored)
  BY <1>1, <1>2, <1>4
<1>6. stored[y[1]].group = stored[x[1]].group /\ stored[y[1]].option = stored[x[1]].option
  BY <1>1, <1>5, RunsLikeRows
<1>7. y # row
  BY <1>3, <1>5, <1>6 DEF Keyed
<1>8. RowBefore(x, row) /\ RowBefore(row, y)
  BY <1>1, <1>2, <1>5, <1>7 DEF InOrder
<1>9. stored[row[1]].group = stored[x[1]].group /\ stored[row[1]].option = stored[x[1]].option /\ row[2] = x[2]
  BY <1>1, <1>5, <1>6, <1>8, KeyBetween
<1> QED
  BY <1>3, <1>9 DEF Keyed

LEMMA OrderKept ==
  ASSUME SummaryInv, InOrder, NEW row, RowRead(row)
  PROVE  InOrder'
<1>1. stored' = stored /\ left' = left \ {row} /\ row \in left /\ \A y \in left \ {row} : RowBefore(row, y)
  BY DEF RowRead
<1>2. ASSUME NEW x, NEW y PROVE RowBefore(x, y)' <=> RowBefore(x, y)
  BY <1>1 DEF RowBefore
<1>3. ASSUME NEW x \in Rows(stored) \ (left \ {row}), NEW y \in left \ {row} PROVE RowBefore(x, y)
  BY <1>1 DEF InOrder
<1>4. \A x \in Rows(stored') \ left', y \in left' : RowBefore(x, y)'
  BY <1>1, <1>2, <1>3
<1> QED
  BY <1>4 DEF InOrder

LEMMA GrowKeeps ==
  ASSUME ShortTexts, KeyInv, NEW row, RowRead(row), Belongs(bucket, stored[row[1]], row[2])
  PROVE  /\ Filling(stored, left', bucket')
         /\ RowsClosed(stored, left', bucket', emitted', skipped') /\ emitted' = emitted
<1>1. /\ SummaryInv /\ Opened /\ left \in SUBSET Rows(stored)
      /\ RowsClosed(stored, left, bucket, emitted, skipped)
  BY DEF KeyInv, SummaryInv
<1>2. /\ row \in left /\ left' = left \ {row} /\ bucket' = AddRow(bucket, row[1])
      /\ emitted' = emitted /\ skipped' = skipped
  BY DEF RowRead
<1>3. bucket # NoBucket /\ Keyed(stored, bucket, row)
  BY <1>1, BelongsKeyed
<1>4. BucketInv(stored, left, bucket) /\ bucket.metric = row[2]
  BY <1>3 DEF KeyInv, SummaryInv, Keyed
<1>5. /\ BucketInv(stored, left', bucket') /\ bucket'.members = bucket.members \cup {row[1]}
      /\ bucket'.metric = bucket.metric /\ bucket'.group = bucket.group /\ bucket'.option = bucket.option
  BY <1>1, <1>2, <1>4, BucketGrows
<1>6. bucket' # NoBucket
  BY <1>1, <1>5, SomeInBucket
<1>7. \A z : Keyed(stored, bucket', z) <=> Keyed(stored, bucket, z)
  BY <1>5 DEF Keyed
<1>8. PICK x \in Rows(stored) \ left :
        Keyed(stored, bucket, x) /\ bucket.members = {i \in RunsLike(stored, x) : <<i, x[2]>> \notin left}
  BY <1>3 DEF KeyInv, Filling
<1>9. row = <<row[1], row[2]>> /\ row \in Rows(stored) /\ x \in Rows(stored) \ left'
  BY <1>1, <1>2, RowsOfQuery
<1>10. RunsLike(stored, x) = RunsLike(stored, row) /\ x[2] = row[2] /\ row[1] \in RunsLike(stored, row)
  BY <1>1, <1>3, <1>8, <1>9, KeyedAlike, RunsLikeRows
<1>11. bucket'.members = {i \in RunsLike(stored, x) : <<i, x[2]>> \notin left'}
  <2>1. ASSUME NEW i PROVE <<i, x[2]>> = row <=> i = row[1]
    BY <1>9, <1>10
  <2> QED
    BY <1>2, <1>5, <1>8, <1>10, <2>1
<1>12. Filling(stored, left', bucket')
  BY <1>7, <1>8, <1>9, <1>11 DEF Filling
<1>13. ASSUME NEW z \in Rows(stored) \ left'
       PROVE  (bucket' # NoBucket /\ Keyed(stored, bucket', z)) \/ Closed(stored, left', emitted', skipped', z)
  <2>1. CASE z = row
    BY <1>3, <1>6, <1>7, <2>1
  <2>2. CASE z \in Rows(stored) \ left
    <3>1. CASE Keyed(stored, bucket, z)
      BY <1>6, <1>7, <3>1
    <3>2. CASE Closed(stored, left, emitted, skipped, z)
      BY <1>2, <3>2 DEF Closed, AllRead
    <3> QED
      BY <1>1, <2>2, <3>1, <3>2 DEF RowsClosed
  <2> QED
    BY <1>2, <2>1, <2>2
<1> QED
  BY <1>2, <1>12, <1>13 DEF RowsClosed

LEMMA OpenedFills ==
  ASSUME ShortTexts, KeyInv, NEW row, RowRead(row), ~Belongs(bucket, stored[row[1]], row[2])
  PROVE  /\ Filling(stored, left', bucket')
         /\ RowsClosed(stored, left', bucket', emitted', skipped') /\ Whole(stored, emitted')
<1>1. SummaryInv /\ Opened /\ left \in SUBSET Rows(stored)
  BY DEF KeyInv, SummaryInv
<1>2. /\ row \in left /\ left' = left \ {row} /\ Emit
      /\ bucket' = AddRow(NewBucket(Shown(stored[row[1]].group), Shown(stored[row[1]].option), row[2]), row[1])
  BY DEF RowRead
<1>3. /\ \A z \in Rows(stored) \ left : Closed(stored, left, emitted', skipped', z)
      /\ Whole(stored, emitted')
  BY <1>2, KeyIsRead, ClosingSettles
<1>4. /\ row = <<row[1], row[2]>> /\ row \in Rows(stored) \ left' /\ row[1] \in DOMAIN stored
      /\ row[1] \in RunsLike(stored, row)
  BY <1>1, <1>2, RowsOfQuery, RunsLikeRows
<1>5. /\ BucketInv(stored, left', bucket') /\ bucket'.members = {row[1]} /\ bucket'.metric = row[2]
      /\ bucket'.group = Copy(Shown(stored[row[1]].group)) /\ bucket'.option = Copy(Shown(stored[row[1]].option))
  BY <1>1, <1>2, BucketOpens
<1>6. bucket' # NoBucket
  BY <1>1, <1>5, SomeInBucket
<1>7. Keyed(stored, bucket', row)
  <2>1. /\ Copy(Shown(stored[row[1]].group)) = Shown(stored[row[1]].group)
        /\ Copy(Shown(stored[row[1]].option)) = Shown(stored[row[1]].option)
    BY <1>1, <1>4, KeyTexts, ShownShort
  <2> QED
    BY <1>5, <2>1 DEF Keyed
<1>8. ASSUME NEW i \in RunsLike(stored, row), <<i, row[2]>> \notin left' PROVE i = row[1]
  <2> SUFFICES ASSUME <<i, row[2]>> \notin left PROVE FALSE
    BY <1>2, <1>4, <1>8
  <2>1. PICK z : z = <<i, row[2]>>
    OBVIOUS
  <2>2. /\ z \in Rows(stored) \ left /\ z[1] = i /\ z[2] = row[2]
        /\ stored[z[1]].group = stored[row[1]].group /\ stored[z[1]].option = stored[row[1]].option
    BY <1>1, <1>4, <2>1, RunsLikeRows
  <2>3. AllRead(stored, left, z)
    BY <1>3, <2>2 DEF Closed
  <2>4. RunsLike(stored, z) = RunsLike(stored, row)
    BY <2>2 DEF RunsLike
  <2>5. <<row[1], row[2]>> \notin left
    BY <1>4, <2>2, <2>3, <2>4 DEF AllRead
  <2> QED
    BY <1>2, <1>4, <2>5
<1>9. bucket'.members = {i \in RunsLike(stored, row) : <<i, row[2]>> \notin left'}
  BY <1>4, <1>5, <1>8
<1>10. Filling(stored, left', bucket')
  BY <1>4, <1>7, <1>9 DEF Filling
<1>11. ASSUME NEW z \in Rows(stored) \ left'
       PROVE  (bucket' # NoBucket /\ Keyed(stored, bucket', z)) \/ Closed(stored, left', emitted', skipped', z)
  <2>1. CASE z = row
    BY <1>6, <1>7, <2>1
  <2>2. CASE z \in Rows(stored) \ left
    BY <1>2, <1>3, <2>2 DEF Closed, AllRead
  <2> QED
    BY <1>2, <2>1, <2>2
<1> QED
  BY <1>3, <1>10, <1>11 DEF RowsClosed

LEMMA KeyStep ==
  ASSUME ShortTexts
  PROVE  KeyInv /\ [SummaryNext]_summaryVars => KeyInv'
<1> SUFFICES ASSUME KeyInv, [SummaryNext]_summaryVars PROVE KeyInv'
  OBVIOUS
<1>0. SummaryInv' /\ SummaryInv /\ Opened
  BY SummaryStep DEF KeyInv, SummaryInv
<1>1. CASE OpenSummary
  <2>1. left' = Rows(stored') /\ bucket = NoBucket /\ emitted = {} /\ left = {}
    BY <1>0, <1>1, OpenKeeps
  <2>2. stored = <<>> /\ bucket' = bucket /\ emitted' = emitted /\ check' = check /\ skipped' = skipped
    BY <1>1 DEF OpenSummary
  <2>3. check = NoCheck
    BY <2>2 DEF KeyInv, Checked
  <2>4. InOrder'
    BY <2>1 DEF InOrder
  <2>5. Checked(stored', check')
    BY <2>2, <2>3 DEF Checked
  <2>6. RowsClosed(stored', left', bucket', emitted', skipped') /\ Whole(stored', emitted')
    BY <2>1, <2>2 DEF RowsClosed, Whole
  <2> QED
    BY <1>0, <2>1, <2>2, <2>4, <2>5, <2>6 DEF KeyInv, NoBucket
<1>2. CASE ReadRow
  <2>1. PICK row : RowRead(row)
    BY <1>0, <1>2, RowIsRead
  <2>2. stored' = stored /\ check' = check
    BY <2>1 DEF RowRead
  <2>3. InOrder'
    BY <1>0, <2>1, OrderKept DEF KeyInv
  <2>4. Checked(stored', check')
    BY <2>2 DEF KeyInv
  <2>5. /\ Filling(stored, left', bucket')
        /\ RowsClosed(stored, left', bucket', emitted', skipped') /\ Whole(stored, emitted')
    <3>1. CASE Belongs(bucket, stored[row[1]], row[2])
      <4>1. /\ Filling(stored, left', bucket')
            /\ RowsClosed(stored, left', bucket', emitted', skipped') /\ emitted' = emitted
        BY <2>1, <3>1, GrowKeeps
      <4> QED
        BY <4>1 DEF KeyInv
    <3>2. CASE ~Belongs(bucket, stored[row[1]], row[2])
      BY <2>1, <3>2, OpenedFills
    <3> QED
      BY <3>1, <3>2
  <2> QED
    BY <1>0, <2>2, <2>3, <2>4, <2>5 DEF KeyInv
<1>3. CASE CloseLast
  <2>1. /\ left = {} /\ Emit /\ bucket' = NoBucket /\ stored' = stored /\ left' = left /\ check' = check
    BY <1>3 DEF CloseLast
  <2>2. \A x \in Rows(stored) \ left : AllRead(stored, left, x)
    BY <2>1 DEF AllRead
  <2>3. /\ \A z \in Rows(stored) \ left : Closed(stored, left, emitted', skipped', z)
        /\ Whole(stored, emitted')
    BY <2>1, <2>2, ClosingSettles
  <2>4. InOrder'
    BY <2>1 DEF InOrder
  <2>5. RowsClosed(stored', left', bucket', emitted', skipped')
    BY <2>1, <2>3 DEF RowsClosed
  <2>6. bucket' = NoBucket'
    BY <2>1 DEF NoBucket
  <2>7. Checked(stored', check')
    BY <2>1 DEF KeyInv
  <2> QED
    BY <1>0, <2>1, <2>3, <2>4, <2>5, <2>6, <2>7 DEF KeyInv
<1>4. CASE \/ \E t \in DOMAIN stored : CheckRegression(t)
           \/ PhaseTopdown
           \/ UNCHANGED summaryVars
  <2>1. stored' = stored /\ left' = left /\ bucket' = bucket /\ emitted' = emitted /\ skipped' = skipped
    BY <1>4 DEF CheckRegression, PhaseTopdown, summaryVars
  <2>2. Checked(stored', check')
    <3>1. CASE check' = check
      BY <2>1, <3>1 DEF KeyInv
    <3>2. CASE \E t \in DOMAIN stored : CheckRegression(t)
      <4>1. PICK t \in DOMAIN stored : CheckRegression(t)
        BY <3>2
      <4> DEFINE base == [m \in DOMAIN stored[t].metrics |-> Baseline(t, m)]
      <4>2. check'.target = t /\ check'.baseline = base
        BY <4>1 DEF CheckRegression
      <4>3. \A m \in DOMAIN stored[t].metrics : base[m] = Before(stored, t, m)
        BY <1>0, BaselineBefore
      <4> HIDE DEF base
      <4> QED
        BY <2>1, <4>2, <4>3 DEF Checked
    <3> QED
      BY <1>4, <3>1, <3>2 DEF PhaseTopdown, summaryVars
  <2>3. InOrder'
    <3>1. ASSUME NEW x, NEW y PROVE RowBefore(x, y)' <=> RowBefore(x, y)
      BY <2>1 DEF RowBefore
    <3>2. \A x \in Rows(stored') \ left', y \in left' : RowBefore(x, y)'
      BY <2>1, <3>1 DEF KeyInv, InOrder
    <3> QED
      BY <3>2 DEF InOrder
  <2> QED
    BY <1>0, <2>1, <2>2, <2>3 DEF KeyInv, NoBucket
<1> QED
  BY <1>1, <1>2, <1>3, <1>4 DEF SummaryNext

LEMMA KeyStart == SummaryInit => KeyInv
<1> SUFFICES ASSUME SummaryInit PROVE KeyInv
  OBVIOUS
<1>1. /\ SummaryInv /\ stored = <<>> /\ left = {} /\ bucket = NoBucket /\ emitted = {} /\ check = NoCheck
  BY SummaryStart DEF SummaryInit
<1>2. Rows(stored) = {}
  BY <1>1 DEF Rows
<1> QED
  BY <1>1, <1>2 DEF KeyInv, InOrder, RowsClosed, Whole, Checked

\* The baseline of --check-regression is the bucket of the table, and --strict
\* is silent only if each average went into a bucket that passed (summarize(),
\* load_baseline_buckets() and main() of summary.c), for any store whose names
\* fit their buffers: the query brings the rows of a bucket one after the other.
THEOREM BaselinesAreBuckets ==
  ASSUME ShortTexts
  PROVE  SummarySpec => []BaselineIsBucket
<1>1. KeyInv => BaselineIsBucket
  BY KeyInvReports
<1> QED
  BY <1>1, KeyStart, KeyStep, PTL DEF SummarySpec

-----------------------------------------------------------------------------
(* The scorecards.  A snapshot has what was measured of its run, whatever the *)
(* order of the rows (Applying), and a scorecard says of a snapshot what the  *)
(* values in it support (Supported).                                          *)

MeasuredRows(t) == {row \in ToSet(t) : row[2] # Unavailable}
FeaturesOf(t) ==
  [f \in {row[1] : row \in MeasuredRows(t)} |-> (CHOOSE row \in MeasuredRows(t) : row[1] = f)[2]]

Table(t) ==
  /\ t \in Seq(ToSet(t))
  /\ \A row \in ToSet(t) : row[2] \in Int \cup {Unavailable}
  /\ \A row \in ToSet(t) : row[1] = "ibs_dram_pct" => row[2] \in Nat \cup {Unavailable}
  /\ \A n, m \in DOMAIN t : t[n][1] = t[m][1] => n = m

\* Snapshots of the run i, with any of the features of t
FeatureNames(t) == {row[1] : row \in ToSet(t)}
Partial(names) == UNION {[fs -> Int] : fs \in SUBSET names}
Snapshots(t, i) == [run : {i}, features : Partial(FeatureNames(t))]

\* x has the features of the first n rows.
Applying(x, t, n) ==
  /\ DOMAIN x.features = {t[k][1] : k \in {j \in 1 .. n : t[j][2] # Unavailable}}
  /\ \A k \in 1 .. n : t[k][2] # Unavailable => x.features[t[k][1]] = t[k][2]

LEMMA InPartial ==
  ASSUME NEW names, NEW f, f \in Partial(names)
  PROVE  /\ f = [n \in DOMAIN f |-> f[n]] /\ DOMAIN f \subseteq names
         /\ \A n \in DOMAIN f : f[n] \in Int
<1>1. PICK fs \in SUBSET names : f \in [fs -> Int]
  BY DEF Partial
<1> QED
  BY <1>1

LEMMA ToPartial ==
  ASSUME NEW names, NEW fs \in SUBSET names, NEW f \in [fs -> Int]
  PROVE  f \in Partial(names)
BY DEF Partial

\* What a row adds
LEMMA ApplyOne ==
  ASSUME NEW t, Table(t), NEW i, NEW x \in Snapshots(t, i), NEW row \in ToSet(t)
  PROVE  /\ Apply(x, row) \in Snapshots(t, i)
         /\ row[2] = Unavailable => Apply(x, row) = x
         /\ row[2] # Unavailable =>
              /\ DOMAIN Apply(x, row).features = DOMAIN x.features \cup {row[1]}
              /\ \A f \in DOMAIN x.features \cup {row[1]} :
                   Apply(x, row).features[f] = IF f = row[1] THEN row[2] ELSE x.features[f]
<1>1. CASE row[2] = Unavailable
  BY <1>1 DEF Apply
<1>2. CASE row[2] # Unavailable
  <2> DEFINE ff == [f \in DOMAIN x.features \cup {row[1]} |-> IF f = row[1] THEN row[2] ELSE x.features[f]]
  <2>1. Apply(x, row) = [x EXCEPT !.features = ff]
    BY <1>2 DEF Apply
  <2>2. x.features \in Partial(FeatureNames(t)) /\ x = [run |-> i, features |-> x.features]
    BY DEF Snapshots
  <2>3. row[2] \in Int /\ row[1] \in FeatureNames(t)
    BY <1>2 DEF Table, FeatureNames
  <2>4. DOMAIN x.features \cup {row[1]} \in SUBSET FeatureNames(t)
    BY <2>2, <2>3, InPartial
  <2>5. ff \in [DOMAIN x.features \cup {row[1]} -> Int]
    BY <2>2, <2>3, InPartial
  <2>6. ff \in Partial(FeatureNames(t))
    BY <2>4, <2>5, ToPartial
  <2>7. /\ DOMAIN ff = DOMAIN x.features \cup {row[1]}
        /\ \A f \in DOMAIN x.features \cup {row[1]} : ff[f] = IF f = row[1] THEN row[2] ELSE x.features[f]
    OBVIOUS
  <2> HIDE DEF ff
  <2>8. Apply(x, row) = [run |-> i, features |-> ff]
    BY <2>1, <2>2
  <2>9. Apply(x, row) \in Snapshots(t, i) /\ Apply(x, row).features = ff
    BY <2>6, <2>8 DEF Snapshots
  <2> QED
    BY <1>2, <2>7, <2>9
<1> QED
  BY <1>1, <1>2

LEMMA ApplyingOne ==
  ASSUME NEW t, Table(t), NEW i, NEW x \in Snapshots(t, i), NEW n \in 1 .. Len(t), Applying(x, t, n - 1)
  PROVE  Applying(Apply(x, t[n]), t, n)
<1>0. PICK c \in Nat : c = Len(t) /\ DOMAIN t = 1 .. c
  BY DEF Table
<1>1. n \in 1 .. c /\ t[n] \in ToSet(t) /\ n - 1 \in Nat /\ \A k \in 1 .. n : k \in 1 .. n - 1 \/ k = n
  BY <1>0 DEF ToSet
<1>2. \A k \in 1 .. n - 1 : t[k][1] # t[n][1]
  <2>1. \A k \in 1 .. n - 1 : k \in DOMAIN t /\ n \in DOMAIN t /\ k # n
    BY <1>0, <1>1
  <2> QED
    BY <2>1 DEF Table
<1> DEFINE Taken(m) == {j \in 1 .. m : t[j][2] # Unavailable}
           y == Apply(x, t[n])
<1>3. CASE t[n][2] = Unavailable
  <2>1. Apply(x, t[n]) = x
    BY <1>1, <1>3, ApplyOne
  <2>2. Taken(n) = Taken(n - 1)
    BY <1>1, <1>3
  <2>3. \A k \in 1 .. n : t[k][2] # Unavailable => k \in 1 .. n - 1
    BY <1>1, <1>3
  <2> QED
    BY <2>1, <2>2, <2>3 DEF Applying
<1>4. CASE t[n][2] # Unavailable
  <2>1. /\ DOMAIN y.features = DOMAIN x.features \cup {t[n][1]}
        /\ \A f \in DOMAIN x.features \cup {t[n][1]} :
             y.features[f] = IF f = t[n][1] THEN t[n][2] ELSE x.features[f]
    BY <1>1, <1>4, ApplyOne
  <2>2. Taken(n) = Taken(n - 1) \cup {n}
    BY <1>1, <1>4
  <2>3. DOMAIN x.features = {t[k][1] : k \in Taken(n - 1)}
    BY DEF Applying
  <2> HIDE DEF y, Taken
  <2>4. DOMAIN y.features = {t[k][1] : k \in Taken(n)}
    BY <2>1, <2>2, <2>3
  <2>5. ASSUME NEW k \in 1 .. n, t[k][2] # Unavailable PROVE y.features[t[k][1]] = t[k][2]
    <3>1. CASE k = n
      BY <2>1, <3>1
    <3>2. CASE k \in 1 .. n - 1
      <4>1. k \in Taken(n - 1)
        BY <2>5, <3>2 DEF Taken
      <4>2. t[k][1] \in DOMAIN x.features /\ t[k][1] # t[n][1]
        BY <1>2, <2>3, <3>2, <4>1
      <4>3. x.features[t[k][1]] = t[k][2]
        BY <2>5, <3>2 DEF Applying
      <4> QED
        BY <2>1, <4>2, <4>3
    <3> QED
      BY <1>1, <3>1, <3>2
  <2> QED
    BY <2>4, <2>5 DEF Applying, y, Taken
<1> QED
  BY <1>3, <1>4

LEMMA RowsApplied ==
  ASSUME NEW t, Table(t), NEW i, NEW x \in Snapshots(t, i), Applying(x, t, 0)
  PROVE  Applied(x, t) \in Snapshots(t, i) /\ Applying(Applied(x, t), t, Len(t))
<1>0. PICK c \in Nat : c = Len(t) /\ DOMAIN t = 1 .. c
  BY DEF Table
<1> DEFINE Is(u) == u = [n \in 0 .. Len(t) |-> IF n = 0 THEN x ELSE Apply(u[n - 1], t[n])]
           u == CHOOSE u : Is(u)
<1>1. Applied(x, t) = u[c]
  BY <1>0 DEF Applied
<1>2. \E f : Is(f)
  <2> DEFINE step == [z \in Snapshots(t, i) \X ToSet(t) |-> Apply(z[1], z[2])]
  <2>1. step \in [Snapshots(t, i) \X ToSet(t) -> Snapshots(t, i)]
    BY ApplyOne
  <2>2. \A s \in Snapshots(t, i), row \in ToSet(t) : step[<<s, row>>] = Apply(s, row)
    OBVIOUS
  <2> HIDE DEF step
  <2>3. t \in Seq(ToSet(t))
    BY DEF Table
  <2>4. PICK f : Loops(f, Snapshots(t, i), x, ToSet(t), t, step)
    BY <2>1, <2>3, LoopEnds
  <2>5. f \in [0 .. c -> Snapshots(t, i)] /\ f[0] = x /\ \A n \in 1 .. c : f[n] = step[<<f[n - 1], t[n]>>]
    BY <1>0, <2>4 DEF Loops
  <2>6. ASSUME NEW n \in 1 .. c PROVE f[n] = Apply(f[n - 1], t[n])
    <3>1. f[n - 1] \in Snapshots(t, i) /\ t[n] \in ToSet(t)
      BY <1>0, <2>5 DEF ToSet
    <3> QED
      BY <2>2, <2>5, <3>1
  <2> DEFINE Val(n) == IF n = 0 THEN x ELSE Apply(f[n - 1], t[n])
  <2>7. ASSUME NEW n \in 0 .. c PROVE f[n] = Val(n)
    <3>1. CASE n = 0
      BY <2>5, <3>1
    <3>2. CASE n \in 1 .. c
      BY <2>6, <3>2
    <3> QED
      BY <3>1, <3>2
  <2>8. f = [n \in 0 .. c |-> Val(n)]
    <3> HIDE DEF Val
    <3> QED
      BY <2>5, <2>7
  <2> QED
    BY <1>0, <2>8
<1>3. Is(u)
  <2> HIDE DEF Is
  <2> QED
    BY <1>2
<1>4. u[0] = x /\ \A n \in 1 .. c : u[n] = Apply(u[n - 1], t[n])
  <2> HIDE DEF u
  <2> DEFINE Val(n) == IF n = 0 THEN x ELSE Apply(u[n - 1], t[n])
  <2>1. u = [n \in 0 .. c |-> Val(n)]
    BY <1>0, <1>3
  <2>2. Val(0) = x /\ 0 \in 0 .. c
    OBVIOUS
  <2>3. ASSUME NEW n \in 1 .. c PROVE Val(n) = Apply(u[n - 1], t[n]) /\ n \in 0 .. c
    OBVIOUS
  <2> HIDE DEF Val
  <2>4. \A n \in 0 .. c : u[n] = Val(n)
    BY <2>1
  <2> QED
    BY <2>2, <2>3, <2>4
<1> HIDE DEF u
<1> DEFINE Done(y, n) == y \in Snapshots(t, i) /\ Applying(y, t, n)
           K == {n \in Nat : n <= c => Done(u[n], n)}
<1>5. 0 \in K
  BY <1>4
<1>6. ASSUME NEW n \in Nat, n \in K PROVE n + 1 \in K
  <2> SUFFICES ASSUME n + 1 <= c PROVE Done(u[n + 1], n + 1)
    OBVIOUS
  <2>1. u[n] \in Snapshots(t, i) /\ Applying(u[n], t, n)
    BY <1>6
  <2>2. PICK m \in 1 .. c : m = n + 1 /\ m - 1 = n
    OBVIOUS
  <2>3. u[m] = Apply(u[n], t[m]) /\ t[m] \in ToSet(t)
    BY <1>0, <1>4, <2>2 DEF ToSet
  <2>4. u[m] \in Snapshots(t, i)
    BY <2>1, <2>3, ApplyOne
  <2>5. Applying(u[m], t, m)
    BY <1>0, <2>1, <2>2, <2>3, ApplyingOne
  <2> QED
    BY <2>2, <2>4, <2>5
<1> HIDE DEF K
<1>7. Nat \subseteq K
  BY <1>5, <1>6, SetInduction
<1>8. Done(u[c], c)
  <2> HIDE DEF Done
  <2> QED
    BY <1>7 DEF K
<1> QED
  BY <1>0, <1>1, <1>8

\* A snapshot of all rows
LEMMA SnapshotOfTable ==
  ASSUME NEW t, Table(t), NEW i
  PROVE  /\ Applied(Reset(i), t) = [run |-> i, features |-> FeaturesOf(t)]
         /\ FeaturesOf(t) \in Partial(FeatureNames(t))
<1>0. PICK c \in Nat : c = Len(t) /\ DOMAIN t = 1 .. c
  BY DEF Table
<1> DEFINE none == [f \in {} |-> 0]
           x == Reset(i)
<1>1. x \in Snapshots(t, i) /\ Applying(x, t, 0)
  <2>1. none \in [{} -> Int] /\ {} \in SUBSET FeatureNames(t)
    OBVIOUS
  <2>2. none \in Partial(FeatureNames(t)) /\ DOMAIN none = {}
    BY <2>1, ToPartial
  <2> HIDE DEF none
  <2>3. x = [run |-> i, features |-> none]
    BY DEF Reset, NoSnap, none
  <2>4. x \in Snapshots(t, i) /\ DOMAIN x.features = {}
    BY <2>2, <2>3 DEF Snapshots
  <2>5. 1 .. 0 = {}
    OBVIOUS
  <2> QED
    BY <2>4, <2>5 DEF Applying
<1> HIDE DEF x
<1> DEFINE y == Applied(x, t)
<1>2. y \in Snapshots(t, i) /\ Applying(y, t, c)
  BY <1>0, <1>1, RowsApplied
<1> HIDE DEF y
<1>3. y = [run |-> i, features |-> y.features] /\ y.features \in Partial(FeatureNames(t))
  BY <1>2 DEF Snapshots
<1>4. y.features = FeaturesOf(t)
  <2> DEFINE g == FeaturesOf(t)
  <2>1. DOMAIN g = {row[1] : row \in MeasuredRows(t)}
    BY DEF FeaturesOf
  <2>2. DOMAIN y.features = DOMAIN g
    BY <1>0, <1>2, <2>1 DEF Applying, MeasuredRows, ToSet
  <2>3. ASSUME NEW f \in DOMAIN g PROVE g[f] = y.features[f]
    <3> DEFINE r == CHOOSE row \in MeasuredRows(t) : row[1] = f
    <3>1. g[f] = r[2]
      BY <2>1 DEF FeaturesOf
    <3>2. r \in MeasuredRows(t) /\ r[1] = f
      BY <2>1
    <3> HIDE DEF r
    <3>3. PICK k \in 1 .. c : r = t[k]
      BY <1>0, <3>2 DEF MeasuredRows, ToSet
    <3>4. t[k][2] # Unavailable
      BY <3>2, <3>3 DEF MeasuredRows
    <3> QED
      BY <1>2, <3>1, <3>2, <3>3, <3>4 DEF Applying
  <2>4. g = [f \in DOMAIN g |-> g[f]]
    BY DEF FeaturesOf
  <2>5. y.features = [f \in DOMAIN y.features |-> y.features[f]]
    BY <1>3, InPartial
  <2> HIDE DEF g
  <2>6. y.features = g
    BY <2>2, <2>3, <2>4, <2>5
  <2> QED
    BY <2>6 DEF g
<1> QED
  BY <1>3, <1>4 DEF y, x

LEMMA TableReversed ==
  ASSUME NEW t, Table(t)
  PROVE  Table(Reverse(t)) /\ FeaturesOf(Reverse(t)) = FeaturesOf(t)
<1>0. PICK c \in Nat : c = Len(t) /\ DOMAIN t = 1 .. c
  BY DEF Table
<1> DEFINE r == Reverse(t)
<1>1. r = [k \in 1 .. c |-> t[(c - k) + 1]]
  BY <1>0 DEF Reverse
<1>2. /\ DOMAIN r = 1 .. c
      /\ \A k \in 1 .. c : (c - k) + 1 \in 1 .. c /\ r[k] = t[(c - k) + 1] /\ t[k] = r[(c - k) + 1]
  <2>1. \A k \in 1 .. c : (c - k) + 1 \in 1 .. c /\ (c - ((c - k) + 1)) + 1 = k
    OBVIOUS
  <2> HIDE DEF r
  <2> QED
    BY <1>1, <2>1
<1> HIDE DEF r
<1>3. ToSet(r) = ToSet(t)
  <2>1. \A k \in DOMAIN r : \E j \in DOMAIN t : r[k] = t[j]
    BY <1>0, <1>2
  <2>2. \A k \in DOMAIN t : \E j \in DOMAIN r : t[k] = r[j]
    BY <1>0, <1>2
  <2> QED
    BY <2>1, <2>2 DEF ToSet
<1>4. r \in Seq(ToSet(r))
  <2>1. \A k \in 1 .. c : r[k] \in ToSet(r)
    BY <1>2 DEF ToSet
  <2>2. r \in [1 .. c -> ToSet(r)]
    <3>1. r = [k \in 1 .. c |-> r[k]]
      BY <1>1, <1>2
    <3> QED
      BY <2>1, <3>1
  <2> QED
    BY <2>2
<1>5. ASSUME NEW n \in 1 .. c, NEW m \in 1 .. c, r[n][1] = r[m][1] PROVE n = m
  <2>1. PICK j \in 1 .. c, k \in 1 .. c : j = (c - n) + 1 /\ k = (c - m) + 1
    OBVIOUS
  <2>2. t[j][1] = t[k][1]
    BY <1>2, <1>5, <2>1
  <2>3. j = k
    BY <1>0, <2>2 DEF Table
  <2> QED
    BY <2>1, <2>3
<1>6. Table(r)
  BY <1>2, <1>3, <1>4, <1>5 DEF Table
<1>7. MeasuredRows(r) = MeasuredRows(t)
  BY <1>3 DEF MeasuredRows
<1> QED
  BY <1>6, <1>7 DEF FeaturesOf, r

-----------------------------------------------------------------------------
\* What ScoredFromEvidence asks of a scorecard c of the features s
Blamed(s) ==
  /\ Reaches(s, "backend_pct", Floor) /\ Reaches(s, "backend_memory_pct", Floor)
  /\ ~Reaches(s, "blocking_wait_pct", Floor) /\ ~Reaches(s, "sched_rundelay_pct", Floor)
ElevatedIn(s) == {f \in DOMAIN s : s[f] >= Elevated}
AxesSupported(s, c) == \A axis \in SimpleAxes : c.simple[axis] = "unknown" <=> axis \notin DOMAIN s
DominanceSupported(s, c) ==
  \A f \in ToSet(Categories) \cap DOMAIN s :
    /\ c.dominance # <<>> /\ s[c.dominance[1]] >= s[f]
    /\ c.confidence = "high" /\ f # c.dominance[1] => s[c.dominance[1]] - s[f] >= HighMargin
LocusSupported(s, c) ==
  /\ c.locus[1] # "unknown" => Blamed(s) /\ Witnesses(c.locus[1]) \cap ElevatedIn(s) # {}
  /\ Blamed(s) /\ ElevatedIn(s) \cap {"l3_miss_pct", "l2_miss_pct", "dcache_miss_pct"} # {} =>
       c.locus[1] # "unknown"
  /\ Blamed(s) /\ {"ibs_dc_miss_pct", "ibs_dram_pct"} \subseteq ElevatedIn(s) =>
       c.locus[1] \in {"dram", "remote-numa"}
Supported(s, c) == AxesSupported(s, c) /\ DominanceSupported(s, c) /\ LocusSupported(s, c)

\* Features are integers, and shares of samples not negative.
Readings(s) == (\A f \in DOMAIN s : s[f] \in Int) /\ (Has(s, "ibs_dram_pct") => s["ibs_dram_pct"] >= 0)

LEMMA AxesKnown ==
  ASSUME NEW s
  PROVE  AxesSupported(s, Score(s))
<1>1. ASSUME NEW axis \in SimpleAxes PROVE Simple(s)[axis] = "unknown" <=> axis \notin DOMAIN s
  <2>1. Simple(s)[axis] = IF Has(s, axis) THEN Axis(s, axis) ELSE "unknown"
    BY DEF Simple
  <2>2. Axis(s, axis) # "unknown"
    <3>1. CASE axis = "parallelism_proxy"
      BY <3>1 DEF Axis
    <3>2. CASE axis = "branch_mispredict_pct"
      BY <3>2 DEF Axis
    <3>3. CASE axis = "phase_stability"
      BY <3>3 DEF Axis
    <3>4. CASE axis \notin {"parallelism_proxy", "branch_mispredict_pct", "phase_stability"}
      BY <3>4 DEF Axis
    <3> QED
      BY <3>1, <3>2, <3>3, <3>4
  <2> QED
    BY <2>1, <2>2 DEF Has
<1>2. Score(s).simple = Simple(s)
  BY DEF Score
<1> QED
  BY <1>1, <1>2 DEF AxesSupported

\* The greatest of some categories, the first among equals
Leads(s, i, among) ==
  \A j \in among : s[Categories[i]] > s[Categories[j]] \/ (s[Categories[i]] = s[Categories[j]] /\ i <= j)

LEMMA OneLeads ==
  ASSUME NEW s, Readings(s), NEW among \in SUBSET Candidates(s), among # {}
  PROVE  Greatest(s, among) \in among /\ Leads(s, Greatest(s, among), among)
<1> DEFINE v(i) == s[Categories[i]]
<1>1. \A i \in among : i \in 1 .. 4 /\ v(i) \in Int
  BY DEF Candidates, Has, Readings, Categories
<1>2. \E i \in among : Leads(s, i, among)
  <2>1. Candidates(s) \subseteq {1, 2, 3, 4}
    BY DEF Candidates, Categories
  <2> DEFINE over(i, j) == v(i) > v(j) \/ (v(i) = v(j) /\ i <= j)
  <2>2. \A i, j \in among : over(i, j) \/ over(j, i)
    BY <1>1
  <2>3. \A i, j, k \in among : over(i, j) /\ over(j, k) => over(i, k)
    BY <1>1
  <2>4. among \subseteq {1, 2, 3, 4}
    BY <2>1
  <2> HIDE DEF over
  <2>5. ASSUME NEW as \in SUBSET among, as = {} \/ \E i \in as : \A j \in as : over(i, j), NEW n \in among
        PROVE  \E i \in as \cup {n} : \A j \in as \cup {n} : over(i, j)
    <3>1. over(n, n)
      BY <2>2
    <3>2. ASSUME NEW i \in as, \A j \in as : over(i, j) PROVE \E k \in as \cup {n} : \A j \in as \cup {n} : over(k, j)
      <4>1. CASE over(i, n)
        BY <3>2, <4>1
      <4>2. CASE over(n, i)
        BY <2>3, <3>1, <3>2, <4>2
      <4> QED
        BY <2>2, <4>1, <4>2
    <3> QED
      BY <2>5, <3>1, <3>2
  <2> DEFINE led(as) == as = {} \/ \E i \in as : \A j \in as : over(i, j)
  <2>6. ASSUME NEW as \in SUBSET among, led(as), NEW n PROVE led(as \cup (among \cap {n}))
    <3>1. CASE n \in among
      <4>1. among \cap {n} = {n}
        BY <3>1
      <4>2. \E i \in as \cup {n} : \A j \in as \cup {n} : over(i, j)
        BY <2>5, <2>6, <3>1
      <4> QED
        BY <4>1, <4>2
    <3>2. CASE n \notin among
      <4>1. as \cup (among \cap {n}) = as
        BY <3>2
      <4> QED
        BY <2>6, <4>1
    <3> QED
      BY <3>1, <3>2
  <2>7. led({})
    OBVIOUS
  <2> HIDE DEF led
  <2>8. led({} \cup (among \cap {1}))
    BY <2>6, <2>7
  <2>9. led(({} \cup (among \cap {1})) \cup (among \cap {2}))
    BY <2>6, <2>8
  <2>10. led((({} \cup (among \cap {1})) \cup (among \cap {2})) \cup (among \cap {3}))
    BY <2>6, <2>9
  <2>11. led(((({} \cup (among \cap {1})) \cup (among \cap {2})) \cup (among \cap {3})) \cup (among \cap {4}))
    BY <2>6, <2>10
  <2>12. among = ((({} \cup (among \cap {1})) \cup (among \cap {2})) \cup (among \cap {3})) \cup (among \cap {4})
    BY <2>4
  <2>13. \E i \in among : \A j \in among : over(i, j)
    BY <2>11, <2>12 DEF led
  <2> QED
    BY <2>13 DEF over, Leads
<1>3. Greatest(s, among) = CHOOSE i \in among : Leads(s, i, among)
  BY DEF Greatest, Leads
<1> QED
  BY <1>2, <1>3

LEMMA DominanceHeld ==
  ASSUME NEW s, Readings(s)
  PROVE  DominanceSupported(s, Score(s))
<1>1. Score(s).dominance = Dominance(s) /\ Score(s).confidence = Confidence(s)
  BY DEF Score
<1> SUFFICES ASSUME NEW f \in ToSet(Categories) \cap DOMAIN s
             PROVE  /\ Dominance(s) # <<>> /\ s[Dominance(s)[1]] >= s[f]
                    /\ Confidence(s) = "high" /\ f # Dominance(s)[1] => s[Dominance(s)[1]] - s[f] >= HighMargin
  BY <1>1 DEF DominanceSupported
<1>2. PICK j \in Candidates(s) : f = Categories[j]
  BY DEF ToSet, Candidates, Has
<1>3. PICK b : b = Best(s)
  OBVIOUS
<1>4. b \in Candidates(s) /\ Leads(s, b, Candidates(s))
  BY <1>2, <1>3, OneLeads DEF Best
<1>5. Dominance(s) # <<>> /\ Dominance(s)[1] = Categories[b]
  BY <1>2, <1>3 DEF Dominance
<1>6. /\ s[Categories[b]] \in Int /\ s[f] \in Int
  BY <1>2, <1>4 DEF Candidates, Has, Readings
<1>7. s[Categories[b]] >= s[f]
  BY <1>2, <1>4, <1>6 DEF Leads
<1>8. ASSUME Confidence(s) = "high", f # Categories[b] PROVE s[Categories[b]] - s[f] >= HighMargin
  <2>1. Margin(s) >= HighMargin
    BY <1>2, <1>8 DEF Confidence
  <2>2. j \in Rest(s) /\ Rest(s) \in SUBSET Candidates(s)
    BY <1>2, <1>3, <1>8 DEF Rest
  <2>3. PICK g : g = Greatest(s, Rest(s))
    OBVIOUS
  <2>4. g \in Candidates(s) /\ Leads(s, g, Rest(s))
    BY <2>2, <2>3, OneLeads
  <2>5. Margin(s) = s[Categories[b]] - s[Categories[g]]
    BY <1>3, <2>2, <2>3 DEF Margin
  <2>6. s[Categories[g]] \in Int
    BY <2>4 DEF Candidates, Has, Readings
  <2>7. s[Categories[g]] >= s[f]
    BY <1>2, <1>6, <2>2, <2>4, <2>6 DEF Leads
  <2> QED
    BY <1>6, <2>1, <2>5, <2>6, <2>7 DEF HighMargin
<1> QED
  BY <1>5, <1>7, <1>8

\* Where memory is blamed
LEMMA IbsPlace ==
  ASSUME NEW s, Readings(s), IbsLocus(s) # "unknown"
  PROVE  /\ IbsLocus(s) \in {"remote-numa", "dram", "l2-l3", "l1"}
         /\ Witnesses(IbsLocus(s)) \cap ElevatedIn(s) # {}
<1> PICK p : p = IbsLocus(s)
  OBVIOUS
<1>1. Has(s, "ibs_dc_miss_pct") /\ s["ibs_dc_miss_pct"] \in Int
  BY DEF IbsLocus, Has, Readings
<1>2. CASE Reaches(s, "ibs_remote_node_pct", Elevated)
  BY <1>1, <1>2 DEF IbsLocus, Witnesses, ElevatedIn, Reaches, Has
<1>3. CASE ~Reaches(s, "ibs_remote_node_pct", Elevated) /\ Reaches(s, "ibs_dram_pct", Elevated)
  BY <1>1, <1>3 DEF IbsLocus, Witnesses, ElevatedIn, Reaches, Has
<1>4. CASE ~Reaches(s, "ibs_remote_node_pct", Elevated) /\ ~Reaches(s, "ibs_dram_pct", Elevated)
  <2>1. IbsLocus(s) \in {"l2-l3", "l1"}
    BY <1>1, <1>4 DEF IbsLocus
  <2>2. CASE Has(s, "ibs_dram_pct") /\ s["ibs_dc_miss_pct"] - s["ibs_dram_pct"] >= Elevated
    <3>1. s["ibs_dram_pct"] \in Int /\ s["ibs_dram_pct"] >= 0
      BY <2>2 DEF Readings, Has
    <3>2. s["ibs_dc_miss_pct"] >= Elevated
      BY <1>1, <2>2, <3>1 DEF Elevated
    <3> QED
      BY <1>1, <2>1, <3>2 DEF Witnesses, ElevatedIn, Has
  <2>3. CASE ~(Has(s, "ibs_dram_pct") /\ s["ibs_dc_miss_pct"] - s["ibs_dram_pct"] >= Elevated)
    <3>1. s["ibs_dc_miss_pct"] >= Elevated
      BY <1>1, <1>4, <2>3 DEF IbsLocus
    <3> QED
      BY <1>1, <2>1, <3>1 DEF Witnesses, ElevatedIn, Has
  <2> QED
    BY <2>2, <2>3
<1> QED
  BY <1>2, <1>3, <1>4

LEMMA CachePlace ==
  ASSUME NEW s, CacheLocus(s) # "unknown"
  PROVE  /\ CacheLocus(s) \in {"dram", "l2-l3", "l1"}
         /\ Witnesses(CacheLocus(s)) \cap ElevatedIn(s) # {}
<1>1. CASE Reaches(s, "l3_miss_pct", Elevated)
  BY <1>1 DEF CacheLocus, Witnesses, ElevatedIn, Reaches, Has
<1>2. CASE ~Reaches(s, "l3_miss_pct", Elevated) /\ Reaches(s, "l2_miss_pct", Elevated)
  BY <1>2 DEF CacheLocus, Witnesses, ElevatedIn, Reaches, Has
<1>3. CASE ~Reaches(s, "l3_miss_pct", Elevated) /\ ~Reaches(s, "l2_miss_pct", Elevated)
  BY <1>3 DEF CacheLocus, Witnesses, ElevatedIn, Reaches, Has
<1> QED
  BY <1>1, <1>2, <1>3

LEMMA LocusHeld ==
  ASSUME NEW s, Readings(s)
  PROVE  LocusSupported(s, Score(s))
<1>1. Score(s).locus = Locus(s)
  BY DEF Score
<1> DEFINE ibs == IbsLocus(s) # "unknown"
           cache == CacheLocus(s) # "unknown"
           deep == Reaches(s, "backend_memory_pct", Floor)
           blames == Attribution(s) = "corroborated" /\ deep
           p == Locus(s)[1]
<1>2. deep <=> Has(s, "backend_memory_pct") /\ ~(s.backend_memory_pct < Floor)
  BY DEF Reaches, Has, Readings, Floor
<1>3. /\ ~blames => p = "unknown"
      /\ blames /\ ibs => p = IbsLocus(s)
      /\ blames /\ ~ibs /\ cache => p = CacheLocus(s)
      /\ blames /\ ~ibs /\ ~cache => p = "unknown"
  BY <1>2 DEF Locus
<1>4. Attribution(s) = "corroborated" <=>
        /\ Reaches(s, "backend_pct", Floor)
        /\ ~Reaches(s, "blocking_wait_pct", Floor) /\ ~Reaches(s, "sched_rundelay_pct", Floor)
        /\ \E f \in Signals : Reaches(s, f, Elevated)
  <2>1. Reaches(s, "backend_pct", Floor) <=> Has(s, "backend_pct") /\ ~(s.backend_pct < Floor)
    BY DEF Reaches, Has, Readings, Floor
  <2> QED
    BY <2>1 DEF Attribution
<1>5. blames => Blamed(s)
  BY <1>4 DEF Blamed
<1>6. ASSUME p # "unknown" PROVE Blamed(s) /\ Witnesses(p) \cap ElevatedIn(s) # {}
  <2>1. blames /\ (ibs \/ cache)
    BY <1>3, <1>6
  <2>2. CASE ibs
    BY <1>3, <1>5, <2>1, <2>2, IbsPlace
  <2>3. CASE ~ibs
    BY <1>3, <1>5, <2>1, <2>3, CachePlace
  <2> QED
    BY <2>2, <2>3
<1>7. ASSUME Blamed(s), NEW f \in Signals \cap ElevatedIn(s) PROVE blames
  <2>1. Reaches(s, f, Elevated)
    BY DEF ElevatedIn, Reaches, Has
  <2> QED
    BY <1>4, <1>7, <2>1 DEF Blamed
<1>8. ASSUME Blamed(s), ElevatedIn(s) \cap {"l3_miss_pct", "l2_miss_pct", "dcache_miss_pct"} # {}
      PROVE  p # "unknown"
  <2>1. PICK f : f \in ElevatedIn(s) /\ f \in {"l3_miss_pct", "l2_miss_pct", "dcache_miss_pct"}
    BY <1>8
  <2>2. blames
    BY <1>7, <1>8, <2>1 DEF Signals
  <2>3. Reaches(s, f, Elevated)
    BY <2>1 DEF ElevatedIn, Reaches, Has
  <2>4. cache
    BY <2>1, <2>3 DEF CacheLocus
  <2> QED
    BY <1>3, <2>2, <2>4
<1>9. ASSUME Blamed(s), {"ibs_dc_miss_pct", "ibs_dram_pct"} \subseteq ElevatedIn(s)
      PROVE  p \in {"dram", "remote-numa"}
  <2>1. blames
    BY <1>7, <1>9 DEF Signals
  <2>2. Has(s, "ibs_dc_miss_pct") /\ Reaches(s, "ibs_dram_pct", Elevated)
    BY <1>9 DEF ElevatedIn, Reaches, Has
  <2>3. IbsLocus(s) \in {"dram", "remote-numa"}
    BY <2>2 DEF IbsLocus
  <2> QED
    BY <1>3, <2>1, <2>3
<1> HIDE DEF p
<1> QED
  BY <1>1, <1>6, <1>8, <1>9 DEF LocusSupported, p

LEMMA ScoreSupported ==
  ASSUME NEW s, Readings(s)
  PROVE  Supported(s, Score(s))
BY AxesKnown, DominanceHeld, LocusHeld DEF Supported

-----------------------------------------------------------------------------
\* The scorecard of the run i
CardOf(d, i) == <<i, Score(FeaturesOf(d[i]))>>
SnapOf(d, i) == [run |-> i, features |-> FeaturesOf(d[i])]
WithRows(d) == {i \in DOMAIN d : d[i] # <<>>}

Scored(cs) == {cs[n][1] : n \in DOMAIN cs}
Rising(cs) == \A n, m \in DOMAIN cs : n < m => cs[n][1] < cs[m][1]
Current(x) == IF x = NoSnap THEN {} ELSE {x.run}
CardsOf(d) == {CardOf(d, i) : i \in WithRows(d)}

\* The runs are scored in their order, each once.
ScoringInv ==
  /\ db \in Seq(Tables)
  /\ query \subseteq WithRows(db)
  /\ snap = NoSnap \/ \E i \in WithRows(db) : snap = SnapOf(db, i)
  /\ cards \in Seq(CardsOf(db)) /\ Rising(cards)
  /\ \A r \in Scored(cards) : \A i \in Current(snap) \cup query : r < i
  /\ \A r \in Current(snap) : \A i \in query : r < i
  /\ WithRows(db) = query \cup Current(snap) \cup Scored(cards)
  /\ single = <<>> \/ \E i \in DOMAIN db : single = CardOf(db, i)

LEMMA RunsAreTables ==
  ASSUME NEW d \in Seq(Tables)
  PROVE  /\ \A i \in DOMAIN d : i \in Nat \ {0} /\ Table(d[i])
         /\ WithRows(d) \subseteq DOMAIN d
<1>1. \A i \in DOMAIN d : d[i] \in Tables /\ i \in Nat \ {0}
  OBVIOUS
<1>2. ASSUME NEW t \in Tables PROVE Table(t)
  <2>1. /\ t \in Seq(ToSet(t))
        /\ \A row \in ToSet(t) : /\ row[2] \in Int \cup {Unavailable}
                                 /\ row[1] = "ibs_dram_pct" => row[2] \in Nat \cup {Unavailable}
        /\ \A n, m \in DOMAIN t : t[n][1] = t[m][1] => n = m
    BY ArchetypeAssumption
  <2> QED
    BY <2>1 DEF Table
<1> QED
  BY <1>1, <1>2 DEF WithRows

LEMMA SnapOfRun ==
  ASSUME NEW d \in Seq(Tables), NEW i \in DOMAIN d
  PROVE  /\ Applied(Reset(i), d[i]) = SnapOf(d, i) /\ Applied(Reset(i), Reverse(d[i])) = SnapOf(d, i)
         /\ SnapOf(d, i) # NoSnap /\ SnapOf(d, i).run = i /\ Card(SnapOf(d, i)) = CardOf(d, i)
         /\ CardOf(d, i)[1] = i
<1>1. Table(d[i]) /\ i \in Nat \ {0}
  BY RunsAreTables
<1>2. Applied(Reset(i), d[i]) = SnapOf(d, i)
  BY <1>1, SnapshotOfTable DEF SnapOf
<1>3. Applied(Reset(i), Reverse(d[i])) = SnapOf(d, i)
  <2>1. Table(Reverse(d[i])) /\ FeaturesOf(Reverse(d[i])) = FeaturesOf(d[i])
    BY <1>1, TableReversed
  <2> QED
    BY <2>1, SnapshotOfTable DEF SnapOf
<1>4. SnapOf(d, i).run = i /\ SnapOf(d, i).features = FeaturesOf(d[i]) /\ NoSnap.run = 0
  BY DEF SnapOf, NoSnap
<1>5. SnapOf(d, i) # NoSnap
  BY <1>1, <1>4
<1>6. Card(SnapOf(d, i)) = CardOf(d, i) /\ CardOf(d, i)[1] = i
  BY <1>4 DEF Card, CardOf
<1> QED
  BY <1>2, <1>3, <1>4, <1>5, <1>6

LEMMA Printing ==
  ASSUME ScoringInv, Printed(snap)
  PROVE  /\ cards' \in Seq(CardsOf(db)) /\ Rising(cards') /\ Scored(cards') = Scored(cards) \cup Current(snap)
<1>0. db \in Seq(Tables) /\ cards \in Seq(CardsOf(db)) /\ Rising(cards)
  BY DEF ScoringInv
<1>1. CASE snap = NoSnap
  BY <1>0, <1>1 DEF Printed, Current
<1>2. CASE snap # NoSnap
  <2>1. PICK i \in WithRows(db) : snap = SnapOf(db, i)
    BY <1>2 DEF ScoringInv
  <2>2. i \in DOMAIN db
    BY <1>0, <2>1, RunsAreTables
  <2>3. Current(snap) = {i} /\ Card(snap) = CardOf(db, i) /\ CardOf(db, i)[1] = i /\ CardOf(db, i) \in CardsOf(db)
    BY <1>0, <1>2, <2>1, <2>2, SnapOfRun DEF Current, CardsOf
  <2>4. PICK x \in CardsOf(db) : x = CardOf(db, i) /\ x[1] = i
    BY <2>3
  <2>5. cards' = Append(cards, x)
    BY <1>2, <2>3, <2>4 DEF Printed
  <2>6. PICK n \in Nat : n = Len(cards) /\ DOMAIN cards = 1 .. n
    BY <1>0
  <2>7. /\ cards' \in Seq(CardsOf(db)) /\ DOMAIN cards' = 1 .. n + 1 /\ cards'[n + 1] = x
        /\ \A k \in 1 .. n : cards'[k] = cards[k]
    BY <1>0, <2>5, <2>6
  <2>8. \A k \in 1 .. n + 1 : k \in 1 .. n \/ k = n + 1
    OBVIOUS
  <2>9. Scored(cards') = Scored(cards) \cup {i}
    <3>1. \A k \in 1 .. n : cards'[k][1] = cards[k][1] /\ k \in 1 .. n + 1
      BY <2>7
    <3>2. cards'[n + 1][1] = i /\ n + 1 \in 1 .. n + 1
      BY <2>4, <2>7
    <3> QED
      BY <2>6, <2>7, <2>8, <3>1, <3>2 DEF Scored
  <2>10. \A k \in 1 .. n : cards[k][1] < i
    BY <2>3, <2>6 DEF ScoringInv, Scored
  <2>11. ASSUME NEW k \in 1 .. n + 1, NEW m \in 1 .. n + 1, k < m PROVE cards'[k][1] < cards'[m][1]
    <3>1. CASE m = n + 1
      <4>1. k \in 1 .. n
        BY <2>11, <3>1
      <4> QED
        BY <2>4, <2>7, <2>10, <3>1, <4>1
    <3>2. CASE m \in 1 .. n
      <4>1. k \in 1 .. n
        BY <2>11, <3>2
      <4> QED
        BY <1>0, <2>6, <2>7, <2>11, <3>2, <4>1 DEF Rising
    <3> QED
      BY <2>8, <3>1, <3>2
  <2> QED
    BY <2>3, <2>7, <2>9, <2>11 DEF Rising
<1> QED
  BY <1>1, <1>2

LEMMA ScoringStart == ArchetypeInit => ScoringInv
<1> SUFFICES ASSUME ArchetypeInit PROVE ScoringInv
  OBVIOUS
<1>1. db = <<>> /\ query = {} /\ snap = NoSnap /\ cards = <<>> /\ single = <<>>
  BY DEF ArchetypeInit
<1>2. WithRows(db) = {} /\ Scored(cards) = {} /\ Current(snap) = {} /\ Rising(cards)
  BY <1>1 DEF WithRows, Scored, Current, Rising
<1>3. db \in Seq(Tables) /\ cards \in Seq(CardsOf(db))
  BY <1>1
<1> QED
  BY <1>1, <1>2, <1>3 DEF ScoringInv

LEMMA ScoringStep == ScoringInv /\ [ArchetypeNext]_archetypeVars => ScoringInv'
<1> SUFFICES ASSUME ScoringInv, [ArchetypeNext]_archetypeVars PROVE ScoringInv'
  OBVIOUS
<1>0. /\ db \in Seq(Tables) /\ query \subseteq WithRows(db)
      /\ cards \in Seq(CardsOf(db)) /\ Rising(cards)
      /\ WithRows(db) = query \cup Current(snap) \cup Scored(cards)
      /\ single = <<>> \/ \E i \in DOMAIN db : single = CardOf(db, i)
      /\ WithRows(db) \subseteq DOMAIN db /\ \A i \in DOMAIN db : i \in Nat \ {0}
  BY RunsAreTables DEF ScoringInv
<1>1. CASE OpenArchetype
  <2>1. /\ db = <<>> /\ db' \in Seq(Tables) /\ query' = WithRows(db')
        /\ snap' = snap /\ cards' = cards /\ single' = single
    BY <1>1, ArchetypeAssumption DEF OpenArchetype, WithRows
  <2>2. WithRows(db) = {} /\ DOMAIN db = {}
    BY <2>1 DEF WithRows
  <2>3. snap = NoSnap /\ single = <<>>
    BY <1>0, <2>2 DEF ScoringInv
  <2>4. Scored(cards) = {} /\ Current(snap) = {}
    BY <1>0, <2>2
  <2>5. cards = <<>>
    <3>1. PICK n \in Nat : n = Len(cards) /\ DOMAIN cards = 1 .. n
      BY <1>0
    <3>2. n = 0
      <4>1. n > 0 => cards[1][1] \in Scored(cards)
        BY <3>1 DEF Scored
      <4> QED
        BY <2>4, <3>1, <4>1
    <3> QED
      BY <1>0, <3>1, <3>2
  <2>6. cards' \in Seq(CardsOf(db')) /\ Rising(cards') /\ Scored(cards') = {} /\ Current(snap') = {}
    BY <2>1, <2>3, <2>5 DEF Rising, Scored, Current
  <2>7. WithRows(db') = query' \cup Current(snap') \cup Scored(cards')
    BY <2>1, <2>6
  <2>8. snap' = NoSnap /\ single' = <<>>
    BY <2>1, <2>3
  <2>9. query' \subseteq WithRows(db')
    BY <2>1
  <2> QED
    BY <2>1, <2>6, <2>7, <2>8, <2>9 DEF ScoringInv
<1>2. CASE NextRun
  <2>1. PICK i \in query : /\ \A j \in query : i <= j
                           /\ snap' = Applied(Reset(i), db[i]) /\ query' = query \ {i}
    BY <1>2 DEF NextRun, Snapshot
  <2>2. db' = db /\ single' = single /\ Printed(snap)
    BY <1>2 DEF NextRun
  <2>3. i \in WithRows(db) /\ i \in DOMAIN db /\ snap' = SnapOf(db, i) /\ snap' # NoSnap /\ Current(snap') = {i}
    BY <1>0, <2>1, SnapOfRun DEF Current
  <2>4. cards' \in Seq(CardsOf(db)) /\ Rising(cards') /\ Scored(cards') = Scored(cards) \cup Current(snap)
    BY <2>2, Printing
  <2>5. \A r \in Scored(cards') : \A j \in query : r < j
    BY <2>4 DEF ScoringInv
  <2>6. \A j \in query \ {i} : i < j
    BY <1>0, <2>1
  <2>7. \A r \in Scored(cards') : \A j \in Current(snap') \cup query' : r < j
    BY <2>1, <2>3, <2>5
  <2>8. \A r \in Current(snap') : \A j \in query' : r < j
    BY <2>1, <2>3, <2>6
  <2>9. WithRows(db) = query' \cup Current(snap') \cup Scored(cards')
    BY <1>0, <2>1, <2>3, <2>4
  <2>10. query' \subseteq WithRows(db')
    BY <1>0, <2>1, <2>2
  <2> QED
    BY <1>0, <2>2, <2>3, <2>4, <2>7, <2>8, <2>9, <2>10 DEF ScoringInv
<1>3. CASE EndOfQuery
  <2>1. query = {} /\ snap' = NoSnap /\ db' = db /\ query' = query /\ single' = single /\ Printed(snap)
    BY <1>3 DEF EndOfQuery
  <2>2. cards' \in Seq(CardsOf(db)) /\ Rising(cards') /\ Scored(cards') = Scored(cards) \cup Current(snap)
    BY <2>1, Printing
  <2>3. Current(snap') = {}
    BY <2>1 DEF Current
  <2>4. WithRows(db) = query' \cup Current(snap') \cup Scored(cards')
    BY <1>0, <2>1, <2>2, <2>3
  <2> QED
    BY <1>0, <2>1, <2>2, <2>3, <2>4 DEF ScoringInv
<1>4. ASSUME NEW i \in DOMAIN db, TraceRun(i) \/ TraceGuest(i) PROVE ScoringInv'
  <2>1. db' = db /\ query' = query /\ snap' = snap /\ cards' = cards
    BY <1>4 DEF TraceRun, TraceGuest
  <2>2. single' = CardOf(db, i)
    BY <1>0, <1>4, SnapOfRun DEF TraceRun, TraceGuest, Snapshot
  <2>3. \E j \in DOMAIN db' : single' = CardOf(db', j)
    BY <2>1, <2>2
  <2> QED
    BY <2>1, <2>3 DEF ScoringInv
<1>5. CASE UNCHANGED archetypeVars
  BY <1>5 DEF ScoringInv, archetypeVars
<1> QED
  BY <1>1, <1>2, <1>3, <1>4, <1>5 DEF ArchetypeNext

\* The features of a run are readings.
LEMMA FeaturesRead ==
  ASSUME NEW t, Table(t)
  PROVE  Readings(FeaturesOf(t))
<1>1. FeaturesOf(t) \in Partial(FeatureNames(t))
  BY SnapshotOfTable
<1>2. \A f \in DOMAIN FeaturesOf(t) : FeaturesOf(t)[f] \in Int
  BY <1>1, InPartial
<1>3. ASSUME NEW f \in DOMAIN FeaturesOf(t), f = "ibs_dram_pct" PROVE FeaturesOf(t)[f] >= 0
  <2> DEFINE r == CHOOSE row \in MeasuredRows(t) : row[1] = f
  <2>1. FeaturesOf(t)[f] = r[2] /\ \E row \in MeasuredRows(t) : row[1] = f
    BY DEF FeaturesOf
  <2>2. r \in MeasuredRows(t) /\ r[1] = f
    BY <2>1
  <2> HIDE DEF r
  <2>3. r[2] \in Nat
    BY <1>3, <2>2 DEF MeasuredRows, Table
  <2> QED
    BY <2>1, <2>3
<1> QED
  BY <1>2, <1>3 DEF Readings, Has

(* A scorecard rests on what was measured of its own run, and --run and the     *)
(* table agree.                                                                 *)
THEOREM ScoresOnEvidence == ArchetypeSpec => []ScoredFromEvidence
<1>1. ScoringInv => ScoredFromEvidence
  <2> SUFFICES ASSUME ScoringInv PROVE ScoredFromEvidence
    OBVIOUS
  <2>1. /\ db \in Seq(Tables) /\ cards \in Seq(CardsOf(db)) /\ Rising(cards)
        /\ WithRows(db) = query \cup Current(snap) \cup Scored(cards)
        /\ WithRows(db) \subseteq DOMAIN db
    BY RunsAreTables DEF ScoringInv
  <2> DEFINE Good(card) == Supported(FeaturesOf(db[card[1]]), card[2])
  <2>2. ASSUME NEW i \in DOMAIN db PROVE Good(CardOf(db, i))
    <3>1. Supported(FeaturesOf(db[i]), Score(FeaturesOf(db[i])))
      BY <2>1, RunsAreTables, FeaturesRead, ScoreSupported
    <3>2. CardOf(db, i)[1] = i /\ CardOf(db, i)[2] = Score(FeaturesOf(db[i]))
      BY DEF CardOf
    <3> QED
      BY <3>1, <3>2
  <2>3. ASSUME NEW n \in DOMAIN cards PROVE \E i \in DOMAIN db : cards[n] = CardOf(db, i) /\ cards[n][1] = i
    <3>1. cards[n] \in CardsOf(db)
      BY <2>1
    <3>2. PICK i \in WithRows(db) : cards[n] = CardOf(db, i)
      BY <3>1 DEF CardsOf
    <3> QED
      BY <2>1, <3>2, SnapOfRun
  <2>4. \A n \in DOMAIN cards : Good(cards[n])
    <3> HIDE DEF Good
    <3> QED
      BY <2>2, <2>3
  <2>5. query = {} /\ snap = NoSnap => Scored(cards) = WithRows(db)
    BY <2>1 DEF Current
  <2>6. single # <<>> => Good(single) /\ \A n \in DOMAIN cards : cards[n][1] = single[1] => cards[n] = single
    <3> SUFFICES ASSUME single # <<>>
                 PROVE  Good(single) /\ \A n \in DOMAIN cards : cards[n][1] = single[1] => cards[n] = single
      OBVIOUS
    <3>1. PICK i \in DOMAIN db : single = CardOf(db, i)
      BY DEF ScoringInv
    <3>2. single[1] = i
      BY <2>1, <3>1, SnapOfRun
    <3>3. \A n \in DOMAIN cards : cards[n][1] = i => cards[n] = CardOf(db, i)
      BY <2>3
    <3>4. Good(single)
      BY <2>2, <3>1
    <3> QED
      BY <3>1, <3>2, <3>3, <3>4
  <2> HIDE DEF Good
  <2>7. \A n \in DOMAIN cards : \A m \in DOMAIN cards : n < m => cards[n][1] < cards[m][1]
    BY <2>1 DEF Rising
  <2> QED
    BY <2>4, <2>5, <2>6, <2>7, ZenonT(60)
    DEF Good, ScoredFromEvidence, Supported, AxesSupported, DominanceSupported, LocusSupported, Blamed, ElevatedIn,
        FeaturesOf, MeasuredRows, Scored, WithRows
<1> QED
  BY <1>1, ScoringStart, ScoringStep, PTL DEF ArchetypeSpec

-----------------------------------------------------------------------------
(* The clusters.  Distances are fractions that can be compared, so that there *)
(* is always a nearest centroid, and a worst fit to fill an empty cluster.    *)

Fractions == {d \in [sum : Nat, n : Nat] : d.sum > 0 \/ d.n > 0}
AsPoint(p) == DOMAIN p \subseteq ToSet(Features) /\ \A f \in DOMAIN p : p[f] \in Int

LEMMA TimesGrows ==
  ASSUME NEW a \in Nat, NEW b \in Nat, NEW c \in Nat, a <= b
  PROVE  a * c \in Nat /\ b * c \in Nat /\ a * c <= b * c
<1>1. PICK d \in Nat : b = a + d
  <2>1. b - a \in Nat
    OBVIOUS
  <2> QED
    BY <2>1
<1>2. b * c = a * c + d * c
  BY <1>1
<1>3. a * c \in Nat /\ d * c \in Nat
  BY <1>1
<1> QED
  BY <1>2, <1>3

LEMMA TimesShrinks ==
  ASSUME NEW a \in Nat, NEW b \in Nat, NEW c \in Nat, c > 0, a * c <= b * c
  PROVE  a <= b
<1> SUFFICES ASSUME b + 1 <= a PROVE FALSE
  OBVIOUS
<1>1. (b + 1) * c <= a * c
  BY TimesGrows
<1>2. (b + 1) * c = b * c + c
  OBVIOUS
<1>3. a * c \in Nat /\ b * c \in Nat
  OBVIOUS
<1> QED
  BY <1>1, <1>2, <1>3

\* No less is an order: everything compares, and it is transitive.
LEMMA FractionsCompare ==
  ASSUME NEW d \in Fractions, NEW e \in Fractions
  PROVE  ~(Less(d, e) /\ Less(e, d))
<1>1. PICK x, y \in Nat : x = d.sum * e.n /\ y = e.sum * d.n
  BY DEF Fractions
<1> QED
  BY <1>1 DEF Less

LEMMA FractionsInOrder ==
  ASSUME NEW d \in Fractions, NEW e \in Fractions, NEW f \in Fractions, ~Less(e, d), ~Less(f, e)
  PROVE  ~Less(f, d)
<1>1. PICK a, b \in Nat : a = d.sum /\ b = d.n
  BY DEF Fractions
<1>2. PICK c, m \in Nat : c = e.sum /\ m = e.n /\ (c > 0 \/ m > 0)
  BY DEF Fractions
<1>3. PICK g, h \in Nat : g = f.sum /\ h = f.n /\ (g > 0 \/ h > 0)
  BY DEF Fractions
<1>4. a * m <= c * b
  <2>1. ~(c * b < a * m)
    BY <1>1, <1>2 DEF Less
  <2>2. c * b \in Nat /\ a * m \in Nat
    OBVIOUS
  <2> QED
    BY <2>1, <2>2
<1>5. c * h <= g * m
  <2>1. ~(g * m < c * h)
    BY <1>2, <1>3 DEF Less
  <2>2. g * m \in Nat /\ c * h \in Nat
    OBVIOUS
  <2> QED
    BY <2>1, <2>2
<1>6. a * h <= g * b
  <2>1. CASE m = 0
    <3>1. c > 0 /\ g * m = 0 /\ c * h \in Nat
      BY <1>2, <2>1
    <3>2. c * h = 0
      BY <1>5, <3>1
    <3>3. h = 0
      <4> SUFFICES ASSUME h >= 1 PROVE FALSE
        OBVIOUS
      <4>1. 1 * c <= h * c
        BY TimesGrows
      <4>2. h * c = c * h
        OBVIOUS
      <4> QED
        BY <3>1, <3>2, <4>1, <4>2
    <3>4. a * h = 0 /\ g * b \in Nat
      BY <3>3
    <3> QED
      BY <3>4
  <2>2. CASE m > 0
    <3>1. (a * m) * h <= (c * b) * h
      <4>1. a * m \in Nat /\ c * b \in Nat
        OBVIOUS
      <4> QED
        BY <1>4, <4>1, TimesGrows
    <3>2. (c * h) * b <= (g * m) * b
      <4>1. c * h \in Nat /\ g * m \in Nat
        OBVIOUS
      <4> QED
        BY <1>5, <4>1, TimesGrows
    <3>3. (c * b) * h = (c * h) * b
      OBVIOUS
    <3>4. (a * m) * h = (a * h) * m /\ (g * m) * b = (g * b) * m
      OBVIOUS
    <3>5. PICK u, v, w \in Nat : u = (a * h) * m /\ v = (g * b) * m /\ w = (c * h) * b
      OBVIOUS
    <3>6. (a * h) * m <= (g * b) * m
      BY <3>1, <3>2, <3>3, <3>4, <3>5
    <3>7. a * h \in Nat /\ g * b \in Nat
      OBVIOUS
    <3> QED
      BY <2>2, <3>6, <3>7, TimesShrinks
  <2> QED
    BY <2>1, <2>2
<1>7. a * h \in Nat /\ g * b \in Nat
  OBVIOUS
<1> QED
  BY <1>1, <1>3, <1>6, <1>7 DEF Less

\* Of some numbers up to m there is one before all others.
Orders(R, m) ==
  /\ \A i, j \in 1 .. m : <<i, j>> \in R \/ <<j, i>> \in R
  /\ \A h, i, j \in 1 .. m : <<h, i>> \in R /\ <<i, j>> \in R => <<h, j>> \in R

LEMMA OneBefore ==
  ASSUME NEW m \in Nat, NEW R, Orders(R, m), NEW T \in SUBSET (1 .. m), T # {}
  PROVE  \E x \in T : \A y \in T : <<x, y>> \in R
<1> DEFINE Found(n) == \A U \in SUBSET (1 .. n) : U # {} => \E x \in U : \A y \in U : <<x, y>> \in R
           K == {n \in Nat : n <= m => Found(n)}
<1>1. 0 \in K
  <2>1. 1 .. 0 = {}
    OBVIOUS
  <2>2. Found(0)
    BY <2>1
  <2> HIDE DEF Found
  <2> QED
    BY <2>2
<1>2. ASSUME NEW n \in Nat, n \in K PROVE n + 1 \in K
  <2> SUFFICES ASSUME n + 1 <= m, NEW U \in SUBSET (1 .. n + 1), U # {}
               PROVE  \E x \in U : \A y \in U : <<x, y>> \in R
    OBVIOUS
  <2>1. Found(n)
    BY <1>2
  <2>2. U \subseteq 1 .. m /\ U \ {n + 1} \subseteq 1 .. n
    OBVIOUS
  <2>3. CASE U \ {n + 1} = {}
    <3>1. \A y \in U : y = n + 1
      BY <2>3
    <3>2. n + 1 \in U
      BY <3>1
    <3>3. n + 1 \in 1 .. m
      OBVIOUS
    <3> QED
      BY <3>1, <3>2, <3>3 DEF Orders
  <2>4. CASE U \ {n + 1} # {}
    <3>1. PICK x \in U \ {n + 1} : \A y \in U \ {n + 1} : <<x, y>> \in R
      BY <2>1, <2>2, <2>4
    <3>2. CASE n + 1 \notin U
      BY <3>1, <3>2
    <3>3. CASE n + 1 \in U
      <4>1. x \in 1 .. m /\ n + 1 \in 1 .. m
        BY <2>2
      <4>2. CASE <<x, n + 1>> \in R
        BY <3>1, <4>2
      <4>3. CASE <<n + 1, x>> \in R
        <5>1. \A y \in U \ {n + 1} : y \in 1 .. m /\ <<n + 1, y>> \in R
          BY <2>2, <3>1, <4>1, <4>3 DEF Orders
        <5>2. <<n + 1, n + 1>> \in R
          BY <4>1 DEF Orders
        <5> QED
          BY <3>3, <5>1, <5>2
      <4> QED
        BY <4>1, <4>2, <4>3 DEF Orders
    <3> QED
      BY <3>2, <3>3
  <2> QED
    BY <2>3, <2>4
<1> HIDE DEF K
<1>3. Nat \subseteq K
  BY <1>1, <1>2, SetInduction
<1>4. Found(m)
  <2> HIDE DEF Found
  <2> QED
    BY <1>3 DEF K
<1> QED
  BY <1>4

LEMMA LeastIn ==
  ASSUME NEW S \in SUBSET Nat, S # {}
  PROVE  Min(S) \in S /\ \A n \in S : Min(S) <= n
<1>1. \E n \in S : \A m \in S : n <= m
  BY Smallest
<1> QED
  BY <1>1 DEF Min

\* A loop of n steps, from b
Looped(f, S, b, n, step) ==
  f \in [0 .. n -> S] /\ f[0] = b /\ \A i \in 1 .. n : f[i] = step[<<f[i - 1], i>>]

LEMMA LoopOf ==
  ASSUME NEW S, NEW b \in S, NEW n \in Nat, NEW step \in [S \X (1 .. n) -> S]
  PROVE  \E f : Looped(f, S, b, n, step)
<1> DEFINE q == [i \in 1 .. n |-> i]
<1>1. q \in Seq(1 .. n) /\ Len(q) = n /\ \A i \in 1 .. n : q[i] = i
  OBVIOUS
<1> HIDE DEF q
<1>2. PICK f : Loops(f, S, b, 1 .. n, q, step)
  BY <1>1, LoopEnds
<1> QED
  BY <1>1, <1>2 DEF Loops, Looped

\* The sum of a sequence
LEMMA SumIn ==
  ASSUME NEW S \in {Nat, Int}, NEW t \in Seq(S)
  PROVE  SumOf(t) \in S
<1>0. PICK c \in Nat : c = Len(t) /\ DOMAIN t = 1 .. c /\ \A i \in 1 .. c : t[i] \in S
  OBVIOUS
<1>1. 0 \in S /\ \A x, y \in S : x + y \in S
  OBVIOUS
<1> DEFINE Is(u) == u = [n \in 0 .. Len(t) |-> IF n = 0 THEN 0 ELSE u[n - 1] + t[n]]
           u == CHOOSE u : Is(u)
<1>2. SumOf(t) = u[c]
  BY <1>0 DEF SumOf
<1>3. \E f : Is(f) /\ f \in [0 .. c -> S]
  <2> DEFINE step == [z \in S \X (1 .. c) |-> z[1] + t[z[2]]]
  <2>1. step \in [S \X (1 .. c) -> S]
    BY <1>0, <1>1
  <2>2. \A s \in S, i \in 1 .. c : step[<<s, i>>] = s + t[i]
    OBVIOUS
  <2> HIDE DEF step
  <2>3. PICK f : Looped(f, S, 0, c, step)
    BY <1>1, <2>1, LoopOf
  <2>4. ASSUME NEW i \in 1 .. c PROVE f[i] = f[i - 1] + t[i]
    <3>1. f[i - 1] \in S
      BY <2>3 DEF Looped
    <3> QED
      BY <2>2, <2>3, <3>1 DEF Looped
  <2> DEFINE Val(n) == IF n = 0 THEN 0 ELSE f[n - 1] + t[n]
  <2>5. ASSUME NEW n \in 0 .. c PROVE f[n] = Val(n)
    <3>1. CASE n = 0
      BY <2>3, <3>1 DEF Looped
    <3>2. CASE n \in 1 .. c
      BY <2>4, <3>2
    <3> QED
      BY <3>1, <3>2
  <2>6. f = [n \in 0 .. c |-> Val(n)]
    <3> HIDE DEF Val
    <3> QED
      BY <2>3, <2>5 DEF Looped
  <2> QED
    BY <1>0, <2>3, <2>6 DEF Looped
<1>4. Is(u)
  <2> HIDE DEF Is
  <2> QED
    BY <1>3
<1>5. u[0] = 0 /\ \A n \in 1 .. c : u[n] = u[n - 1] + t[n]
  <2> HIDE DEF u
  <2> DEFINE Val(n) == IF n = 0 THEN 0 ELSE u[n - 1] + t[n]
  <2>1. u = [n \in 0 .. c |-> Val(n)]
    BY <1>0, <1>4
  <2>2. Val(0) = 0 /\ 0 \in 0 .. c
    OBVIOUS
  <2>3. ASSUME NEW n \in 1 .. c PROVE Val(n) = u[n - 1] + t[n] /\ n \in 0 .. c
    OBVIOUS
  <2> HIDE DEF Val
  <2>4. \A n \in 0 .. c : u[n] = Val(n)
    BY <2>1
  <2> QED
    BY <2>2, <2>3, <2>4
<1> HIDE DEF u
<1> DEFINE K == {n \in Nat : n <= c => u[n] \in S}
<1>6. 0 \in K
  BY <1>1, <1>5
<1>7. ASSUME NEW n \in Nat, n \in K PROVE n + 1 \in K
  <2> SUFFICES ASSUME n + 1 <= c PROVE u[n + 1] \in S
    OBVIOUS
  <2>1. PICK m \in 1 .. c : m = n + 1 /\ m - 1 = n
    OBVIOUS
  <2>2. u[m] = u[n] + t[m] /\ t[m] \in S /\ u[n] \in S
    BY <1>0, <1>5, <1>7, <2>1
  <2> QED
    BY <1>1, <2>1, <2>2
<1> HIDE DEF K
<1>8. Nat \subseteq K
  BY <1>6, <1>7, SetInduction
<1> QED
  BY <1>2, <1>8 DEF K

LEMMA FeaturesFinite == IsFiniteSet(ToSet(Features))
<1>1. Features \in Seq(ToSet(Features))
  BY ClustersAssumption
<1>2. PICK n \in Nat : n = Len(Features) /\ DOMAIN Features = 1 .. n
  BY <1>1
<1>3. Features \in [1 .. n -> ToSet(Features)]
  BY <1>1, <1>2
<1>4. \A f \in ToSet(Features) : \E i \in 1 .. n : Features[i] = f
  BY <1>2 DEF ToSet
<1>5. Features \in Surjection(1 .. n, ToSet(Features))
  BY <1>3, <1>4 DEF Surjection
<1>6. IsFiniteSet(1 .. n)
  BY FS_Interval
<1> QED
  BY <1>5, <1>6, FS_Surjection

LEMMA SquareIn ==
  ASSUME NEW x \in Int
  PROVE  x * x \in Nat
<1>1. CASE x >= 0
  BY <1>1
<1>2. CASE x < 0
  <2>1. PICK y \in Nat : x = -y
    <3>1. -x \in Nat
      BY <1>2
    <3> QED
      BY <3>1
  <2>2. x * x = y * y
    BY <2>1
  <2> QED
    BY <2>2
<1> QED
  BY <1>1, <1>2

LEMMA DistanceIn ==
  ASSUME NEW a, NEW b, AsPoint(a), AsPoint(b)
  PROVE  Distance(a, b) \in Fractions
<1> DEFINE shared == DOMAIN a \cap DOMAIN b
           Term(n) == IF Features[n] \in shared
                      THEN (a[Features[n]] - b[Features[n]]) * (a[Features[n]] - b[Features[n]]) ELSE 0
           terms == [n \in DOMAIN Features |-> Term(n)]
<1>1. CASE shared = {}
  BY <1>1 DEF Distance, Far, Fractions
<1>2. CASE shared # {}
  <2>1. IsFiniteSet(shared)
    <3>1. shared \in SUBSET ToSet(Features)
      BY DEF AsPoint
    <3> QED
      BY <3>1, FeaturesFinite, FS_Subset
  <2>2. Cardinality(shared) \in Nat
    BY <2>1, FS_CardinalityType
  <2>3. Cardinality(shared) # 0
    BY <1>2, <2>1, FS_EmptySet
  <2>4. ASSUME NEW n \in DOMAIN Features PROVE Term(n) \in Nat
    <3>1. CASE Features[n] \in shared
      <4>1. a[Features[n]] \in Int /\ b[Features[n]] \in Int
        BY <3>1 DEF AsPoint
      <4>2. PICK x \in Int : x = a[Features[n]] - b[Features[n]]
        BY <4>1
      <4>3. Term(n) = x * x
        BY <3>1, <4>2
      <4> QED
        BY <4>3, SquareIn
    <3>2. CASE Features[n] \notin shared
      BY <3>2
    <3> QED
      BY <3>1, <3>2
  <2>5. PICK m \in Nat : DOMAIN Features = 1 .. m
    BY ClustersAssumption
  <2>6. terms \in Seq(Nat)
    <3> HIDE DEF Term
    <3> QED
      BY <2>4, <2>5
  <2>7. SumOf(terms) \in Nat
    <3> HIDE DEF terms
    <3> QED
      BY <2>6, SumIn
  <2>8. Distance(a, b) = [sum |-> SumOf(terms), n |-> Cardinality(shared)]
    BY <1>2 DEF Distance
  <2> HIDE DEF terms, shared
  <2> QED
    BY <2>2, <2>3, <2>7, <2>8 DEF Fractions
<1> QED
  BY <1>1, <1>2

\* What is loaded
Loaded == vectors \in Pools \cup {<<>>} /\ points = Points(vectors)

LEMMA RunsLoaded ==
  ASSUME Loaded
  PROVE  /\ Len(vectors) \in Nat /\ Runs = 1 .. Len(vectors) /\ IsFiniteSet(Runs)
         /\ Cardinality(Runs) = Len(vectors)
         /\ DOMAIN points = Runs
         /\ \A i \in Runs : AsPoint(points[i])
         /\ \A i \in Runs : DOMAIN points[i] = {g \in DOMAIN vectors[i] : Varies(vectors, g)}
         /\ \A i \in Runs : \A f \in DOMAIN points[i] : points[i][f] = Scale * vectors[i][f]
<1>1. vectors \in Seq(ToSet(vectors))
  <2>1. CASE vectors \in Pools
    BY <2>1, ClustersAssumption
  <2>2. CASE vectors = <<>>
    BY <2>2
  <2> QED
    BY <2>1, <2>2 DEF Loaded
<1>2. PICK n \in Nat : n = Len(vectors) /\ Runs = 1 .. n
  BY <1>1 DEF Runs
<1>3. IsFiniteSet(Runs)
  BY <1>2, FS_Interval
<1>4. Cardinality(Runs) = n
  <2>1. Cardinality(1 .. n) = IF 1 > n THEN 0 ELSE n - 1 + 1
    BY FS_Interval
  <2> QED
    BY <1>2, <2>1
<1>5. /\ DOMAIN points = Runs
      /\ \A i \in Runs : points[i] = [f \in {g \in DOMAIN vectors[i] : Varies(vectors, g)} |-> Scale * vectors[i][f]]
  BY DEF Loaded, Points, Runs
<1>6. /\ \A i \in Runs : DOMAIN points[i] = {g \in DOMAIN vectors[i] : Varies(vectors, g)}
      /\ \A i \in Runs : \A f \in DOMAIN points[i] : points[i][f] = Scale * vectors[i][f]
  BY <1>5
<1>7. ASSUME NEW i \in Runs PROVE AsPoint(points[i])
  <2>1. DOMAIN vectors[i] \subseteq ToSet(Features) /\ \A f \in DOMAIN vectors[i] : vectors[i][f] \in Int
    <3>1. vectors \in Pools
      BY DEF Loaded, Runs
    <3> QED
      BY <3>1, ClustersAssumption DEF Runs
  <2>2. DOMAIN points[i] \subseteq DOMAIN vectors[i]
    BY <1>6
  <2>3. \A f \in DOMAIN points[i] : points[i][f] \in Int
    BY <1>6, <2>1, <2>2, ClustersAssumption
  <2> QED
    BY <2>1, <2>2, <2>3 DEF AsPoint
<1> QED
  BY <1>2, <1>3, <1>4, <1>5, <1>6, <1>7

\* Means of points are points.
LEMMA CentroidIn ==
  ASSUME Loaded, NEW a, NEW c
  PROVE  AsPoint(Centroid(a, c))
<1>1. DOMAIN Centroid(a, c) = UNION {DOMAIN points[i] : i \in Members(a, c)}
  BY DEF Centroid
<1>2. ASSUME NEW f \in DOMAIN Centroid(a, c) PROVE f \in ToSet(Features) /\ Centroid(a, c)[f] \in Int
  <2>1. PICK i \in Members(a, c) : f \in DOMAIN points[i]
    BY <1>1
  <2>2. i \in Runs
    BY DEF Members
  <2> DEFINE with == {j \in Members(a, c) : f \in DOMAIN points[j]}
             terms == [j \in Runs |-> IF j \in with THEN points[j][f] ELSE 0]
  <2>3. IsFiniteSet(with)
    <3>1. with \in SUBSET Runs
      BY DEF Members
    <3> QED
      BY <3>1, RunsLoaded, FS_Subset
  <2>4. Cardinality(with) \in Nat
    BY <2>3, FS_CardinalityType
  <2>5. Cardinality(with) # 0
    <3>1. i \in with
      BY <2>1
    <3> QED
      BY <2>3, <3>1, FS_EmptySet
  <2>6. terms \in Seq(Int)
    <3>1. PICK n \in Nat : Runs = 1 .. n
      BY RunsLoaded
    <3>2. ASSUME NEW j \in Runs PROVE (IF j \in with THEN points[j][f] ELSE 0) \in Int
      BY RunsLoaded DEF AsPoint
    <3> HIDE DEF with
    <3> QED
      BY <3>1, <3>2
  <2>7. SumOf(terms) \in Int
    <3> HIDE DEF terms
    <3> QED
      BY <2>6, SumIn
  <2>8. Centroid(a, c)[f] = SumOf(terms) \div Cardinality(with)
    BY <1>1 DEF Centroid
  <2> HIDE DEF with, terms
  <2>9. Centroid(a, c)[f] \in Int
    <3>1. PICK x \in Int, y \in Nat : x = SumOf(terms) /\ y = Cardinality(with) /\ y # 0
      BY <2>4, <2>5, <2>7
    <3> QED
      BY <2>8, <3>1
  <2> QED
    BY <2>1, <2>2, <2>9, RunsLoaded DEF AsPoint
<1> QED
  BY <1>2 DEF AsPoint

-----------------------------------------------------------------------------
(* An iteration *)

Centered ==
  /\ Loaded /\ kmeans_k \in Nat \ {0} /\ Len(vectors) >= kmeans_k
  /\ \A c \in Ids : AsPoint(centroids[c])

LEMMA ToCentroidIn ==
  ASSUME Centered, NEW i \in Runs, NEW c \in Ids
  PROVE  ToCentroid(i, c) \in Fractions
<1>1. AsPoint(points[i]) /\ AsPoint(centroids[c])
  BY RunsLoaded DEF Centered
<1> QED
  BY <1>1, DistanceIn DEF ToCentroid

LEMMA SizeIn ==
  ASSUME NEW n \in Nat, NEW a \in [1 .. n -> Ids], NEW c
  PROVE  /\ IsFiniteSet({i \in 1 .. n : a[i] = c}) /\ Size(a, c) \in Nat
         /\ Size(a, c) = Cardinality({i \in 1 .. n : a[i] = c})
         /\ Size(a, c) = 0 <=> \A i \in 1 .. n : a[i] # c
<1> DEFINE S == {i \in 1 .. n : a[i] = c}
<1>1. IsFiniteSet(S)
  <2>1. IsFiniteSet(1 .. n)
    BY FS_Interval
  <2>2. S \in SUBSET (1 .. n)
    OBVIOUS
  <2> HIDE DEF S
  <2> QED
    BY <2>1, <2>2, FS_Subset
<1>2. Size(a, c) = Cardinality(S)
  <2>1. DOMAIN a = 1 .. n
    OBVIOUS
  <2> QED
    BY <2>1 DEF Size
<1>3. Cardinality(S) \in Nat
  <2> HIDE DEF S
  <2> QED
    BY <1>1, FS_CardinalityType
<1>4. Cardinality(S) = 0 <=> S = {}
  <2> HIDE DEF S
  <2> QED
    BY <1>1, FS_EmptySet
<1> QED
  BY <1>1, <1>2, <1>3, <1>4

\* The nearest centroid, or the smallest cluster
LEMMA NearestIn ==
  ASSUME Centered, NEW i \in Runs, NEW n \in Nat, NEW a \in [1 .. n -> Ids]
  PROVE  /\ Nearest(a, i) \in Ids
         /\ \A c \in Ids : ~Less(ToCentroid(i, c), ToCentroid(i, Nearest(a, i)))
<1>0. kmeans_k \in Nat /\ Ids = 1 .. kmeans_k /\ 1 \in Ids
  BY DEF Ids, Centered
<1>1. CASE \A c \in Ids : ToCentroid(i, c) = Far
  <2> DEFINE S == {c \in Ids : \A d \in Ids : Size(a, c) <= Size(a, d)}
  <2>1. \A c \in Ids : Size(a, c) \in Nat
    BY SizeIn
  <2>2. S # {}
    <3> DEFINE N == {Size(a, c) : c \in Ids}
    <3>1. N \subseteq Nat /\ N # {}
      BY <1>0, <2>1
    <3>2. PICK m \in N : \A h \in N : m <= h
      <4> HIDE DEF N
      <4> QED
        BY <3>1, Smallest
    <3> QED
      BY <3>2
  <2>3. S \in SUBSET Nat
    BY <1>0
  <2>4. Nearest(a, i) = Min(S)
    BY <1>1 DEF Nearest
  <2>5. Min(S) \in S
    <3> HIDE DEF S
    <3> QED
      BY <2>2, <2>3, LeastIn
  <2>6. Nearest(a, i) \in Ids
    BY <2>4, <2>5
  <2>7. ~Less(Far, Far)
    BY DEF Less, Far
  <2> QED
    BY <1>1, <2>6, <2>7
<1>2. CASE ~(\A c \in Ids : ToCentroid(i, c) = Far)
  <2> DEFINE S == {c \in Ids : \A d \in Ids : ~Less(ToCentroid(i, d), ToCentroid(i, c))}
             R == {p \in Ids \X Ids : ~Less(ToCentroid(i, p[2]), ToCentroid(i, p[1]))}
  <2>1. \A c, d \in Ids : <<c, d>> \in R <=> ~Less(ToCentroid(i, d), ToCentroid(i, c))
    OBVIOUS
  <2>2. \A c \in Ids : ToCentroid(i, c) \in Fractions
    BY ToCentroidIn
  <2> HIDE DEF R
  <2>3. Orders(R, kmeans_k)
    <3>1. \A c, d \in Ids : <<c, d>> \in R \/ <<d, c>> \in R
      BY <2>1, <2>2, FractionsCompare
    <3>2. ASSUME NEW c \in Ids, NEW d \in Ids, NEW e \in Ids, <<c, d>> \in R, <<d, e>> \in R PROVE <<c, e>> \in R
      BY <2>1, <2>2, <3>2, FractionsInOrder
    <3> QED
      BY <1>0, <3>1, <3>2 DEF Orders
  <2>4. \E c \in Ids : \A d \in Ids : <<c, d>> \in R
    BY <1>0, <2>3, OneBefore
  <2>5. S # {}
    BY <2>1, <2>4
  <2>6. S \in SUBSET Nat
    BY <1>0
  <2>7. Nearest(a, i) = Min(S)
    BY <1>2 DEF Nearest
  <2>8. Min(S) \in S
    <3> HIDE DEF S
    <3> QED
      BY <2>5, <2>6, LeastIn
  <2> QED
    BY <2>7, <2>8
<1> QED
  BY <1>1, <1>2

\* Each run goes to the nearest.
AtNearest(a) == \A i \in DOMAIN a : \A c \in Ids : ~Less(ToCentroid(i, c), ToCentroid(i, a[i]))

LEMMA AssignedIn ==
  ASSUME Centered
  PROVE  Assigned \in [Runs -> Ids] /\ AtNearest(Assigned)
<1>0. PICK c \in Nat : c = Len(vectors) /\ Runs = 1 .. c
  BY RunsLoaded DEF Centered
<1> DEFINE Next1(a, n) == Append(a, Nearest(a, n))
           Is(u) == u = [n \in 0 .. Len(vectors) |-> IF n = 0 THEN <<>> ELSE Next1(u[n - 1], n)]
           u == CHOOSE u : Is(u)
<1>1. Assigned = u[c]
  BY <1>0 DEF Assigned
<1>2. ASSUME NEW a \in Seq(Ids), NEW n \in 1 .. c
      PROVE  /\ Next1(a, n) \in Seq(Ids) /\ Len(Next1(a, n)) = Len(a) + 1
             /\ \A i \in 1 .. Len(a) : Next1(a, n)[i] = a[i]
             /\ \A d \in Ids : ~Less(ToCentroid(n, d), ToCentroid(n, Next1(a, n)[Len(a) + 1]))
  <2>1. PICK m \in Nat : m = Len(a) /\ a \in [1 .. m -> Ids]
    OBVIOUS
  <2>2. PICK b \in Ids : b = Nearest(a, n) /\ \A d \in Ids : ~Less(ToCentroid(n, d), ToCentroid(n, b))
    BY <1>0, <2>1, NearestIn
  <2>3. Next1(a, n) = Append(a, b)
    BY <2>2
  <2> QED
    BY <2>2, <2>3
<1> HIDE DEF Next1
<1>3. \E f : Is(f)
  <2> DEFINE step == [z \in Seq(Ids) \X (1 .. c) |-> Next1(z[1], z[2])]
  <2>1. step \in [Seq(Ids) \X (1 .. c) -> Seq(Ids)]
    BY <1>2
  <2>2. \A s \in Seq(Ids), i \in 1 .. c : step[<<s, i>>] = Next1(s, i)
    OBVIOUS
  <2>3. <<>> \in Seq(Ids)
    OBVIOUS
  <2> HIDE DEF step
  <2>4. PICK f : Looped(f, Seq(Ids), <<>>, c, step)
    BY <2>1, <2>3, LoopOf
  <2>5. f \in [0 .. c -> Seq(Ids)] /\ f[0] = <<>> /\ \A i \in 1 .. c : f[i] = step[<<f[i - 1], i>>]
    BY <2>4 DEF Looped
  <2> DEFINE Val(n) == IF n = 0 THEN <<>> ELSE Next1(f[n - 1], n)
  <2>6. ASSUME NEW n \in 0 .. c PROVE f[n] = Val(n)
    <3>1. CASE n = 0
      BY <2>5, <3>1
    <3>2. CASE n \in 1 .. c
      <4>1. f[n - 1] \in Seq(Ids)
        BY <2>5, <3>2
      <4>2. f[n] = Next1(f[n - 1], n)
        BY <2>2, <2>5, <3>2, <4>1
      <4> QED
        BY <3>2, <4>2
    <3> QED
      BY <3>1, <3>2
  <2>7. f = [n \in 0 .. c |-> Val(n)]
    <3> HIDE DEF Val
    <3> QED
      BY <2>5, <2>6
  <2> QED
    BY <1>0, <2>7
<1>4. Is(u)
  <2> HIDE DEF Is
  <2> QED
    BY <1>3
<1>5. u[0] = <<>> /\ \A n \in 1 .. c : u[n] = Next1(u[n - 1], n)
  <2> HIDE DEF u
  <2> DEFINE Val(n) == IF n = 0 THEN <<>> ELSE Next1(u[n - 1], n)
  <2>1. u = [n \in 0 .. c |-> Val(n)]
    BY <1>0, <1>4
  <2>2. Val(0) = <<>> /\ 0 \in 0 .. c
    OBVIOUS
  <2>3. ASSUME NEW n \in 1 .. c PROVE Val(n) = Next1(u[n - 1], n) /\ n \in 0 .. c
    OBVIOUS
  <2> HIDE DEF Val
  <2>4. \A n \in 0 .. c : u[n] = Val(n)
    BY <2>1
  <2> QED
    BY <2>2, <2>3, <2>4
<1> HIDE DEF u
<1> DEFINE Done(a, n) == /\ a \in Seq(Ids) /\ Len(a) = n
                         /\ \A i \in 1 .. n : \A d \in Ids : ~Less(ToCentroid(i, d), ToCentroid(i, a[i]))
           K == {n \in Nat : n <= c => Done(u[n], n)}
<1>6. 0 \in K
  <2>1. Done(<<>>, 0)
    OBVIOUS
  <2> HIDE DEF Done
  <2> QED
    BY <1>5, <2>1
<1>7. ASSUME NEW n \in Nat, n \in K PROVE n + 1 \in K
  <2> SUFFICES ASSUME n + 1 <= c PROVE Done(u[n + 1], n + 1)
    OBVIOUS
  <2>1. PICK a \in Seq(Ids) : a = u[n] /\ Done(a, n)
    BY <1>7
  <2>2. PICK m \in 1 .. c : m = n + 1 /\ m - 1 = n
    OBVIOUS
  <2>3. u[m] = Next1(a, m)
    BY <1>5, <2>1, <2>2
  <2>4. /\ u[m] \in Seq(Ids) /\ Len(u[m]) = m
        /\ \A i \in 1 .. n : u[m][i] = a[i]
        /\ \A d \in Ids : ~Less(ToCentroid(m, d), ToCentroid(m, u[m][m]))
    <3>1. PICK b : b = Next1(a, m)
      OBVIOUS
    <3>2. /\ b \in Seq(Ids) /\ Len(b) = Len(a) + 1
          /\ \A i \in 1 .. Len(a) : b[i] = a[i]
          /\ \A d \in Ids : ~Less(ToCentroid(m, d), ToCentroid(m, b[Len(a) + 1]))
      BY <1>2, <3>1
    <3>3. Len(a) = n /\ Len(a) + 1 = m
      BY <2>1, <2>2
    <3> QED
      BY <2>3, <3>1, <3>2, <3>3
  <2>5. ASSUME NEW i \in 1 .. m, NEW d \in Ids PROVE ~Less(ToCentroid(i, d), ToCentroid(i, u[m][i]))
    <3>1. CASE i = m
      BY <2>4, <3>1
    <3>2. CASE i \in 1 .. n
      BY <2>1, <2>4, <3>2
    <3> QED
      BY <2>2, <3>1, <3>2
  <2> QED
    BY <2>2, <2>4, <2>5
<1> HIDE DEF K
<1>8. Nat \subseteq K
  BY <1>6, <1>7, SetInduction
<1>9. Done(u[c], c)
  <2> HIDE DEF Done
  <2> QED
    BY <1>8 DEF K
<1> QED
  BY <1>0, <1>1, <1>9 DEF AtNearest

\* An empty cluster takes a run from one that has two.
LEMMA FilledIn ==
  ASSUME Centered, NEW a \in [Runs -> Ids], NEW c \in Ids
  PROVE  /\ Filled(a, c) \in [Runs -> Ids]
         /\ \E i \in Runs : Filled(a, c)[i] = c
         /\ \A d \in Ids : (\E i \in Runs : a[i] = d) => \E i \in Runs : Filled(a, c)[i] = d
<1>0. PICK n \in Nat : n = Len(vectors) /\ Runs = 1 .. n /\ IsFiniteSet(Runs) /\ Cardinality(Runs) = n /\ n >= kmeans_k
  BY RunsLoaded DEF Centered
<1>1. kmeans_k \in Nat /\ Ids = 1 .. kmeans_k
  BY DEF Ids, Centered
<1>2. \A d : Size(a, d) \in Nat /\ (Size(a, d) = 0 <=> \A i \in Runs : a[i] # d)
  <2>1. a \in [1 .. n -> Ids]
    BY <1>0
  <2>2. ASSUME NEW d PROVE Size(a, d) \in Nat /\ (Size(a, d) = 0 <=> \A i \in 1 .. n : a[i] # d)
    BY <2>1, SizeIn
  <2> QED
    BY <1>0, <2>2
<1>3. CASE Size(a, c) > 0
  <2>1. Filled(a, c) = a
    BY <1>3 DEF Filled
  <2> QED
    BY <1>2, <1>3, <2>1
<1>4. CASE ~(Size(a, c) > 0)
  <2> DEFINE donors == {i \in Runs : Size(a, a[i]) > 1}
             worst == {i \in donors : \A j \in donors : ~Less(Misfit(a, i), Misfit(a, j))}
  <2>1. \A i \in Runs : a[i] # c
    BY <1>2, <1>4
  <2>2. \E i, j \in Runs : i # j /\ a[i] = a[j]
    <3>1. IsFiniteSet(Ids) /\ IsFiniteSet(Ids \ {c})
      <4>1. IsFiniteSet(1 .. kmeans_k)
        BY <1>1, FS_Interval
      <4>2. IsFiniteSet(Ids)
        BY <1>1, <4>1
      <4> QED
        BY <4>2, FS_RemoveElement
    <3>2. Cardinality(Ids) = kmeans_k
      <4>1. Cardinality(1 .. kmeans_k) = IF 1 > kmeans_k THEN 0 ELSE kmeans_k - 1 + 1
        BY <1>1, FS_Interval
      <4> QED
        BY <1>1, <4>1
    <3>3. Cardinality(Ids \ {c}) = kmeans_k - 1
      BY <3>1, <3>2, FS_RemoveElement
    <3>4. a \in [Runs -> Ids \ {c}]
      BY <2>1
    <3>5. Cardinality(Ids \ {c}) < Cardinality(Runs)
      BY <1>0, <1>1, <3>3
    <3> QED
      BY <1>0, <3>1, <3>4, <3>5, FS_PigeonHole
  <2>3. donors # {}
    <3>1. PICK i, j \in Runs : i # j /\ a[i] = a[j]
      BY <2>2
    <3> DEFINE S == {h \in 1 .. n : a[h] = a[i]}
    <3>2. IsFiniteSet(S) /\ Size(a, a[i]) = Cardinality(S)
      BY <1>0, SizeIn
    <3>3. i \in S /\ j \in S
      BY <1>0, <3>1
    <3>4. Cardinality(S) > 1
      <4> HIDE DEF S
      <4> QED
        BY <3>1, <3>2, <3>3, TwoInSet
    <3> QED
      BY <3>2, <3>4
  <2>4. ASSUME NEW i \in Runs PROVE Misfit(a, i) \in Fractions
    <3>1. ToCentroid(i, a[i]) \in Fractions
      BY ToCentroidIn
    <3>2. Zero \in Fractions
      BY DEF Zero, Fractions
    <3> QED
      BY <3>1, <3>2 DEF Misfit
  <2> DEFINE R == {p \in Runs \X Runs : ~Less(Misfit(a, p[1]), Misfit(a, p[2]))}
  <2>5. \A i, j \in Runs : <<i, j>> \in R <=> ~Less(Misfit(a, i), Misfit(a, j))
    OBVIOUS
  <2> HIDE DEF R
  <2>6. Orders(R, n)
    <3>1. \A i, j \in Runs : <<i, j>> \in R \/ <<j, i>> \in R
      BY <2>4, <2>5, FractionsCompare
    <3>2. ASSUME NEW h \in Runs, NEW i \in Runs, NEW j \in Runs, <<h, i>> \in R, <<i, j>> \in R PROVE <<h, j>> \in R
      BY <2>4, <2>5, <3>2, FractionsInOrder
    <3> QED
      BY <1>0, <3>1, <3>2 DEF Orders
  <2>7. donors \in SUBSET (1 .. n)
    BY <1>0
  <2>8. worst # {}
    <3>1. PICK i \in donors : \A j \in donors : <<i, j>> \in R
      <4> HIDE DEF donors
      <4> QED
        BY <2>3, <2>6, <2>7, OneBefore
    <3>2. \A j \in donors : ~Less(Misfit(a, i), Misfit(a, j))
      BY <2>5, <3>1
    <3>3. i \in worst
      BY <3>1, <3>2
    <3> QED
      BY <3>3
  <2>9. Min(worst) \in worst
    <3>1. worst \in SUBSET Nat
      BY <1>0
    <3> HIDE DEF worst
    <3> QED
      BY <2>8, <3>1, LeastIn
  <2>10. PICK w \in Runs : w = Min(worst) /\ Size(a, a[w]) > 1
    BY <2>9
  <2>11. Filled(a, c) = [a EXCEPT ![w] = c]
    <3>1. Filled(a, c) = [a EXCEPT ![Min(worst)] = c]
      BY <1>4 DEF Filled
    <3> QED
      BY <2>10, <3>1
  <2>12. \A i \in Runs : Filled(a, c)[i] = IF i = w THEN c ELSE a[i]
    BY <2>11
  <2>13. Filled(a, c) \in [Runs -> Ids]
    BY <2>11
  <2>14. \E j \in Runs : j # w /\ a[j] = a[w]
    <3> SUFFICES ASSUME \A j \in Runs : a[j] = a[w] => j = w PROVE FALSE
      OBVIOUS
    <3> DEFINE S == {h \in 1 .. n : a[h] = a[w]}
    <3>1. S = {w}
      BY <1>0
    <3>2. Size(a, a[w]) = Cardinality(S)
      BY <1>0, SizeIn
    <3>3. Cardinality({w}) = 1
      BY FS_Singleton
    <3>4. Size(a, a[w]) = 1
      <4> HIDE DEF S
      <4> QED
        BY <3>1, <3>2, <3>3
    <3> QED
      BY <2>10, <3>4
  <2>15. ASSUME NEW d \in Ids, NEW i \in Runs, a[i] = d PROVE \E h \in Runs : Filled(a, c)[h] = d
    <3>1. CASE i = w
      BY <2>12, <2>14, <2>15, <3>1
    <3>2. CASE i # w
      BY <2>12, <2>15, <3>2
    <3> QED
      BY <3>1, <3>2
  <2> QED
    BY <2>10, <2>12, <2>13, <2>15
<1> QED
  BY <1>3, <1>4

LEMMA AllFilledIn ==
  ASSUME Centered
  PROVE  AllFilled \in [Runs -> Ids] /\ \A c \in Ids : \E i \in Runs : AllFilled[i] = c
<1>0. PICK n \in Nat : n = kmeans_k /\ Ids = 1 .. n
  BY DEF Centered, Ids
<1> DEFINE Is(u) == u = [c \in 0 .. kmeans_k |-> IF c = 0 THEN Assigned ELSE Filled(u[c - 1], c)]
           u == CHOOSE u : Is(u)
           S == [Runs -> Ids]
<1>1. AllFilled = u[n]
  BY <1>0 DEF AllFilled
<1>2. Assigned \in S
  BY AssignedIn
<1>3. \A a \in S, c \in 1 .. n : Filled(a, c) \in S
  BY <1>0, FilledIn
<1> HIDE DEF S
<1>4. \E f : Is(f)
  <2> DEFINE step == [z \in S \X (1 .. n) |-> Filled(z[1], z[2])]
  <2>1. step \in [S \X (1 .. n) -> S]
    BY <1>3
  <2>2. \A s \in S, c \in 1 .. n : step[<<s, c>>] = Filled(s, c)
    OBVIOUS
  <2> HIDE DEF step
  <2>3. PICK f : Looped(f, S, Assigned, n, step)
    BY <1>2, <2>1, LoopOf
  <2>4. f \in [0 .. n -> S] /\ f[0] = Assigned /\ \A c \in 1 .. n : f[c] = step[<<f[c - 1], c>>]
    BY <2>3 DEF Looped
  <2> DEFINE Val(c) == IF c = 0 THEN Assigned ELSE Filled(f[c - 1], c)
  <2>5. ASSUME NEW c \in 0 .. n PROVE f[c] = Val(c)
    <3>1. CASE c = 0
      BY <2>4, <3>1
    <3>2. CASE c \in 1 .. n
      <4>1. f[c - 1] \in S
        BY <2>4, <3>2
      <4>2. f[c] = Filled(f[c - 1], c)
        BY <2>2, <2>4, <3>2, <4>1
      <4> QED
        BY <3>2, <4>2
    <3> QED
      BY <3>1, <3>2
  <2>6. f = [c \in 0 .. n |-> Val(c)]
    <3> HIDE DEF Val
    <3> QED
      BY <2>4, <2>5
  <2> QED
    BY <1>0, <2>6
<1>5. Is(u)
  <2> HIDE DEF Is
  <2> QED
    BY <1>4
<1>6. u[0] = Assigned /\ \A c \in 1 .. n : u[c] = Filled(u[c - 1], c)
  <2> HIDE DEF u
  <2> DEFINE Val(c) == IF c = 0 THEN Assigned ELSE Filled(u[c - 1], c)
  <2>1. u = [c \in 0 .. n |-> Val(c)]
    BY <1>0, <1>5
  <2>2. Val(0) = Assigned /\ 0 \in 0 .. n
    OBVIOUS
  <2>3. ASSUME NEW c \in 1 .. n PROVE Val(c) = Filled(u[c - 1], c) /\ c \in 0 .. n
    OBVIOUS
  <2> HIDE DEF Val
  <2>4. \A c \in 0 .. n : u[c] = Val(c)
    BY <2>1
  <2> QED
    BY <2>2, <2>3, <2>4
<1> HIDE DEF u
<1> DEFINE Done(a, c) == a \in S /\ \A d \in 1 .. c : \E i \in Runs : a[i] = d
           K == {c \in Nat : c <= n => Done(u[c], c)}
<1>7. 0 \in K
  <2>1. Done(Assigned, 0)
    BY <1>2
  <2> HIDE DEF Done
  <2> QED
    BY <1>6, <2>1
<1>8. ASSUME NEW c \in Nat, c \in K PROVE c + 1 \in K
  <2> SUFFICES ASSUME c + 1 <= n PROVE Done(u[c + 1], c + 1)
    OBVIOUS
  <2>1. PICK a \in S : a = u[c] /\ Done(a, c)
    BY <1>8
  <2>2. PICK m \in 1 .. n : m = c + 1 /\ m - 1 = c
    OBVIOUS
  <2>3. PICK b : b = Filled(a, m)
    OBVIOUS
  <2>4. u[m] = b
    BY <1>6, <2>1, <2>2, <2>3
  <2>5. /\ b \in S /\ \E i \in Runs : b[i] = m
        /\ \A d \in Ids : (\E i \in Runs : a[i] = d) => \E i \in Runs : b[i] = d
    <3>1. a \in [Runs -> Ids] /\ m \in Ids
      BY <1>0, <2>1 DEF S
    <3> QED
      BY <2>3, <3>1, FilledIn DEF S
  <2>6. ASSUME NEW d \in 1 .. m PROVE \E i \in Runs : b[i] = d
    <3>1. CASE d = m
      BY <2>5, <3>1
    <3>2. CASE d \in 1 .. c
      <4>1. d \in Ids
        BY <1>0, <2>2
      <4> QED
        BY <2>1, <2>5, <3>2, <4>1
    <3> QED
      BY <2>2, <3>1, <3>2
  <2> QED
    BY <2>2, <2>4, <2>5, <2>6
<1> HIDE DEF K
<1>9. Nat \subseteq K
  BY <1>7, <1>8, SetInduction
<1>10. Done(u[n], n)
  <2> HIDE DEF Done
  <2> QED
    BY <1>9 DEF K
<1> QED
  BY <1>0, <1>1, <1>10 DEF S

-----------------------------------------------------------------------------
(* Centroids are the means of the clusters that runs are in, and a pass that  *)
(* changes nothing has them at the nearest.                                   *)

Means == [c \in Ids |-> Centroid(of, c)]

ClusterInv ==
  /\ Loaded
  /\ phase = "idle" => chosen = <<>> /\ of = <<>>
  /\ phase \in {"seed", "iterate", "done"} => kmeans_k \in Nat \ {0} /\ Len(vectors) >= kmeans_k
  /\ chosen \in Seq(Runs)
  /\ phase = "iterate" => \A c \in Ids : AsPoint(centroids[c])
  /\ phase = "done" => of # <<>>
  /\ of # <<>> => /\ phase \in {"iterate", "done"} /\ of \in [Runs -> Ids]
                  /\ \A c \in Ids : \E i \in Runs : of[i] = c
                  /\ centroids = Means
  /\ phase = "done" /\ ~changed => AtNearest(of)

LEMMA SameLoaded ==
  ASSUME Loaded, vectors' = vectors, points' = points
  PROVE  Loaded' /\ Runs' = Runs
BY DEF Loaded, Points, Varies, Runs

LEMMA IterateKeeps ==
  ASSUME ClusterInv, Iterate
  PROVE  ClusterInv'
<1>1. /\ vectors' = vectors /\ points' = points /\ kmeans_k' = kmeans_k /\ chosen' = chosen /\ phase = "iterate"
      /\ of' = AllFilled /\ (changed' <=> Assigned # of \/ of' # Assigned)
      /\ centroids' = [c \in Ids |-> Centroid(of', c)]
      /\ phase' \in {"iterate", "done"}
  BY DEF Iterate
<1>2. Centered
  BY <1>1 DEF ClusterInv, Centered
<1>3. Loaded' /\ Runs' = Runs /\ Ids' = Ids
  BY <1>1, SameLoaded DEF ClusterInv, Ids
<1>4. of' \in [Runs -> Ids] /\ \A c \in Ids : \E i \in Runs : of'[i] = c
  BY <1>1, <1>2, AllFilledIn
<1>5. of' # <<>>
  <2>1. 1 \in Ids
    BY <1>2 DEF Centered, Ids
  <2>2. Runs # {}
    BY <1>4, <2>1
  <2>3. DOMAIN (of') = Runs
    BY <1>4
  <2> QED
    BY <2>2, <2>3
<1>6. Means' = [c \in Ids |-> Centroid(of', c)]
  <2>1. \A c : Centroid(of, c)' = Centroid(of', c)
    BY <1>1 DEF Centroid, Members, Runs
  <2> QED
    BY <1>3, <2>1 DEF Means
<1>7. \A c \in Ids : AsPoint(centroids'[c])
  <2>1. \A c \in Ids : AsPoint(Centroid(of', c))
    BY <1>2, CentroidIn DEF Centered
  <2> QED
    BY <1>1, <2>1
<1>8. ASSUME ~changed' PROVE AtNearest(of)'
  <2>1. of' = Assigned /\ of = Assigned
    BY <1>1, <1>8
  <2>2. AtNearest(of)
    BY <1>2, <2>1, AssignedIn
  <2>3. centroids = Means
    BY <1>5, <2>1 DEF ClusterInv
  <2>4. centroids' = centroids
    BY <1>1, <2>1, <2>3 DEF Means
  <2>5. \A i, c : ToCentroid(i, c)' = ToCentroid(i, c)
    BY <1>1, <2>4 DEF ToCentroid, Distance
  <2> QED
    BY <1>3, <2>1, <2>2, <2>5 DEF AtNearest
<1>9. /\ chosen' \in Seq(Runs') /\ kmeans_k' \in Nat \ {0} /\ Len(vectors') >= kmeans_k'
  BY <1>1, <1>2, <1>3 DEF ClusterInv, Centered
<1> QED
  BY <1>1, <1>3, <1>4, <1>5, <1>6, <1>7, <1>8, <1>9 DEF ClusterInv

LEMMA LoadKeeps ==
  ASSUME ClusterInv, LoadVectors \/ Rank
  PROVE  ClusterInv'
<1>1. /\ vectors' \in Pools /\ points' = Points(vectors') /\ phase = "idle"
      /\ chosen' = chosen /\ of' = of /\ phase' \in {"few", "seed", "ranked"}
  BY DEF LoadVectors, Rank
<1>2. Loaded'
  BY <1>1 DEF Loaded, Points, Varies
<1>3. phase' = "seed" => kmeans_k' \in Nat \ {0} /\ Len(vectors') >= kmeans_k'
  <2> SUFFICES ASSUME phase' = "seed" PROVE kmeans_k' \in Nat \ {0} /\ Len(vectors') >= kmeans_k'
    OBVIOUS
  <2>1. kmeans_k' \in Counts /\ ~(Len(vectors') < kmeans_k')
    BY DEF LoadVectors, Rank
  <2>2. kmeans_k' \in Nat \ {0}
    BY <2>1, ClustersAssumption
  <2>3. vectors' \in Seq(ToSet(vectors'))
    BY <1>1, ClustersAssumption
  <2>4. Len(vectors') \in Nat
    BY <2>3
  <2> QED
    BY <2>1, <2>2, <2>4
<1>4. chosen' = <<>> /\ of' = <<>>
  BY <1>1 DEF ClusterInv
<1> QED
  BY <1>1, <1>2, <1>3, <1>4 DEF ClusterInv

LEMMA SeedKeeps ==
  ASSUME ClusterInv, \/ \E i \in Runs : SeedFirst(i) \/ SeedNext(i)
                     \/ Seeded
  PROVE  ClusterInv'
<1>1. /\ vectors' = vectors /\ points' = points /\ kmeans_k' = kmeans_k /\ of' = of /\ phase = "seed"
      /\ phase' \in {"seed", "iterate"}
      /\ phase' = "iterate" => Seeded
  BY DEF SeedFirst, SeedNext, Seeded
<1>2. of = <<>>
  BY <1>1 DEF ClusterInv
<1>3. Loaded' /\ Runs' = Runs /\ Ids' = Ids
  BY <1>1, SameLoaded DEF ClusterInv, Ids
<1>4. chosen' \in Seq(Runs)
  <2>1. chosen \in Seq(Runs)
    BY DEF ClusterInv
  <2>2. ASSUME NEW i \in Runs, SeedFirst(i) \/ SeedNext(i) PROVE chosen' \in Seq(Runs)
    <3>1. chosen' = <<i>> \/ chosen' = Append(chosen, i)
      BY <2>2 DEF SeedFirst, SeedNext
    <3>2. <<i>> \in Seq(Runs) /\ Append(chosen, i) \in Seq(Runs)
      BY <2>1
    <3> QED
      BY <3>1, <3>2
  <2>3. CASE Seeded
    BY <2>1, <2>3 DEF Seeded
  <2> QED
    BY <2>2, <2>3
<1>5. phase' = "iterate" => \A c \in Ids : AsPoint(centroids'[c])
  <2> SUFFICES ASSUME Seeded, NEW c \in Ids PROVE AsPoint(centroids'[c])
    BY <1>1
  <2>1. centroids'[c] = points[chosen[c]]
    BY DEF Seeded
  <2>2. chosen[c] \in Runs
    <3>1. chosen \in Seq(Runs) /\ Len(chosen) = kmeans_k /\ Ids = 1 .. kmeans_k
      BY DEF Seeded, Ids, ClusterInv
    <3> QED
      BY <3>1
  <2> QED
    BY <2>1, <2>2, RunsLoaded DEF ClusterInv
<1>6. kmeans_k \in Nat \ {0} /\ Len(vectors) >= kmeans_k
  BY <1>1 DEF ClusterInv
<1> QED
  BY <1>1, <1>2, <1>3, <1>4, <1>5, <1>6 DEF ClusterInv

LEMMA ClustersStep == ClusterInv /\ [ClustersNext]_clustersVars => ClusterInv'
<1> SUFFICES ASSUME ClusterInv, [ClustersNext]_clustersVars PROVE ClusterInv'
  OBVIOUS
<1>1. CASE LoadVectors \/ Rank
  BY <1>1, LoadKeeps
<1>2. CASE \E i \in Runs : SeedFirst(i) \/ SeedNext(i)
  BY <1>2, SeedKeeps
<1>3. CASE Seeded
  BY <1>3, SeedKeeps
<1>4. CASE Iterate
  BY <1>4, IterateKeeps
<1>5. CASE UNCHANGED clustersVars
  <2>1. /\ vectors' = vectors /\ points' = points /\ kmeans_k' = kmeans_k /\ chosen' = chosen
        /\ centroids' = centroids /\ of' = of /\ changed' = changed /\ phase' = phase
    BY <1>5 DEF clustersVars
  <2>2. Loaded' /\ Runs' = Runs /\ Ids' = Ids
    BY <2>1, SameLoaded DEF ClusterInv, Ids
  <2>3. Means' = Means
    <3>1. \A c : Centroid(of, c)' = Centroid(of, c)
      BY <2>1 DEF Centroid, Members, Runs
    <3> QED
      BY <2>2, <3>1 DEF Means
  <2>4. AtNearest(of) => AtNearest(of)'
    <3>1. \A i, c : ToCentroid(i, c)' = ToCentroid(i, c)
      BY <2>1 DEF ToCentroid, Distance
    <3> QED
      BY <2>1, <2>2, <3>1 DEF AtNearest
  <2> QED
    BY <2>1, <2>2, <2>3, <2>4 DEF ClusterInv
<1> QED
  BY <1>1, <1>2, <1>3, <1>4, <1>5 DEF ClustersNext

LEMMA ClustersStart == ClustersInit => ClusterInv
<1> SUFFICES ASSUME ClustersInit PROVE ClusterInv
  OBVIOUS
<1>1. /\ vectors = <<>> /\ points = <<>> /\ chosen = <<>> /\ of = <<>> /\ phase = "idle"
  BY DEF ClustersInit
<1>2. Loaded
  BY <1>1 DEF Loaded, Points
<1>3. chosen \in Seq(Runs)
  BY <1>1
<1> QED
  BY <1>1, <1>2, <1>3 DEF ClusterInv

(* No cluster of --kmeans is ever empty; and when nothing changes any more, each *)
(* run is in the cluster whose mean, over what its members measured, is nearest. *)
THEOREM ClustersAtRest == ClustersSpec => []NearestAtRest
<1>1. ClusterInv => NearestAtRest
  <2> SUFFICES ASSUME ClusterInv PROVE NearestAtRest
    OBVIOUS
  <2>1. of # <<>> => {of[i] : i \in Runs} = Ids
    BY DEF ClusterInv
  <2> DEFINE With(c, f) == {i \in Members(of, c) : f \in DOMAIN vectors[i]}
             Mean(c, f) == SumOf([i \in Runs |-> IF i \in With(c, f) THEN Scale * vectors[i][f] ELSE 0])
                             \div Cardinality(With(c, f))
             Center(c) == [f \in UNION {DOMAIN points[i] : i \in Members(of, c)} |-> Mean(c, f)]
  <2>2. ASSUME NEW c PROVE Center(c) = Centroid(of, c)
    <3> DEFINE F == UNION {DOMAIN points[i] : i \in Members(of, c)}
               Found(f) == {i \in Members(of, c) : f \in DOMAIN points[i]}
               Value(f) == SumOf([i \in Runs |-> IF i \in Found(f) THEN points[i][f] ELSE 0]) \div Cardinality(Found(f))
    <3>1. Centroid(of, c) = [f \in F |-> Value(f)]
      BY DEF Centroid
    <3>2. ASSUME NEW f \in F PROVE Value(f) = Mean(c, f)
      <4>1. Members(of, c) \subseteq Runs
        BY DEF Members
      <4>2. PICK j \in Members(of, c) : f \in DOMAIN points[j]
        OBVIOUS
      <4>3. Varies(vectors, f)
        BY <4>1, <4>2, RunsLoaded DEF ClusterInv
      <4>4. \A i \in Runs : f \in DOMAIN points[i] <=> f \in DOMAIN vectors[i]
        BY <4>3, RunsLoaded DEF ClusterInv
      <4>5. Found(f) = With(c, f)
        BY <4>1, <4>4
      <4> DEFINE t1 == [i \in Runs |-> IF i \in Found(f) THEN points[i][f] ELSE 0]
                 t2 == [i \in Runs |-> IF i \in With(c, f) THEN Scale * vectors[i][f] ELSE 0]
      <4>6. \A i \in Found(f) : points[i][f] = Scale * vectors[i][f]
        BY <4>1, RunsLoaded DEF ClusterInv
      <4>7. t1 = t2
        <5> HIDE DEF Found, With
        <5> QED
          BY <4>5, <4>6
      <4>8. Value(f) = SumOf(t1) \div Cardinality(Found(f)) /\ Mean(c, f) = SumOf(t2) \div Cardinality(With(c, f))
        OBVIOUS
      <4> HIDE DEF Value, Mean, t1, t2, Found, With
      <4> QED
        BY <4>5, <4>7, <4>8
    <3>3. Center(c) = [f \in F |-> Mean(c, f)]
      OBVIOUS
    <3> HIDE DEF F, Value, Mean, Center
    <3> QED
      BY <3>1, <3>2, <3>3
  <2>3. phase = "done" /\ ~changed =>
          \A i \in Runs, c \in Ids : ~Less(Distance(points[i], Center(c)), Distance(points[i], Center(of[i])))
    <3> SUFFICES ASSUME phase = "done", ~changed, NEW i \in Runs, NEW c \in Ids
                 PROVE  ~Less(Distance(points[i], Center(c)), Distance(points[i], Center(of[i])))
      OBVIOUS
    <3> HIDE DEF Center
    <3>1. of \in [Runs -> Ids] /\ AtNearest(of) /\ centroids = Means
      BY DEF ClusterInv
    <3>2. ~Less(ToCentroid(i, c), ToCentroid(i, of[i]))
      BY <3>1 DEF AtNearest
    <3>3. centroids[c] = Centroid(of, c) /\ centroids[of[i]] = Centroid(of, of[i])
      BY <3>1 DEF Means
    <3> QED
      BY <2>2, <3>2, <3>3 DEF ToCentroid
  <2> QED
    BY <2>1, <2>3, Zenon DEF NearestAtRest
<1> QED
  BY <1>1, ClustersStart, ClustersStep, PTL DEF ClustersSpec

=============================================================================
