----------------------------- MODULE TreeDiffProofs -----------------------------
(***************************************************************************)
(* Proofs about the comparison of two process trees, for any trees and any *)
(* threshold.                                                              *)
(*                                                                         *)
(* The walk over both trees (DiffInv): each diff node and each call still  *)
(* to make stands for the children of one name and occurrence below one    *)
(* diff node; no process is in two of them; and every child of a diff      *)
(* node's processes is in one.  So two processes share a diff node exactly *)
(* if their signatures are equal, and when no call is left every process   *)
(* is in a diff node.                                                      *)
(*                                                                         *)
(* The report adds up because a process that is only in one tree is below  *)
(* exactly one topmost node, and with that the sums over the subtrees, the *)
(* diff nodes and the trees are sums of the same terms in another order    *)
(* (SumMoved, SumsCross).                                                  *)
(*                                                                         *)
(* The lemmas about loops and about induction are those of ReportsProofs.  *)
(***************************************************************************)
EXTENDS TreeDiff, ReportsProofs

-----------------------------------------------------------------------------
(* The comparison of two trees.  A tree is walked from each process to its    *)
(* parent, which stands before it.                                            *)

Along(f, S, n, up, b, step) ==
  /\ f \in [1 .. n -> S]
  /\ \A i \in 1 .. n : f[i] = IF up[i] = 0 THEN b ELSE step[<<f[up[i]], i>>]

LEMMA AlongParents ==
  ASSUME NEW n \in Nat, NEW up \in [1 .. n -> Nat], \A i \in 1 .. n : up[i] < i,
         NEW S, NEW b \in S, NEW step \in [S \X (1 .. n) -> S]
  PROVE  \E f : Along(f, S, n, up, b, step)
<1> DEFINE Value(f, i) == IF up[i] = 0 THEN b ELSE step[<<f[up[i]], i>>]
           Upto(m, f) == f \in [1 .. m -> S] /\ \A i \in 1 .. m : f[i] = Value(f, i)
           K == {m \in Nat : m <= n => \E f : Upto(m, f)}
<1>1. 0 \in K
  <2>1. 1 .. 0 = {}
    OBVIOUS
  <2>2. Upto(0, [i \in 1 .. 0 |-> b])
    BY <2>1
  <2> HIDE DEF Upto
  <2> QED
    BY <2>2
<1>2. ASSUME NEW m \in Nat, m \in K PROVE m + 1 \in K
  <2> SUFFICES ASSUME m + 1 <= n PROVE \E f : Upto(m + 1, f)
    OBVIOUS
  <2>1. PICK f : Upto(m, f)
    BY <1>2
  <2> DEFINE last == Value(f, m + 1)
             e == [i \in 1 .. m + 1 |-> IF i = m + 1 THEN last ELSE f[i]]
  <2>2. last \in S
    <3>1. m + 1 \in 1 .. n /\ up[m + 1] \in Nat /\ up[m + 1] < m + 1
      OBVIOUS
    <3>2. CASE up[m + 1] = 0
      BY <3>2
    <3>3. CASE up[m + 1] \in 1 .. m
      <4>1. f[up[m + 1]] \in S
        BY <2>1, <3>3
      <4>2. step[<<f[up[m + 1]], m + 1>>] \in S
        BY <3>1, <4>1
      <4>3. up[m + 1] # 0
        BY <3>3
      <4> QED
        BY <4>2, <4>3
    <3> QED
      BY <3>1, <3>2, <3>3
  <2> HIDE DEF last
  <2>3. \A i \in 1 .. m : e[i] = f[i] /\ f[i] \in S
    BY <2>1
  <2>4. e[m + 1] = last
    OBVIOUS
  <2>5. e \in [1 .. m + 1 -> S]
    <3>1. \A i \in 1 .. m + 1 : i = m + 1 \/ i \in 1 .. m
      OBVIOUS
    <3> QED
      BY <2>2, <2>3, <3>1
  <2>6. ASSUME NEW i \in 1 .. m + 1 PROVE e[i] = Value(e, i) /\ Value(e, i) = Value(f, i)
    <3>1. i \in 1 .. n /\ up[i] \in Nat /\ up[i] < i
      BY <2>6
    <3>2. up[i] # 0 => e[up[i]] = f[up[i]]
      <4> SUFFICES ASSUME up[i] # 0 PROVE e[up[i]] = f[up[i]]
        OBVIOUS
      <4>1. up[i] \in 1 .. m
        BY <3>1
      <4> QED
        BY <2>3, <4>1
    <3> HIDE DEF e
    <3>3. Value(e, i) = Value(f, i)
      BY <3>2
    <3>4. e[i] = Value(f, i)
      <4>1. CASE i = m + 1
        BY <2>4, <4>1 DEF last
      <4>2. CASE i \in 1 .. m
        <5>1. f[i] = Value(f, i)
          BY <2>1, <4>2
        <5> HIDE DEF Value, Upto
        <5> QED
          BY <2>3, <4>2, <5>1
      <4> QED
        BY <4>1, <4>2
    <3> QED
      BY <3>3, <3>4
  <2> HIDE DEF e, Value
  <2>7. Upto(m + 1, e)
    BY <2>5, <2>6
  <2> QED
    BY <2>7
<1> HIDE DEF K
<1>3. Nat \subseteq K
  BY <1>1, <1>2, SetInduction
<1>4. PICK f : Upto(n, f)
  <2> HIDE DEF Upto
  <2> QED
    BY <1>3 DEF K
<1> QED
  BY <1>4 DEF Along

Child(tree, n, i) == i \in DOMAIN tree /\ n # Nobody /\ tree[i].parent = n
Elder(tree, n) == {m \in 1 .. n - 1 : tree[m].parent = tree[n].parent /\ tree[m].comm = tree[n].comm}
CommsOf(tree) == {tree[n].comm : n \in DOMAIN tree}
Signed(tree, sig) ==
  /\ sig \in [DOMAIN tree -> Seq(CommsOf(tree) \X Nat)]
  /\ sig[1] = <<>>
  /\ \A n \in 2 .. Len(tree) :
       sig[n] = Append(sig[tree[n].parent], <<tree[n].comm, Cardinality(Elder(tree, n))>>)

LEMMA TreeFacts ==
  ASSUME NEW tree, IsTree(tree)
  PROVE  /\ Len(tree) \in Nat \ {0} /\ DOMAIN tree = 1 .. Len(tree)
         /\ tree[1].parent = 0 /\ \A n \in 2 .. Len(tree) : tree[n].parent \in 1 .. n - 1
<1>1. tree \in Seq(ToSet(tree)) /\ tree # <<>>
  BY DEF IsTree
<1>2. Len(tree) \in Nat /\ DOMAIN tree = 1 .. Len(tree)
  BY <1>1
<1>3. Len(tree) # 0
  BY <1>1
<1> QED
  BY <1>2, <1>3 DEF IsTree, Nobody

LEMMA EldersCounted ==
  ASSUME NEW tree, NEW n \in Nat
  PROVE  IsFiniteSet(Elder(tree, n)) /\ Cardinality(Elder(tree, n)) \in Nat
<1>1. IsFiniteSet(1 .. n - 1)
  BY FS_Interval
<1>2. Elder(tree, n) \in SUBSET (1 .. n - 1)
  BY DEF Elder
<1>3. IsFiniteSet(Elder(tree, n))
  BY <1>1, <1>2, FS_Subset
<1> QED
  BY <1>3, FS_CardinalityType

\* Of two siblings of one name, the younger has more elder ones.
LEMMA EldersTell ==
  ASSUME NEW tree, NEW m \in Nat \ {0}, NEW n \in Nat, m < n,
         tree[m].parent = tree[n].parent, tree[m].comm = tree[n].comm
  PROVE  Cardinality(Elder(tree, m)) < Cardinality(Elder(tree, n))
<1> DEFINE Em == Elder(tree, m)
           En == Elder(tree, n)
<1>1. Em \cup {m} \subseteq En
  BY DEF Elder
<1>2. m \notin Em
  BY DEF Elder
<1> HIDE DEF Em, En
<1>3. IsFiniteSet(Em) /\ Cardinality(Em) \in Nat
  BY EldersCounted DEF Em
<1>4. IsFiniteSet(En) /\ Cardinality(En) \in Nat
  BY EldersCounted DEF En
<1>5. Cardinality(Em \cup {m}) = Cardinality(Em) + 1
  BY <1>2, <1>3, FS_AddElement
<1>6. Cardinality(Em \cup {m}) <= Cardinality(En)
  BY <1>1, <1>4, FS_Subset
<1> QED
  BY <1>3, <1>4, <1>5, <1>6 DEF Em, En

LEMMA SignatureSigns ==
  ASSUME NEW tree, IsTree(tree)
  PROVE  Signed(tree, Signature(tree))
<1>0. PICK n \in Nat \ {0} : n = Len(tree) /\ DOMAIN tree = 1 .. n
  BY TreeFacts
<1>1. tree[1].parent = 0 /\ \A i \in 2 .. n : tree[i].parent \in 1 .. i - 1
  BY <1>0, TreeFacts
<1> DEFINE C == CommsOf(tree)
           S == Seq(C \X Nat)
           Old(i) == Cardinality(Elder(tree, i))
           Val(f, i) == IF i = 1 THEN <<>> ELSE Append(f[tree[i].parent], <<tree[i].comm, Old(i)>>)
           Is(u) == u = [i \in 1 .. n |-> Val(u, i)]
<1>2. Signature(tree) = CHOOSE u : Is(u)
  BY <1>0 DEF Signature, Elder
<1>3. \A i \in 1 .. n : <<tree[i].comm, Old(i)>> \in C \X Nat
  <2>1. \A i \in 1 .. n : Old(i) \in Nat /\ tree[i].comm \in C
    BY <1>0, EldersCounted DEF CommsOf
  <2> HIDE DEF C, Old
  <2> QED
    BY <2>1
<1> DEFINE up == [i \in 1 .. n |-> tree[i].parent]
           step == [x \in S \X (1 .. n) |-> Append(x[1], <<tree[x[2]].comm, Old(x[2])>>)]
<1> HIDE DEF C, Old
<1>4. up \in [1 .. n -> Nat] /\ \A i \in 1 .. n : up[i] < i /\ (up[i] = 0 <=> i = 1)
  <2>1. ASSUME NEW i \in 1 .. n PROVE tree[i].parent \in Nat /\ tree[i].parent < i /\ (tree[i].parent = 0 <=> i = 1)
    <3>1. CASE i = 1
      BY <1>1, <3>1
    <3>2. CASE i \in 2 .. n
      BY <1>1, <3>2
    <3> QED
      BY <3>1, <3>2
  <2> QED
    BY <2>1
<1>5. step \in [S \X (1 .. n) -> S]
  <2> SUFFICES ASSUME NEW s \in S, NEW i \in 1 .. n PROVE Append(s, <<tree[i].comm, Old(i)>>) \in S
    OBVIOUS
  <2>1. PICK x \in C \X Nat : x = <<tree[i].comm, Old(i)>>
    BY <1>3
  <2>2. Append(s, x) \in S
    OBVIOUS
  <2> QED
    BY <2>1, <2>2
<1>6. \A s \in S, i \in 1 .. n : step[<<s, i>>] = Append(s, <<tree[i].comm, Old(i)>>)
  OBVIOUS
<1>7. <<>> \in S
  OBVIOUS
<1> HIDE DEF S, up, step
<1>8. PICK f : Along(f, S, n, up, <<>>, step)
  <2>1. \A i \in 1 .. n : up[i] < i
    BY <1>4
  <2> QED
    BY <1>4, <1>5, <1>7, <2>1, AlongParents
<1>9. f \in [1 .. n -> S] /\ \A i \in 1 .. n : f[i] = IF up[i] = 0 THEN <<>> ELSE step[<<f[up[i]], i>>]
  BY <1>8 DEF Along
<1>10. ASSUME NEW i \in 1 .. n PROVE f[i] = Val(f, i)
  <2>1. CASE i = 1
    <3>1. up[i] = 0
      BY <1>4, <2>1
    <3> QED
      BY <1>9, <2>1, <3>1
  <2>2. CASE i # 1
    <3>1. up[i] # 0 /\ up[i] \in 1 .. n
      BY <1>4, <2>2
    <3>2. f[i] = step[<<f[up[i]], i>>] /\ f[up[i]] \in S
      BY <1>9, <3>1
    <3>3. f[i] = Append(f[up[i]], <<tree[i].comm, Old(i)>>)
      BY <1>6, <3>2
    <3> QED
      BY <2>2, <3>3 DEF up
  <2> QED
    BY <2>1, <2>2
<1> HIDE DEF Val
<1>11. Is(f)
  BY <1>9, <1>10
<1> DEFINE sig == CHOOSE u : Is(u)
<1>12. Is(sig)
  <2> HIDE DEF Is
  <2> QED
    BY <1>11
<1> HIDE DEF sig
<1>13. \A i \in 1 .. n : sig[i] = Val(sig, i)
  BY <1>12
<1>14. DOMAIN sig = 1 .. n
  BY <1>12
<1> DEFINE K == {i \in Nat : \A j \in 1 .. n : j <= i => sig[j] \in S}
<1>15. 0 \in K
  OBVIOUS
<1>16. ASSUME NEW i \in Nat, i \in K PROVE i + 1 \in K
  <2> SUFFICES ASSUME i + 1 <= n PROVE sig[i + 1] \in S
    BY <1>16
  <2>1. i + 1 \in 1 .. n /\ sig[i + 1] = Val(sig, i + 1)
    BY <1>13
  <2>2. CASE i + 1 = 1
    BY <1>7, <2>1, <2>2 DEF Val
  <2>3. CASE i + 1 # 1
    <3>1. tree[i + 1].parent \in 1 .. i
      BY <1>1, <2>3
    <3>2. sig[tree[i + 1].parent] \in S
      BY <1>16, <3>1
    <3>3. sig[i + 1] = Append(sig[tree[i + 1].parent], <<tree[i + 1].comm, Old(i + 1)>>)
      BY <2>1, <2>3 DEF Val
    <3>4. step[<<sig[tree[i + 1].parent], i + 1>>] = sig[i + 1]
      BY <1>6, <2>1, <3>2, <3>3
    <3> QED
      BY <1>5, <2>1, <3>2, <3>4
  <2> QED
    BY <2>2, <2>3
<1> HIDE DEF K
<1>17. Nat \subseteq K
  BY <1>15, <1>16, SetInduction
<1>18. sig \in [1 .. n -> S]
  <2>1. n \in K
    BY <1>17
  <2>2. \A i \in 1 .. n : sig[i] \in S
    BY <2>1 DEF K
  <2> QED
    BY <1>12, <2>2
<1>19. sig[1] = <<>> /\ \A i \in 2 .. n : sig[i] = Append(sig[tree[i].parent], <<tree[i].comm, Old(i)>>)
  <2>1. 1 \in 1 .. n /\ \A i \in 2 .. n : i \in 1 .. n /\ i # 1
    OBVIOUS
  <2> QED
    BY <1>13, <2>1 DEF Val
<1>20. sig \in [DOMAIN tree -> Seq(CommsOf(tree) \X Nat)]
  BY <1>0, <1>18 DEF S, C
<1>21. Signed(tree, sig)
  BY <1>0, <1>19, <1>20 DEF Signed, Old
<1> QED
  BY <1>2, <1>21 DEF sig

\* A signature ends with the name and the rank, after that of the parent.
LEMMA SignedAlike ==
  ASSUME NEW A, NEW B, IsTree(A), IsTree(B), NEW sa, NEW sb, Signed(A, sa), Signed(B, sb),
         NEW a \in DOMAIN A, NEW b \in DOMAIN B
  PROVE  sa[a] = sb[b] <=>
           \/ a = 1 /\ b = 1
           \/ /\ a # 1 /\ b # 1 /\ sa[A[a].parent] = sb[B[b].parent]
              /\ A[a].comm = B[b].comm /\ Cardinality(Elder(A, a)) = Cardinality(Elder(B, b))
<1>1. a # 1 => a \in 2 .. Len(A) /\ A[a].parent \in DOMAIN A
  <2> SUFFICES ASSUME a # 1 PROVE a \in 2 .. Len(A) /\ A[a].parent \in DOMAIN A
    OBVIOUS
  <2>1. Len(A) \in Nat /\ DOMAIN A = 1 .. Len(A) /\ \A n \in 2 .. Len(A) : A[n].parent \in 1 .. n - 1
    BY TreeFacts
  <2>2. a \in 2 .. Len(A)
    BY <2>1
  <2> QED
    BY <2>1, <2>2
<1>2. b # 1 => b \in 2 .. Len(B) /\ B[b].parent \in DOMAIN B
  <2> SUFFICES ASSUME b # 1 PROVE b \in 2 .. Len(B) /\ B[b].parent \in DOMAIN B
    OBVIOUS
  <2>1. Len(B) \in Nat /\ DOMAIN B = 1 .. Len(B) /\ \A n \in 2 .. Len(B) : B[n].parent \in 1 .. n - 1
    BY TreeFacts
  <2>2. b \in 2 .. Len(B)
    BY <2>1
  <2> QED
    BY <2>1, <2>2
<1> DEFINE T == (CommsOf(A) \cup CommsOf(B)) \X Nat
<1>3. ASSUME a # 1
      PROVE  \E s \in Seq(T), x \in T : /\ sa[a] = Append(s, x) /\ s = sa[A[a].parent]
                                        /\ x = <<A[a].comm, Cardinality(Elder(A, a))>>
  <2>1. sa[A[a].parent] \in Seq(CommsOf(A) \X Nat)
    BY <1>1, <1>3 DEF Signed
  <2>2. sa[A[a].parent] \in Seq(T)
    <3>1. CommsOf(A) \X Nat \subseteq T
      OBVIOUS
    <3> HIDE DEF T
    <3> QED
      BY <2>1, <3>1
  <2>3. sa[a] = Append(sa[A[a].parent], <<A[a].comm, Cardinality(Elder(A, a))>>)
    BY <1>1, <1>3 DEF Signed
  <2>4. a \in Nat
    BY <1>1, <1>3, TreeFacts
  <2>5. <<A[a].comm, Cardinality(Elder(A, a))>> \in T
    BY <2>4, EldersCounted DEF CommsOf
  <2> QED
    BY <2>2, <2>3, <2>5
<1>4. ASSUME b # 1
      PROVE  \E s \in Seq(T), x \in T : /\ sb[b] = Append(s, x) /\ s = sb[B[b].parent]
                                        /\ x = <<B[b].comm, Cardinality(Elder(B, b))>>
  <2>1. sb[B[b].parent] \in Seq(CommsOf(B) \X Nat)
    BY <1>2, <1>4 DEF Signed
  <2>2. sb[B[b].parent] \in Seq(T)
    <3>1. CommsOf(B) \X Nat \subseteq T
      OBVIOUS
    <3> HIDE DEF T
    <3> QED
      BY <2>1, <3>1
  <2>3. sb[b] = Append(sb[B[b].parent], <<B[b].comm, Cardinality(Elder(B, b))>>)
    BY <1>2, <1>4 DEF Signed
  <2>4. b \in Nat
    BY <1>2, <1>4, TreeFacts
  <2>5. <<B[b].comm, Cardinality(Elder(B, b))>> \in T
    BY <2>4, EldersCounted DEF CommsOf
  <2> QED
    BY <2>2, <2>3, <2>5
<1> HIDE DEF T
<1>5. sa[1] = <<>> /\ sb[1] = <<>>
  BY DEF Signed
<1>6. \A s \in Seq(T), x \in T : Append(s, x) # <<>>
  OBVIOUS
<1>7. \A s, t \in Seq(T), x, y \in T : Append(s, x) = Append(t, y) => s = t /\ x = y
  <2> SUFFICES ASSUME NEW s \in Seq(T), NEW t \in Seq(T), NEW x \in T, NEW y \in T,
                      Append(s, x) = Append(t, y)
               PROVE  s = t /\ x = y
    OBVIOUS
  <2>1. Len(s) = Len(t)
    <3>1. Len(Append(s, x)) = Len(s) + 1 /\ Len(Append(t, y)) = Len(t) + 1
      OBVIOUS
    <3> QED
      BY <3>1
  <2>2. x = y
    <3>1. Append(s, x)[Len(s) + 1] = x /\ Append(t, y)[Len(t) + 1] = y
      OBVIOUS
    <3> QED
      BY <2>1, <3>1
  <2>3. \A i \in 1 .. Len(s) : s[i] = t[i]
    <3>1. \A i \in 1 .. Len(s) : Append(s, x)[i] = s[i]
      OBVIOUS
    <3>2. \A i \in 1 .. Len(t) : Append(t, y)[i] = t[i]
      OBVIOUS
    <3> QED
      BY <2>1, <3>1, <3>2
  <2> QED
    BY <2>1, <2>2, <2>3
<1>8. CASE a = 1 /\ b = 1
  BY <1>5, <1>8
<1>9. CASE a = 1 /\ b # 1
  BY <1>4, <1>5, <1>6, <1>9
<1>10. CASE a # 1 /\ b = 1
  BY <1>3, <1>5, <1>6, <1>10
<1>11. CASE a # 1 /\ b # 1
  <2>1. PICK s \in Seq(T), x \in T : /\ sa[a] = Append(s, x) /\ s = sa[A[a].parent]
                                     /\ x = <<A[a].comm, Cardinality(Elder(A, a))>>
    BY <1>3, <1>11
  <2>2. PICK t \in Seq(T), y \in T : /\ sb[b] = Append(t, y) /\ t = sb[B[b].parent]
                                     /\ y = <<B[b].comm, Cardinality(Elder(B, b))>>
    BY <1>4, <1>11
  <2>3. sa[a] = sb[b] <=> s = t /\ x = y
    <3>1. sa[a] = Append(s, x) /\ sb[b] = Append(t, y)
      BY <2>1, <2>2
    <3>2. Append(s, x) = Append(t, y) <=> s = t /\ x = y
      BY <1>7
    <3> QED
      BY <3>1, <3>2
  <2>4. x = y <=> A[a].comm = B[b].comm /\ Cardinality(Elder(A, a)) = Cardinality(Elder(B, b))
    BY <2>1, <2>2
  <2> QED
    BY <1>11, <2>1, <2>2, <2>3, <2>4
<1> QED
  BY <1>8, <1>9, <1>10, <1>11

\* In a tree no two processes have one signature.
LEMMA SignedApart ==
  ASSUME NEW tree, IsTree(tree), NEW sig, Signed(tree, sig),
         NEW x \in DOMAIN tree, NEW y \in DOMAIN tree, sig[x] = sig[y]
  PROVE  x = y
<1>0. Len(tree) \in Nat /\ DOMAIN tree = 1 .. Len(tree) /\ \A n \in 2 .. Len(tree) : tree[n].parent \in 1 .. n - 1
  BY TreeFacts
<1> DEFINE K == {n \in Nat : \A a, b \in DOMAIN tree : a <= n /\ sig[a] = sig[b] => a = b}
<1>1. 0 \in K
  BY <1>0
<1>2. ASSUME NEW n \in Nat, n \in K PROVE n + 1 \in K
  <2> SUFFICES ASSUME NEW a \in DOMAIN tree, NEW b \in DOMAIN tree, a = n + 1, sig[a] = sig[b] PROVE a = b
    BY <1>0, <1>2
  <2>1. CASE a = 1 /\ b = 1
    BY <2>1
  <2>2. CASE /\ a # 1 /\ b # 1 /\ sig[tree[a].parent] = sig[tree[b].parent]
             /\ tree[a].comm = tree[b].comm /\ Cardinality(Elder(tree, a)) = Cardinality(Elder(tree, b))
    <3>1. a \in 2 .. Len(tree) /\ b \in 2 .. Len(tree)
      BY <1>0, <2>2
    <3>2. tree[a].parent \in 1 .. a - 1 /\ tree[b].parent \in 1 .. b - 1
      BY <1>0, <3>1
    <3>3. tree[a].parent \in DOMAIN tree /\ tree[b].parent \in DOMAIN tree /\ tree[a].parent <= n
      BY <1>0, <3>1, <3>2
    <3>4. tree[a].parent = tree[b].parent
      BY <1>2, <2>2, <3>3
    <3>5. a \in Nat \ {0} /\ b \in Nat \ {0}
      BY <3>1
    <3>6. Cardinality(Elder(tree, a)) \in Nat
      BY <3>5, EldersCounted
    <3>7. ~(a < b)
      <4> SUFFICES ASSUME a < b PROVE FALSE
        OBVIOUS
      <4>1. Cardinality(Elder(tree, a)) < Cardinality(Elder(tree, b))
        BY <2>2, <3>4, <3>5, EldersTell
      <4> QED
        BY <2>2, <3>6, <4>1
    <3>8. ~(b < a)
      <4> SUFFICES ASSUME b < a PROVE FALSE
        OBVIOUS
      <4>1. Cardinality(Elder(tree, b)) < Cardinality(Elder(tree, a))
        BY <2>2, <3>4, <3>5, EldersTell
      <4> QED
        BY <2>2, <3>6, <4>1
    <3> QED
      BY <3>5, <3>7, <3>8
  <2> QED
    BY <2>1, <2>2, SignedAlike
<1> HIDE DEF K
<1>3. Nat \subseteq K
  BY <1>1, <1>2, SetInduction
<1>4. x \in Nat /\ x \in K
  BY <1>0, <1>3
<1> QED
  BY <1>4 DEF K

\* What build_comm_group_table() has made of the first i processes.
RankedIn(tree, n, c, i, items) ==
  /\ items \in Seq(Nat)
  /\ \A j \in DOMAIN items :
       /\ items[j] \in 1 .. i /\ Child(tree, n, items[j]) /\ tree[items[j]].comm = c
       /\ Cardinality(Elder(tree, items[j])) = j - 1
AllIn(tree, n, c, i, items) ==
  \A m \in 1 .. i : Child(tree, n, m) /\ tree[m].comm = c => \E j \in DOMAIN items : items[j] = m
GroupTables(tree) == Seq([comm : CommsOf(tree), items : Seq(Nat)])
Grouped(tree, n, i, table) ==
  /\ table \in GroupTables(tree)
  /\ \A g, h \in DOMAIN table : table[g].comm = table[h].comm => g = h
  /\ \A g \in DOMAIN table :
       /\ table[g].items # <<>>
       /\ RankedIn(tree, n, table[g].comm, i, table[g].items)
       /\ AllIn(tree, n, table[g].comm, i, table[g].items)
  /\ \A m \in 1 .. i : Child(tree, n, m) => \E g \in DOMAIN table : table[g].comm = tree[m].comm

LEMMA RankOfNext ==
  ASSUME NEW tree, NEW n, NEW c, NEW i \in Nat, NEW items,
         RankedIn(tree, n, c, i, items), AllIn(tree, n, c, i, items),
         NEW z \in Nat, DOMAIN tree = 1 .. z, Child(tree, n, i + 1), tree[i + 1].comm = c
  PROVE  Cardinality(Elder(tree, i + 1)) = Len(items)
<1>0. PICK l \in Nat : l = Len(items) /\ DOMAIN items = 1 .. l /\ items \in Seq(Nat)
  BY DEF RankedIn
<1> DEFINE E == Elder(tree, i + 1)
           f == [j \in 1 .. l |-> items[j]]
<1>1. \A m : m \in E <=> m \in 1 .. i /\ tree[m].parent = n /\ tree[m].comm = c
  BY DEF Elder, Child
<1>2. \A m \in 1 .. i : tree[m].parent = n /\ tree[m].comm = c => Child(tree, n, m)
  <2>1. n # Nobody /\ i + 1 \in DOMAIN tree
    BY DEF Child
  <2> SUFFICES ASSUME NEW m \in 1 .. i, tree[m].parent = n PROVE m \in DOMAIN tree
    BY <2>1 DEF Child
  <2> QED
    BY <2>1
<1> HIDE DEF E
<1>3. \A j \in 1 .. l : f[j] \in E
  BY <1>0, <1>1 DEF RankedIn, Child
<1>4. \A j, h \in 1 .. l : f[j] = f[h] => j = h
  <2>1. \A j \in 1 .. l : Cardinality(Elder(tree, f[j])) = j - 1
    BY <1>0 DEF RankedIn
  <2> HIDE DEF f
  <2>2. ASSUME NEW j \in 1 .. l, NEW h \in 1 .. l, f[j] = f[h] PROVE j = h
    <3>1. j - 1 = h - 1
      BY <2>1, <2>2
    <3> QED
      BY <3>1
  <2> QED
    BY <2>2
<1>5. \A m \in E : \E j \in 1 .. l : f[j] = m
  BY <1>0, <1>1, <1>2 DEF AllIn
<1>6. f \in Bijection(1 .. l, E)
  BY <1>3, <1>4, <1>5 DEF Bijection, Injection, Surjection, IsInjective
<1>7. ExistsBijection(1 .. l, E)
  BY <1>6 DEF ExistsBijection
<1>8. IsFiniteSet(1 .. l)
  BY FS_Interval
<1>9. Cardinality(1 .. l) = IF 1 > l THEN 0 ELSE l - 1 + 1
  BY FS_Interval
<1>10. Cardinality(E) = Cardinality(1 .. l)
  BY <1>7, <1>8, FS_Bijection
<1> QED
  BY <1>0, <1>9, <1>10 DEF E

LEMMA ItemsAppended ==
  ASSUME NEW tree, NEW n, NEW c, NEW i \in Nat, NEW items,
         RankedIn(tree, n, c, i, items), AllIn(tree, n, c, i, items),
         NEW z \in Nat, DOMAIN tree = 1 .. z, Child(tree, n, i + 1), tree[i + 1].comm = c
  PROVE  /\ RankedIn(tree, n, c, i + 1, Append(items, i + 1))
         /\ AllIn(tree, n, c, i + 1, Append(items, i + 1))
<1>0. PICK l \in Nat : l = Len(items) /\ DOMAIN items = 1 .. l /\ items \in Seq(Nat)
  BY DEF RankedIn
<1>1. Cardinality(Elder(tree, i + 1)) = l
  BY <1>0, RankOfNext
<1>2. PICK more : more = Append(items, i + 1)
  OBVIOUS
<1>3. more \in Seq(Nat) /\ DOMAIN more = 1 .. l + 1 /\ more[l + 1] = i + 1
  BY <1>0, <1>2
<1>4. \A j \in 1 .. l : more[j] = items[j]
  BY <1>0, <1>2
<1>5. ASSUME NEW j \in 1 .. l + 1
      PROVE  /\ more[j] \in 1 .. i + 1 /\ Child(tree, n, more[j]) /\ tree[more[j]].comm = c
             /\ Cardinality(Elder(tree, more[j])) = j - 1
  <2>1. CASE j = l + 1
    BY <1>1, <1>3, <2>1
  <2>2. CASE j \in 1 .. l
    <3>1. /\ items[j] \in 1 .. i /\ Child(tree, n, items[j]) /\ tree[items[j]].comm = c
          /\ Cardinality(Elder(tree, items[j])) = j - 1
      BY <1>0, <2>2 DEF RankedIn
    <3>2. items[j] \in 1 .. i + 1
      BY <3>1
    <3> QED
      BY <1>4, <2>2, <3>1, <3>2
  <2> QED
    BY <2>1, <2>2
<1>6. RankedIn(tree, n, c, i + 1, more)
  BY <1>3, <1>5 DEF RankedIn
<1>7. ASSUME NEW m \in 1 .. i + 1, Child(tree, n, m) /\ tree[m].comm = c
      PROVE  \E j \in DOMAIN more : more[j] = m
  <2>1. CASE m = i + 1
    BY <1>3, <2>1
  <2>2. CASE m \in 1 .. i
    <3>1. PICK j \in 1 .. l : items[j] = m
      BY <1>0, <1>7, <2>2 DEF AllIn
    <3>2. j \in DOMAIN more
      BY <1>3
    <3> QED
      BY <1>4, <3>1, <3>2
  <2> QED
    BY <2>1, <2>2
<1> QED
  BY <1>2, <1>6, <1>7 DEF AllIn

\* What the table has of another name or another parent is not touched.
LEMMA ItemsStay ==
  ASSUME NEW tree, NEW n, NEW c, NEW i \in Nat, NEW items,
         RankedIn(tree, n, c, i, items), AllIn(tree, n, c, i, items),
         ~ (Child(tree, n, i + 1) /\ tree[i + 1].comm = c)
  PROVE  RankedIn(tree, n, c, i + 1, items) /\ AllIn(tree, n, c, i + 1, items)
<1>1. 1 .. i \subseteq 1 .. i + 1 /\ \A m \in 1 .. i + 1 : m \in 1 .. i \/ m = i + 1
  OBVIOUS
<1>2. RankedIn(tree, n, c, i + 1, items)
  BY <1>1 DEF RankedIn
<1>3. AllIn(tree, n, c, i + 1, items)
  BY <1>1 DEF AllIn
<1> QED
  BY <1>2, <1>3

LEMMA ItemAdded ==
  ASSUME NEW tree, NEW n, NEW i \in Nat, NEW table, Grouped(tree, n, i, table),
         NEW z \in Nat, DOMAIN tree = 1 .. z, Child(tree, n, i + 1)
  PROVE  Grouped(tree, n, i + 1, AddItem(table, tree[i + 1].comm, i + 1))
<1> DEFINE c == tree[i + 1].comm
<1>0. PICK l \in Nat : l = Len(table) /\ DOMAIN table = 1 .. l /\ table \in GroupTables(tree)
  BY DEF Grouped, GroupTables
<1>1. c \in CommsOf(tree) /\ i + 1 \in Nat
  BY DEF CommsOf, Child
<1>2. \A m \in 1 .. i + 1 : m \in 1 .. i \/ m = i + 1
  OBVIOUS
<1>3. PICK more : more = AddItem(table, c, i + 1)
  OBVIOUS
<1> DEFINE R == [comm : CommsOf(tree), items : Seq(Nat)]
<1>4. table \in Seq(R)
  BY <1>0 DEF GroupTables
<1>5. CASE \E g \in DOMAIN table : table[g].comm = c
  <2> DEFINE New(g) == [comm |-> c, items |-> Append(table[g].items, i + 1)]
  <2>1. more = [g \in 1 .. l |-> IF table[g].comm = c THEN New(g) ELSE table[g]]
    BY <1>0, <1>3, <1>5 DEF AddItem
  <2>2. \A g \in 1 .. l : table[g] \in R
    <3> HIDE DEF R
    <3> QED
      BY <1>0, <1>4
  <2>3. \A g \in 1 .. l : New(g) \in R /\ New(g).comm = c /\ New(g).items = Append(table[g].items, i + 1)
    BY <1>1, <2>2
  <2> HIDE DEF c, New, R
  <2>4. /\ DOMAIN more = 1 .. l
        /\ \A g \in 1 .. l : table[g].comm = c => more[g] = New(g)
        /\ \A g \in 1 .. l : table[g].comm # c => more[g] = table[g]
    BY <2>1
  <2>5. ASSUME NEW g \in 1 .. l PROVE more[g] \in R /\ more[g].comm = table[g].comm
    <3>1. CASE table[g].comm = c
      <4>1. more[g] = New(g)
        BY <2>4, <3>1
      <4> QED
        BY <2>3, <3>1, <4>1
    <3>2. CASE table[g].comm # c
      <4>1. more[g] = table[g]
        BY <2>4, <3>2
      <4> QED
        BY <2>2, <4>1
    <3> QED
      BY <3>1, <3>2
  <2>6. more \in Seq(R)
    BY <2>1, <2>4, <2>5
  <2>7. ASSUME NEW g \in 1 .. l
        PROVE  /\ more[g].items # <<>>
               /\ RankedIn(tree, n, more[g].comm, i + 1, more[g].items)
               /\ AllIn(tree, n, more[g].comm, i + 1, more[g].items)
    <3>1. /\ RankedIn(tree, n, table[g].comm, i, table[g].items)
          /\ AllIn(tree, n, table[g].comm, i, table[g].items)
          /\ table[g].items # <<>>
      BY <1>0 DEF Grouped
    <3>2. CASE table[g].comm = c
      <4>1. more[g].comm = c /\ more[g].items = Append(table[g].items, i + 1)
        <5>1. more[g] = New(g)
          BY <2>4, <3>2
        <5> QED
          BY <2>3, <5>1
      <4>2. RankedIn(tree, n, c, i, table[g].items) /\ AllIn(tree, n, c, i, table[g].items)
        BY <3>1, <3>2
      <4>3. /\ RankedIn(tree, n, c, i + 1, Append(table[g].items, i + 1))
            /\ AllIn(tree, n, c, i + 1, Append(table[g].items, i + 1))
        BY <4>2, ItemsAppended DEF c
      <4>4. Append(table[g].items, i + 1) # <<>>
        <5>1. table[g].items \in Seq(Nat)
          BY <3>1 DEF RankedIn
        <5>2. Len(Append(table[g].items, i + 1)) = Len(table[g].items) + 1 /\ Len(table[g].items) \in Nat
          BY <5>1
        <5>3. Len(Append(table[g].items, i + 1)) # Len(<<>>)
          BY <5>2
        <5> QED
          BY <5>3
      <4> QED
        BY <4>1, <4>3, <4>4
    <3>3. CASE table[g].comm # c
      <4>1. more[g] = table[g]
        BY <2>4, <3>3
      <4>2. /\ RankedIn(tree, n, table[g].comm, i + 1, table[g].items)
            /\ AllIn(tree, n, table[g].comm, i + 1, table[g].items)
        BY <3>1, <3>3, ItemsStay DEF c
      <4> QED
        BY <3>1, <4>1, <4>2
    <3> QED
      BY <3>2, <3>3
  <2>8. \A g, h \in 1 .. l : more[g].comm = more[h].comm => g = h
    BY <1>0, <2>5 DEF Grouped
  <2>9. ASSUME NEW m \in 1 .. i + 1, Child(tree, n, m) PROVE \E g \in 1 .. l : more[g].comm = tree[m].comm
    <3>1. CASE m = i + 1
      BY <1>0, <1>5, <2>5, <3>1 DEF c
    <3>2. CASE m \in 1 .. i
      <4>1. PICK g \in 1 .. l : table[g].comm = tree[m].comm
        BY <1>0, <2>9, <3>2 DEF Grouped
      <4> QED
        BY <2>5, <4>1
    <3> QED
      BY <1>2, <3>1, <3>2
  <2>10. more \in GroupTables(tree)
    BY <2>6 DEF GroupTables, R
  <2>11. Grouped(tree, n, i + 1, more)
    BY <2>4, <2>7, <2>8, <2>9, <2>10 DEF Grouped
  <2> QED
    BY <1>3, <2>11 DEF c
<1>6. CASE ~ \E g \in DOMAIN table : table[g].comm = c
  <2> DEFINE new == [comm |-> c, items |-> <<i + 1>>]
  <2>1. more = Append(table, new)
    BY <1>3, <1>6 DEF AddItem
  <2>2. new \in R /\ new.comm = c /\ new.items = <<i + 1>>
    <3>1. <<i + 1>> \in Seq(Nat)
      BY <1>1
    <3> QED
      BY <1>1, <3>1
  <2> HIDE DEF c, new, R
  <2>3. more \in Seq(R) /\ DOMAIN more = 1 .. l + 1 /\ more[l + 1] = new
    BY <1>0, <1>4, <2>1, <2>2
  <2>4. \A g \in 1 .. l : more[g] = table[g]
    BY <1>0, <1>4, <2>1
  <2>5. \A g \in 1 .. l + 1 : g \in 1 .. l \/ g = l + 1
    OBVIOUS
  <2>6. \A g \in 1 .. l : table[g].comm # c
    BY <1>0, <1>6
  <2>7. \A g, h \in 1 .. l + 1 : more[g].comm = more[h].comm => g = h
    <3>1. \A g, h \in 1 .. l : table[g].comm = table[h].comm => g = h
      BY <1>0 DEF Grouped
    <3> QED
      BY <2>2, <2>3, <2>4, <2>5, <2>6, <3>1
  <2>8. ASSUME NEW g \in 1 .. l + 1
        PROVE  /\ more[g].items # <<>>
               /\ RankedIn(tree, n, more[g].comm, i + 1, more[g].items)
               /\ AllIn(tree, n, more[g].comm, i + 1, more[g].items)
    <3>1. CASE g \in 1 .. l
      <4>1. /\ RankedIn(tree, n, table[g].comm, i, table[g].items)
            /\ AllIn(tree, n, table[g].comm, i, table[g].items)
            /\ table[g].items # <<>>
        BY <1>0, <3>1 DEF Grouped
      <4>2. table[g].comm # c
        BY <2>6, <3>1
      <4>3. /\ RankedIn(tree, n, table[g].comm, i + 1, table[g].items)
            /\ AllIn(tree, n, table[g].comm, i + 1, table[g].items)
        BY <4>1, <4>2, ItemsStay DEF c
      <4> QED
        BY <2>4, <3>1, <4>1, <4>3
    <3>2. CASE g = l + 1
      <4>1. more[g].comm = c /\ more[g].items = <<i + 1>>
        BY <2>2, <2>3, <3>2
      <4>2. RankedIn(tree, n, c, i, <<>>)
        <5>1. <<>> \in Seq(Nat) /\ DOMAIN <<>> = {}
          OBVIOUS
        <5> QED
          BY <5>1 DEF RankedIn
      <4>3. AllIn(tree, n, c, i, <<>>)
        <5>1. ASSUME NEW m \in 1 .. i, Child(tree, n, m), tree[m].comm = c PROVE FALSE
          BY <1>0, <2>6, <5>1 DEF Grouped
        <5> QED
          BY <5>1 DEF AllIn
      <4>4. /\ RankedIn(tree, n, c, i + 1, Append(<<>>, i + 1))
            /\ AllIn(tree, n, c, i + 1, Append(<<>>, i + 1))
        BY <4>2, <4>3, ItemsAppended DEF c
      <4>5. Append(<<>>, i + 1) = <<i + 1>> /\ <<i + 1>> # <<>>
        OBVIOUS
      <4> QED
        BY <4>1, <4>4, <4>5
    <3> QED
      BY <2>5, <3>1, <3>2
  <2>9. ASSUME NEW m \in 1 .. i + 1, Child(tree, n, m) PROVE \E g \in 1 .. l + 1 : more[g].comm = tree[m].comm
    <3>1. CASE m = i + 1
      <4>1. l + 1 \in 1 .. l + 1 /\ more[l + 1].comm = c
        BY <2>2, <2>3
      <4> QED
        BY <3>1, <4>1 DEF c
    <3>2. CASE m \in 1 .. i
      <4>1. PICK g \in 1 .. l : table[g].comm = tree[m].comm
        BY <1>0, <2>9, <3>2 DEF Grouped
      <4>2. g \in 1 .. l + 1
        OBVIOUS
      <4> QED
        BY <2>4, <4>1, <4>2
    <3> QED
      BY <1>2, <3>1, <3>2
  <2>10. more \in GroupTables(tree)
    BY <2>3 DEF GroupTables, R
  <2>11. Grouped(tree, n, i + 1, more)
    BY <2>3, <2>7, <2>8, <2>9, <2>10 DEF Grouped
  <2> QED
    BY <1>3, <2>11 DEF c
<1> QED
  BY <1>5, <1>6

LEMMA ItemTyped ==
  ASSUME NEW tree, NEW table \in GroupTables(tree), NEW c \in CommsOf(tree), NEW i \in Nat
  PROVE  AddItem(table, c, i) \in GroupTables(tree)
<1> DEFINE R == [comm : CommsOf(tree), items : Seq(Nat)]
<1>1. table \in Seq(R)
  BY DEF GroupTables
<1>2. CASE \E g \in DOMAIN table : table[g].comm = c
  <2> DEFINE New(g) == IF table[g].comm = c THEN [comm |-> c, items |-> Append(table[g].items, i)] ELSE table[g]
  <2>1. AddItem(table, c, i) = [g \in DOMAIN table |-> New(g)]
    BY <1>2 DEF AddItem
  <2>2. \A g \in DOMAIN table : table[g] \in R
    <3> HIDE DEF R
    <3> QED
      BY <1>1
  <2>3. \A g \in DOMAIN table : New(g) \in R
    BY <2>2
  <2>4. PICK l \in Nat : DOMAIN table = 1 .. l
    BY <1>1
  <2> HIDE DEF New, R
  <2>5. [g \in 1 .. l |-> New(g)] \in Seq(R)
    BY <2>3, <2>4
  <2> QED
    BY <2>1, <2>4, <2>5 DEF GroupTables, R
<1>3. CASE ~ \E g \in DOMAIN table : table[g].comm = c
  <2>1. [comm |-> c, items |-> <<i>>] \in R
    <3>1. <<i>> \in Seq(Nat)
      OBVIOUS
    <3> QED
      BY <3>1
  <2>2. PICK r \in R : r = [comm |-> c, items |-> <<i>>]
    BY <2>1
  <2>3. AddItem(table, c, i) = Append(table, r)
    BY <1>3, <2>2 DEF AddItem
  <2> HIDE DEF R
  <2>4. Append(table, r) \in Seq(R)
    BY <1>1
  <2> QED
    BY <2>3, <2>4 DEF GroupTables, R
<1> QED
  BY <1>2, <1>3

LEMMA TreeGrouped ==
  ASSUME NEW tree, IsTree(tree), NEW n
  PROVE  Grouped(tree, n, Len(tree), Groups(tree, n))
<1>0. PICK z \in Nat \ {0} : z = Len(tree) /\ DOMAIN tree = 1 .. z
  BY TreeFacts
<1> DEFINE S == GroupTables(tree)
           Goes(i) == n # Nobody /\ tree[i].parent = n
           Val(u, i) == IF i = 0 THEN <<>>
                        ELSE IF Goes(i) THEN AddItem(u[i - 1], tree[i].comm, i) ELSE u[i - 1]
           Is(u) == u = [i \in 0 .. z |-> Val(u, i)]
           upTo == CHOOSE u : Is(u)
           step == [x \in S \X (1 .. z) |-> IF Goes(x[2]) THEN AddItem(x[1], tree[x[2]].comm, x[2]) ELSE x[1]]
           q == [i \in 1 .. z |-> i]
<1>1. Groups(tree, n) = upTo[z]
  BY <1>0 DEF Groups
<1>2. \E f : Is(f)
  <2>1. q \in Seq(1 .. z) /\ Len(q) = z /\ \A i \in 1 .. z : q[i] = i
    OBVIOUS
  <2>2. \A t \in S, i \in 1 .. z : AddItem(t, tree[i].comm, i) \in S
    BY <1>0, ItemTyped DEF CommsOf
  <2>3. <<>> \in S
    BY DEF GroupTables
  <2> HIDE DEF S, q, Goes
  <2>4. step \in [S \X (1 .. z) -> S]
    BY <2>2
  <2>5. \A t \in S, i \in 1 .. z : step[<<t, i>>] = IF Goes(i) THEN AddItem(t, tree[i].comm, i) ELSE t
    OBVIOUS
  <2> HIDE DEF step
  <2>6. PICK f : Loops(f, S, <<>>, 1 .. z, q, step)
    BY <2>1, <2>3, <2>4, LoopEnds
  <2>7. f \in [0 .. z -> S] /\ f[0] = <<>> /\ \A i \in 1 .. z : f[i] = step[<<f[i - 1], i>>]
    BY <2>1, <2>6 DEF Loops
  <2>8. ASSUME NEW i \in 0 .. z PROVE f[i] = Val(f, i)
    <3>1. CASE i = 0
      BY <2>7, <3>1
    <3>2. CASE i \in 1 .. z
      <4>1. i - 1 \in 0 .. z /\ i # 0
        BY <3>2
      <4>2. f[i - 1] \in S
        BY <2>7, <4>1
      <4>3. f[i] = step[<<f[i - 1], i>>]
        BY <2>7, <3>2
      <4>4. step[<<f[i - 1], i>>] = IF Goes(i) THEN AddItem(f[i - 1], tree[i].comm, i) ELSE f[i - 1]
        BY <2>5, <3>2, <4>2
      <4> QED
        BY <4>1, <4>3, <4>4
    <3> QED
      BY <3>1, <3>2
  <2> HIDE DEF Val
  <2>9. Is(f)
    BY <2>7, <2>8
  <2> QED
    BY <2>9
<1>3. Is(upTo)
  <2> HIDE DEF Is
  <2> QED
    BY <1>2
<1> HIDE DEF upTo, S, step, q
<1>4. \A i \in 0 .. z : upTo[i] = Val(upTo, i)
  <2> HIDE DEF Val
  <2> QED
    BY <1>3
<1> DEFINE K == {i \in Nat : i <= z => Grouped(tree, n, i, upTo[i])}
<1>5. 0 \in K
  <2>1. upTo[0] = <<>>
    BY <1>4
  <2>2. 1 .. 0 = {} /\ <<>> \in GroupTables(tree) /\ DOMAIN <<>> = {}
    BY DEF GroupTables
  <2>3. Grouped(tree, n, 0, <<>>)
    BY <2>2 DEF Grouped
  <2> QED
    BY <2>1, <2>3
<1>6. ASSUME NEW i \in Nat, i \in K PROVE i + 1 \in K
  <2> SUFFICES ASSUME i + 1 <= z PROVE Grouped(tree, n, i + 1, upTo[i + 1])
    OBVIOUS
  <2>1. i + 1 \in 1 .. z /\ i + 1 \in 0 .. z /\ i + 1 # 0 /\ (i + 1) - 1 = i
    OBVIOUS
  <2>2. Grouped(tree, n, i, upTo[i])
    BY <1>6
  <2>3. upTo[i + 1] = IF Goes(i + 1) THEN AddItem(upTo[i], tree[i + 1].comm, i + 1) ELSE upTo[i]
    BY <1>4, <2>1
  <2>4. Child(tree, n, i + 1) <=> Goes(i + 1)
    BY <1>0, <2>1 DEF Child
  <2>5. CASE Goes(i + 1)
    <3>1. Grouped(tree, n, i + 1, AddItem(upTo[i], tree[i + 1].comm, i + 1))
      BY <1>0, <2>2, <2>4, <2>5, ItemAdded
    <3> QED
      BY <2>3, <2>5, <3>1
  <2>6. CASE ~ Goes(i + 1)
    <3> DEFINE t == upTo[i]
    <3>1. upTo[i + 1] = t
      BY <2>3, <2>6
    <3> HIDE DEF t
    <3>2. Grouped(tree, n, i, t)
      BY <2>2 DEF t
    <3>3. \A g \in DOMAIN t : /\ RankedIn(tree, n, t[g].comm, i + 1, t[g].items)
                              /\ AllIn(tree, n, t[g].comm, i + 1, t[g].items)
      BY <2>4, <2>6, <3>2, ItemsStay DEF Grouped
    <3>4. \A m \in 1 .. i + 1 : Child(tree, n, m) => m \in 1 .. i
      BY <2>4, <2>6
    <3>5. Grouped(tree, n, i + 1, t)
      BY <3>2, <3>3, <3>4 DEF Grouped
    <3> QED
      BY <3>1, <3>5
  <2> QED
    BY <2>5, <2>6
<1> HIDE DEF K
<1>7. Nat \subseteq K
  BY <1>5, <1>6, SetInduction
<1>8. z \in K
  BY <1>7
<1> QED
  BY <1>0, <1>1, <1>8 DEF K

\* What merge_nodes() knows of the children of one name.
LEMMA GroupItems ==
  ASSUME NEW tree, IsTree(tree), NEW n, NEW c
  PROVE  /\ RankedIn(tree, n, c, Len(tree), Items(Groups(tree, n), c))
         /\ AllIn(tree, n, c, Len(tree), Items(Groups(tree, n), c))
<1>0. PICK table : table = Groups(tree, n)
  OBVIOUS
<1>1. Grouped(tree, n, Len(tree), table)
  BY <1>0, TreeGrouped
<1>2. CASE \E g \in DOMAIN table : table[g].comm = c
  <2>1. PICK g \in DOMAIN table : g = CHOOSE h \in DOMAIN table : table[h].comm = c
    BY <1>2
  <2>2. table[g].comm = c
    BY <1>2, <2>1
  <2>3. Items(table, c) = table[g].items
    BY <1>2, <2>1 DEF Items
  <2> QED
    BY <1>0, <1>1, <2>2, <2>3 DEF Grouped
<1>3. CASE ~ \E g \in DOMAIN table : table[g].comm = c
  <2>1. Items(table, c) = <<>>
    BY <1>3 DEF Items
  <2>2. <<>> \in Seq(Nat) /\ DOMAIN <<>> = {}
    OBVIOUS
  <2>3. RankedIn(tree, n, c, Len(tree), <<>>)
    BY <2>2 DEF RankedIn
  <2>4. AllIn(tree, n, c, Len(tree), <<>>)
    BY <1>1, <1>3 DEF AllIn, Grouped
  <2> QED
    BY <1>0, <2>1, <2>3, <2>4
<1> QED
  BY <1>2, <1>3

LEMMA GroupComms ==
  ASSUME NEW tree, IsTree(tree), NEW n
  PROVE  LET names == Comms(Groups(tree, n))
         IN  /\ names \in Seq(CommsOf(tree)) /\ Len(names) = Len(Groups(tree, n))
             /\ \A g, h \in DOMAIN names : names[g] = names[h] => g = h
             /\ \A m : Child(tree, n, m) => \E g \in DOMAIN names : names[g] = tree[m].comm
<1>0. PICK table : table = Groups(tree, n)
  OBVIOUS
<1>1. Grouped(tree, n, Len(tree), table)
  BY <1>0, TreeGrouped
<1> DEFINE R == [comm : CommsOf(tree), items : Seq(Nat)]
<1>2. table \in Seq(R)
  BY <1>1 DEF Grouped, GroupTables
<1>3. PICK l \in Nat : l = Len(table) /\ DOMAIN table = 1 .. l
  BY <1>2
<1>4. \A g \in 1 .. l : table[g].comm \in CommsOf(tree)
  <2>1. \A g \in 1 .. l : table[g] \in R
    <3> HIDE DEF R
    <3> QED
      BY <1>2, <1>3
  <2> QED
    BY <2>1
<1> DEFINE names == [g \in 1 .. l |-> table[g].comm]
<1>5. Comms(table) = names
  BY <1>3 DEF Comms
<1>6. names \in Seq(CommsOf(tree)) /\ Len(names) = l /\ DOMAIN names = 1 .. l
  BY <1>4
<1>7. \A g \in 1 .. l : names[g] = table[g].comm
  OBVIOUS
<1> HIDE DEF names
<1>8. \A g, h \in 1 .. l : names[g] = names[h] => g = h
  BY <1>1, <1>3, <1>7 DEF Grouped
<1>9. ASSUME NEW m, Child(tree, n, m) PROVE \E g \in 1 .. l : names[g] = tree[m].comm
  <2>1. m \in 1 .. Len(tree)
    BY <1>9, TreeFacts DEF Child
  <2>2. PICK g \in 1 .. l : table[g].comm = tree[m].comm
    BY <1>1, <1>3, <1>9, <2>1 DEF Grouped
  <2> QED
    BY <1>7, <2>2
<1> QED
  BY <1>0, <1>3, <1>5, <1>6, <1>8, <1>9

\* Two diff nodes, or calls, that share no process
Apart(x, y) == (x.a # 0 => x.a # y.a) /\ (x.b # 0 => x.b # y.b)
AllApart(r) == \A i, j \in DOMAIN r : i # j => Apart(r[i], r[j])

Alike(A, B, m, n) ==
  A[m].comm = B[n].comm /\ Cardinality(Elder(A, m)) = Cardinality(Elder(B, n))
Paired(A, B, a, b, x) ==
  /\ x.a # 0 \/ x.b # 0
  /\ x.a # 0 => Child(A, a, x.a)
  /\ x.b # 0 => Child(B, b, x.b)
  /\ x.a # 0 /\ x.b # 0 => Alike(A, B, x.a, x.b)
  /\ x.b = 0 => \A n : Child(B, b, n) => ~ Alike(A, B, x.a, n)
  /\ x.a = 0 => \A m : Child(A, a, m) => ~ Alike(A, B, m, x.b)
Of(A, B, c, x) == (x.a # 0 => A[x.a].comm = c) /\ (x.b # 0 => B[x.b].comm = c)
Call == [a : Nat, b : Nat, up : Nat, occurrence : Nat]

\* t is r, and then s.
InTurn(T, r, s, t) ==
  /\ t \in Seq(T)
  /\ \A i \in DOMAIN t : \/ i \in DOMAIN r /\ t[i] = r[i]
                         \/ \E j \in DOMAIN s : i = Len(r) + j /\ t[i] = s[j]
  /\ \A i \in DOMAIN r : i \in DOMAIN t /\ t[i] = r[i]
  /\ \A j \in DOMAIN s : Len(r) + j \in DOMAIN t /\ t[Len(r) + j] = s[j]

LEMMA InConcat ==
  ASSUME NEW T, NEW r \in Seq(T), NEW s \in Seq(T)
  PROVE  InTurn(T, r, s, r \o s)
<1>0. PICK l \in Nat, k \in Nat : l = Len(r) /\ k = Len(s) /\ DOMAIN r = 1 .. l /\ DOMAIN s = 1 .. k
  OBVIOUS
<1>1. PICK t : t = r \o s
  OBVIOUS
<1>2. t \in Seq(T) /\ DOMAIN t = 1 .. l + k
  BY <1>0, <1>1
<1>3. \A i \in 1 .. l : t[i] = r[i]
  BY <1>0, <1>1
<1>4. \A i \in l + 1 .. l + k : t[i] = s[i - l]
  BY <1>0, <1>1
<1>5. ASSUME NEW i \in 1 .. l + k
      PROVE  (i \in 1 .. l /\ t[i] = r[i]) \/ \E j \in 1 .. k : i = l + j /\ t[i] = s[j]
  <2>1. CASE i \in 1 .. l
    BY <1>3, <2>1
  <2>2. CASE i \in l + 1 .. l + k
    <3>1. i - l \in 1 .. k /\ i = l + (i - l)
      BY <2>2
    <3> QED
      BY <1>4, <2>2, <3>1
  <2> QED
    BY <2>1, <2>2
<1>6. ASSUME NEW j \in 1 .. k PROVE l + j \in 1 .. l + k /\ t[l + j] = s[j]
  <2>1. l + j \in l + 1 .. l + k /\ (l + j) - l = j
    OBVIOUS
  <2>2. t[l + j] = s[(l + j) - l]
    BY <1>4, <2>1
  <2> QED
    BY <2>1, <2>2
<1>7. 1 .. l \subseteq 1 .. l + k
  OBVIOUS
<1>8. \A i \in DOMAIN t : \/ i \in DOMAIN r /\ t[i] = r[i]
                          \/ \E j \in DOMAIN s : i = Len(r) + j /\ t[i] = s[j]
  BY <1>0, <1>2, <1>5
<1>9. \A i \in DOMAIN r : i \in DOMAIN t /\ t[i] = r[i]
  BY <1>0, <1>2, <1>3, <1>7
<1>10. \A j \in DOMAIN s : Len(r) + j \in DOMAIN t /\ t[Len(r) + j] = s[j]
  BY <1>0, <1>2, <1>6
<1> QED
  BY <1>1, <1>2, <1>8, <1>9, <1>10 DEF InTurn

LEMMA ApartConcat ==
  ASSUME NEW T, NEW r \in Seq(T), NEW s \in Seq(T), AllApart(r), AllApart(s),
         \A i \in DOMAIN r, j \in DOMAIN s : Apart(r[i], s[j])
  PROVE  AllApart(r \o s)
<1>1. PICK t : t = r \o s
  OBVIOUS
<1>2. \A i \in DOMAIN t : \/ i \in DOMAIN r /\ t[i] = r[i]
                          \/ \E j \in DOMAIN s : i = Len(r) + j /\ t[i] = s[j]
  BY <1>1, InConcat DEF InTurn
<1>3. \A x, y : Apart(x, y) <=> Apart(y, x)
  BY DEF Apart
<1>4. ASSUME NEW i \in DOMAIN t, NEW j \in DOMAIN t, i # j PROVE Apart(t[i], t[j])
  <2>1. CASE i \in DOMAIN r /\ t[i] = r[i] /\ j \in DOMAIN r /\ t[j] = r[j]
    BY <1>4, <2>1 DEF AllApart
  <2>2. ASSUME i \in DOMAIN r /\ t[i] = r[i], NEW k \in DOMAIN s, t[j] = s[k] PROVE Apart(t[i], t[j])
    BY <2>2
  <2>3. ASSUME j \in DOMAIN r /\ t[j] = r[j], NEW k \in DOMAIN s, t[i] = s[k] PROVE Apart(t[i], t[j])
    BY <1>3, <2>3
  <2>4. ASSUME NEW k \in DOMAIN s, i = Len(r) + k, t[i] = s[k],
               NEW h \in DOMAIN s, j = Len(r) + h, t[j] = s[h] PROVE Apart(t[i], t[j])
    <3>1. k # h
      BY <1>4, <2>4
    <3> QED
      BY <2>4, <3>1 DEF AllApart
  <2> QED
    BY <1>2, <2>1, <2>2, <2>3, <2>4
<1> QED
  BY <1>1, <1>4 DEF AllApart

LEMMA ItemFacts ==
  ASSUME NEW tree, IsTree(tree), NEW n, NEW c, NEW items,
         RankedIn(tree, n, c, Len(tree), items), AllIn(tree, n, c, Len(tree), items)
  PROVE  /\ \A i : Item(items, i) \in Nat /\ (Item(items, i) # 0 <=> i \in DOMAIN items)
         /\ \A i : Item(items, i) # 0 =>
              /\ Child(tree, n, Item(items, i)) /\ tree[Item(items, i)].comm = c
              /\ Cardinality(Elder(tree, Item(items, i))) = i - 1
         /\ \A m : Child(tree, n, m) /\ tree[m].comm = c =>
              /\ Cardinality(Elder(tree, m)) + 1 \in DOMAIN items
              /\ Item(items, Cardinality(Elder(tree, m)) + 1) = m
<1>0. PICK l \in Nat : l = Len(items) /\ DOMAIN items = 1 .. l
  BY DEF RankedIn
<1>1. \A j \in 1 .. l : items[j] \in 1 .. Len(tree)
  BY <1>0 DEF RankedIn
<1>2. \A i : i \in 1 .. l => Item(items, i) = items[i]
  BY <1>0 DEF Item
<1>3. \A i : i \notin 1 .. l => Item(items, i) = 0
  BY <1>0 DEF Item, Nobody
<1>4. ASSUME NEW i PROVE Item(items, i) \in Nat /\ (Item(items, i) # 0 <=> i \in DOMAIN items)
  BY <1>0, <1>1, <1>2, <1>3
<1>5. ASSUME NEW i, Item(items, i) # 0
      PROVE  /\ Child(tree, n, Item(items, i)) /\ tree[Item(items, i)].comm = c
             /\ Cardinality(Elder(tree, Item(items, i))) = i - 1
  <2>1. i \in 1 .. l
    BY <1>3, <1>5
  <2>2. Item(items, i) = items[i]
    BY <1>2, <2>1
  <2> QED
    BY <1>0, <2>1, <2>2 DEF RankedIn
<1>6. ASSUME NEW m, Child(tree, n, m), tree[m].comm = c
      PROVE  /\ Cardinality(Elder(tree, m)) + 1 \in DOMAIN items
             /\ Item(items, Cardinality(Elder(tree, m)) + 1) = m
  <2>1. m \in 1 .. Len(tree)
    BY <1>6, TreeFacts DEF Child
  <2>2. PICK j \in 1 .. l : items[j] = m
    BY <1>0, <1>6, <2>1 DEF AllIn
  <2>3. Cardinality(Elder(tree, m)) = j - 1
    BY <1>0, <2>2 DEF RankedIn
  <2>4. Cardinality(Elder(tree, m)) + 1 = j
    BY <2>3
  <2> QED
    BY <1>0, <1>2, <2>2, <2>4
<1> QED
  BY <1>4, <1>5, <1>6

LEMMA PairsOfAName ==
  ASSUME NEW A, NEW B, IsTree(A), IsTree(B), NEW a, NEW b, NEW c, NEW ga, NEW gb, NEW node \in Nat,
         RankedIn(A, a, c, Len(A), ga), AllIn(A, a, c, Len(A), ga),
         RankedIn(B, b, c, Len(B), gb), AllIn(B, b, c, Len(B), gb)
  PROVE  LET r == PairedUp(ga, gb, node)
         IN  /\ r \in Seq(Call) /\ AllApart(r)
             /\ \A i \in DOMAIN r : Paired(A, B, a, b, r[i]) /\ r[i].up = node /\ Of(A, B, c, r[i])
             /\ \A m : Child(A, a, m) /\ A[m].comm = c => \E i \in DOMAIN r : r[i].a = m
             /\ \A n : Child(B, b, n) /\ B[n].comm = c => \E i \in DOMAIN r : r[i].b = n
<1>0. PICK la \in Nat, lb \in Nat : /\ la = Len(ga) /\ DOMAIN ga = 1 .. la
                                    /\ lb = Len(gb) /\ DOMAIN gb = 1 .. lb
  BY DEF RankedIn
<1>1. PICK l \in Nat : l = Longer(ga, gb) /\ la <= l /\ lb <= l /\ (l = la \/ l = lb)
  BY <1>0 DEF Longer
<1> DEFINE a1(i) == Item(ga, i)
           b1(i) == Item(gb, i)
<1>2. /\ \A i : a1(i) \in Nat /\ (a1(i) # 0 <=> i \in 1 .. la)
      /\ \A i : a1(i) # 0 => /\ Child(A, a, a1(i)) /\ A[a1(i)].comm = c
                             /\ Cardinality(Elder(A, a1(i))) = i - 1
      /\ \A m : Child(A, a, m) /\ A[m].comm = c =>
           /\ Cardinality(Elder(A, m)) + 1 \in 1 .. la
           /\ a1(Cardinality(Elder(A, m)) + 1) = m
  BY <1>0, ItemFacts
<1>3. /\ \A i : b1(i) \in Nat /\ (b1(i) # 0 <=> i \in 1 .. lb)
      /\ \A i : b1(i) # 0 => /\ Child(B, b, b1(i)) /\ B[b1(i)].comm = c
                             /\ Cardinality(Elder(B, b1(i))) = i - 1
      /\ \A m : Child(B, b, m) /\ B[m].comm = c =>
           /\ Cardinality(Elder(B, m)) + 1 \in 1 .. lb
           /\ b1(Cardinality(Elder(B, m)) + 1) = m
  BY <1>0, ItemFacts
<1> HIDE DEF a1, b1
<1> DEFINE r == [i \in 1 .. l |-> [a |-> a1(i), b |-> b1(i), up |-> node, occurrence |-> i - 1]]
<1>4. PairedUp(ga, gb, node) = r
  BY <1>1 DEF PairedUp, a1, b1
<1>5. \A i \in 1 .. l : r[i] \in Call /\ r[i].a = a1(i) /\ r[i].b = b1(i) /\ r[i].up = node
  BY <1>2, <1>3 DEF Call
<1>6. DOMAIN r = 1 .. l
  OBVIOUS
<1>7. r \in Seq(Call)
  <2>1. r \in [1 .. l -> Call]
    BY <1>5
  <2> QED
    BY <2>1
<1> HIDE DEF r
<1>8. AllApart(r)
  <2>1. \A i, j \in 1 .. l : a1(i) # 0 /\ a1(i) = a1(j) => i = j
    <3>1. ASSUME NEW i \in 1 .. l, NEW j \in 1 .. l, a1(i) # 0, a1(i) = a1(j) PROVE i = j
      <4>1. i - 1 = j - 1
        BY <1>2, <3>1
      <4> QED
        BY <4>1
    <3> QED
      BY <3>1
  <2>2. \A i, j \in 1 .. l : b1(i) # 0 /\ b1(i) = b1(j) => i = j
    <3>1. ASSUME NEW i \in 1 .. l, NEW j \in 1 .. l, b1(i) # 0, b1(i) = b1(j) PROVE i = j
      <4>1. i - 1 = j - 1
        BY <1>3, <3>1
      <4> QED
        BY <4>1
    <3> QED
      BY <3>1
  <2> QED
    BY <1>5, <1>6, <2>1, <2>2 DEF AllApart, Apart
<1>9. ASSUME NEW i \in 1 .. l
      PROVE  Paired(A, B, a, b, r[i]) /\ r[i].up = node /\ Of(A, B, c, r[i])
  <2>1. r[i].a = a1(i) /\ r[i].b = b1(i) /\ r[i].up = node
    BY <1>5
  <2>2. a1(i) # 0 \/ b1(i) # 0
    <3>1. i \in 1 .. la \/ i \in 1 .. lb
      BY <1>1
    <3> QED
      BY <1>2, <1>3, <3>1
  <2>3. a1(i) # 0 /\ b1(i) # 0 => Alike(A, B, a1(i), b1(i))
    BY <1>2, <1>3 DEF Alike
  <2>4. ASSUME b1(i) = 0, NEW n, Child(B, b, n), Alike(A, B, a1(i), n) PROVE FALSE
    <3>1. a1(i) # 0
      BY <2>2, <2>4
    <3>2. A[a1(i)].comm = c /\ Cardinality(Elder(A, a1(i))) = i - 1
      BY <1>2, <3>1
    <3>3. B[n].comm = c /\ Cardinality(Elder(B, n)) = i - 1
      BY <2>4, <3>2 DEF Alike
    <3>4. Cardinality(Elder(B, n)) + 1 = i
      BY <3>3
    <3>5. i \in 1 .. lb
      BY <1>3, <2>4, <3>3, <3>4
    <3> QED
      BY <1>3, <2>4, <3>5
  <2>5. ASSUME a1(i) = 0, NEW m, Child(A, a, m), Alike(A, B, m, b1(i)) PROVE FALSE
    <3>1. b1(i) # 0
      BY <2>2, <2>5
    <3>2. B[b1(i)].comm = c /\ Cardinality(Elder(B, b1(i))) = i - 1
      BY <1>3, <3>1
    <3>3. A[m].comm = c /\ Cardinality(Elder(A, m)) = i - 1
      BY <2>5, <3>2 DEF Alike
    <3>4. Cardinality(Elder(A, m)) + 1 = i
      BY <3>3
    <3>5. i \in 1 .. la
      BY <1>2, <2>5, <3>3, <3>4
    <3> QED
      BY <1>2, <2>5, <3>5
  <2>6. Paired(A, B, a, b, r[i])
    BY <1>2, <1>3, <2>1, <2>2, <2>3, <2>4, <2>5 DEF Paired
  <2>7. Of(A, B, c, r[i])
    BY <1>2, <1>3, <2>1 DEF Of
  <2> QED
    BY <2>1, <2>6, <2>7
<1>10. ASSUME NEW m, Child(A, a, m), A[m].comm = c PROVE \E i \in 1 .. l : r[i].a = m
  <2>1. PICK i \in 1 .. la : a1(i) = m
    BY <1>2, <1>10
  <2>2. i \in 1 .. l
    BY <1>1
  <2> QED
    BY <1>5, <2>1, <2>2
<1>11. ASSUME NEW m, Child(B, b, m), B[m].comm = c PROVE \E i \in 1 .. l : r[i].b = m
  <2>1. PICK i \in 1 .. lb : b1(i) = m
    BY <1>3, <1>11
  <2>2. i \in 1 .. l
    BY <1>1
  <2> QED
    BY <1>5, <2>1, <2>2
<1> QED
  BY <1>4, <1>6, <1>7, <1>8, <1>9, <1>10, <1>11

\* The calls below a pair: all children, those that are alike in one call.
Below(A, B, a, b, node, r) ==
  /\ r \in Seq(Call) /\ AllApart(r)
  /\ \A i \in DOMAIN r : Paired(A, B, a, b, r[i]) /\ r[i].up = node
  /\ \A m : Child(A, a, m) => \E i \in DOMAIN r : r[i].a = m
  /\ \A n : Child(B, b, n) => \E i \in DOMAIN r : r[i].b = n

LEMMA CallsPair ==
  ASSUME NEW A, NEW B, IsTree(A), IsTree(B), NEW a, NEW b, NEW node \in Nat
  PROVE  Below(A, B, a, b, node, CallsBelow(Groups(A, a), Groups(B, b), node))
<1>0. PICK ta, tb : ta = Groups(A, a) /\ tb = Groups(B, b)
  OBVIOUS
<1> DEFINE na == Comms(ta)
           nb == Comms(tb)
           names == na \o nb
           Fd(g) == g > Len(ta) /\ names[g] \in ToSet(na)
           Pairs(g) == PairedUp(Items(ta, names[g]), Items(tb, names[g]), node)
           z == Len(names)
           Val(u, g) == IF g = 0 THEN <<>> ELSE IF Fd(g) THEN u[g - 1] ELSE u[g - 1] \o Pairs(g)
           Is(u) == u = [g \in 0 .. z |-> Val(u, g)]
           upTo == CHOOSE u : Is(u)
<1>1. CallsBelow(ta, tb, node) = upTo[z]
  BY DEF CallsBelow
<1>2. /\ na \in Seq(CommsOf(A)) /\ Len(na) = Len(ta)
      /\ \A g, h \in DOMAIN na : na[g] = na[h] => g = h
      /\ \A m : Child(A, a, m) => \E g \in DOMAIN na : na[g] = A[m].comm
  BY <1>0, GroupComms
<1>3. /\ nb \in Seq(CommsOf(B))
      /\ \A g, h \in DOMAIN nb : nb[g] = nb[h] => g = h
      /\ \A n : Child(B, b, n) => \E g \in DOMAIN nb : nb[g] = B[n].comm
  BY <1>0, GroupComms
<1> DEFINE C == CommsOf(A) \cup CommsOf(B)
<1> HIDE DEF na, nb, Val, Pairs
<1>4. /\ names \in Seq(C)
      /\ \A g \in DOMAIN names : \/ g \in DOMAIN na /\ names[g] = na[g]
                                 \/ \E h \in DOMAIN nb : g = Len(na) + h /\ names[g] = nb[h]
      /\ \A g \in DOMAIN na : g \in DOMAIN names /\ names[g] = na[g]
      /\ \A h \in DOMAIN nb : Len(na) + h \in DOMAIN names /\ names[Len(na) + h] = nb[h]
  <2>1. na \in Seq(C) /\ nb \in Seq(C)
    <3>1. CommsOf(A) \subseteq C /\ CommsOf(B) \subseteq C
      OBVIOUS
    <3> HIDE DEF C
    <3> QED
      BY <1>2, <1>3, <3>1
  <2> HIDE DEF C
  <2> QED
    BY <2>1, InConcat DEF InTurn
<1> HIDE DEF names, C
<1>5. z \in Nat /\ DOMAIN names = 1 .. z /\ Len(na) \in Nat /\ DOMAIN na = 1 .. Len(na) /\ DOMAIN nb = 1 .. Len(nb)
  BY <1>2, <1>3, <1>4
<1>6. \A g \in DOMAIN na : g \in 1 .. z /\ names[g] = na[g] /\ ~ Fd(g)
  BY <1>2, <1>4, <1>5
<1>7. ASSUME NEW g \in 1 .. z, NEW h \in 1 .. z, ~ Fd(g), ~ Fd(h), names[g] = names[h] PROVE g = h
  <2>1. CASE g \in DOMAIN na /\ h \in DOMAIN na
    BY <1>2, <1>4, <1>7, <2>1
  <2>2. ASSUME NEW x \in DOMAIN na, NEW y \in 1 .. z, y \notin DOMAIN na, names[x] = names[y] PROVE Fd(y)
    <3>1. y > Len(ta)
      BY <1>2, <1>5, <2>2
    <3>2. names[y] \in ToSet(na)
      BY <1>4, <2>2 DEF ToSet
    <3> QED
      BY <3>1, <3>2
  <2> HIDE DEF Fd
  <2>3. CASE g \notin DOMAIN na /\ h \notin DOMAIN na
    <3>1. PICK x \in DOMAIN nb : g = Len(na) + x /\ names[g] = nb[x]
      BY <1>4, <1>5, <2>3
    <3>2. PICK y \in DOMAIN nb : h = Len(na) + y /\ names[h] = nb[y]
      BY <1>4, <1>5, <2>3
    <3>3. x = y
      BY <1>3, <1>7, <3>1, <3>2
    <3> QED
      BY <3>1, <3>2, <3>3
  <2> QED
    BY <1>7, <2>1, <2>2, <2>3
<1>8. ASSUME NEW m, Child(A, a, m) PROVE \E g \in 1 .. z : ~ Fd(g) /\ names[g] = A[m].comm
  <2>1. PICK g \in DOMAIN na : na[g] = A[m].comm
    BY <1>2, <1>8
  <2> HIDE DEF Fd
  <2> QED
    BY <1>6, <2>1
<1>9. ASSUME NEW n, Child(B, b, n) PROVE \E g \in 1 .. z : ~ Fd(g) /\ names[g] = B[n].comm
  <2>1. PICK h \in DOMAIN nb : nb[h] = B[n].comm
    BY <1>3, <1>9
  <2>2. Len(na) + h \in 1 .. z /\ names[Len(na) + h] = B[n].comm
    BY <1>4, <1>5, <2>1
  <2>3. ASSUME Fd(Len(na) + h) PROVE \E g \in DOMAIN na : na[g] = B[n].comm
    BY <2>2, <2>3 DEF ToSet
  <2> HIDE DEF Fd
  <2>4. CASE Fd(Len(na) + h)
    BY <1>6, <2>3, <2>4
  <2> QED
    BY <2>2, <2>4
<1> HIDE DEF Fd, z
<1> DEFINE Good(g, s) ==
             /\ s \in Seq(Call) /\ AllApart(s)
             /\ \A i \in DOMAIN s : Paired(A, B, a, b, s[i]) /\ s[i].up = node /\ Of(A, B, names[g], s[i])
             /\ \A m : Child(A, a, m) /\ A[m].comm = names[g] => \E i \in DOMAIN s : s[i].a = m
             /\ \A n : Child(B, b, n) /\ B[n].comm = names[g] => \E i \in DOMAIN s : s[i].b = n
<1>10. ASSUME NEW g PROVE Good(g, Pairs(g))
  <2> DEFINE c == names[g]
             ga == Items(ta, c)
             gb == Items(tb, c)
  <2>1. RankedIn(A, a, c, Len(A), ga) /\ AllIn(A, a, c, Len(A), ga)
    BY <1>0, GroupItems
  <2>2. RankedIn(B, b, c, Len(B), gb) /\ AllIn(B, b, c, Len(B), gb)
    BY <1>0, GroupItems
  <2>3. Pairs(g) = PairedUp(ga, gb, node)
    BY DEF Pairs
  <2> HIDE DEF ga, gb, c
  <2> QED
    BY <2>1, <2>2, <2>3, PairsOfAName DEF c
<1>11. \E f : Is(f)
  <2> DEFINE S == Seq(Call)
             step == [x \in S \X (1 .. z) |-> IF Fd(x[2]) THEN x[1] ELSE x[1] \o Pairs(x[2])]
             q == [g \in 1 .. z |-> g]
  <2>1. q \in Seq(1 .. z) /\ Len(q) = z /\ \A g \in 1 .. z : q[g] = g
    BY <1>5
  <2>2. \A r \in S, g \in 1 .. z : r \o Pairs(g) \in S
    BY <1>10, InConcat DEF InTurn
  <2>3. <<>> \in S
    OBVIOUS
  <2> HIDE DEF S, q
  <2>4. step \in [S \X (1 .. z) -> S]
    BY <2>2
  <2>5. \A r \in S, g \in 1 .. z : step[<<r, g>>] = IF Fd(g) THEN r ELSE r \o Pairs(g)
    OBVIOUS
  <2> HIDE DEF step
  <2>6. PICK f : Loops(f, S, <<>>, 1 .. z, q, step)
    BY <2>1, <2>3, <2>4, LoopEnds
  <2>7. f \in [0 .. z -> S] /\ f[0] = <<>> /\ \A g \in 1 .. z : f[g] = step[<<f[g - 1], g>>]
    BY <2>1, <2>6 DEF Loops
  <2>8. ASSUME NEW g \in 0 .. z PROVE f[g] = Val(f, g)
    <3>1. CASE g = 0
      BY <2>7, <3>1 DEF Val
    <3>2. CASE g \in 1 .. z
      <4>1. g - 1 \in 0 .. z /\ g # 0
        BY <1>5, <3>2
      <4>2. f[g - 1] \in S
        BY <2>7, <4>1
      <4>3. f[g] = step[<<f[g - 1], g>>]
        BY <2>7, <3>2
      <4>4. step[<<f[g - 1], g>>] = IF Fd(g) THEN f[g - 1] ELSE f[g - 1] \o Pairs(g)
        BY <2>5, <3>2, <4>2
      <4> QED
        BY <4>1, <4>3, <4>4 DEF Val
    <3> QED
      BY <1>5, <3>1, <3>2
  <2>9. Is(f)
    BY <2>7, <2>8
  <2> QED
    BY <2>9
<1>12. Is(upTo)
  <2> HIDE DEF Is
  <2> QED
    BY <1>11
<1> HIDE DEF upTo
<1>13. \A g \in 0 .. z : upTo[g] = Val(upTo, g)
  BY <1>12
<1> DEFINE Done(g, r) ==
             /\ r \in Seq(Call) /\ AllApart(r)
             /\ \A i \in DOMAIN r : /\ Paired(A, B, a, b, r[i]) /\ r[i].up = node
                                    /\ \E h \in 1 .. g : ~ Fd(h) /\ Of(A, B, names[h], r[i])
             /\ \A h \in 1 .. g : ~ Fd(h) => \A m : Child(A, a, m) /\ A[m].comm = names[h] =>
                                                       \E i \in DOMAIN r : r[i].a = m
             /\ \A h \in 1 .. g : ~ Fd(h) => \A n : Child(B, b, n) /\ B[n].comm = names[h] =>
                                                       \E i \in DOMAIN r : r[i].b = n
           K == {g \in Nat : g <= z => Done(g, upTo[g])}
<1>14. 0 \in K
  <2>1. upTo[0] = <<>>
    BY <1>5, <1>13 DEF Val
  <2>2. 1 .. 0 = {} /\ <<>> \in Seq(Call) /\ DOMAIN <<>> = {}
    OBVIOUS
  <2>3. Done(0, <<>>)
    BY <2>2 DEF AllApart
  <2> HIDE DEF Done
  <2> QED
    BY <2>1, <2>3
<1>15. ASSUME NEW g \in Nat, g \in K PROVE g + 1 \in K
  <2> SUFFICES ASSUME g + 1 <= z PROVE Done(g + 1, upTo[g + 1])
    OBVIOUS
  <2>0. g \in 0 .. z /\ g + 1 \in 0 .. z /\ g + 1 \in 1 .. z /\ g + 1 # 0 /\ (g + 1) - 1 = g
    BY <1>5
  <2>1. upTo[g + 1] = IF Fd(g + 1) THEN upTo[g] ELSE upTo[g] \o Pairs(g + 1)
    BY <1>13, <2>0 DEF Val
  <2>2. PICK r : r = upTo[g]
    OBVIOUS
  <2>3. Done(g, r)
    BY <1>15, <2>0, <2>2
  <2>4. \A h \in 1 .. g + 1 : h \in 1 .. g \/ h = g + 1
    OBVIOUS
  <2>5. \A h \in 1 .. g : h \in 1 .. g + 1
    OBVIOUS
  <2>6. CASE Fd(g + 1)
    <3>1. Done(g + 1, r)
      BY <2>3, <2>4, <2>5, <2>6
    <3> HIDE DEF Done
    <3> QED
      BY <2>1, <2>2, <2>6, <3>1
  <2>7. CASE ~ Fd(g + 1)
    <3>1. PICK s, t : s = Pairs(g + 1) /\ t = r \o s
      OBVIOUS
    <3>2. Good(g + 1, s)
      <4> HIDE DEF Good
      <4> QED
        BY <1>10, <3>1
    <3>3. r \in Seq(Call) /\ AllApart(r)
      BY <2>3
    <3>4. /\ t \in Seq(Call)
          /\ \A i \in DOMAIN t : \/ i \in DOMAIN r /\ t[i] = r[i]
                                 \/ \E j \in DOMAIN s : i = Len(r) + j /\ t[i] = s[j]
          /\ \A i \in DOMAIN r : i \in DOMAIN t /\ t[i] = r[i]
          /\ \A j \in DOMAIN s : Len(r) + j \in DOMAIN t /\ t[Len(r) + j] = s[j]
      <4>1. s \in Seq(Call)
        BY <1>10, <3>1
      <4>2. InTurn(Call, r, s, t)
        BY <3>1, <3>3, <4>1, InConcat
      <4> QED
        BY <4>2 DEF InTurn
    <3>5. ASSUME NEW i \in DOMAIN r, NEW j \in DOMAIN s PROVE Apart(r[i], s[j])
      <4>1. PICK h \in 1 .. g : ~ Fd(h) /\ Of(A, B, names[h], r[i])
        BY <2>3
      <4>2. h \in 1 .. z /\ h # g + 1
        BY <1>5
      <4>3. names[h] # names[g + 1]
        BY <1>7, <2>0, <2>7, <4>1, <4>2
      <4>4. Of(A, B, names[g + 1], s[j])
        BY <3>2
      <4> QED
        BY <4>1, <4>3, <4>4 DEF Of, Apart
    <3>6. AllApart(t)
      BY <3>1, <3>2, <3>3, <3>5, ApartConcat
    <3>7. ASSUME NEW i \in DOMAIN t
          PROVE  /\ Paired(A, B, a, b, t[i]) /\ t[i].up = node
                 /\ \E h \in 1 .. g + 1 : ~ Fd(h) /\ Of(A, B, names[h], t[i])
      <4>1. CASE i \in DOMAIN r /\ t[i] = r[i]
        BY <2>3, <2>5, <4>1
      <4>2. ASSUME NEW j \in DOMAIN s, t[i] = s[j]
            PROVE  /\ Paired(A, B, a, b, t[i]) /\ t[i].up = node
                   /\ \E h \in 1 .. g + 1 : ~ Fd(h) /\ Of(A, B, names[h], t[i])
        <5>1. g + 1 \in 1 .. g + 1
          OBVIOUS
        <5> QED
          BY <2>7, <3>2, <4>2, <5>1
      <4> QED
        BY <3>4, <4>1, <4>2
    <3>8. ASSUME NEW h \in 1 .. g + 1, ~ Fd(h), NEW m, Child(A, a, m) /\ A[m].comm = names[h]
          PROVE  \E i \in DOMAIN t : t[i].a = m
      <4>1. CASE h \in 1 .. g
        <5>1. PICK i \in DOMAIN r : r[i].a = m
          BY <2>3, <3>8, <4>1
        <5> QED
          BY <3>4, <5>1
      <4>2. CASE h = g + 1
        <5>1. PICK i \in DOMAIN s : s[i].a = m
          BY <3>2, <3>8, <4>2
        <5> QED
          BY <3>4, <5>1
      <4> QED
        BY <2>4, <4>1, <4>2
    <3>9. ASSUME NEW h \in 1 .. g + 1, ~ Fd(h), NEW n, Child(B, b, n) /\ B[n].comm = names[h]
          PROVE  \E i \in DOMAIN t : t[i].b = n
      <4>1. CASE h \in 1 .. g
        <5>1. PICK i \in DOMAIN r : r[i].b = n
          BY <2>3, <3>9, <4>1
        <5> QED
          BY <3>4, <5>1
      <4>2. CASE h = g + 1
        <5>1. PICK i \in DOMAIN s : s[i].b = n
          BY <3>2, <3>9, <4>2
        <5> QED
          BY <3>4, <5>1
      <4> QED
        BY <2>4, <4>1, <4>2
    <3>10. Done(g + 1, t)
      BY <3>4, <3>6, <3>7, <3>8, <3>9
    <3> HIDE DEF Done
    <3> QED
      BY <2>1, <2>2, <2>7, <3>1, <3>10
  <2> QED
    BY <2>6, <2>7
<1> HIDE DEF K
<1>16. Nat \subseteq K
  BY <1>14, <1>15, SetInduction
<1>17. Done(z, upTo[z])
  <2>1. z \in K
    BY <1>5, <1>16
  <2> HIDE DEF Done
  <2> QED
    BY <1>5, <2>1 DEF K
<1>18. Below(A, B, a, b, node, upTo[z])
  BY <1>8, <1>9, <1>17 DEF Below
<1> QED
  BY <1>0, <1>1, <1>18

-----------------------------------------------------------------------------
(* The walk over both trees.  Each diff node, and each call still to make, is *)
(* the root or stands for children of one diff node's processes; no process   *)
(* is in two of them, and none of the processes below a node is lost.         *)

Merged == [a : Nat, b : Nat, up : Nat, occurrence : Nat, status : {"same", "changed", "added", "removed"}]
StatusOf(A, B, x) ==
  IF x.b = 0 THEN "removed" ELSE IF x.a = 0 THEN "added"
  ELSE IF Beyond(Delta(A[x.a], B[x.b])) THEN "changed" ELSE "same"
Placed(A, B, m, x) ==
  /\ x.up = 0 => x.a = 1 /\ x.b = 1
  /\ x.up # 0 => x.up \in DOMAIN m /\ Paired(A, B, m[x.up].a, m[x.up].b, x)
HasA(m, c, p) == (\E i \in DOMAIN m : m[i].a = p) \/ (\E j \in DOMAIN c : c[j].a = p)
HasB(m, c, p) == (\E i \in DOMAIN m : m[i].b = p) \/ (\E j \in DOMAIN c : c[j].b = p)

WalkTyped(m, c) == m \in Seq(Merged) /\ c \in Seq(Call)
WalkPlaced(A, B, m, c) ==
  /\ \A i \in DOMAIN m : Placed(A, B, m, m[i]) /\ m[i].up < i
  /\ \A j \in DOMAIN c : Placed(A, B, m, c[j])
WalkApart(m, c) ==
  /\ AllApart(m) /\ AllApart(c)
  /\ \A i \in DOMAIN m, j \in DOMAIN c : Apart(m[i], c[j])
WalkAll(A, B, m, c) ==
  /\ HasA(m, c, 1) /\ HasB(m, c, 1)
  /\ \A i \in DOMAIN m : \A p : Child(A, m[i].a, p) => HasA(m, c, p)
  /\ \A i \in DOMAIN m : \A p : Child(B, m[i].b, p) => HasB(m, c, p)
WalkStatus(A, B, m) == \A i \in DOMAIN m : m[i].status = StatusOf(A, B, m[i])
Walked(A, B, m, c) ==
  /\ WalkTyped(m, c) /\ WalkPlaced(A, B, m, c) /\ WalkApart(m, c)
  /\ WalkAll(A, B, m, c) /\ WalkStatus(A, B, m)

LEMMA CallMade ==
  ASSUME NEW A, NEW B, IsTree(A), IsTree(B), NEW m, NEW c, Walked(A, B, m, c), c # <<>>,
         NEW x \in Merged, x.a = c[1].a, x.b = c[1].b, x.up = c[1].up, x.status = StatusOf(A, B, x),
         NEW r, Below(A, B, c[1].a, c[1].b, Len(m) + 1, r)
  PROVE  Walked(A, B, Append(m, x), r \o Tail(c))
<1>0. PICK l \in Nat : l = Len(m) /\ DOMAIN m = 1 .. l
  BY DEF Walked, WalkTyped
<1>1. PICK k \in Nat : k + 1 = Len(c) /\ DOMAIN c = 1 .. k + 1
  <2>1. c \in Seq(Call) /\ c # <<>>
    BY DEF Walked, WalkTyped
  <2>2. Len(c) \in Nat /\ Len(c) # 0 /\ DOMAIN c = 1 .. Len(c)
    BY <2>1
  <2>3. Len(c) - 1 \in Nat /\ (Len(c) - 1) + 1 = Len(c)
    BY <2>2
  <2> QED
    BY <2>2, <2>3
<1>2. PICK n : n = Append(m, x)
  OBVIOUS
<1>3. PICK t : t = Tail(c)
  OBVIOUS
<1>4. PICK d : d = r \o t
  BY <1>3
<1>5. m \in Seq(Merged) /\ c \in Seq(Call) /\ r \in Seq(Call)
  BY DEF Walked, WalkTyped, Below
<1>6. n \in Seq(Merged) /\ DOMAIN n = 1 .. l + 1 /\ n[l + 1] = x
  BY <1>0, <1>2, <1>5
<1>7. \A i \in 1 .. l : n[i] = m[i]
  BY <1>0, <1>2, <1>5
<1>8. \A i \in 1 .. l + 1 : i \in 1 .. l \/ i = l + 1
  OBVIOUS
<1>9. t \in Seq(Call) /\ DOMAIN t = 1 .. k
  BY <1>1, <1>3, <1>5
<1>10. \A h \in 1 .. k : t[h] = c[h + 1]
  BY <1>1, <1>3, <1>5
<1>11. \A h \in 1 .. k : h + 1 \in DOMAIN c /\ h + 1 # 1
  BY <1>1
<1>12. /\ d \in Seq(Call)
       /\ \A j \in DOMAIN d : \/ j \in DOMAIN r /\ d[j] = r[j]
                              \/ \E h \in 1 .. k : d[j] = t[h]
       /\ \A j \in DOMAIN r : j \in DOMAIN d /\ d[j] = r[j]
       /\ \A h \in 1 .. k : Len(r) + h \in DOMAIN d /\ d[Len(r) + h] = t[h]
  <2>1. /\ d \in Seq(Call)
        /\ \A j \in DOMAIN d : \/ j \in DOMAIN r /\ d[j] = r[j]
                               \/ \E h \in DOMAIN t : j = Len(r) + h /\ d[j] = t[h]
        /\ \A j \in DOMAIN r : j \in DOMAIN d /\ d[j] = r[j]
        /\ \A h \in DOMAIN t : Len(r) + h \in DOMAIN d /\ d[Len(r) + h] = t[h]
    <3>1. InTurn(Call, r, t, d)
      BY <1>4, <1>5, <1>9, InConcat
    <3> QED
      BY <3>1 DEF InTurn
  <2> QED
    BY <1>9, <2>1
<1>13. 1 \in DOMAIN c /\ Placed(A, B, m, c[1])
  <2>1. 1 \in DOMAIN c
    BY <1>1
  <2> QED
    BY <2>1 DEF Walked, WalkPlaced
<1>14. /\ \A j \in DOMAIN r : Paired(A, B, c[1].a, c[1].b, r[j]) /\ r[j].up = l + 1
       /\ AllApart(r)
  BY <1>0 DEF Below
\* a process of a new call is in no diff node and in no other call
<1>15. ASSUME NEW j \in DOMAIN r, NEW y, Placed(A, B, m, y)
       PROVE  Apart(r[j], y)
  <2>1. Paired(A, B, c[1].a, c[1].b, r[j])
    BY <1>14
  <2>2. \A h \in DOMAIN m : Apart(m[h], c[1])
    BY <1>13 DEF Walked, WalkApart
  <2>3. ASSUME r[j].a # 0, r[j].a = y.a PROVE FALSE
    <3>1. Child(A, c[1].a, r[j].a)
      BY <2>1, <2>3 DEF Paired
    <3>2. A[1].parent = 0
      BY TreeFacts
    <3>3. y.up # 0
      BY <1>15, <2>3, <3>1, <3>2 DEF Placed, Child, Nobody
    <3>4. y.up \in DOMAIN m /\ Paired(A, B, m[y.up].a, m[y.up].b, y)
      BY <1>15, <3>3 DEF Placed
    <3>5. Child(A, m[y.up].a, y.a)
      BY <2>3, <3>4 DEF Paired
    <3>6. m[y.up].a = c[1].a /\ c[1].a # 0
      BY <2>3, <3>1, <3>5 DEF Child, Nobody
    <3> QED
      BY <2>2, <3>4, <3>6 DEF Apart
  <2>4. ASSUME r[j].b # 0, r[j].b = y.b PROVE FALSE
    <3>1. Child(B, c[1].b, r[j].b)
      BY <2>1, <2>4 DEF Paired
    <3>2. B[1].parent = 0
      BY TreeFacts
    <3>3. y.up # 0
      BY <1>15, <2>4, <3>1, <3>2 DEF Placed, Child, Nobody
    <3>4. y.up \in DOMAIN m /\ Paired(A, B, m[y.up].a, m[y.up].b, y)
      BY <1>15, <3>3 DEF Placed
    <3>5. Child(B, m[y.up].b, y.b)
      BY <2>4, <3>4 DEF Paired
    <3>6. m[y.up].b = c[1].b /\ c[1].b # 0
      BY <2>4, <3>1, <3>5 DEF Child, Nobody
    <3> QED
      BY <2>2, <3>4, <3>6 DEF Apart
  <2> QED
    BY <2>3, <2>4 DEF Apart
<1>16. \A y, z : Apart(y, z) <=> Apart(z, y)
  BY DEF Apart
<1>18. Placed(A, B, m, x)
  BY <1>13 DEF Placed, Paired
<1>19. ASSUME NEW y, Placed(A, B, m, y) PROVE Placed(A, B, n, y)
  <2>1. y.up # 0 => y.up \in 1 .. l
    BY <1>0, <1>19 DEF Placed
  <2>2. y.up # 0 => y.up \in DOMAIN n /\ n[y.up] = m[y.up]
    BY <1>6, <1>7, <2>1
  <2> QED
    BY <1>19, <2>2 DEF Placed
<1>20. WalkTyped(n, d)
  BY <1>6, <1>12 DEF WalkTyped
<1>21. WalkPlaced(A, B, n, d)
  <2>1. ASSUME NEW i \in 1 .. l + 1 PROVE Placed(A, B, n, n[i]) /\ n[i].up < i
    <3>1. CASE i \in 1 .. l
      <4>1. Placed(A, B, m, m[i]) /\ m[i].up < i
        BY <1>0, <3>1 DEF Walked, WalkPlaced
      <4> QED
        BY <1>7, <1>19, <3>1, <4>1
    <3>2. CASE i = l + 1
      <4>1. x.up < l + 1
        <5>1. x.up = 0 \/ x.up \in 1 .. l
          BY <1>0, <1>18 DEF Placed
        <5> QED
          BY <5>1
      <4> QED
        BY <1>6, <1>18, <1>19, <3>2, <4>1
    <3> QED
      BY <1>8, <3>1, <3>2
  <2>2. ASSUME NEW j \in DOMAIN d PROVE Placed(A, B, n, d[j])
    <3>1. CASE j \in DOMAIN r /\ d[j] = r[j]
      <4>1. Paired(A, B, c[1].a, c[1].b, r[j]) /\ r[j].up = l + 1
        BY <1>14, <3>1
      <4>2. l + 1 \in DOMAIN n /\ n[l + 1].a = c[1].a /\ n[l + 1].b = c[1].b /\ l + 1 # 0
        BY <1>6
      <4>3. Placed(A, B, n, r[j])
        BY <4>1, <4>2 DEF Placed
      <4> QED
        BY <3>1, <4>3
    <3>2. ASSUME NEW h \in 1 .. k, d[j] = t[h] PROVE Placed(A, B, n, d[j])
      <4>1. d[j] = c[h + 1] /\ h + 1 \in DOMAIN c
        BY <1>10, <1>11, <3>2
      <4>2. Placed(A, B, m, d[j])
        BY <4>1 DEF Walked, WalkPlaced
      <4> QED
        BY <1>19, <4>2
    <3> QED
      BY <1>12, <3>1, <3>2
  <2> QED
    BY <1>6, <2>1, <2>2 DEF WalkPlaced
<1>22. WalkApart(n, d)
  <2>1. AllApart(n)
    <3>1. \A i, j \in 1 .. l : i # j => Apart(m[i], m[j])
      BY <1>0 DEF Walked, WalkApart, AllApart
    <3>2. \A i \in 1 .. l : Apart(m[i], c[1])
      BY <1>0, <1>13 DEF Walked, WalkApart
    <3>3. \A i \in 1 .. l : Apart(m[i], x) /\ Apart(x, m[i])
      BY <3>2 DEF Apart
    <3>4. ASSUME NEW i \in 1 .. l + 1, NEW j \in 1 .. l + 1, i # j PROVE Apart(n[i], n[j])
      <4>1. CASE i \in 1 .. l /\ j \in 1 .. l
        BY <1>7, <3>1, <3>4, <4>1
      <4>2. CASE i \in 1 .. l /\ j = l + 1
        BY <1>6, <1>7, <3>3, <4>2
      <4>3. CASE i = l + 1 /\ j \in 1 .. l
        BY <1>6, <1>7, <3>3, <4>3
      <4> QED
        BY <1>8, <3>4, <4>1, <4>2, <4>3
    <3> QED
      BY <1>6, <3>4 DEF AllApart
  <2>2. AllApart(t)
    <3>1. ASSUME NEW i \in 1 .. k, NEW j \in 1 .. k, i # j PROVE Apart(t[i], t[j])
      <4>1. i + 1 \in DOMAIN c /\ j + 1 \in DOMAIN c /\ i + 1 # j + 1
        BY <1>11, <3>1
      <4>2. Apart(c[i + 1], c[j + 1])
        BY <4>1 DEF Walked, WalkApart, AllApart
      <4> QED
        BY <1>10, <4>2
    <3> QED
      BY <1>9, <3>1 DEF AllApart
  <2>3. ASSUME NEW h \in 1 .. k PROVE Placed(A, B, m, t[h])
    BY <1>10, <1>11 DEF Walked, WalkPlaced
  <2>4. AllApart(d)
    <3>1. \A i \in DOMAIN r, h \in DOMAIN t : Apart(r[i], t[h])
      BY <1>9, <1>15, <2>3
    <3> QED
      BY <1>4, <1>5, <1>9, <1>14, <2>2, <3>1, ApartConcat
  <2>5. ASSUME NEW i \in 1 .. l + 1, NEW j \in DOMAIN d PROVE Apart(n[i], d[j])
    <3>0. Placed(A, B, m, n[i])
      <4>1. CASE i \in 1 .. l
        <5>1. Placed(A, B, m, m[i])
          BY <1>0, <4>1 DEF Walked, WalkPlaced
        <5> QED
          BY <1>7, <4>1, <5>1
      <4>2. CASE i = l + 1
        BY <1>6, <1>18, <4>2
      <4> QED
        BY <1>8, <4>1, <4>2
    <3>1. CASE j \in DOMAIN r /\ d[j] = r[j]
      <4>1. Apart(r[j], n[i])
        BY <1>15, <3>0, <3>1
      <4> QED
        BY <1>16, <3>1, <4>1
    <3>2. ASSUME NEW h \in 1 .. k, d[j] = t[h] PROVE Apart(n[i], d[j])
      <4>1. d[j] = c[h + 1] /\ h + 1 \in DOMAIN c /\ h + 1 # 1
        BY <1>10, <1>11, <3>2
      <4>2. CASE i \in 1 .. l
        <5>1. Apart(m[i], c[h + 1])
          BY <1>0, <4>1, <4>2 DEF Walked, WalkApart
        <5> QED
          BY <1>7, <4>1, <4>2, <5>1
      <4>3. CASE i = l + 1
        <5>1. Apart(c[1], c[h + 1])
          BY <1>13, <4>1 DEF Walked, WalkApart, AllApart
        <5>2. Apart(x, c[h + 1])
          BY <5>1 DEF Apart
        <5> QED
          BY <1>6, <4>1, <4>3, <5>2
      <4> QED
        BY <1>8, <4>2, <4>3
    <3> QED
      BY <1>12, <3>1, <3>2
  <2> QED
    BY <1>6, <2>1, <2>4, <2>5 DEF WalkApart
<1>23. ASSUME NEW p, HasA(m, c, p) PROVE HasA(n, d, p)
  <2>1. ASSUME NEW i \in 1 .. l, m[i].a = p PROVE HasA(n, d, p)
    <3>1. i \in DOMAIN n /\ n[i].a = p
      BY <1>6, <1>7, <2>1
    <3> QED
      BY <3>1 DEF HasA
  <2>2. ASSUME NEW j \in 1 .. k + 1, c[j].a = p PROVE HasA(n, d, p)
    <3>1. CASE j = 1
      <4>1. l + 1 \in DOMAIN n /\ n[l + 1].a = p
        BY <1>6, <2>2, <3>1
      <4> QED
        BY <4>1 DEF HasA
    <3>2. CASE j # 1
      <4>1. PICK h \in 1 .. k : h + 1 = j
        <5>1. j - 1 \in 1 .. k /\ (j - 1) + 1 = j
          BY <3>2
        <5> QED
          BY <5>1
      <4>2. Len(r) + h \in DOMAIN d /\ d[Len(r) + h].a = p
        BY <1>10, <1>12, <2>2, <4>1
      <4> QED
        BY <4>2 DEF HasA
    <3> QED
      BY <3>1, <3>2
  <2> QED
    BY <1>0, <1>1, <1>23, <2>1, <2>2 DEF HasA
<1>24. ASSUME NEW p, HasB(m, c, p) PROVE HasB(n, d, p)
  <2>1. ASSUME NEW i \in 1 .. l, m[i].b = p PROVE HasB(n, d, p)
    <3>1. i \in DOMAIN n /\ n[i].b = p
      BY <1>6, <1>7, <2>1
    <3> QED
      BY <3>1 DEF HasB
  <2>2. ASSUME NEW j \in 1 .. k + 1, c[j].b = p PROVE HasB(n, d, p)
    <3>1. CASE j = 1
      <4>1. l + 1 \in DOMAIN n /\ n[l + 1].b = p
        BY <1>6, <2>2, <3>1
      <4> QED
        BY <4>1 DEF HasB
    <3>2. CASE j # 1
      <4>1. PICK h \in 1 .. k : h + 1 = j
        <5>1. j - 1 \in 1 .. k /\ (j - 1) + 1 = j
          BY <3>2
        <5> QED
          BY <5>1
      <4>2. Len(r) + h \in DOMAIN d /\ d[Len(r) + h].b = p
        BY <1>10, <1>12, <2>2, <4>1
      <4> QED
        BY <4>2 DEF HasB
    <3> QED
      BY <3>1, <3>2
  <2> QED
    BY <1>0, <1>1, <1>24, <2>1, <2>2 DEF HasB
<1>25. WalkAll(A, B, n, d)
  <2>1. HasA(n, d, 1) /\ HasB(n, d, 1)
    BY <1>23, <1>24 DEF Walked, WalkAll
  <2>2. ASSUME NEW i \in 1 .. l + 1, NEW p, Child(A, n[i].a, p) PROVE HasA(n, d, p)
    <3>1. CASE i \in 1 .. l
      <4>1. HasA(m, c, p)
        BY <1>0, <1>7, <2>2, <3>1 DEF Walked, WalkAll
      <4> QED
        BY <1>23, <4>1
    <3>2. CASE i = l + 1
      <4>1. PICK j \in DOMAIN r : r[j].a = p
        BY <1>6, <2>2, <3>2 DEF Below
      <4>2. j \in DOMAIN d /\ d[j].a = p
        BY <1>12, <4>1
      <4> QED
        BY <4>2 DEF HasA
    <3> QED
      BY <1>8, <3>1, <3>2
  <2>3. ASSUME NEW i \in 1 .. l + 1, NEW p, Child(B, n[i].b, p) PROVE HasB(n, d, p)
    <3>1. CASE i \in 1 .. l
      <4>1. HasB(m, c, p)
        BY <1>0, <1>7, <2>3, <3>1 DEF Walked, WalkAll
      <4> QED
        BY <1>24, <4>1
    <3>2. CASE i = l + 1
      <4>1. PICK j \in DOMAIN r : r[j].b = p
        BY <1>6, <2>3, <3>2 DEF Below
      <4>2. j \in DOMAIN d /\ d[j].b = p
        BY <1>12, <4>1
      <4> QED
        BY <4>2 DEF HasB
    <3> QED
      BY <1>8, <3>1, <3>2
  <2> QED
    BY <1>6, <2>1, <2>2, <2>3 DEF WalkAll
<1>26. WalkStatus(A, B, n)
  <2>1. ASSUME NEW i \in 1 .. l + 1 PROVE n[i].status = StatusOf(A, B, n[i])
    <3>1. CASE i \in 1 .. l
      BY <1>0, <1>7, <3>1 DEF Walked, WalkStatus
    <3>2. CASE i = l + 1
      BY <1>6, <3>2
    <3> QED
      BY <1>8, <3>1, <3>2
  <2> QED
    BY <1>6, <2>1 DEF WalkStatus
<1> QED
  BY <1>2, <1>3, <1>4, <1>20, <1>21, <1>22, <1>25, <1>26 DEF Walked

LEMMA WalkUp ==
  ASSUME NEW A, NEW B, NEW m, NEW c, Walked(A, B, m, c)
  PROVE  /\ Len(m) \in Nat /\ DOMAIN m = 1 .. Len(m)
         /\ \A i \in DOMAIN m : m[i] \in Merged /\ m[i].up \in Nat /\ m[i].up < i
         /\ \A i \in DOMAIN m : m[i].up = 0 <=> i = 1
         /\ \A i \in DOMAIN m : i # 1 => m[i].up \in DOMAIN m
<1>1. m \in Seq(Merged)
  BY DEF Walked, WalkTyped
<1>2. Len(m) \in Nat /\ DOMAIN m = 1 .. Len(m) /\ \A i \in DOMAIN m : m[i] \in Merged
  BY <1>1
<1>3. \A i \in DOMAIN m : m[i].up \in Nat /\ m[i].up < i /\ Placed(A, B, m, m[i])
  BY <1>2 DEF Merged, Walked, WalkPlaced
<1>4. ASSUME NEW i \in DOMAIN m PROVE m[i].up = 0 <=> i = 1
  <2>1. i = 1 => m[i].up = 0
    <3> SUFFICES ASSUME i = 1 PROVE m[i].up = 0
      OBVIOUS
    <3>1. m[i].up \in Nat /\ m[i].up < i
      BY <1>3
    <3> QED
      BY <3>1
  <2>2. ASSUME m[i].up = 0, i # 1 PROVE FALSE
    <3>1. 1 \in DOMAIN m
      BY <1>2
    <3>2. m[1].up \in Nat /\ m[1].up < 1
      BY <1>3, <3>1
    <3>3. m[1].up = 0
      BY <3>2
    <3>4. m[1].a = 1 /\ m[i].a = 1
      BY <1>3, <2>2, <3>1, <3>3 DEF Placed
    <3>5. Apart(m[1], m[i])
      BY <2>2, <3>1 DEF Walked, WalkApart, AllApart
    <3> QED
      BY <3>4, <3>5 DEF Apart
  <2> QED
    BY <2>1, <2>2
<1> QED
  BY <1>2, <1>3, <1>4 DEF Placed

\* collect_topmost_changes() finds a node if any is not matched.
VisitedBy(v) == v = [n \in DOMAIN merged |-> GoesTo(n, merged[n].up) /\ (n = 1 \/ v[merged[n].up])]

LEMMA NodesVisited ==
  ASSUME Walked(treeA, treeB, merged, calls)
  PROVE  \E v : /\ \A status : Topmost(status) = {n \in DOMAIN merged : v[n] /\ merged[n].status = status}
                /\ \A n \in DOMAIN merged : v[n] <=> GoesTo(n, merged[n].up) /\ (n = 1 \/ v[merged[n].up])
<1>0. PICK l \in Nat : l = Len(merged) /\ DOMAIN merged = 1 .. l
  BY WalkUp
<1>1. /\ \A i \in 1 .. l : merged[i].up \in Nat /\ merged[i].up < i /\ (merged[i].up = 0 <=> i = 1)
      /\ \A i \in 1 .. l : i # 1 => merged[i].up \in 1 .. l
  BY <1>0, WalkUp
<1>2. \E v : VisitedBy(v)
  <2> DEFINE Goes(n) == GoesTo(n, merged[n].up)
             up == [n \in 1 .. l |-> merged[n].up]
             step == [x \in BOOLEAN \X (1 .. l) |-> IF Goes(x[2]) /\ x[1] THEN TRUE ELSE FALSE]
  <2>1. up \in [1 .. l -> Nat] /\ \A i \in 1 .. l : up[i] = merged[i].up /\ up[i] < i
    BY <1>1
  <2> HIDE DEF Goes
  <2>2. step \in [BOOLEAN \X (1 .. l) -> BOOLEAN]
    OBVIOUS
  <2>3. \A x \in BOOLEAN, n \in 1 .. l : step[<<x, n>>] <=> Goes(n) /\ x
    OBVIOUS
  <2> HIDE DEF up, step
  <2>4. PICK f : Along(f, BOOLEAN, l, up, TRUE, step)
    BY <2>1, <2>2, AlongParents
  <2>5. /\ f \in [1 .. l -> BOOLEAN]
        /\ \A i \in 1 .. l : f[i] = IF up[i] = 0 THEN TRUE ELSE step[<<f[up[i]], i>>]
    BY <2>4 DEF Along
  <2>6. ASSUME NEW i \in 1 .. l PROVE f[i] <=> Goes(i) /\ (i = 1 \/ f[merged[i].up])
    <3>1. CASE i = 1
      <4>1. f[i] = TRUE
        BY <1>1, <2>1, <2>5, <3>1
      <4>2. Goes(i)
        BY <3>1 DEF Goes, GoesTo
      <4> QED
        BY <3>1, <4>1, <4>2
    <3>2. CASE i # 1
      <4>1. up[i] # 0 /\ up[i] \in 1 .. l /\ up[i] = merged[i].up
        BY <1>1, <2>1, <3>2
      <4>2. f[up[i]] \in BOOLEAN /\ f[i] = step[<<f[up[i]], i>>]
        BY <2>5, <4>1
      <4>3. step[<<f[up[i]], i>>] <=> Goes(i) /\ f[up[i]]
        BY <2>3, <4>2
      <4> QED
        BY <3>2, <4>1, <4>2, <4>3
    <3> QED
      BY <3>1, <3>2
  <2>7. ASSUME NEW i \in 1 .. l PROVE f[i] = (Goes(i) /\ (i = 1 \/ f[merged[i].up]))
    <3>1. f[i] \in BOOLEAN
      BY <2>5
    <3>2. f[i] <=> Goes(i) /\ (i = 1 \/ f[merged[i].up])
      BY <2>6
    <3> QED
      BY <3>1, <3>2
  <2>8. f = [n \in 1 .. l |-> Goes(n) /\ (n = 1 \/ f[merged[n].up])]
    BY <2>5, <2>7
  <2> QED
    BY <1>0, <2>8 DEF VisitedBy, Goes
<1>3. PICK v : v = CHOOSE u : VisitedBy(u)
  OBVIOUS
<1>4. VisitedBy(v)
  BY <1>2, <1>3
<1>5. \A status : Topmost(status) = {n \in DOMAIN merged : v[n] /\ merged[n].status = status}
  BY <1>3 DEF Topmost, VisitedBy
<1>6. \A n \in DOMAIN merged : v[n] <=> GoesTo(n, merged[n].up) /\ (n = 1 \/ v[merged[n].up])
  BY <1>4 DEF VisitedBy
<1> QED
  BY <1>5, <1>6

LEMMA NodeFacts ==
  ASSUME NEW A, NEW B, IsTree(A), IsTree(B), NEW m, NEW c, Walked(A, B, m, c), NEW i \in DOMAIN m
  PROVE  /\ m[i].a \in Nat /\ m[i].b \in Nat /\ (m[i].a # 0 \/ m[i].b # 0)
         /\ m[i].a # 0 => m[i].a \in DOMAIN A
         /\ m[i].b # 0 => m[i].b \in DOMAIN B
         /\ i = 1 => m[i].a = 1 /\ m[i].b = 1
         /\ i # 1 => Paired(A, B, m[m[i].up].a, m[m[i].up].b, m[i])
         /\ m[i].status \in {"same", "changed"} <=> m[i].a # 0 /\ m[i].b # 0
         /\ m[i].status = "same" <=> m[i].a # 0 /\ m[i].b # 0 /\ ~ Beyond(Delta(A[m[i].a], B[m[i].b]))
         /\ m[i].status \in {"same", "changed", "added", "removed"}
         /\ m[i].status = "added" <=> m[i].a = 0
         /\ m[i].status = "removed" <=> m[i].b = 0
<1>1. m[i] \in Merged /\ (m[i].up = 0 <=> i = 1)
  BY WalkUp
<1>2. Placed(A, B, m, m[i])
  BY DEF Walked, WalkPlaced
<1>3. m[i].status = StatusOf(A, B, m[i])
  BY DEF Walked, WalkStatus
<1>4. m[i].a \in Nat /\ m[i].b \in Nat /\ m[i].status \in {"same", "changed", "added", "removed"}
  BY <1>1 DEF Merged
<1>5. 1 \in DOMAIN A /\ 1 \in DOMAIN B
  BY TreeFacts
<1>6. CASE i = 1
  <2>1. m[i].a = 1 /\ m[i].b = 1
    BY <1>1, <1>2, <1>6 DEF Placed
  <2> QED
    BY <1>3, <1>4, <1>5, <1>6, <2>1 DEF StatusOf
<1>7. CASE i # 1
  <2>1. Paired(A, B, m[m[i].up].a, m[m[i].up].b, m[i])
    BY <1>1, <1>2, <1>7 DEF Placed
  <2>2. /\ m[i].a # 0 \/ m[i].b # 0
        /\ m[i].a # 0 => m[i].a \in DOMAIN A
        /\ m[i].b # 0 => m[i].b \in DOMAIN B
    BY <2>1 DEF Paired, Child
  <2> QED
    BY <1>3, <1>4, <1>7, <2>1, <2>2 DEF StatusOf
<1> QED
  BY <1>6, <1>7

LEMMA DifferenceFound ==
  ASSUME IsTree(treeA), IsTree(treeB), Walked(treeA, treeB, merged, calls)
  PROVE  TreesDiffer <=> \E n \in DOMAIN merged : merged[n].status # "same"
<1>0. PICK l \in Nat : l = Len(merged) /\ DOMAIN merged = 1 .. l
  BY WalkUp
<1>1. /\ \A i \in 1 .. l : merged[i].up \in Nat /\ merged[i].up < i /\ (merged[i].up = 0 <=> i = 1)
      /\ \A i \in 1 .. l : i # 1 => merged[i].up \in 1 .. l
  BY <1>0, WalkUp
<1>2. PICK v : /\ \A status : Topmost(status) = {n \in DOMAIN merged : v[n] /\ merged[n].status = status}
               /\ \A n \in DOMAIN merged : v[n] <=> GoesTo(n, merged[n].up) /\ (n = 1 \/ v[merged[n].up])
  BY NodesVisited
<1>3. ASSUME TreesDiffer PROVE \E n \in DOMAIN merged : merged[n].status # "same"
  <2>1. CASE \E n \in DOMAIN merged : merged[n].status = "changed"
    BY <2>1
  <2>2. CASE Topmost("added") # {}
    BY <1>2, <2>2
  <2>3. CASE Topmost("removed") # {}
    BY <1>2, <2>3
  <2> QED
    BY <1>3, <2>1, <2>2, <2>3 DEF TreesDiffer
<1>4. ASSUME \E n \in DOMAIN merged : merged[n].status # "same" PROVE TreesDiffer
  <2> SUFFICES ASSUME \A n \in DOMAIN merged : merged[n].status # "changed"
               PROVE  Topmost("added") # {} \/ Topmost("removed") # {}
    BY DEF TreesDiffer
  <2> DEFINE T == {n \in 1 .. l : merged[n].status # "same"}
  <2>1. T # {} /\ T \subseteq Nat
    BY <1>0, <1>4
  <2>2. PICK n \in T : \A k \in T : n <= k
    BY <2>1, Smallest
  <2>3. \A k \in 1 .. n - 1 : k \in 1 .. l /\ Matched(k)
    <3>1. \A k \in 1 .. n - 1 : k \in 1 .. l /\ merged[k].status = "same"
      BY <2>2
    <3> QED
      BY <3>1 DEF Matched
  <2> DEFINE K == {k \in Nat : \A j \in 1 .. n : j <= k => v[j]}
  <2>4. 0 \in K
    OBVIOUS
  <2>5. ASSUME NEW k \in Nat, k \in K PROVE k + 1 \in K
    <3> SUFFICES ASSUME k + 1 \in 1 .. n PROVE v[k + 1]
      BY <2>5
    <3>1. k + 1 \in DOMAIN merged
      BY <1>0
    <3>2. v[k + 1] <=> GoesTo(k + 1, merged[k + 1].up) /\ (k + 1 = 1 \/ v[merged[k + 1].up])
      BY <1>2, <3>1
    <3>3. CASE k + 1 = 1
      BY <3>2, <3>3 DEF GoesTo
    <3>4. CASE k + 1 # 1
      <4>1. merged[k + 1].up \in 1 .. l /\ merged[k + 1].up < k + 1
        BY <1>0, <1>1, <3>1, <3>4
      <4>2. PICK u \in Nat : u = merged[k + 1].up /\ u \in 1 .. n - 1 /\ u <= k /\ u \in 1 .. n
        BY <4>1
      <4>3. v[u]
        BY <2>5, <4>2
      <4>4. Matched(u)
        BY <2>3, <4>2
      <4> QED
        BY <3>2, <4>2, <4>3, <4>4 DEF GoesTo
    <3> QED
      BY <3>3, <3>4
  <2> HIDE DEF K
  <2>6. Nat \subseteq K
    BY <2>4, <2>5, SetInduction
  <2>7. v[n]
    <3>1. n \in Nat /\ n \in K /\ n \in 1 .. n
      BY <2>6
    <3> QED
      BY <3>1 DEF K
  <2>8. n \in DOMAIN merged /\ merged[n].status \in {"added", "removed"}
    <3>1. n \in DOMAIN merged /\ merged[n].status # "same" /\ merged[n].status # "changed"
      BY <1>0
    <3>2. merged[n].status \in {"same", "changed", "added", "removed"}
      BY <3>1, NodeFacts
    <3> QED
      BY <3>1, <3>2
  <2>9. n \in Topmost(merged[n].status)
    BY <1>2, <2>7, <2>8
  <2> QED
    BY <2>8, <2>9
<1> QED
  BY <1>3, <1>4

LEMMA WalkedAlike ==
  ASSUME NEW A, NEW B, IsTree(A), IsTree(B), NEW m, NEW c, Walked(A, B, m, c),
         NEW sa, NEW sb, Signed(A, sa), Signed(B, sb)
  PROVE  \A i \in DOMAIN m :
           /\ m[i].a # 0 /\ m[i].b # 0 => sa[m[i].a] = sb[m[i].b]
           /\ m[i].b = 0 => \A y \in DOMAIN B : sa[m[i].a] # sb[y]
           /\ m[i].a = 0 => \A x \in DOMAIN A : sa[x] # sb[m[i].b]
<1> DEFINE Good(i) == /\ m[i].a # 0 /\ m[i].b # 0 => sa[m[i].a] = sb[m[i].b]
                      /\ m[i].b = 0 => \A y \in DOMAIN B : sa[m[i].a] # sb[y]
                      /\ m[i].a = 0 => \A x \in DOMAIN A : sa[x] # sb[m[i].b]
           K == {k \in Nat : \A i \in DOMAIN m : i <= k => Good(i)}
<1>0. PICK l \in Nat : l = Len(m) /\ DOMAIN m = 1 .. l
  BY WalkUp
<1>1. 0 \in K
  BY <1>0
<1>2. ASSUME NEW k \in Nat, k \in K PROVE k + 1 \in K
  <2> SUFFICES ASSUME k + 1 \in DOMAIN m PROVE Good(k + 1)
    <3> HIDE DEF Good
    <3> QED
      BY <1>0, <1>2
  <2>0. PICK i : i = k + 1
    OBVIOUS
  <2>1. CASE i = 1
    <3>1. m[i].a = 1 /\ m[i].b = 1
      BY <2>0, <2>1, NodeFacts
    <3>2. sa[1] = sb[1]
      BY DEF Signed
    <3> QED
      BY <2>0, <3>1, <3>2
  <2>2. CASE i # 1
    <3>1. PICK u : u = m[i].up
      OBVIOUS
    <3>2. u \in DOMAIN m /\ u \in Nat /\ u < i
      BY <2>0, <2>2, <3>1, WalkUp
    <3>3. Good(u)
      BY <1>2, <2>0, <3>2
    <3> DEFINE a == m[i].a
               b == m[i].b
               pa == m[u].a
               pb == m[u].b
    <3>4. Paired(A, B, pa, pb, m[i])
      BY <2>0, <2>2, <3>1, NodeFacts
    <3>5. A[1].parent = 0 /\ B[1].parent = 0
      BY TreeFacts
    <3>6. a # 0 => a \in DOMAIN A /\ A[a].parent = pa /\ pa # 0 /\ a # 1
      BY <3>4, <3>5 DEF Paired, Child, Nobody
    <3>7. b # 0 => b \in DOMAIN B /\ B[b].parent = pb /\ pb # 0 /\ b # 1
      BY <3>4, <3>5 DEF Paired, Child, Nobody
    <3>8. /\ pa # 0 => pa \in DOMAIN A
          /\ pb # 0 => pb \in DOMAIN B
      BY <3>2, NodeFacts
    <3>9. ASSUME a # 0, b # 0 PROVE sa[a] = sb[b]
      <4>1. sa[pa] = sb[pb]
        BY <3>3, <3>6, <3>7, <3>9
      <4>2. Alike(A, B, a, b)
        BY <3>4, <3>9 DEF Paired
      <4> QED
        BY <3>6, <3>7, <3>9, <4>1, <4>2, SignedAlike DEF Alike
    <3>10. ASSUME b = 0, NEW y \in DOMAIN B, sa[a] = sb[y] PROVE FALSE
      <4>1. a # 0
        BY <3>4, <3>10 DEF Paired
      <4>2. a \in DOMAIN A /\ A[a].parent = pa /\ pa # 0 /\ a # 1
        BY <3>6, <4>1
      <4> HIDE DEF a, b, pa, pb
      <4>3. y # 1 /\ sa[pa] = sb[B[y].parent] /\ Alike(A, B, a, y)
        BY <3>10, <4>2, SignedAlike DEF Alike
      <4>4. B[y].parent \in DOMAIN B /\ B[y].parent # 0
        <5>1. Len(B) \in Nat /\ DOMAIN B = 1 .. Len(B) /\ \A n \in 2 .. Len(B) : B[n].parent \in 1 .. n - 1
          BY TreeFacts
        <5>2. y \in 2 .. Len(B)
          BY <4>3, <5>1
        <5> QED
          BY <5>1, <5>2
      <4>5. pb # 0
        BY <3>3, <4>3, <4>4 DEF pa, pb
      <4>6. sb[pb] = sb[B[y].parent]
        BY <3>3, <4>2, <4>3, <4>5 DEF pa, pb
      <4>7. pb = B[y].parent
        BY <3>8, <4>4, <4>5, <4>6, SignedApart
      <4>8. Child(B, pb, y)
        BY <4>5, <4>7 DEF Child, Nobody
      <4> QED
        BY <3>4, <3>10, <4>3, <4>8 DEF Paired, a, b
    <3>11. ASSUME a = 0, NEW x \in DOMAIN A, sa[x] = sb[b] PROVE FALSE
      <4>1. b # 0
        BY <3>4, <3>11 DEF Paired
      <4>2. b \in DOMAIN B /\ B[b].parent = pb /\ pb # 0 /\ b # 1
        BY <3>7, <4>1
      <4> HIDE DEF a, b, pa, pb
      <4>3. x # 1 /\ sa[A[x].parent] = sb[pb] /\ Alike(A, B, x, b)
        BY <3>11, <4>2, SignedAlike DEF Alike
      <4>4. A[x].parent \in DOMAIN A /\ A[x].parent # 0
        <5>1. Len(A) \in Nat /\ DOMAIN A = 1 .. Len(A) /\ \A n \in 2 .. Len(A) : A[n].parent \in 1 .. n - 1
          BY TreeFacts
        <5>2. x \in 2 .. Len(A)
          BY <4>3, <5>1
        <5> QED
          BY <5>1, <5>2
      <4>5. pa # 0
        BY <3>3, <4>3, <4>4 DEF pa, pb
      <4>6. sa[pa] = sa[A[x].parent]
        BY <3>3, <4>2, <4>3, <4>5 DEF pa, pb
      <4>7. pa = A[x].parent
        BY <3>8, <4>4, <4>5, <4>6, SignedApart
      <4>8. Child(A, pa, x)
        BY <4>5, <4>7 DEF Child, Nobody
      <4> QED
        BY <3>4, <3>11, <4>3, <4>8 DEF Paired, a, b
    <3> QED
      BY <2>0, <3>9, <3>10, <3>11
  <2> QED
    BY <2>1, <2>2
<1> HIDE DEF K
<1>3. Nat \subseteq K
  BY <1>1, <1>2, SetInduction
<1>4. l \in K
  BY <1>3
<1> HIDE DEF Good
<1>5. \A i \in DOMAIN m : Good(i)
  BY <1>0, <1>4 DEF K
<1> QED
  BY <1>5 DEF Good

\* When no call is left, every process is in a diff node.
LEMMA WalkEnds ==
  ASSUME NEW A, NEW B, IsTree(A), IsTree(B), NEW m, Walked(A, B, m, <<>>)
  PROVE  /\ \A p \in DOMAIN A : \E i \in DOMAIN m : m[i].a = p
         /\ \A p \in DOMAIN B : \E i \in DOMAIN m : m[i].b = p
<1>1. \A p : HasA(m, <<>>, p) => \E i \in DOMAIN m : m[i].a = p
  BY DEF HasA
<1>2. \A p : HasB(m, <<>>, p) => \E i \in DOMAIN m : m[i].b = p
  BY DEF HasB
<1>3. /\ Len(A) \in Nat /\ DOMAIN A = 1 .. Len(A)
      /\ \A n \in 2 .. Len(A) : A[n].parent \in 1 .. n - 1
  BY TreeFacts
<1>4. /\ Len(B) \in Nat /\ DOMAIN B = 1 .. Len(B)
      /\ \A n \in 2 .. Len(B) : B[n].parent \in 1 .. n - 1
  BY TreeFacts
<1> DEFINE KA == {k \in Nat : \A p \in DOMAIN A : p <= k => \E i \in DOMAIN m : m[i].a = p}
           KB == {k \in Nat : \A p \in DOMAIN B : p <= k => \E i \in DOMAIN m : m[i].b = p}
<1>5. 0 \in KA /\ 0 \in KB
  BY <1>3, <1>4
<1>6. ASSUME NEW k \in Nat, k \in KA PROVE k + 1 \in KA
  <2> SUFFICES ASSUME NEW p \in DOMAIN A, p = k + 1 PROVE \E i \in DOMAIN m : m[i].a = p
    BY <1>3, <1>6
  <2>1. CASE p = 1
    BY <1>1, <2>1 DEF Walked, WalkAll
  <2>2. CASE p # 1
    <3>1. p \in 2 .. Len(A)
      BY <1>3, <2>2
    <3>2. A[p].parent \in DOMAIN A /\ A[p].parent <= k /\ A[p].parent # 0
      BY <1>3, <3>1
    <3>3. PICK i \in DOMAIN m : m[i].a = A[p].parent
      BY <1>6, <3>2
    <3>4. Child(A, m[i].a, p)
      BY <3>2, <3>3 DEF Child, Nobody
    <3> QED
      BY <1>1, <3>4 DEF Walked, WalkAll
  <2> QED
    BY <2>1, <2>2
<1>7. ASSUME NEW k \in Nat, k \in KB PROVE k + 1 \in KB
  <2> SUFFICES ASSUME NEW p \in DOMAIN B, p = k + 1 PROVE \E i \in DOMAIN m : m[i].b = p
    BY <1>4, <1>7
  <2>1. CASE p = 1
    BY <1>2, <2>1 DEF Walked, WalkAll
  <2>2. CASE p # 1
    <3>1. p \in 2 .. Len(B)
      BY <1>4, <2>2
    <3>2. B[p].parent \in DOMAIN B /\ B[p].parent <= k /\ B[p].parent # 0
      BY <1>4, <3>1
    <3>3. PICK i \in DOMAIN m : m[i].b = B[p].parent
      BY <1>7, <3>2
    <3>4. Child(B, m[i].b, p)
      BY <3>2, <3>3 DEF Child, Nobody
    <3> QED
      BY <1>2, <3>4 DEF Walked, WalkAll
  <2> QED
    BY <2>1, <2>2
<1> HIDE DEF KA, KB
<1>8. Nat \subseteq KA
  BY <1>5, <1>6, SetInduction
<1>9. Nat \subseteq KB
  BY <1>5, <1>7, SetInduction
<1>10. Len(A) \in KA /\ Len(B) \in KB
  BY <1>3, <1>4, <1>8, <1>9
<1>11. \A p \in DOMAIN A : \E i \in DOMAIN m : m[i].a = p
  BY <1>3, <1>10 DEF KA
<1>12. \A p \in DOMAIN B : \E i \in DOMAIN m : m[i].b = p
  BY <1>4, <1>10 DEF KB
<1> QED
  BY <1>11, <1>12

\* The nodes and what they stand for are as many.
LEMMA NodesCounted ==
  ASSUME NEW A, NEW B, IsTree(A), IsTree(B), NEW m, NEW c, Walked(A, B, m, c)
  PROVE  Cardinality({<<m[i].a, m[i].b>> : i \in DOMAIN m}) = Len(m)
<1> DEFINE found == {<<m[i].a, m[i].b>> : i \in DOMAIN m}
           f == [i \in DOMAIN m |-> <<m[i].a, m[i].b>>]
<1>1. Len(m) \in Nat /\ DOMAIN m = 1 .. Len(m)
  BY WalkUp
<1>2. \A i, j \in DOMAIN m : f[i] = f[j] => i = j
  <2>1. ASSUME NEW i \in DOMAIN m, NEW j \in DOMAIN m, f[i] = f[j], i # j PROVE FALSE
    <3>1. m[i].a = m[j].a /\ m[i].b = m[j].b
      BY <2>1
    <3>2. m[i].a # 0 \/ m[i].b # 0
      BY NodeFacts
    <3>3. Apart(m[i], m[j])
      BY <2>1 DEF Walked, WalkApart, AllApart
    <3> QED
      BY <3>1, <3>2, <3>3 DEF Apart
  <2> QED
    BY <2>1
<1>3. \A i \in DOMAIN m : f[i] \in found
  OBVIOUS
<1>4. \A x \in found : \E i \in DOMAIN m : f[i] = x
  OBVIOUS
<1>5. f \in [DOMAIN m -> found]
  BY <1>3
<1> HIDE DEF f, found
<1>6. f \in Bijection(DOMAIN m, found)
  BY <1>2, <1>4, <1>5 DEF Bijection, Injection, Surjection, IsInjective
<1>7. ExistsBijection(1 .. Len(m), found)
  BY <1>1, <1>6 DEF ExistsBijection
<1>8. IsFiniteSet(1 .. Len(m))
  BY <1>1, FS_Interval
<1>9. Cardinality(1 .. Len(m)) = IF 1 > Len(m) THEN 0 ELSE Len(m) - 1 + 1
  BY <1>1, FS_Interval
<1>10. Cardinality(found) = Cardinality(1 .. Len(m))
  BY <1>7, <1>8, FS_Bijection
<1> QED
  BY <1>1, <1>9, <1>10 DEF found

ExitCodes(A, B, m, e) ==
  /\ e.json = 0 <=> \A n \in DOMAIN m : m[n].status = "same"
  /\ e.text = 0 <=> e.json = 0 /\ CommTable(A) = CommTable(B)
DiffInv ==
  \/ treeA = <<>> /\ calls = <<>> /\ merged = <<>> /\ exit = <<>>
  \/ /\ IsTree(treeA) /\ IsTree(treeB) /\ Walked(treeA, treeB, merged, calls)
     /\ exit # <<>> => calls = <<>> /\ ExitCodes(treeA, treeB, merged, exit)

LEMMA ExportsRead ==
  ASSUME NEW A, NEW B, IsTree(A), IsTree(B)
  PROVE  Walked(A, B, <<>>, <<[a |-> 1, b |-> 1, up |-> Nobody, occurrence |-> 0]>>)
<1> DEFINE x == [a |-> 1, b |-> 1, up |-> Nobody, occurrence |-> 0]
           c == <<x>>
<1>1. x \in Call /\ x.a = 1 /\ x.b = 1 /\ x.up = 0
  BY DEF Call, Nobody
<1> HIDE DEF x
<1>2. c \in Seq(Call) /\ DOMAIN c = {1} /\ c[1] = x
  BY <1>1
<1>3. <<>> \in Seq(Merged) /\ DOMAIN <<>> = {}
  OBVIOUS
<1> HIDE DEF c
<1>4. WalkTyped(<<>>, c)
  BY <1>2, <1>3 DEF WalkTyped
<1>5. WalkPlaced(A, B, <<>>, c)
  BY <1>1, <1>2, <1>3 DEF WalkPlaced, Placed
<1>6. WalkApart(<<>>, c)
  BY <1>2, <1>3 DEF WalkApart, AllApart
<1>7. WalkAll(A, B, <<>>, c)
  BY <1>1, <1>2, <1>3 DEF WalkAll, HasA, HasB
<1>8. WalkStatus(A, B, <<>>)
  BY <1>3 DEF WalkStatus
<1> QED
  BY <1>4, <1>5, <1>6, <1>7, <1>8 DEF Walked, c, x

LEMMA DiffStep == DiffInv /\ [DiffNext]_diffVars => DiffInv'
<1> SUFFICES ASSUME DiffInv, [DiffNext]_diffVars PROVE DiffInv'
  OBVIOUS
<1>1. ASSUME NEW pair \in TreePairs, merged = <<>>, exit = <<>>, ReadExports(pair[1], pair[2]) PROVE DiffInv'
  <2>1. IsTree(pair[1]) /\ IsTree(pair[2])
    BY TreeDiffAssumption
  <2>2. /\ treeA' = pair[1] /\ treeB' = pair[2] /\ merged' = <<>> /\ exit' = <<>>
        /\ calls' = <<[a |-> 1, b |-> 1, up |-> Nobody, occurrence |-> 0]>>
    BY <1>1 DEF ReadExports
  <2>3. Walked(treeA', treeB', merged', calls')
    BY <2>1, <2>2, ExportsRead
  <2> QED
    BY <2>1, <2>2, <2>3 DEF DiffInv
<1>2. ASSUME MergeNodes PROVE DiffInv'
  <2>1. /\ IsTree(treeA) /\ IsTree(treeB) /\ Walked(treeA, treeB, merged, calls) /\ exit = <<>>
        /\ calls # <<>>
    BY <1>2 DEF DiffInv, MergeNodes
  <2> DEFINE x == DiffNode(calls[1])
             r == CallsBelow(Groups(treeA, calls[1].a), Groups(treeB, calls[1].b), Len(merged) + 1)
  <2>2. /\ treeA' = treeA /\ treeB' = treeB /\ exit' = <<>>
        /\ merged' = Append(merged, x) /\ calls' = r \o Tail(calls)
    BY <1>2, <2>1 DEF MergeNodes
  <2>3. calls[1] \in Call
    <3>1. calls \in Seq(Call)
      BY <2>1 DEF Walked, WalkTyped
    <3> QED
      BY <2>1, <3>1
  <2>4. /\ x.a = calls[1].a /\ x.b = calls[1].b /\ x.up = calls[1].up
        /\ x.occurrence = calls[1].occurrence /\ x.status = StatusOf(treeA, treeB, calls[1])
    BY DEF DiffNode, StatusOf, Nobody
  <2>5. x \in Merged
    <3>1. StatusOf(treeA, treeB, calls[1]) \in {"same", "changed", "added", "removed"}
      BY DEF StatusOf
    <3>2. /\ calls[1].a \in Nat /\ calls[1].b \in Nat /\ calls[1].up \in Nat /\ calls[1].occurrence \in Nat
      BY <2>3 DEF Call
    <3>3. x = [a |-> calls[1].a, b |-> calls[1].b, up |-> calls[1].up, occurrence |-> calls[1].occurrence,
               status |-> StatusOf(treeA, treeB, calls[1])]
      BY DEF DiffNode, StatusOf, Nobody
    <3> HIDE DEF x
    <3> QED
      BY <3>1, <3>2, <3>3 DEF Merged
  <2>6. StatusOf(treeA, treeB, x) = StatusOf(treeA, treeB, calls[1])
    BY <2>4 DEF StatusOf
  <2>7. Len(merged) + 1 \in Nat
    <3>1. Len(merged) \in Nat
      BY <2>1, WalkUp
    <3> QED
      BY <3>1
  <2>8. Below(treeA, treeB, calls[1].a, calls[1].b, Len(merged) + 1, r)
    BY <2>1, <2>7, CallsPair
  <2> HIDE DEF x, r
  <2>9. Walked(treeA, treeB, Append(merged, x), r \o Tail(calls))
    BY <2>1, <2>4, <2>5, <2>6, <2>8, CallMade
  <2>10. Walked(treeA', treeB', merged', calls')
    BY <2>2, <2>9
  <2> QED
    BY <2>1, <2>2, <2>10 DEF DiffInv
<1>3. ASSUME Compare PROVE DiffInv'
  <2>1. /\ calls = <<>> /\ merged # <<>>
        /\ exit' = [json |-> IF TreesDiffer THEN 1 ELSE 0, text |-> IF TreesDiffer \/ SummaryDiffers THEN 1 ELSE 0]
        /\ treeA' = treeA /\ treeB' = treeB /\ calls' = calls /\ merged' = merged
    BY <1>3 DEF Compare
  <2>2. IsTree(treeA) /\ IsTree(treeB) /\ Walked(treeA, treeB, merged, calls)
    BY <2>1 DEF DiffInv
  <2>3. TreesDiffer <=> \E n \in DOMAIN merged : merged[n].status # "same"
    BY <2>2, DifferenceFound
  <2>4. SummaryDiffers <=> CommTable(treeA) # CommTable(treeB)
    BY DEF SummaryDiffers
  <2>5. /\ exit'.json = IF TreesDiffer THEN 1 ELSE 0
        /\ exit'.text = IF TreesDiffer \/ SummaryDiffers THEN 1 ELSE 0
    BY <2>1
  <2>6. ExitCodes(treeA, treeB, merged, exit')
    BY <2>3, <2>4, <2>5 DEF ExitCodes
  <2> QED
    BY <2>1, <2>2, <2>6 DEF DiffInv
<1>4. ASSUME UNCHANGED diffVars PROVE DiffInv'
  BY <1>4 DEF DiffInv, diffVars
<1> QED
  BY <1>1, <1>2, <1>3, <1>4 DEF DiffNext

LEMMA DiffStart == DiffInit => DiffInv
  BY DEF DiffInit, DiffInv

LEMMA DiffFound == DiffInv => DiffBySignature
<1> SUFFICES ASSUME DiffInv, exit # <<>> PROVE DiffBySignature
  BY DEF DiffBySignature
<1>1. /\ IsTree(treeA) /\ IsTree(treeB) /\ Walked(treeA, treeB, merged, <<>>)
      /\ ExitCodes(treeA, treeB, merged, exit)
  BY DEF DiffInv
<1> DEFINE sigA == Signature(treeA)
           sigB == Signature(treeB)
           pairs == {p \in (DOMAIN treeA) \X (DOMAIN treeB) : sigA[p[1]] = sigB[p[2]]}
           onlyA == {a \in DOMAIN treeA : \A b \in DOMAIN treeB : sigA[a] # sigB[b]}
           onlyB == {b \in DOMAIN treeB : \A a \in DOMAIN treeA : sigA[a] # sigB[b]}
           found == {<<merged[n].a, merged[n].b>> : n \in DOMAIN merged}
           all == pairs \cup {<<a, Nobody>> : a \in onlyA} \cup {<<Nobody, b>> : b \in onlyB}
<1>2. Signed(treeA, sigA) /\ Signed(treeB, sigB)
  BY <1>1, SignatureSigns
<1> HIDE DEF sigA, sigB
<1>3. \A i \in DOMAIN merged :
        /\ merged[i].a # 0 /\ merged[i].b # 0 => sigA[merged[i].a] = sigB[merged[i].b]
        /\ merged[i].b = 0 => \A y \in DOMAIN treeB : sigA[merged[i].a] # sigB[y]
        /\ merged[i].a = 0 => \A x \in DOMAIN treeA : sigA[x] # sigB[merged[i].b]
  BY <1>1, <1>2, WalkedAlike
<1>4. \A i \in DOMAIN merged :
        /\ merged[i].a # 0 \/ merged[i].b # 0
        /\ merged[i].a # 0 => merged[i].a \in DOMAIN treeA
        /\ merged[i].b # 0 => merged[i].b \in DOMAIN treeB
        /\ merged[i].status = "same" <=> /\ merged[i].a # 0 /\ merged[i].b # 0
                                         /\ ~ Beyond(Delta(treeA[merged[i].a], treeB[merged[i].b]))
  BY <1>1, NodeFacts
<1>5. /\ \A p \in DOMAIN treeA : \E i \in DOMAIN merged : merged[i].a = p
      /\ \A p \in DOMAIN treeB : \E i \in DOMAIN merged : merged[i].b = p
  BY <1>1, WalkEnds
<1>6. 0 \notin DOMAIN treeA /\ 0 \notin DOMAIN treeB
  BY <1>1, TreeFacts
<1>7. ASSUME NEW i \in DOMAIN merged PROVE <<merged[i].a, merged[i].b>> \in all
  <2>1. CASE merged[i].a # 0 /\ merged[i].b # 0
    BY <1>3, <1>4, <2>1
  <2>2. CASE merged[i].b = 0
    <3>1. merged[i].a \in onlyA
      BY <1>3, <1>4, <2>2
    <3> QED
      BY <2>2, <3>1 DEF Nobody
  <2>3. CASE merged[i].a = 0
    <3>1. merged[i].b \in onlyB
      BY <1>3, <1>4, <2>3
    <3> QED
      BY <2>3, <3>1 DEF Nobody
  <2> QED
    BY <2>1, <2>2, <2>3
<1>8. ASSUME NEW a \in DOMAIN treeA, NEW b \in DOMAIN treeB, sigA[a] = sigB[b]
      PROVE  \E i \in DOMAIN merged : merged[i].a = a /\ merged[i].b = b
  <2>1. PICK i \in DOMAIN merged : merged[i].a = a
    BY <1>5
  <2>2. a # 0 /\ merged[i].b # 0
    BY <1>3, <1>6, <1>8, <2>1
  <2>3. merged[i].b \in DOMAIN treeB /\ sigB[merged[i].b] = sigB[b]
    BY <1>3, <1>4, <1>8, <2>1, <2>2
  <2>4. merged[i].b = b
    BY <1>1, <1>2, <2>3, SignedApart
  <2> QED
    BY <2>1, <2>4
<1>9. ASSUME NEW a \in onlyA PROVE \E i \in DOMAIN merged : merged[i].a = a /\ merged[i].b = 0
  <2>1. PICK i \in DOMAIN merged : merged[i].a = a
    BY <1>5
  <2> QED
    BY <1>3, <1>4, <1>6, <2>1
<1>10. ASSUME NEW b \in onlyB PROVE \E i \in DOMAIN merged : merged[i].a = 0 /\ merged[i].b = b
  <2>1. PICK i \in DOMAIN merged : merged[i].b = b
    BY <1>5
  <2> QED
    BY <1>3, <1>4, <1>6, <2>1
<1>11. ASSUME NEW x \in all PROVE x \in found
  <2>1. CASE x \in pairs
    <3>1. PICK a \in DOMAIN treeA, b \in DOMAIN treeB : x = <<a, b>> /\ sigA[a] = sigB[b]
      BY <2>1
    <3>2. PICK i \in DOMAIN merged : merged[i].a = a /\ merged[i].b = b
      BY <1>8, <3>1
    <3> QED
      BY <3>1, <3>2
  <2>2. ASSUME NEW a \in onlyA, x = <<a, Nobody>> PROVE x \in found
    <3>1. PICK i \in DOMAIN merged : merged[i].a = a /\ merged[i].b = 0
      BY <1>9
    <3> QED
      BY <2>2, <3>1 DEF Nobody
  <2>3. ASSUME NEW b \in onlyB, x = <<Nobody, b>> PROVE x \in found
    <3>1. PICK i \in DOMAIN merged : merged[i].a = 0 /\ merged[i].b = b
      BY <1>10
    <3> QED
      BY <2>3, <3>1 DEF Nobody
  <2> HIDE DEF found, pairs, onlyA, onlyB
  <2> QED
    BY <2>1, <2>2, <2>3
<1>12. found = all
  <2>1. found \subseteq all
    <3> HIDE DEF all
    <3> QED
      BY <1>7
  <2>2. all \subseteq found
    <3> HIDE DEF all, found
    <3> QED
      BY <1>11
  <2> HIDE DEF all, found
  <2> QED
    BY <2>1, <2>2
<1>13. Len(merged) = Cardinality(found)
  BY <1>1, NodesCounted
<1>14. exit.json = 0 <=>
         onlyA = {} /\ onlyB = {} /\ \A p \in pairs : ~ Beyond(Delta(treeA[p[1]], treeB[p[2]]))
  <2>1. ASSUME \A n \in DOMAIN merged : merged[n].status = "same"
        PROVE  onlyA = {} /\ onlyB = {} /\ \A p \in pairs : ~ Beyond(Delta(treeA[p[1]], treeB[p[2]]))
    <3>1. \A n \in DOMAIN merged : /\ merged[n].a # 0 /\ merged[n].b # 0
                                   /\ ~ Beyond(Delta(treeA[merged[n].a], treeB[merged[n].b]))
      BY <1>4, <2>1
    <3>2. ASSUME NEW a \in DOMAIN treeA, NEW b \in DOMAIN treeB, sigA[a] = sigB[b]
          PROVE  ~ Beyond(Delta(treeA[a], treeB[b]))
      BY <1>8, <3>1, <3>2
    <3>3. onlyA = {}
      <4> HIDE DEF onlyA
      <4> QED
        BY <1>9, <3>1
    <3>4. onlyB = {}
      <4> HIDE DEF onlyB
      <4> QED
        BY <1>10, <3>1
    <3> QED
      BY <3>2, <3>3, <3>4
  <2>2. ASSUME onlyA = {}, onlyB = {}, \A p \in pairs : ~ Beyond(Delta(treeA[p[1]], treeB[p[2]])),
               NEW n \in DOMAIN merged
        PROVE  merged[n].status = "same"
    <3>1. merged[n].b # 0
      <4> SUFFICES ASSUME merged[n].b = 0 PROVE merged[n].a \in onlyA
        BY <2>2
      <4> QED
        BY <1>3, <1>4
    <3>2. merged[n].a # 0
      <4> SUFFICES ASSUME merged[n].a = 0 PROVE merged[n].b \in onlyB
        BY <2>2
      <4> QED
        BY <1>3, <1>4
    <3>3. PICK p \in pairs : p[1] = merged[n].a /\ p[2] = merged[n].b
      <4>1. <<merged[n].a, merged[n].b>> \in pairs
        BY <1>3, <1>4, <3>1, <3>2
      <4> HIDE DEF pairs
      <4> QED
        BY <4>1
    <3> HIDE DEF pairs
    <3>4. ~ Beyond(Delta(treeA[merged[n].a], treeB[merged[n].b]))
      BY <2>2, <3>3
    <3> QED
      BY <1>4, <3>1, <3>2, <3>4
  <2> HIDE DEF pairs, onlyA, onlyB
  <2> QED
    BY <1>1, <2>1, <2>2 DEF ExitCodes
<1>15. exit.text = 0 <=> exit.json = 0 /\ CommTable(treeA) = CommTable(treeB)
  BY <1>1 DEF ExitCodes
<1> QED
  BY <1>12, <1>13, <1>14, <1>15 DEF DiffBySignature, sigA, sigB

(* What proctree --diff compares: of any two trees, the processes at the same place - *)
(* the same names down from the root, and the same rank among elder siblings of one   *)
(* name - are in one diff node, every other process is in one of its own, and the     *)
(* exit status is 0 exactly if no process is added, removed or changed.               *)
THEOREM DiffsBySignature == DiffSpec => []DiffBySignature
<1>1. DiffInit => DiffInv
  BY DiffStart
<1>2. DiffInv /\ [DiffNext]_diffVars => DiffInv'
  BY DiffStep
<1>3. DiffInv => DiffBySignature
  BY DiffFound
<1> QED
  BY <1>1, <1>2, <1>3, PTL DEF DiffSpec

-----------------------------------------------------------------------------
(* Sums: of two sequences, of one term more, of none, of a table by rows and  *)
(* by columns, and over other indices.                                        *)

SumsTo(u, n, t) == u \in [0 .. n -> Int] /\ u[0] = 0 /\ \A i \in 1 .. n : u[i] = u[i - 1] + t[i]

LEMMA SumSteps ==
  ASSUME NEW n \in Nat, NEW t \in [1 .. n -> Int]
  PROVE  \E u : SumsTo(u, n, t) /\ SumOf(t) = u[n]
<1>0. t \in Seq(Int) /\ Len(t) = n
  OBVIOUS
<1> DEFINE Val(u, i) == IF i = 0 THEN 0 ELSE u[i - 1] + t[i]
           Is(u) == u = [i \in 0 .. n |-> Val(u, i)]
<1>1. \E f : Is(f)
  <2> DEFINE step == [z \in Int \X (1 .. n) |-> z[1] + t[z[2]]]
  <2>1. step \in [Int \X (1 .. n) -> Int]
    OBVIOUS
  <2>2. \A s \in Int, i \in 1 .. n : step[<<s, i>>] = s + t[i]
    OBVIOUS
  <2> HIDE DEF step
  <2>3. PICK f : Looped(f, Int, 0, n, step)
    <3>1. 0 \in Int
      OBVIOUS
    <3> QED
      BY <2>1, <3>1, LoopOf
  <2>4. ASSUME NEW i \in 0 .. n PROVE f[i] = Val(f, i)
    <3>1. CASE i = 0
      BY <2>3, <3>1 DEF Looped
    <3>2. CASE i \in 1 .. n
      <4>1. f[i - 1] \in Int
        BY <2>3, <3>2 DEF Looped
      <4>2. f[i] = f[i - 1] + t[i]
        BY <2>2, <2>3, <3>2, <4>1 DEF Looped
      <4> QED
        BY <3>2, <4>2
    <3> QED
      BY <3>1, <3>2
  <2> HIDE DEF Val
  <2>5. Is(f)
    BY <2>3, <2>4 DEF Looped
  <2> QED
    BY <2>5
<1>2. PICK v : v = CHOOSE u : Is(u)
  OBVIOUS
<1>3. Is(v)
  <2> HIDE DEF Is
  <2> QED
    BY <1>1, <1>2
<1>4. SumOf(t) = v[n]
  BY <1>0, <1>2 DEF SumOf
<1>5. \A i \in 0 .. n : v[i] = Val(v, i)
  <2> HIDE DEF Val
  <2> QED
    BY <1>3
<1>6. v[0] = 0 /\ \A i \in 1 .. n : v[i] = v[i - 1] + t[i]
  <2>1. \A i \in 1 .. n : i \in 0 .. n /\ i # 0
    OBVIOUS
  <2> QED
    BY <1>5, <2>1
<1> DEFINE K == {i \in Nat : i <= n => v[i] \in Int}
<1>7. 0 \in K
  BY <1>6
<1>8. ASSUME NEW i \in Nat, i \in K PROVE i + 1 \in K
  <2> SUFFICES ASSUME i + 1 <= n PROVE v[i + 1] \in Int
    OBVIOUS
  <2>1. i + 1 \in 1 .. n /\ (i + 1) - 1 = i /\ v[i] \in Int
    BY <1>8
  <2>2. v[i + 1] = v[i] + t[i + 1]
    BY <1>6, <2>1
  <2> QED
    BY <2>1, <2>2
<1> HIDE DEF K
<1>9. Nat \subseteq K
  BY <1>7, <1>8, SetInduction
<1>10. \A i \in 0 .. n : v[i] \in Int
  BY <1>9 DEF K
<1>11. v \in [0 .. n -> Int]
  BY <1>3, <1>10
<1> QED
  BY <1>4, <1>6, <1>11 DEF SumsTo

LEMMA SumInt ==
  ASSUME NEW n \in Nat, NEW t \in [1 .. n -> Int]
  PROVE  SumOf(t) \in Int
BY SumSteps DEF SumsTo

LEMMA SumPlus ==
  ASSUME NEW n \in Nat, NEW s \in [1 .. n -> Int], NEW t \in [1 .. n -> Int], NEW r \in [1 .. n -> Int],
         \A i \in 1 .. n : r[i] = s[i] + t[i]
  PROVE  SumOf(r) = SumOf(s) + SumOf(t)
<1>1. PICK u : SumsTo(u, n, s) /\ SumOf(s) = u[n]
  BY SumSteps
<1>2. PICK v : SumsTo(v, n, t) /\ SumOf(t) = v[n]
  BY SumSteps
<1>3. PICK w : SumsTo(w, n, r) /\ SumOf(r) = w[n]
  BY SumSteps
<1> DEFINE K == {i \in Nat : i <= n => w[i] = u[i] + v[i]}
<1>4. 0 \in K
  BY <1>1, <1>2, <1>3 DEF SumsTo
<1>5. ASSUME NEW i \in Nat, i \in K PROVE i + 1 \in K
  <2> SUFFICES ASSUME i + 1 <= n PROVE w[i + 1] = u[i + 1] + v[i + 1]
    OBVIOUS
  <2>1. i + 1 \in 1 .. n /\ i \in 0 .. n /\ (i + 1) - 1 = i /\ w[i] = u[i] + v[i]
    BY <1>5
  <2>2. u[i + 1] = u[i] + s[i + 1] /\ v[i + 1] = v[i] + t[i + 1] /\ w[i + 1] = w[i] + r[i + 1]
    BY <1>1, <1>2, <1>3, <2>1 DEF SumsTo
  <2>3. u[i] \in Int /\ v[i] \in Int /\ w[i] \in Int
    BY <1>1, <1>2, <1>3, <2>1 DEF SumsTo
  <2>4. r[i + 1] = s[i + 1] + t[i + 1] /\ s[i + 1] \in Int /\ t[i + 1] \in Int
    BY <2>1
  <2> QED
    BY <2>1, <2>2, <2>3, <2>4
<1> HIDE DEF K
<1>6. Nat \subseteq K
  BY <1>4, <1>5, SetInduction
<1>7. w[n] = u[n] + v[n]
  BY <1>6 DEF K
<1> QED
  BY <1>1, <1>2, <1>3, <1>7

LEMMA SumNext ==
  ASSUME NEW n \in Nat, NEW t \in [1 .. n + 1 -> Int], NEW s \in [1 .. n -> Int], \A i \in 1 .. n : s[i] = t[i]
  PROVE  SumOf(t) = SumOf(s) + t[n + 1]
<1>1. s \in [1 .. n -> Int] /\ \A i \in 1 .. n : s[i] = t[i]
  OBVIOUS
<1>2. PICK u : SumsTo(u, n, s) /\ SumOf(s) = u[n]
  BY <1>1, SumSteps
<1>3. PICK v : SumsTo(v, n + 1, t) /\ SumOf(t) = v[n + 1]
  BY SumSteps
<1> DEFINE K == {i \in Nat : i <= n => v[i] = u[i]}
<1>4. 0 \in K
  BY <1>2, <1>3 DEF SumsTo
<1>5. ASSUME NEW i \in Nat, i \in K PROVE i + 1 \in K
  <2> SUFFICES ASSUME i + 1 <= n PROVE v[i + 1] = u[i + 1]
    OBVIOUS
  <2>1. i + 1 \in 1 .. n /\ i + 1 \in 1 .. n + 1 /\ (i + 1) - 1 = i /\ v[i] = u[i]
    BY <1>5
  <2>2. u[i + 1] = u[i] + s[i + 1] /\ v[i + 1] = v[i] + t[i + 1]
    BY <1>2, <1>3, <2>1 DEF SumsTo
  <2> QED
    BY <1>1, <2>1, <2>2
<1> HIDE DEF K
<1>6. Nat \subseteq K
  BY <1>4, <1>5, SetInduction
<1>7. v[n] = u[n]
  BY <1>6 DEF K
<1>8. n + 1 \in 1 .. n + 1 /\ (n + 1) - 1 = n
  OBVIOUS
<1>9. v[n + 1] = v[n] + t[n + 1]
  BY <1>3, <1>8 DEF SumsTo
<1> QED
  BY <1>2, <1>3, <1>7, <1>9

LEMMA SumZero ==
  ASSUME NEW n \in Nat, NEW t \in [1 .. n -> Int], \A i \in 1 .. n : t[i] = 0
  PROVE  SumOf(t) = 0
<1>1. PICK u : SumsTo(u, n, t) /\ SumOf(t) = u[n]
  BY SumSteps
<1> DEFINE K == {i \in Nat : i <= n => u[i] = 0}
<1>2. 0 \in K
  BY <1>1 DEF SumsTo
<1>3. ASSUME NEW i \in Nat, i \in K PROVE i + 1 \in K
  <2> SUFFICES ASSUME i + 1 <= n PROVE u[i + 1] = 0
    OBVIOUS
  <2>1. i + 1 \in 1 .. n /\ (i + 1) - 1 = i /\ u[i] = 0
    BY <1>3
  <2>2. u[i + 1] = u[i] + t[i + 1]
    BY <1>1, <2>1 DEF SumsTo
  <2> QED
    BY <2>1, <2>2
<1> HIDE DEF K
<1>4. Nat \subseteq K
  BY <1>2, <1>3, SetInduction
<1>5. u[n] = 0
  BY <1>4 DEF K
<1> QED
  BY <1>1, <1>5

LEMMA SumOne ==
  ASSUME NEW n \in Nat, NEW t \in [1 .. n -> Int], NEW j \in 1 .. n, \A i \in 1 .. n : i # j => t[i] = 0
  PROVE  SumOf(t) = t[j]
<1>1. PICK u : SumsTo(u, n, t) /\ SumOf(t) = u[n]
  BY SumSteps
<1> DEFINE K == {i \in Nat : i <= n => u[i] = IF j <= i THEN t[j] ELSE 0}
<1>2. 0 \in K
  BY <1>1 DEF SumsTo
<1>3. ASSUME NEW i \in Nat, i \in K PROVE i + 1 \in K
  <2> SUFFICES ASSUME i + 1 <= n PROVE u[i + 1] = IF j <= i + 1 THEN t[j] ELSE 0
    OBVIOUS
  <2>1. i + 1 \in 1 .. n /\ (i + 1) - 1 = i /\ u[i] = IF j <= i THEN t[j] ELSE 0
    BY <1>3
  <2>2. u[i + 1] = u[i] + t[i + 1]
    BY <1>1, <2>1 DEF SumsTo
  <2>3. t[j] \in Int
    OBVIOUS
  <2>4. CASE j = i + 1
    BY <2>1, <2>2, <2>3, <2>4
  <2>5. CASE j # i + 1
    <3>1. t[i + 1] = 0
      BY <2>1, <2>5
    <3> QED
      BY <2>1, <2>2, <2>3, <2>5, <3>1
  <2> QED
    BY <2>4, <2>5
<1> HIDE DEF K
<1>4. Nat \subseteq K
  BY <1>2, <1>3, SetInduction
<1>5. u[n] = t[j]
  BY <1>4 DEF K
<1> QED
  BY <1>1, <1>5

\* A table added up by rows and by columns
RowSums(M, n, m) == [i \in 1 .. n |-> SumOf([j \in 1 .. m |-> M[<<i, j>>]])]
ColSums(M, n, m) == [j \in 1 .. m |-> SumOf([i \in 1 .. n |-> M[<<i, j>>]])]

LEMMA SumsCross ==
  ASSUME NEW n \in Nat, NEW m \in Nat, NEW M \in [(1 .. n) \X (1 .. m) -> Int]
  PROVE  SumOf(RowSums(M, n, m)) = SumOf(ColSums(M, n, m))
<1> DEFINE Row(i) == [j \in 1 .. m |-> M[<<i, j>>]]
           Col(k, j) == [i \in 1 .. k |-> M[<<i, j>>]]
           Rk(k) == [i \in 1 .. k |-> SumOf(Row(i))]
           Ck(k) == [j \in 1 .. m |-> SumOf(Col(k, j))]
           K == {k \in Nat : k <= n => SumOf(Rk(k)) = SumOf(Ck(k))}
<1>1. \A i \in 1 .. n, j \in 1 .. m : M[<<i, j>>] \in Int
  OBVIOUS
<1>2. \A i \in 1 .. n : Row(i) \in [1 .. m -> Int] /\ \A j \in 1 .. m : Row(i)[j] = M[<<i, j>>]
  BY <1>1
<1>3. ASSUME NEW k \in Nat, k <= n, NEW j \in 1 .. m
      PROVE  Col(k, j) \in [1 .. k -> Int] /\ \A i \in 1 .. k : Col(k, j)[i] = M[<<i, j>>]
  <2>1. \A i \in 1 .. k : i \in 1 .. n
    BY <1>3
  <2> QED
    BY <1>1, <2>1
<1> HIDE DEF Row, Col
<1>4. ASSUME NEW k \in Nat, k <= n
      PROVE  /\ Rk(k) \in [1 .. k -> Int] /\ \A i \in 1 .. k : Rk(k)[i] = SumOf(Row(i))
             /\ Ck(k) \in [1 .. m -> Int] /\ \A j \in 1 .. m : Ck(k)[j] = SumOf(Col(k, j))
  <2>1. \A i \in 1 .. k : SumOf(Row(i)) \in Int
    <3> SUFFICES ASSUME NEW i \in 1 .. k PROVE SumOf(Row(i)) \in Int
      OBVIOUS
    <3>1. Row(i) \in [1 .. m -> Int]
      BY <1>2, <1>4
    <3> QED
      BY <3>1, SumInt
  <2>2. \A j \in 1 .. m : SumOf(Col(k, j)) \in Int
    BY <1>3, <1>4, SumInt
  <2> QED
    BY <2>1, <2>2
<1> HIDE DEF Rk, Ck
<1>5. 0 \in K
  <2>1. Rk(0) \in [1 .. 0 -> Int]
    BY <1>4
  <2>2. \A i \in 1 .. 0 : Rk(0)[i] = 0
    OBVIOUS
  <2>3. SumOf(Rk(0)) = 0
    BY <2>1, <2>2, SumZero
  <2>4. \A j \in 1 .. m : SumOf(Col(0, j)) = 0
    <3> SUFFICES ASSUME NEW j \in 1 .. m PROVE SumOf(Col(0, j)) = 0
      OBVIOUS
    <3>1. Col(0, j) \in [1 .. 0 -> Int] /\ \A i \in 1 .. 0 : Col(0, j)[i] = 0
      BY <1>3
    <3> QED
      BY <3>1, SumZero
  <2>5. Ck(0) \in [1 .. m -> Int] /\ \A j \in 1 .. m : Ck(0)[j] = 0
    <3>1. 0 \in Nat /\ 0 <= n
      OBVIOUS
    <3>2. Ck(0) \in [1 .. m -> Int] /\ \A j \in 1 .. m : Ck(0)[j] = SumOf(Col(0, j))
      BY <1>4, <3>1
    <3> QED
      BY <2>4, <3>2
  <2>6. SumOf(Ck(0)) = 0
    BY <2>5, SumZero
  <2> QED
    BY <2>3, <2>6
<1>6. ASSUME NEW k \in Nat, k \in K PROVE k + 1 \in K
  <2> SUFFICES ASSUME k + 1 <= n PROVE SumOf(Rk(k + 1)) = SumOf(Ck(k + 1))
    OBVIOUS
  <2>0. k <= n /\ k + 1 \in 1 .. n /\ k + 1 \in 1 .. k + 1 /\ k + 1 \in Nat /\ \A i \in 1 .. k : i \in 1 .. k + 1
    OBVIOUS
  <2>1. SumOf(Rk(k)) = SumOf(Ck(k))
    BY <1>6, <2>0
  <2>2. SumOf(Rk(k + 1)) = SumOf(Rk(k)) + SumOf(Row(k + 1))
    <3>1. /\ Rk(k + 1) \in [1 .. k + 1 -> Int] /\ \A i \in 1 .. k + 1 : Rk(k + 1)[i] = SumOf(Row(i))
          /\ Rk(k) \in [1 .. k -> Int] /\ \A i \in 1 .. k : Rk(k)[i] = SumOf(Row(i))
      BY <1>4, <2>0
    <3>2. \A i \in 1 .. k : Rk(k)[i] = Rk(k + 1)[i]
      BY <2>0, <3>1
    <3>3. SumOf(Rk(k + 1)) = SumOf(Rk(k)) + Rk(k + 1)[k + 1]
      BY <3>1, <3>2, SumNext
    <3> QED
      BY <2>0, <3>1, <3>3
  <2>3. ASSUME NEW j \in 1 .. m PROVE SumOf(Col(k + 1, j)) = SumOf(Col(k, j)) + M[<<k + 1, j>>]
    <3>1. /\ Col(k + 1, j) \in [1 .. k + 1 -> Int] /\ \A i \in 1 .. k + 1 : Col(k + 1, j)[i] = M[<<i, j>>]
          /\ Col(k, j) \in [1 .. k -> Int] /\ \A i \in 1 .. k : Col(k, j)[i] = M[<<i, j>>]
      BY <1>3, <2>0
    <3>2. \A i \in 1 .. k : Col(k, j)[i] = Col(k + 1, j)[i]
      BY <2>0, <3>1
    <3>3. SumOf(Col(k + 1, j)) = SumOf(Col(k, j)) + Col(k + 1, j)[k + 1]
      BY <3>1, <3>2, SumNext
    <3> QED
      BY <2>0, <3>1, <3>3
  <2>4. SumOf(Ck(k + 1)) = SumOf(Ck(k)) + SumOf(Row(k + 1))
    <3>1. /\ Ck(k + 1) \in [1 .. m -> Int] /\ \A j \in 1 .. m : Ck(k + 1)[j] = SumOf(Col(k + 1, j))
          /\ Ck(k) \in [1 .. m -> Int] /\ \A j \in 1 .. m : Ck(k)[j] = SumOf(Col(k, j))
      BY <1>4, <2>0
    <3>2. Row(k + 1) \in [1 .. m -> Int] /\ \A j \in 1 .. m : Row(k + 1)[j] = M[<<k + 1, j>>]
      BY <1>2, <2>0
    <3>3. \A j \in 1 .. m : Ck(k + 1)[j] = Ck(k)[j] + Row(k + 1)[j]
      BY <2>3, <3>1, <3>2
    <3> QED
      BY <3>1, <3>2, <3>3, SumPlus
  <2> QED
    BY <2>1, <2>2, <2>4
<1> HIDE DEF K
<1>7. Nat \subseteq K
  BY <1>5, <1>6, SetInduction
<1>8. SumOf(Rk(n)) = SumOf(Ck(n))
  BY <1>7 DEF K
<1>9. RowSums(M, n, m) = Rk(n) /\ ColSums(M, n, m) = Ck(n)
  BY DEF Rk, Ck, Row, Col, RowSums, ColSums
<1> QED
  BY <1>8, <1>9

\* g numbers some of 1 .. n, so that each of 1 .. m comes once: a sum over all of
\* 1 .. m can be taken where they come.
Numbers(g, n, m) ==
  /\ g \in [1 .. n -> Nat]
  /\ \A i \in 1 .. n : g[i] # 0 => g[i] \in 1 .. m
  /\ \A y \in 1 .. m : \E i \in 1 .. n : g[i] = y
  /\ \A i, j \in 1 .. n : g[i] # 0 /\ g[i] = g[j] => i = j
Moved(t, w, g, n) == t \in [1 .. n -> Int] /\ \A i \in 1 .. n : t[i] = IF g[i] # 0 THEN w[g[i]] ELSE 0

LEMMA SumMoved ==
  ASSUME NEW n \in Nat, NEW m \in Nat, NEW w \in [1 .. m -> Int], NEW g, Numbers(g, n, m),
         NEW t, Moved(t, w, g, n)
  PROVE  SumOf(w) = SumOf(t)
<1>0. /\ g \in [1 .. n -> Nat]
      /\ \A i \in 1 .. n : g[i] # 0 => g[i] \in 1 .. m
      /\ \A y \in 1 .. m : \E i \in 1 .. n : g[i] = y
      /\ \A i, j \in 1 .. n : g[i] # 0 /\ g[i] = g[j] => i = j
  BY DEF Numbers
<1> USE DEF Moved
<1> DEFINE M == [z \in (1 .. m) \X (1 .. n) |-> IF g[z[2]] = z[1] THEN w[z[1]] ELSE 0]
<1>1. M \in [(1 .. m) \X (1 .. n) -> Int]
  OBVIOUS
<1>2. \A y \in 1 .. m, i \in 1 .. n : M[<<y, i>>] = IF g[i] = y THEN w[y] ELSE 0
  OBVIOUS
<1> HIDE DEF M
<1>3. \A y \in 1 .. m, i \in 1 .. n : M[<<y, i>>] \in Int
  BY <1>1
<1>4. SumOf(RowSums(M, m, n)) = SumOf(ColSums(M, m, n))
  BY ONLY n \in Nat, m \in Nat, <1>1, SumsCross
<1>5. ASSUME NEW y \in 1 .. m PROVE SumOf([i \in 1 .. n |-> M[<<y, i>>]]) = w[y]
  <2> DEFINE r == [i \in 1 .. n |-> M[<<y, i>>]]
  <2>1. r \in [1 .. n -> Int] /\ \A i \in 1 .. n : r[i] = IF g[i] = y THEN w[y] ELSE 0
    BY <1>2, <1>3
  <2>2. PICK j \in 1 .. n : g[j] = y
    BY <1>0
  <2>3. \A i \in 1 .. n : i # j => r[i] = 0
    <3>1. \A i \in 1 .. n : i # j => g[i] # y
      BY <1>0, <2>2
    <3> QED
      BY <2>1, <3>1
  <2> HIDE DEF r
  <2>4. SumOf(r) = r[j]
    <3>1. r \in [1 .. n -> Int]
      BY <2>1
    <3>2. j \in 1 .. n
      OBVIOUS
    <3> QED
      BY ONLY n \in Nat, <3>1, <3>2, <2>3, SumOne
  <2>5. SumOf(r) = w[y]
    BY <2>1, <2>2, <2>4
  <2> QED
    BY <2>5 DEF r
<1>6. ASSUME NEW i \in 1 .. n PROVE SumOf([y \in 1 .. m |-> M[<<y, i>>]]) = t[i] /\ t[i] \in Int
  <2> DEFINE c == [y \in 1 .. m |-> M[<<y, i>>]]
  <2>1. c \in [1 .. m -> Int] /\ \A y \in 1 .. m : c[y] = IF g[i] = y THEN w[y] ELSE 0
    BY <1>2, <1>3
  <2> HIDE DEF c
  <2>2. CASE g[i] # 0
    <3>1. PICK y \in 1 .. m : g[i] = y
      BY <1>0, <2>2
    <3>2. \A x \in 1 .. m : x # y => c[x] = 0
      BY <2>1, <3>1
    <3>3. SumOf(c) = c[y]
      <4>1. c \in [1 .. m -> Int]
        BY <2>1
      <4>2. y \in 1 .. m
        OBVIOUS
      <4> QED
        BY ONLY m \in Nat, <3>2, <4>1, <4>2, SumOne
    <3>4. SumOf(c) = t[i] /\ t[i] \in Int
      BY <2>1, <2>2, <3>1, <3>3
    <3> QED
      BY <3>4 DEF c
  <2>3. CASE g[i] = 0
    <3>1. \A y \in 1 .. m : c[y] = 0
      BY <2>1, <2>3
    <3>2. SumOf(c) = 0
      BY <2>1, <3>1, SumZero
    <3> QED
      BY <2>3, <3>2 DEF c
  <2> QED
    BY <2>2, <2>3
<1>7. RowSums(M, m, n) = w
  BY <1>5 DEF RowSums
<1>8. ColSums(M, m, n) = t
  BY <1>6 DEF ColSums
<1> QED
  BY <1>4, <1>7, <1>8

-----------------------------------------------------------------------------
(* The report of a comparison adds up. *)

LEMMA SumOfOnes ==
  ASSUME NEW n \in Nat, NEW t \in [1 .. n -> Int], \A i \in 1 .. n : t[i] = 1
  PROVE  SumOf(t) = n
<1>1. PICK u : SumsTo(u, n, t) /\ SumOf(t) = u[n]
  BY SumSteps
<1> DEFINE K == {i \in Nat : i <= n => u[i] = i}
<1>2. 0 \in K
  BY <1>1 DEF SumsTo
<1>3. ASSUME NEW i \in Nat, i \in K PROVE i + 1 \in K
  <2> SUFFICES ASSUME i + 1 <= n PROVE u[i + 1] = i + 1
    OBVIOUS
  <2>1. i + 1 \in 1 .. n /\ (i + 1) - 1 = i /\ u[i] = i
    BY <1>3
  <2>2. u[i + 1] = u[i] + t[i + 1]
    BY <1>1, <2>1 DEF SumsTo
  <2> QED
    BY <2>1, <2>2
<1> HIDE DEF K
<1>4. Nat \subseteq K
  BY <1>2, <1>3, SetInduction
<1>5. u[n] = n
  BY <1>4 DEF K
<1> QED
  BY <1>1, <1>5

Weighed(m, w, v, gain, plus, minus) ==
  /\ gain \in [DOMAIN m -> Int] /\ plus \in [DOMAIN m -> Int] /\ minus \in [DOMAIN m -> Int]
  /\ \A i \in DOMAIN m :
       /\ gain[i] = IF m[i].a # 0 /\ m[i].b # 0 THEN v[m[i].b] - w[m[i].a] ELSE 0
       /\ plus[i] = IF m[i].a = 0 THEN v[m[i].b] ELSE 0
       /\ minus[i] = IF m[i].b = 0 THEN w[m[i].a] ELSE 0

\* What B's processes have is what A's have, and what the nodes gained, got and lost.
LEMMA NodesBalance ==
  ASSUME NEW A, NEW B, IsTree(A), IsTree(B), NEW m, Walked(A, B, m, <<>>),
         NEW w \in [DOMAIN A -> Int], NEW v \in [DOMAIN B -> Int],
         NEW gain, NEW plus, NEW minus, Weighed(m, w, v, gain, plus, minus)
  PROVE  SumOf(v) - SumOf(w) = SumOf(gain) + SumOf(plus) - SumOf(minus)
<1>1. PICK l \in Nat : DOMAIN m = 1 .. l
  BY WalkUp
<1>2. PICK k \in Nat : DOMAIN A = 1 .. k
  BY TreeFacts
<1>3. PICK h \in Nat : DOMAIN B = 1 .. h
  BY TreeFacts
<1>4. \A i \in 1 .. l : /\ m[i].a \in Nat /\ m[i].b \in Nat /\ (m[i].a # 0 \/ m[i].b # 0)
                        /\ m[i].a # 0 => m[i].a \in 1 .. k
                        /\ m[i].b # 0 => m[i].b \in 1 .. h
  <2>1. \A i \in DOMAIN m : /\ m[i].a \in Nat /\ m[i].b \in Nat /\ (m[i].a # 0 \/ m[i].b # 0)
                            /\ m[i].a # 0 => m[i].a \in DOMAIN A
                            /\ m[i].b # 0 => m[i].b \in DOMAIN B
    BY NodeFacts
  <2> QED
    BY <1>1, <1>2, <1>3, <2>1
<1>5. \A i, j \in 1 .. l : i # j => Apart(m[i], m[j])
  BY <1>1 DEF Walked, WalkApart, AllApart
<1>6. /\ \A p \in 1 .. k : \E i \in 1 .. l : m[i].a = p
      /\ \A p \in 1 .. h : \E i \in 1 .. l : m[i].b = p
  <2>1. /\ \A p \in DOMAIN A : \E i \in DOMAIN m : m[i].a = p
        /\ \A p \in DOMAIN B : \E i \in DOMAIN m : m[i].b = p
    BY WalkEnds
  <2> QED
    BY <1>1, <1>2, <1>3, <2>1
<1> DEFINE ga == [i \in 1 .. l |-> m[i].a]
           gb == [i \in 1 .. l |-> m[i].b]
           ta == [i \in 1 .. l |-> IF ga[i] # 0 THEN w[ga[i]] ELSE 0]
           tb == [i \in 1 .. l |-> IF gb[i] # 0 THEN v[gb[i]] ELSE 0]
           r == [i \in 1 .. l |-> gain[i] + plus[i]]
           s == [i \in 1 .. l |-> tb[i] + minus[i]]
<1>7. /\ ga \in [1 .. l -> Nat]
      /\ \A i \in 1 .. l : ga[i] = m[i].a
      /\ \A i \in 1 .. l : ga[i] # 0 => ga[i] \in 1 .. k
      /\ \A y \in 1 .. k : \E i \in 1 .. l : ga[i] = y
  BY <1>4, <1>6
<1> HIDE DEF ga
<1>8. Numbers(ga, l, k)
  <2>1. \A i, j \in 1 .. l : ga[i] # 0 /\ ga[i] = ga[j] => i = j
    <3>1. ASSUME NEW i \in 1 .. l, NEW j \in 1 .. l, ga[i] # 0, ga[i] = ga[j], i # j PROVE FALSE
      <4>1. Apart(m[i], m[j])
        BY <1>5, <3>1
      <4>2. m[i].a # 0 /\ m[i].a = m[j].a
        BY <1>7, <3>1
      <4> QED
        BY <4>1, <4>2 DEF Apart
    <3> QED
      BY <3>1
  <2> QED
    BY <1>7, <2>1 DEF Numbers
<1>9. /\ gb \in [1 .. l -> Nat]
      /\ \A i \in 1 .. l : gb[i] = m[i].b
      /\ \A i \in 1 .. l : gb[i] # 0 => gb[i] \in 1 .. h
      /\ \A y \in 1 .. h : \E i \in 1 .. l : gb[i] = y
  BY <1>4, <1>6
<1> HIDE DEF gb
<1>10. Numbers(gb, l, h)
  <2>1. \A i, j \in 1 .. l : gb[i] # 0 /\ gb[i] = gb[j] => i = j
    <3>1. ASSUME NEW i \in 1 .. l, NEW j \in 1 .. l, gb[i] # 0, gb[i] = gb[j], i # j PROVE FALSE
      <4>1. Apart(m[i], m[j])
        BY <1>5, <3>1
      <4>2. m[i].b # 0 /\ m[i].b = m[j].b
        BY <1>9, <3>1
      <4> QED
        BY <4>1, <4>2 DEF Apart
    <3> QED
      BY <3>1
  <2> QED
    BY <1>9, <2>1 DEF Numbers
<1>11. ta \in [1 .. l -> Int] /\ \A i \in 1 .. l : ta[i] = IF ga[i] # 0 THEN w[ga[i]] ELSE 0
  <2>1. \A i \in 1 .. l : ga[i] # 0 => w[ga[i]] \in Int
    BY <1>7, <1>2
  <2> QED
    BY <2>1
<1>12. tb \in [1 .. l -> Int] /\ \A i \in 1 .. l : tb[i] = IF gb[i] # 0 THEN v[gb[i]] ELSE 0
  <2>1. \A i \in 1 .. l : gb[i] # 0 => v[gb[i]] \in Int
    BY <1>9, <1>3
  <2> QED
    BY <2>1
<1> HIDE DEF ta, tb
<1>13. SumOf(w) = SumOf(ta)
  <2>1. w \in [1 .. k -> Int]
    BY <1>2
  <2>2. Moved(ta, w, ga, l)
    BY <1>11 DEF Moved
  <2> QED
    BY ONLY k \in Nat, l \in Nat, <2>1, <2>2, <1>8, SumMoved, SMTT(60)
<1>14. SumOf(v) = SumOf(tb)
  <2>1. v \in [1 .. h -> Int]
    BY <1>3
  <2>2. Moved(tb, v, gb, l)
    BY <1>12 DEF Moved
  <2> QED
    BY ONLY h \in Nat, l \in Nat, <2>1, <2>2, <1>10, SumMoved, SMTT(60)
<1>15. gain \in [1 .. l -> Int] /\ plus \in [1 .. l -> Int] /\ minus \in [1 .. l -> Int]
  BY <1>1 DEF Weighed
<1>16. r \in [1 .. l -> Int] /\ \A i \in 1 .. l : r[i] = gain[i] + plus[i]
  BY <1>15
<1>17. s \in [1 .. l -> Int] /\ \A i \in 1 .. l : s[i] = tb[i] + minus[i]
  BY <1>12, <1>15
<1> HIDE DEF r, s
<1>18. ASSUME NEW i \in 1 .. l PROVE s[i] = ta[i] + r[i]
  <2>1. /\ gain[i] = IF m[i].a # 0 /\ m[i].b # 0 THEN v[m[i].b] - w[m[i].a] ELSE 0
        /\ plus[i] = IF m[i].a = 0 THEN v[m[i].b] ELSE 0
        /\ minus[i] = IF m[i].b = 0 THEN w[m[i].a] ELSE 0
    BY <1>1 DEF Weighed
  <2>2. /\ ta[i] = IF m[i].a # 0 THEN w[m[i].a] ELSE 0
        /\ tb[i] = IF m[i].b # 0 THEN v[m[i].b] ELSE 0
    <3>1. ta[i] = IF ga[i] # 0 THEN w[ga[i]] ELSE 0
      BY <1>11
    <3>2. tb[i] = IF gb[i] # 0 THEN v[gb[i]] ELSE 0
      BY <1>12
    <3> QED
      BY <1>7, <1>9, <3>1, <3>2
  <2>3. m[i].a # 0 => w[m[i].a] \in Int
    BY <1>2, <1>4
  <2>4. m[i].b # 0 => v[m[i].b] \in Int
    BY <1>3, <1>4
  <2>5. r[i] = gain[i] + plus[i] /\ s[i] = tb[i] + minus[i] /\ (m[i].a # 0 \/ m[i].b # 0)
    BY <1>4, <1>16, <1>17
  <2> HIDE DEF r, s
  <2>6. CASE m[i].a = 0
    BY ONLY <2>1, <2>2, <2>3, <2>4, <2>5, <2>6
  <2>7. CASE m[i].a # 0 /\ m[i].b = 0
    BY ONLY <2>1, <2>2, <2>3, <2>4, <2>5, <2>7
  <2>8. CASE m[i].a # 0 /\ m[i].b # 0
    BY ONLY <2>1, <2>2, <2>3, <2>4, <2>5, <2>8
  <2> QED
    BY <2>6, <2>7, <2>8
<1>19. SumOf(r) = SumOf(gain) + SumOf(plus)
  BY ONLY l \in Nat, <1>15, <1>16, SumPlus
<1>20. SumOf(s) = SumOf(tb) + SumOf(minus)
  BY ONLY l \in Nat, <1>12, <1>15, <1>17, SumPlus
<1>21. SumOf(s) = SumOf(ta) + SumOf(r)
  BY ONLY l \in Nat, <1>11, <1>16, <1>17, <1>18, SumPlus
<1>22. /\ SumOf(ta) \in Int /\ SumOf(tb) \in Int /\ SumOf(minus) \in Int
       /\ SumOf(gain) \in Int /\ SumOf(plus) \in Int
  BY <1>11, <1>12, <1>15, SumInt
<1> QED
  BY ONLY <1>13, <1>14, <1>19, <1>20, <1>21, <1>22

\* The processes below a node, as diff_node_subtree_totals() finds them
IsBelow(f, n) == f = [m \in DOMAIN merged |-> m = n \/ (m > n /\ f[merged[m].up])]
BelowNode(n) == CHOOSE f : IsBelow(f, n)

LEMMA BelowFacts ==
  ASSUME Walked(treeA, treeB, merged, calls), NEW n \in DOMAIN merged
  PROVE  /\ Subtree(n) = [count |-> SumOf([m \in DOMAIN merged |-> IF BelowNode(n)[m] THEN 1 ELSE 0]),
                          cpu |-> SumOf([m \in DOMAIN merged |-> IF BelowNode(n)[m] THEN Cpu(merged[m]) ELSE 0])]
         /\ \A m \in DOMAIN merged : BelowNode(n)[m] <=> m = n \/ (m > n /\ BelowNode(n)[merged[m].up])
<1>0. PICK l \in Nat : l = Len(merged) /\ DOMAIN merged = 1 .. l
  BY WalkUp
<1>1. /\ \A i \in 1 .. l : merged[i].up \in Nat /\ merged[i].up < i /\ (merged[i].up = 0 <=> i = 1)
      /\ \A i \in 1 .. l : i # 1 => merged[i].up \in 1 .. l
  BY <1>0, WalkUp
<1>2. \E f : IsBelow(f, n)
  <2> DEFINE up == [m \in 1 .. l |-> merged[m].up]
             step == [x \in BOOLEAN \X (1 .. l) |-> IF x[2] = n \/ (x[2] > n /\ x[1]) THEN TRUE ELSE FALSE]
  <2>1. up \in [1 .. l -> Nat] /\ \A i \in 1 .. l : up[i] = merged[i].up /\ up[i] < i
    BY <1>1
  <2>2. step \in [BOOLEAN \X (1 .. l) -> BOOLEAN]
    OBVIOUS
  <2>3. \A x \in BOOLEAN, m \in 1 .. l : step[<<x, m>>] <=> m = n \/ (m > n /\ x)
    OBVIOUS
  <2> HIDE DEF up, step
  <2> DEFINE start == IF 1 = n THEN TRUE ELSE FALSE
  <2>4. start \in BOOLEAN /\ (start <=> 1 = n)
    OBVIOUS
  <2> HIDE DEF start
  <2>5. PICK f : Along(f, BOOLEAN, l, up, start, step)
    BY <2>1, <2>2, <2>4, AlongParents
  <2>6. /\ f \in [1 .. l -> BOOLEAN]
        /\ \A i \in 1 .. l : f[i] = IF up[i] = 0 THEN start ELSE step[<<f[up[i]], i>>]
    BY <2>5 DEF Along
  <2>7. ASSUME NEW i \in 1 .. l PROVE f[i] <=> i = n \/ (i > n /\ f[merged[i].up])
    <3>1. CASE i = 1
      <4>1. f[i] = start
        BY <1>1, <2>1, <2>6, <3>1
      <4>2. ~ (i > n)
        BY <1>0, <3>1
      <4> QED
        BY <2>4, <3>1, <4>1, <4>2
    <3>2. CASE i # 1
      <4>1. up[i] # 0 /\ up[i] \in 1 .. l /\ up[i] = merged[i].up
        BY <1>1, <2>1, <3>2
      <4>2. f[up[i]] \in BOOLEAN /\ f[i] = step[<<f[up[i]], i>>]
        BY <2>6, <4>1
      <4>3. step[<<f[up[i]], i>>] <=> i = n \/ (i > n /\ f[up[i]])
        BY <2>3, <4>2
      <4> QED
        BY <4>1, <4>2, <4>3
    <3> QED
      BY <3>1, <3>2
  <2>8. ASSUME NEW i \in 1 .. l PROVE f[i] = (i = n \/ (i > n /\ f[merged[i].up]))
    <3>1. f[i] \in BOOLEAN
      BY <2>6
    <3>2. f[i] <=> i = n \/ (i > n /\ f[merged[i].up])
      BY <2>7
    <3> QED
      BY <3>1, <3>2
  <2>9. f = [m \in 1 .. l |-> m = n \/ (m > n /\ f[merged[m].up])]
    BY <2>6, <2>8
  <2> QED
    BY <1>0, <2>9 DEF IsBelow
<1>3. IsBelow(BelowNode(n), n)
  BY <1>2 DEF BelowNode
<1>4. PICK f : f = BelowNode(n)
  OBVIOUS
<1>5. \A m \in DOMAIN merged : f[m] <=> m = n \/ (m > n /\ f[merged[m].up])
  BY <1>3, <1>4 DEF IsBelow
<1>6. Subtree(n) = [count |-> SumOf([m \in DOMAIN merged |-> IF f[m] THEN 1 ELSE 0]),
                    cpu |-> SumOf([m \in DOMAIN merged |-> IF f[m] THEN Cpu(merged[m]) ELSE 0])]
  BY <1>4 DEF Subtree, BelowNode, IsBelow
<1> QED
  BY <1>4, <1>5, <1>6

\* Below an added node all are added, below a removed one removed; and only
\* below such a node: the topmost one is visited.
LEMMA BelowTopmost ==
  ASSUME IsTree(treeA), IsTree(treeB), Walked(treeA, treeB, merged, calls), NEW s \in {"added", "removed"}
  PROVE  /\ \A n \in Topmost(s), m \in DOMAIN merged : BelowNode(n)[m] => merged[m].status = s
         /\ \A n, p \in Topmost(s), m \in DOMAIN merged : BelowNode(n)[m] /\ BelowNode(p)[m] => n = p
         /\ \A m \in DOMAIN merged : merged[m].status = s => \E n \in Topmost(s) : BelowNode(n)[m]
<1>0. PICK l \in Nat : l = Len(merged) /\ DOMAIN merged = 1 .. l
  BY WalkUp
<1>1. \A i \in 1 .. l : i # 1 => merged[i].up \in 1 .. i - 1 /\ merged[i].up \in 1 .. l
  <2>1. /\ \A i \in 1 .. l : merged[i].up \in Nat /\ merged[i].up < i
        /\ \A i \in 1 .. l : i # 1 => merged[i].up \in 1 .. l
    BY <1>0, WalkUp
  <2> QED
    BY <1>0, <2>1
<1>2. PICK v : /\ \A status : Topmost(status) = {n \in DOMAIN merged : v[n] /\ merged[n].status = status}
               /\ \A n \in DOMAIN merged : v[n] <=> GoesTo(n, merged[n].up) /\ (n = 1 \/ v[merged[n].up])
  BY NodesVisited
<1>3. \A n \in 1 .. l : /\ merged[n].status \in {"same", "changed", "added", "removed"}
                        /\ merged[n].status = "added" <=> merged[n].a = 0
                        /\ merged[n].status = "removed" <=> merged[n].b = 0
                        /\ n = 1 => merged[n].a = 1 /\ merged[n].b = 1
                        /\ n # 1 => Paired(treeA, treeB, merged[merged[n].up].a, merged[merged[n].up].b, merged[n])
  BY <1>0, NodeFacts
<1>4. \A n \in 1 .. l : Matched(n) <=> merged[n].status \notin {"added", "removed"}
  BY <1>3 DEF Matched
<1>5. ASSUME NEW n \in 1 .. l, n # 1, merged[merged[n].up].status \in {"added", "removed"}
      PROVE  merged[n].status = merged[merged[n].up].status
  <2>1. merged[n].up \in 1 .. l
    BY <1>1, <1>5
  <2>2. Paired(treeA, treeB, merged[merged[n].up].a, merged[merged[n].up].b, merged[n])
    BY <1>3, <1>5
  <2>3. CASE merged[merged[n].up].status = "added"
    <3>1. merged[merged[n].up].a = 0
      BY <1>3, <2>1, <2>3
    <3>2. merged[n].a = 0
      BY <2>2, <3>1 DEF Paired, Child, Nobody
    <3> QED
      BY <1>3, <2>3, <3>2
  <2>4. CASE merged[merged[n].up].status = "removed"
    <3>1. merged[merged[n].up].b = 0
      BY <1>3, <2>1, <2>4
    <3>2. merged[n].b = 0
      BY <2>2, <3>1 DEF Paired, Child, Nobody
    <3> QED
      BY <1>3, <2>4, <3>2
  <2> QED
    BY <1>5, <2>3, <2>4
<1>7. \A n \in 1 .. l : merged[n].status \in {"added", "removed"} => n # 1
  BY <1>3
<1>8. \A n \in Topmost(s) : n \in 1 .. l /\ merged[n].status = s /\ n # 1 /\ Matched(merged[n].up)
  BY <1>0, <1>2, <1>7 DEF GoesTo
<1>9. \A n \in 1 .. l, m \in 1 .. l : BelowNode(n)[m] <=> m = n \/ (m > n /\ BelowNode(n)[merged[m].up])
  BY <1>0, BelowFacts
<1>10. \A n, m \in 1 .. l : BelowNode(n)[m] => m >= n
  BY <1>9
<1>11. \A n \in Topmost(s), m \in 1 .. l : BelowNode(n)[m] => merged[m].status = s
  <2> SUFFICES ASSUME NEW n \in Topmost(s) PROVE \A m \in 1 .. l : BelowNode(n)[m] => merged[m].status = s
    OBVIOUS
  <2> DEFINE K == {i \in Nat : \A m \in 1 .. l : m <= i /\ BelowNode(n)[m] => merged[m].status = s}
  <2>1. 0 \in K
    OBVIOUS
  <2>2. ASSUME NEW i \in Nat, i \in K PROVE i + 1 \in K
    <3> SUFFICES ASSUME i + 1 \in 1 .. l, BelowNode(n)[i + 1] PROVE merged[i + 1].status = s
      BY <2>2
    <3>0. PICK m \in 1 .. l : m = i + 1
      OBVIOUS
    <3>1. CASE m = n
      BY <1>8, <3>0, <3>1
    <3>2. CASE m # n
      <4>1. m > n /\ BelowNode(n)[merged[m].up]
        BY <1>8, <1>9, <3>0, <3>2
      <4>2. m # 1
        BY <1>8, <4>1
      <4>3. merged[m].up \in 1 .. l /\ merged[m].up <= i
        BY <1>1, <3>0, <4>2
      <4>4. merged[merged[m].up].status = s
        BY <2>2, <4>1, <4>3
      <4> QED
        BY <1>5, <3>0, <4>2, <4>4
    <3> QED
      BY <3>1, <3>2
  <2> HIDE DEF K
  <2>3. Nat \subseteq K
    BY <2>1, <2>2, SetInduction
  <2>4. l \in K
    BY <2>3
  <2> QED
    BY <2>4 DEF K
<1>12. \A n, p \in Topmost(s), m \in 1 .. l : BelowNode(n)[m] /\ BelowNode(p)[m] => n = p
  <2> SUFFICES ASSUME NEW n \in Topmost(s), NEW p \in Topmost(s)
               PROVE  \A m \in 1 .. l : BelowNode(n)[m] /\ BelowNode(p)[m] => n = p
    OBVIOUS
  <2>0. /\ n \in 1 .. l /\ n # 1 /\ Matched(merged[n].up) /\ merged[n].up \in 1 .. l
        /\ p \in 1 .. l /\ p # 1 /\ Matched(merged[p].up) /\ merged[p].up \in 1 .. l
    BY <1>1, <1>8
  <2> DEFINE K == {i \in Nat : \A m \in 1 .. l : m <= i /\ BelowNode(n)[m] /\ BelowNode(p)[m] => n = p}
  <2>1. 0 \in K
    OBVIOUS
  <2>2. ASSUME NEW i \in Nat, i \in K PROVE i + 1 \in K
    <3> SUFFICES ASSUME i + 1 \in 1 .. l, BelowNode(n)[i + 1], BelowNode(p)[i + 1] PROVE n = p
      BY <2>2
    <3>0. PICK m \in 1 .. l : m = i + 1 /\ BelowNode(n)[m] /\ BelowNode(p)[m]
      OBVIOUS
    <3>1. CASE m = n /\ m # p
      <4>1. BelowNode(p)[merged[n].up]
        BY <1>9, <2>0, <3>0, <3>1
      <4>2. merged[merged[n].up].status = s
        BY <1>11, <2>0, <4>1
      <4> QED
        BY <1>4, <2>0, <4>2
    <3>2. CASE m = p /\ m # n
      <4>1. BelowNode(n)[merged[p].up]
        BY <1>9, <2>0, <3>0, <3>2
      <4>2. merged[merged[p].up].status = s
        BY <1>11, <2>0, <4>1
      <4> QED
        BY <1>4, <2>0, <4>2
    <3>3. CASE m # n /\ m # p
      <4>1. m > n /\ BelowNode(n)[merged[m].up] /\ BelowNode(p)[merged[m].up]
        BY <1>9, <2>0, <3>0, <3>3
      <4>2. m # 1
        BY <2>0, <4>1
      <4>3. merged[m].up \in 1 .. l /\ merged[m].up <= i
        BY <1>1, <3>0, <4>2
      <4> QED
        BY <2>2, <4>1, <4>3
    <3> QED
      BY <3>1, <3>2, <3>3
  <2> HIDE DEF K
  <2>3. Nat \subseteq K
    BY <2>1, <2>2, SetInduction
  <2>4. l \in K
    BY <2>3
  <2> QED
    BY <2>4 DEF K
<1>13. \A m \in 1 .. l : Matched(m) => v[m]
  <2> DEFINE K == {i \in Nat : \A m \in 1 .. l : m <= i /\ Matched(m) => v[m]}
  <2>1. 0 \in K
    OBVIOUS
  <2>2. ASSUME NEW i \in Nat, i \in K PROVE i + 1 \in K
    <3> SUFFICES ASSUME i + 1 \in 1 .. l, Matched(i + 1) PROVE v[i + 1]
      BY <2>2
    <3>0. PICK m \in 1 .. l : m = i + 1 /\ Matched(m)
      OBVIOUS
    <3>1. v[m] <=> GoesTo(m, merged[m].up) /\ (m = 1 \/ v[merged[m].up])
      BY <1>0, <1>2
    <3>2. CASE m = 1
      BY <3>0, <3>1, <3>2 DEF GoesTo
    <3>3. CASE m # 1
      <4>1. merged[m].up \in 1 .. l /\ merged[m].up <= i
        BY <1>1, <3>0, <3>3
      <4>2. Matched(merged[m].up)
        BY <1>4, <1>5, <3>0, <3>3, <4>1
      <4>3. v[merged[m].up]
        BY <2>2, <4>1, <4>2
      <4> QED
        BY <3>0, <3>1, <4>2, <4>3 DEF GoesTo
    <3> QED
      BY <3>2, <3>3
  <2> HIDE DEF K
  <2>3. Nat \subseteq K
    BY <2>1, <2>2, SetInduction
  <2>4. l \in K
    BY <2>3
  <2> QED
    BY <2>4 DEF K
<1>14. \A m \in 1 .. l : merged[m].status = s => \E n \in Topmost(s) : BelowNode(n)[m]
  <2> DEFINE K == {i \in Nat : \A m \in 1 .. l : m <= i /\ merged[m].status = s =>
                                                  \E n \in Topmost(s) : BelowNode(n)[m]}
  <2>1. 0 \in K
    OBVIOUS
  <2>2. ASSUME NEW i \in Nat, i \in K PROVE i + 1 \in K
    <3> SUFFICES ASSUME i + 1 \in 1 .. l, merged[i + 1].status = s PROVE \E n \in Topmost(s) : BelowNode(n)[i + 1]
      BY <2>2
    <3>0. PICK m \in 1 .. l : m = i + 1 /\ merged[m].status = s
      OBVIOUS
    <3>1. m # 1 /\ merged[m].up \in 1 .. l /\ merged[m].up <= i
      BY <1>1, <1>7, <3>0
    <3>2. CASE Matched(merged[m].up)
      <4>1. v[m]
        BY <1>0, <1>2, <1>13, <3>1, <3>2 DEF GoesTo
      <4>2. m \in Topmost(s)
        BY <1>0, <1>2, <3>0, <4>1
      <4>3. BelowNode(m)[m]
        BY <1>9
      <4> QED
        BY <3>0, <4>2, <4>3
    <3>3. CASE ~ Matched(merged[m].up)
      <4>1. merged[merged[m].up].status \in {"added", "removed"}
        BY <1>4, <3>1, <3>3
      <4>2. merged[merged[m].up].status = s
        BY <1>5, <3>0, <3>1, <4>1
      <4>3. PICK n \in Topmost(s) : BelowNode(n)[merged[m].up]
        BY <2>2, <3>1, <4>2
      <4>4. n \in 1 .. l /\ merged[m].up >= n
        BY <1>8, <1>10, <3>1, <4>3
      <4>5. m > n
        BY <3>0, <3>1, <4>4
      <4>6. BelowNode(n)[m]
        BY <1>9, <4>3, <4>4, <4>5
      <4> QED
        BY <3>0, <4>6
    <3> QED
      BY <3>2, <3>3
  <2> HIDE DEF K
  <2>3. Nat \subseteq K
    BY <2>1, <2>2, SetInduction
  <2>4. l \in K
    BY <2>3
  <2> QED
    BY <2>4 DEF K
<1> QED
  BY <1>0, <1>11, <1>12, <1>14

ShownSums(s, w) ==
  [n \in DOMAIN merged |->
     IF n \in Topmost(s) THEN SumOf([m \in DOMAIN merged |-> IF BelowNode(n)[m] THEN w[m] ELSE 0]) ELSE 0]
TermsOf(s, w) == [m \in DOMAIN merged |-> IF merged[m].status = s THEN w[m] ELSE 0]

\* So the subtrees shown, taken together, have each added (removed) process once.
LEMMA ShownOnce ==
  ASSUME IsTree(treeA), IsTree(treeB), Walked(treeA, treeB, merged, calls), NEW s \in {"added", "removed"},
         NEW w \in [DOMAIN merged -> Int]
  PROVE  SumOf(ShownSums(s, w)) = SumOf(TermsOf(s, w))
<1>0. PICK l \in Nat : DOMAIN merged = 1 .. l
  BY WalkUp
<1> DEFINE shown == ShownSums(s, w)
           own == TermsOf(s, w)
           In(n, m) == n \in Topmost(s) /\ BelowNode(n)[m]
           M == [z \in (1 .. l) \X (1 .. l) |-> IF In(z[1], z[2]) THEN w[z[2]] ELSE 0]
<1>1. \A m \in 1 .. l : w[m] \in Int
  BY <1>0
<1>2. \A n \in Topmost(s) : n \in 1 .. l
  BY <1>0 DEF Topmost
<1>3. /\ \A n, m \in 1 .. l : In(n, m) => merged[m].status = s
      /\ \A n, p, m \in 1 .. l : In(n, m) /\ In(p, m) => n = p
      /\ \A m \in 1 .. l : merged[m].status = s => \E n \in 1 .. l : In(n, m)
  <2>1. /\ \A n \in Topmost(s), m \in DOMAIN merged : BelowNode(n)[m] => merged[m].status = s
        /\ \A n, p \in Topmost(s), m \in DOMAIN merged : BelowNode(n)[m] /\ BelowNode(p)[m] => n = p
        /\ \A m \in DOMAIN merged : merged[m].status = s => \E n \in Topmost(s) : BelowNode(n)[m]
    BY BelowTopmost
  <2> QED
    BY <1>0, <1>2, <2>1
<1>4. \A n \in 1 .. l : shown[n] = IF n \in Topmost(s)
                                   THEN SumOf([m \in 1 .. l |-> IF BelowNode(n)[m] THEN w[m] ELSE 0]) ELSE 0
  BY <1>0 DEF ShownSums
<1>5. \A m \in 1 .. l : own[m] = IF merged[m].status = s THEN w[m] ELSE 0
  BY <1>0 DEF TermsOf
<1>6. shown = [n \in 1 .. l |-> shown[n]] /\ own = [n \in 1 .. l |-> own[n]]
  BY <1>0 DEF ShownSums, TermsOf
<1> HIDE DEF shown, own
<1>7. ASSUME NEW n \in 1 .. l PROVE shown[n] = SumOf([m \in 1 .. l |-> M[<<n, m>>]])
  <2>1. CASE n \in Topmost(s)
    <3>1. [m \in 1 .. l |-> IF BelowNode(n)[m] THEN w[m] ELSE 0] = [m \in 1 .. l |-> M[<<n, m>>]]
      BY <2>1
    <3> QED
      BY <1>4, <2>1, <3>1
  <2>2. CASE n \notin Topmost(s)
    <3> DEFINE r == [m \in 1 .. l |-> M[<<n, m>>]]
    <3>1. r \in [1 .. l -> Int] /\ \A m \in 1 .. l : r[m] = 0
      BY <2>2
    <3>2. SumOf(r) = 0
      <4> HIDE DEF r
      <4> QED
        BY <3>1, SumZero
    <3> QED
      BY <1>4, <2>2, <3>2
  <2> QED
    BY <2>1, <2>2
<1>8. ASSUME NEW m \in 1 .. l PROVE own[m] = SumOf([n \in 1 .. l |-> M[<<n, m>>]])
  <2> DEFINE c == [n \in 1 .. l |-> M[<<n, m>>]]
  <2>1. \A n \in 1 .. l : c[n] = IF In(n, m) THEN w[m] ELSE 0
    OBVIOUS
  <2>2. c \in [1 .. l -> Int]
    BY <1>1
  <2> HIDE DEF c, In
  <2>3. CASE merged[m].status = s
    <3>1. PICK n \in 1 .. l : In(n, m)
      BY <1>3, <2>3
    <3>2. \A p \in 1 .. l : p # n => c[p] = 0
      BY <1>3, <2>1, <3>1
    <3>3. SumOf(c) = c[n]
      BY ONLY l \in Nat, n \in 1 .. l, <2>2, <3>2, SumOne
    <3>4. SumOf(c) = own[m]
      BY <1>5, <2>1, <2>3, <3>1, <3>3
    <3> QED
      BY <3>4 DEF c
  <2>4. CASE merged[m].status # s
    <3>1. \A p \in 1 .. l : c[p] = 0
      BY <1>3, <2>1, <2>4
    <3>2. SumOf(c) = 0
      BY ONLY l \in Nat, <2>2, <3>1, SumZero
    <3>3. SumOf(c) = own[m]
      BY <1>5, <2>4, <3>2
    <3> QED
      BY <3>3 DEF c
  <2> QED
    BY <2>3, <2>4
<1>9. M \in [(1 .. l) \X (1 .. l) -> Int]
  BY <1>1
<1> HIDE DEF M
<1>10. RowSums(M, l, l) = shown
  BY <1>6, <1>7 DEF RowSums
<1>11. ColSums(M, l, l) = own
  BY <1>6, <1>8 DEF ColSums
<1>12. SumOf(RowSums(M, l, l)) = SumOf(ColSums(M, l, l))
  BY ONLY l \in Nat, <1>9, SumsCross
<1> QED
  BY <1>10, <1>11, <1>12 DEF shown, own

-----------------------------------------------------------------------------
(* The totals of a command name *)

CommTables(tree) == UNION {[D -> [count : Int, utime : Int, stime : Int]] : D \in SUBSET CommsOf(tree)}
NamedUpTo(tree, c, n) == {i \in 1 .. n : tree[i].comm = c}
TimeOf(tree, c, n) == [i \in 1 .. n |-> IF tree[i].comm = c THEN tree[i].utime + tree[i].stime ELSE 0]
Totalled(tree, c, n, table) ==
  IF c \in DOMAIN table
  THEN /\ table[c].count = Cardinality(NamedUpTo(tree, c, n))
       /\ table[c].utime + table[c].stime = SumOf(TimeOf(tree, c, n))
  ELSE NamedUpTo(tree, c, n) = {}

LEMMA TalliedTyped ==
  ASSUME NEW tree, IsTree(tree), NEW i \in DOMAIN tree, NEW table \in CommTables(tree)
  PROVE  Tallied(table, tree[i]) \in CommTables(tree)
<1> DEFINE E == [count : Int, utime : Int, stime : Int]
           p == tree[i]
<1>1. PICK D \in SUBSET CommsOf(tree) : table \in [D -> E]
  BY DEF CommTables
<1>2. tree[i].utime \in Int /\ tree[i].stime \in Int /\ tree[i].comm \in CommsOf(tree)
  BY DEF IsTree, CommsOf
<1>3. CASE tree[i].comm = Unnamed
  BY <1>3 DEF Tallied
<1>4. CASE tree[i].comm # Unnamed
  <2> DEFINE F == DOMAIN table \cup {tree[i].comm}
             Entry(c) == IF c # tree[i].comm THEN table[c]
                         ELSE IF c \notin DOMAIN table THEN [count |-> 1, utime |-> tree[i].utime, stime |-> tree[i].stime]
                         ELSE [count |-> table[c].count + 1, utime |-> table[c].utime + tree[i].utime,
                               stime |-> table[c].stime + tree[i].stime]
  <2>1. ASSUME NEW c \in F PROVE Entry(c) \in E
    <3>1. CASE c # tree[i].comm
      BY <1>1, <3>1
    <3>2. CASE c = tree[i].comm /\ c \notin DOMAIN table
      BY <1>2, <3>2
    <3>3. CASE c = tree[i].comm /\ c \in DOMAIN table
      <4>1. table[c] \in E
        BY <1>1, <3>3
      <4>2. table[c].count \in Int /\ table[c].utime \in Int /\ table[c].stime \in Int
        BY <4>1
      <4> QED
        BY <1>2, <3>3, <4>2
    <3> QED
      BY <3>1, <3>2, <3>3
  <2>2. F \in SUBSET CommsOf(tree)
    BY <1>1, <1>2
  <2>3. Tallied(table, tree[i]) = [c \in F |-> Entry(c)]
    BY <1>4 DEF Tallied
  <2> HIDE DEF F, Entry
  <2>4. Tallied(table, tree[i]) \in [F -> E]
    BY <2>1, <2>3
  <2> QED
    BY <2>2, <2>4 DEF CommTables
<1> QED
  BY <1>3, <1>4

LEMMA TalliedNext ==
  ASSUME NEW tree, IsTree(tree), NEW i \in Nat, i + 1 \in DOMAIN tree, NEW table \in CommTables(tree),
         NEW c, c # Unnamed, Totalled(tree, c, i, table)
  PROVE  Totalled(tree, c, i + 1, Tallied(table, tree[i + 1]))
<1> DEFINE p == tree[i + 1]
           next == Tallied(table, p)
           was == TimeOf(tree, c, i)
           is == TimeOf(tree, c, i + 1)
<1>1. p.utime \in Int /\ p.stime \in Int
  BY DEF IsTree
<1>2. \A j \in 1 .. i + 1 : tree[j].utime \in Int /\ tree[j].stime \in Int
  <2>1. Len(tree) \in Nat /\ DOMAIN tree = 1 .. Len(tree)
    BY TreeFacts
  <2>2. \A j \in 1 .. i + 1 : j \in DOMAIN tree
    BY <2>1
  <2> QED
    BY <2>2 DEF IsTree
<1>3. /\ was \in [1 .. i -> Int] /\ is \in [1 .. i + 1 -> Int]
      /\ \A j \in 1 .. i : was[j] = is[j]
      /\ is[i + 1] = IF p.comm = c THEN p.utime + p.stime ELSE 0
  BY <1>2 DEF TimeOf
<1>4. SumOf(is) = SumOf(was) + is[i + 1] /\ SumOf(was) \in Int
  <2>1. was \in [1 .. i -> Int]
    BY <1>3
  <2>2. is \in [1 .. i + 1 -> Int]
    BY <1>3
  <2>3. \A j \in 1 .. i : was[j] = is[j]
    BY <1>3
  <2> HIDE DEF was, is
  <2>4. SumOf(is) = SumOf(was) + is[i + 1]
    BY ONLY i \in Nat, <2>1, <2>2, <2>3, SumNext
  <2>5. SumOf(was) \in Int
    BY <2>1, SumInt
  <2> QED
    BY <2>4, <2>5
<1>5. \A j \in 1 .. i + 1 : j \in 1 .. i \/ j = i + 1
  OBVIOUS
<1>6. IsFiniteSet(NamedUpTo(tree, c, i)) /\ Cardinality(NamedUpTo(tree, c, i)) \in Nat
  <2>1. IsFiniteSet(1 .. i)
    BY FS_Interval
  <2>2. NamedUpTo(tree, c, i) \in SUBSET (1 .. i)
    BY DEF NamedUpTo
  <2> QED
    BY <2>1, <2>2, FS_Subset, FS_CardinalityType
<1>7. CASE p.comm # c
  <2>1. NamedUpTo(tree, c, i + 1) = NamedUpTo(tree, c, i)
    BY <1>5, <1>7 DEF NamedUpTo
  <2>2. SumOf(is) = SumOf(was)
    BY <1>3, <1>4, <1>7
  <2>3. (c \in DOMAIN next <=> c \in DOMAIN table) /\ (c \in DOMAIN table => next[c] = table[c])
    BY <1>7 DEF Tallied
  <2> HIDE DEF next, was, is
  <2>4. Totalled(tree, c, i + 1, next)
    BY <2>1, <2>2, <2>3 DEF Totalled, was, is
  <2> QED
    BY <2>4 DEF next
<1>8. CASE p.comm = c
  <2>1. NamedUpTo(tree, c, i + 1) = NamedUpTo(tree, c, i) \cup {i + 1}
    BY <1>5, <1>8 DEF NamedUpTo
  <2>2. Cardinality(NamedUpTo(tree, c, i + 1)) = Cardinality(NamedUpTo(tree, c, i)) + 1
    <3>1. i + 1 \notin NamedUpTo(tree, c, i)
      BY DEF NamedUpTo
    <3> QED
      BY <1>6, <2>1, <3>1, FS_AddElement
  <2>3. SumOf(is) = SumOf(was) + (p.utime + p.stime)
    BY <1>3, <1>4, <1>8
  <2>4. CASE c \notin DOMAIN table
    <3>1. c \in DOMAIN next /\ next[c] = [count |-> 1, utime |-> p.utime, stime |-> p.stime]
      BY <1>8, <2>4 DEF Tallied
    <3>2. NamedUpTo(tree, c, i) = {}
      BY <2>4 DEF Totalled
    <3>3. Cardinality(NamedUpTo(tree, c, i)) = 0
      BY <3>2, FS_EmptySet
    <3>4. SumOf(was) = 0
      <4>1. \A j \in 1 .. i : was[j] = 0
        BY <3>2 DEF NamedUpTo, TimeOf
      <4>2. was \in [1 .. i -> Int]
        BY <1>3
      <4> HIDE DEF was
      <4> QED
        BY ONLY i \in Nat, <4>1, <4>2, SumZero
    <3> HIDE DEF next, was, is
    <3>5. next[c].count = 1 /\ next[c].utime = p.utime /\ next[c].stime = p.stime
      BY <3>1
    <3>6. next[c].utime + next[c].stime = SumOf(is)
      BY <1>1, <2>3, <3>4, <3>5
    <3>7. next[c].count = Cardinality(NamedUpTo(tree, c, i + 1))
      BY <2>2, <3>3, <3>5
    <3>8. Totalled(tree, c, i + 1, next)
      BY <3>1, <3>6, <3>7 DEF Totalled, is
    <3> QED
      BY <3>8 DEF next
  <2>5. CASE c \in DOMAIN table
    <3>1. c \in DOMAIN next /\ next[c] = [count |-> table[c].count + 1, utime |-> table[c].utime + p.utime,
                                          stime |-> table[c].stime + p.stime]
      BY <1>8, <2>5 DEF Tallied
    <3>2. table[c] \in [count : Int, utime : Int, stime : Int]
      BY <2>5 DEF CommTables
    <3>3. table[c].count \in Int /\ table[c].utime \in Int /\ table[c].stime \in Int
      BY <3>2
    <3>4. /\ table[c].count = Cardinality(NamedUpTo(tree, c, i))
          /\ table[c].utime + table[c].stime = SumOf(was)
      BY <2>5 DEF Totalled
    <3> HIDE DEF next, was, is
    <3>5. /\ next[c].count = table[c].count + 1 /\ next[c].utime = table[c].utime + p.utime
          /\ next[c].stime = table[c].stime + p.stime
      BY <3>1
    <3>6. next[c].utime + next[c].stime = SumOf(is)
      BY <1>1, <2>3, <3>3, <3>4, <3>5
    <3>7. next[c].count = Cardinality(NamedUpTo(tree, c, i + 1))
      BY <2>2, <3>4, <3>5
    <3>8. Totalled(tree, c, i + 1, next)
      BY <3>1, <3>6, <3>7 DEF Totalled, is
    <3> QED
      BY <3>8 DEF next
  <2> QED
    BY <2>4, <2>5
<1> QED
  BY <1>7, <1>8

LEMMA TableTotals ==
  ASSUME NEW tree, IsTree(tree), NEW c, c # Unnamed
  PROVE  Totalled(tree, c, Len(tree), CommTable(tree))
<1>0. PICK l \in Nat : l = Len(tree) /\ DOMAIN tree = 1 .. l
  BY TreeFacts
<1> DEFINE S == CommTables(tree)
           none == [d \in {} |-> 0]
           Value(u, n) == IF n = 0 THEN none ELSE Tallied(u[n - 1], tree[n])
           Is(u) == u = [n \in 0 .. l |-> Value(u, n)]
           step == [z \in S \X (1 .. l) |-> Tallied(z[1], tree[z[2]])]
<1>1. none \in S /\ DOMAIN none = {}
  <2>1. none \in [{} -> [count : Int, utime : Int, stime : Int]]
    OBVIOUS
  <2> QED
    BY <2>1 DEF CommTables
<1>2. \A t \in S, i \in 1 .. l : Tallied(t, tree[i]) \in S
  BY <1>0, TalliedTyped
<1>3. step \in [S \X (1 .. l) -> S] /\ \A t \in S, i \in 1 .. l : step[<<t, i>>] = Tallied(t, tree[i])
  BY <1>2
<1> HIDE DEF S, step, none
<1>4. PICK f : Looped(f, S, none, l, step)
  BY <1>1, <1>3, LoopOf
<1>5. /\ f \in [0 .. l -> S] /\ f[0] = none
      /\ \A i \in 1 .. l : f[i - 1] \in S /\ f[i] = Tallied(f[i - 1], tree[i])
  <2>1. f \in [0 .. l -> S] /\ f[0] = none /\ \A i \in 1 .. l : f[i] = step[<<f[i - 1], i>>]
    BY <1>4 DEF Looped
  <2>2. ASSUME NEW i \in 1 .. l PROVE f[i - 1] \in S /\ f[i] = Tallied(f[i - 1], tree[i])
    <3>1. i - 1 \in 0 .. l
      OBVIOUS
    <3>2. f[i - 1] \in S
      BY <2>1, <3>1
    <3>3. f[i] = step[<<f[i - 1], i>>]
      BY <2>1
    <3> QED
      BY <1>3, <3>2, <3>3
  <2> QED
    BY <2>1, <2>2
<1>6. Is(f)
  <2>1. \A i \in 0 .. l : i = 0 \/ i \in 1 .. l
    OBVIOUS
  <2>2. \A i \in 0 .. l : f[i] = Value(f, i)
    BY <1>5, <2>1
  <2> HIDE DEF Value
  <2> QED
    BY <1>5, <2>2
<1>7. PICK u : u = CHOOSE g : Is(g)
  OBVIOUS
<1>8. Is(u)
  <2> HIDE DEF Is
  <2> QED
    BY <1>6, <1>7
<1>9. CommTable(tree) = u[l]
  BY <1>0, <1>7 DEF CommTable, none
<1>10. u[0] = none /\ \A i \in 1 .. l : u[i] = Tallied(u[i - 1], tree[i])
  <2>1. \A i \in 0 .. l : u[i] = Value(u, i)
    <3> HIDE DEF Value
    <3> QED
      BY <1>8
  <2>2. \A i \in 1 .. l : i \in 0 .. l /\ i # 0
    OBVIOUS
  <2> QED
    BY <2>1, <2>2
<1> DEFINE K == {i \in Nat : i <= l => u[i] \in S /\ Totalled(tree, c, i, u[i])}
<1>11. 0 \in K
  <2>1. NamedUpTo(tree, c, 0) = {}
    BY DEF NamedUpTo
  <2> QED
    BY <1>1, <1>10, <2>1 DEF Totalled
<1>12. ASSUME NEW i \in Nat, i \in K PROVE i + 1 \in K
  <2> SUFFICES ASSUME i + 1 <= l PROVE u[i + 1] \in S /\ Totalled(tree, c, i + 1, u[i + 1])
    OBVIOUS
  <2>1. i + 1 \in 1 .. l /\ (i + 1) - 1 = i /\ u[i] \in S /\ Totalled(tree, c, i, u[i])
    BY <1>12
  <2>2. u[i + 1] = Tallied(u[i], tree[i + 1])
    BY <1>10, <2>1
  <2>3. Totalled(tree, c, i + 1, Tallied(u[i], tree[i + 1]))
    BY <1>0, <2>1, TalliedNext DEF S
  <2> QED
    BY <1>2, <2>1, <2>2, <2>3
<1> HIDE DEF K
<1>13. Nat \subseteq K
  BY <1>11, <1>12, SetInduction
<1>14. Totalled(tree, c, l, u[l])
  BY <1>13 DEF K
<1> QED
  BY <1>0, <1>9, <1>14

SubtreesShown(s) ==
  [n \in DOMAIN merged |-> IF n \in Topmost(s) THEN Subtree(n) ELSE [count |-> 0, cpu |-> 0]]
Ones == [m \in DOMAIN merged |-> 1]
Cpus == [m \in DOMAIN merged |-> Cpu(merged[m])]

\* The processes and the time of the subtrees shown
LEMMA ShownTotals ==
  ASSUME IsTree(treeA), IsTree(treeB), Walked(treeA, treeB, merged, calls), NEW s \in {"added", "removed"},
         Cpus \in [DOMAIN merged -> Int]
  PROVE  /\ SumOf([n \in DOMAIN SubtreesShown(s) |-> SubtreesShown(s)[n].count]) = SumOf(TermsOf(s, Ones))
         /\ SumOf([n \in DOMAIN SubtreesShown(s) |-> SubtreesShown(s)[n].cpu]) = SumOf(TermsOf(s, Cpus))
<1> DEFINE shown == SubtreesShown(s)
           SumBelow(n, w) == SumOf([m \in DOMAIN merged |-> IF BelowNode(n)[m] THEN w[m] ELSE 0])
<1>1. Ones \in [DOMAIN merged -> Int]
  BY DEF Ones
<1>2. SumOf(ShownSums(s, Ones)) = SumOf(TermsOf(s, Ones)) /\ SumOf(ShownSums(s, Cpus)) = SumOf(TermsOf(s, Cpus))
  BY <1>1, ShownOnce
<1>3. \A n \in Topmost(s) : n \in DOMAIN merged
  BY DEF Topmost
<1>4. ASSUME NEW n \in Topmost(s)
      PROVE  Subtree(n) = [count |-> SumBelow(n, Ones), cpu |-> SumBelow(n, Cpus)]
  <2>1. n \in DOMAIN merged
    BY <1>3
  <2>2. Subtree(n) = [count |-> SumOf([m \in DOMAIN merged |-> IF BelowNode(n)[m] THEN 1 ELSE 0]),
                      cpu |-> SumOf([m \in DOMAIN merged |-> IF BelowNode(n)[m] THEN Cpu(merged[m]) ELSE 0])]
    BY <2>1, BelowFacts
  <2>3. [m \in DOMAIN merged |-> IF BelowNode(n)[m] THEN 1 ELSE 0]
          = [m \in DOMAIN merged |-> IF BelowNode(n)[m] THEN Ones[m] ELSE 0]
    BY DEF Ones
  <2>4. [m \in DOMAIN merged |-> IF BelowNode(n)[m] THEN Cpu(merged[m]) ELSE 0]
          = [m \in DOMAIN merged |-> IF BelowNode(n)[m] THEN Cpus[m] ELSE 0]
    BY DEF Cpus
  <2> QED
    BY <2>2, <2>3, <2>4
<1>5. ASSUME NEW w PROVE \A n \in DOMAIN merged :
                            ShownSums(s, w)[n] = IF n \in Topmost(s) THEN SumBelow(n, w) ELSE 0
  BY DEF ShownSums
<1> HIDE DEF SumBelow
<1>6. DOMAIN shown = DOMAIN merged
      /\ \A n \in DOMAIN merged : shown[n] = IF n \in Topmost(s) THEN Subtree(n) ELSE [count |-> 0, cpu |-> 0]
  BY DEF SubtreesShown
<1>7. ASSUME NEW n \in DOMAIN merged
      PROVE  shown[n].count = ShownSums(s, Ones)[n] /\ shown[n].cpu = ShownSums(s, Cpus)[n]
  <2>1. /\ ShownSums(s, Ones)[n] = IF n \in Topmost(s) THEN SumBelow(n, Ones) ELSE 0
        /\ ShownSums(s, Cpus)[n] = IF n \in Topmost(s) THEN SumBelow(n, Cpus) ELSE 0
    BY <1>5
  <2>2. CASE n \in Topmost(s)
    <3>1. shown[n] = [count |-> SumBelow(n, Ones), cpu |-> SumBelow(n, Cpus)]
      BY <1>4, <1>6, <2>2
    <3> HIDE DEF shown
    <3>2. shown[n].count = SumBelow(n, Ones) /\ shown[n].cpu = SumBelow(n, Cpus)
      BY <3>1
    <3> QED
      BY <2>1, <2>2, <3>2
  <2>3. CASE n \notin Topmost(s)
    <3>1. shown[n] = [count |-> 0, cpu |-> 0]
      BY <1>6, <2>3
    <3> HIDE DEF shown
    <3>2. shown[n].count = 0 /\ shown[n].cpu = 0
      BY <3>1
    <3> QED
      BY <2>1, <2>3, <3>2
  <2> QED
    BY <2>2, <2>3
<1>8. \A w : ShownSums(s, w) = [n \in DOMAIN merged |-> ShownSums(s, w)[n]]
  BY DEF ShownSums
<1>9. [n \in DOMAIN shown |-> shown[n].count] = ShownSums(s, Ones)
  <2> HIDE DEF shown
  <2>1. [n \in DOMAIN shown |-> shown[n].count] = [n \in DOMAIN merged |-> ShownSums(s, Ones)[n]]
    BY <1>6, <1>7
  <2> QED
    BY <1>8, <2>1
<1>10. [n \in DOMAIN shown |-> shown[n].cpu] = ShownSums(s, Cpus)
  <2> HIDE DEF shown
  <2>1. [n \in DOMAIN shown |-> shown[n].cpu] = [n \in DOMAIN merged |-> ShownSums(s, Cpus)[n]]
    BY <1>6, <1>7
  <2> QED
    BY <1>8, <2>1
<1> QED
  BY <1>2, <1>9, <1>10

LEMMA DiffCounted ==
  ASSUME DiffInv, exit # <<>>
  PROVE  LET Subtrees(status) ==
               [n \in DOMAIN merged |-> IF n \in Topmost(status) THEN Subtree(n) ELSE [count |-> 0, cpu |-> 0]]
             Processes(subtrees) == SumOf([n \in DOMAIN subtrees |-> subtrees[n].count])
             Time(subtrees) == SumOf([n \in DOMAIN subtrees |-> subtrees[n].cpu])
             Gain(d) == d.utime + d.stime
             gains == [n \in DOMAIN merged |->
                         IF Matched(n) THEN Gain(Delta(treeA[merged[n].a], treeB[merged[n].b])) ELSE 0]
         IN /\ Len(treeB) - Len(treeA) = Processes(Subtrees("added")) - Processes(Subtrees("removed"))
            /\ CpuOf(treeB) - CpuOf(treeA) = SumOf(gains) + Time(Subtrees("added")) - Time(Subtrees("removed"))
<1> DEFINE Subtrees(status) ==
             [n \in DOMAIN merged |-> IF n \in Topmost(status) THEN Subtree(n) ELSE [count |-> 0, cpu |-> 0]]
           Processes(subtrees) == SumOf([n \in DOMAIN subtrees |-> subtrees[n].count])
           Time(subtrees) == SumOf([n \in DOMAIN subtrees |-> subtrees[n].cpu])
           Gain(d) == d.utime + d.stime
           gains == [n \in DOMAIN merged |->
                       IF Matched(n) THEN Gain(Delta(treeA[merged[n].a], treeB[merged[n].b])) ELSE 0]
           zero == [m \in DOMAIN merged |-> 0]
           oneA == [n \in DOMAIN treeA |-> 1]
           oneB == [n \in DOMAIN treeB |-> 1]
           cpuA == [n \in DOMAIN treeA |-> treeA[n].utime + treeA[n].stime]
           cpuB == [n \in DOMAIN treeB |-> treeB[n].utime + treeB[n].stime]
<1>1. IsTree(treeA) /\ IsTree(treeB) /\ Walked(treeA, treeB, merged, calls) /\ calls = <<>>
  BY DEF DiffInv
<1>2. Walked(treeA, treeB, merged, <<>>)
  BY <1>1
<1>3. PICK l \in Nat : DOMAIN merged = 1 .. l
  BY <1>1, WalkUp
<1>4. /\ Len(treeA) \in Nat /\ DOMAIN treeA = 1 .. Len(treeA)
      /\ Len(treeB) \in Nat /\ DOMAIN treeB = 1 .. Len(treeB)
  BY <1>1, TreeFacts
<1>5. /\ \A n \in DOMAIN treeA : treeA[n].utime \in Int /\ treeA[n].stime \in Int
      /\ \A n \in DOMAIN treeB : treeB[n].utime \in Int /\ treeB[n].stime \in Int
  BY <1>1 DEF IsTree
<1>6. \A i \in DOMAIN merged :
        /\ merged[i].a \in Nat /\ merged[i].b \in Nat /\ (merged[i].a # 0 \/ merged[i].b # 0)
        /\ merged[i].a # 0 => merged[i].a \in DOMAIN treeA
        /\ merged[i].b # 0 => merged[i].b \in DOMAIN treeB
        /\ merged[i].status = "added" <=> merged[i].a = 0
        /\ merged[i].status = "removed" <=> merged[i].b = 0
        /\ Matched(i) <=> merged[i].a # 0 /\ merged[i].b # 0
  BY <1>1, NodeFacts DEF Matched
<1>7. oneA \in [DOMAIN treeA -> Int] /\ oneB \in [DOMAIN treeB -> Int] /\ zero \in [DOMAIN merged -> Int]
  OBVIOUS
<1>8. cpuA \in [DOMAIN treeA -> Int] /\ cpuB \in [DOMAIN treeB -> Int]
  BY <1>5
<1>9. SumOf(oneA) = Len(treeA) /\ SumOf(oneB) = Len(treeB)
  <2>1. oneA \in [1 .. Len(treeA) -> Int] /\ \A i \in 1 .. Len(treeA) : oneA[i] = 1
    BY <1>4
  <2>2. oneB \in [1 .. Len(treeB) -> Int] /\ \A i \in 1 .. Len(treeB) : oneB[i] = 1
    BY <1>4
  <2> HIDE DEF oneA, oneB
  <2>3. SumOf(oneA) = Len(treeA)
    BY <1>4, <2>1, SumOfOnes
  <2>4. SumOf(oneB) = Len(treeB)
    BY <1>4, <2>2, SumOfOnes
  <2> QED
    BY <2>3, <2>4
<1>10. SumOf(zero) = 0
  <2>1. zero \in [1 .. l -> Int] /\ \A i \in 1 .. l : zero[i] = 0
    BY <1>3
  <2> HIDE DEF zero
  <2> QED
    BY <2>1, SumZero
<1>11. CpuOf(treeA) = SumOf(cpuA) /\ CpuOf(treeB) = SumOf(cpuB)
  BY DEF CpuOf
<1>12. \A i \in DOMAIN merged :
         /\ merged[i].a # 0 => Cpu(merged[i]) = cpuA[merged[i].a]
         /\ merged[i].a = 0 => Cpu(merged[i]) = cpuB[merged[i].b]
         /\ Cpu(merged[i]) \in Int
  BY <1>5, <1>6 DEF Cpu, Nobody
<1>13. ASSUME NEW s \in {"added", "removed"}
       PROVE  /\ Processes(Subtrees(s)) = SumOf(TermsOf(s, Ones)) /\ Time(Subtrees(s)) = SumOf(TermsOf(s, Cpus))
              /\ TermsOf(s, Ones) \in [DOMAIN merged -> Int] /\ TermsOf(s, Cpus) \in [DOMAIN merged -> Int]
  <2>1. Cpus \in [DOMAIN merged -> Int] /\ Ones \in [DOMAIN merged -> Int]
    <3>1. \A i \in DOMAIN merged : Cpu(merged[i]) \in Int
      BY <1>12
    <3> QED
      BY <3>1 DEF Cpus, Ones
  <2>2. /\ SumOf([n \in DOMAIN SubtreesShown(s) |-> SubtreesShown(s)[n].count]) = SumOf(TermsOf(s, Ones))
        /\ SumOf([n \in DOMAIN SubtreesShown(s) |-> SubtreesShown(s)[n].cpu]) = SumOf(TermsOf(s, Cpus))
    BY <1>1, <2>1, ShownTotals
  <2>3. Subtrees(s) = SubtreesShown(s)
    BY DEF SubtreesShown
  <2>4. TermsOf(s, Ones) \in [DOMAIN merged -> Int] /\ TermsOf(s, Cpus) \in [DOMAIN merged -> Int]
    BY <2>1 DEF TermsOf
  <2>5. /\ Processes(SubtreesShown(s)) = SumOf(TermsOf(s, Ones))
        /\ Time(SubtreesShown(s)) = SumOf(TermsOf(s, Cpus))
    BY <2>2
  <2> HIDE DEF Subtrees, Processes, Time
  <2> QED
    BY <2>3, <2>4, <2>5
<1>14. Weighed(merged, oneA, oneB, zero, TermsOf("added", Ones), TermsOf("removed", Ones))
  <2>1. \A i \in DOMAIN merged :
          /\ zero[i] = IF merged[i].a # 0 /\ merged[i].b # 0 THEN oneB[merged[i].b] - oneA[merged[i].a] ELSE 0
          /\ TermsOf("added", Ones)[i] = IF merged[i].a = 0 THEN oneB[merged[i].b] ELSE 0
          /\ TermsOf("removed", Ones)[i] = IF merged[i].b = 0 THEN oneA[merged[i].a] ELSE 0
    BY <1>6 DEF TermsOf, Ones
  <2> HIDE DEF oneA, oneB, zero
  <2> QED
    BY <1>7, <1>13, <2>1 DEF Weighed
<1>16. SumOf(oneB) - SumOf(oneA) = SumOf(zero) + SumOf(TermsOf("added", Ones)) - SumOf(TermsOf("removed", Ones))
  <2> HIDE DEF oneA, oneB, zero
  <2> QED
    BY <1>1, <1>2, <1>7, <1>14, NodesBalance
<1>17. \A i \in DOMAIN merged :
         gains[i] = IF merged[i].a # 0 /\ merged[i].b # 0 THEN cpuB[merged[i].b] - cpuA[merged[i].a] ELSE 0
  <2>1. ASSUME NEW i \in DOMAIN merged, merged[i].a # 0, merged[i].b # 0
        PROVE  gains[i] = cpuB[merged[i].b] - cpuA[merged[i].a]
    <3>1. merged[i].a \in DOMAIN treeA /\ merged[i].b \in DOMAIN treeB /\ Matched(i)
      BY <1>6, <2>1
    <3>2. gains[i] = (treeB[merged[i].b].utime - treeA[merged[i].a].utime)
                       + (treeB[merged[i].b].stime - treeA[merged[i].a].stime)
      BY <3>1 DEF Delta
    <3>3. /\ cpuA[merged[i].a] = treeA[merged[i].a].utime + treeA[merged[i].a].stime
          /\ cpuB[merged[i].b] = treeB[merged[i].b].utime + treeB[merged[i].b].stime
      BY <3>1
    <3>4. /\ treeA[merged[i].a].utime \in Int /\ treeA[merged[i].a].stime \in Int
          /\ treeB[merged[i].b].utime \in Int /\ treeB[merged[i].b].stime \in Int
      BY <1>5, <3>1
    <3> QED
      BY ONLY <3>2, <3>3, <3>4
  <2>2. ASSUME NEW i \in DOMAIN merged, ~ (merged[i].a # 0 /\ merged[i].b # 0) PROVE gains[i] = 0
    BY <1>6, <2>2
  <2> QED
    BY <2>1, <2>2
<1>18. gains \in [DOMAIN merged -> Int]
  <2>1. ASSUME NEW i \in DOMAIN merged PROVE gains[i] \in Int
    <3>1. merged[i].a # 0 => cpuA[merged[i].a] \in Int
      BY <1>6, <1>8
    <3>2. merged[i].b # 0 => cpuB[merged[i].b] \in Int
      BY <1>6, <1>8
    <3> HIDE DEF gains, cpuA, cpuB
    <3> QED
      BY <1>17, <3>1, <3>2
  <2>2. gains = [n \in DOMAIN merged |-> gains[n]]
    OBVIOUS
  <2> HIDE DEF gains
  <2> QED
    BY <2>1, <2>2
<1>19. Weighed(merged, cpuA, cpuB, gains, TermsOf("added", Cpus), TermsOf("removed", Cpus))
  <2>1. \A i \in DOMAIN merged :
          /\ TermsOf("added", Cpus)[i] = IF merged[i].a = 0 THEN cpuB[merged[i].b] ELSE 0
          /\ TermsOf("removed", Cpus)[i] = IF merged[i].b = 0 THEN cpuA[merged[i].a] ELSE 0
    <3> HIDE DEF cpuA, cpuB
    <3> QED
      BY <1>6, <1>12 DEF TermsOf, Cpus
  <2> HIDE DEF cpuA, cpuB, gains
  <2> QED
    BY <1>13, <1>17, <1>18, <2>1 DEF Weighed
<1>20. SumOf(cpuB) - SumOf(cpuA) = SumOf(gains) + SumOf(TermsOf("added", Cpus)) - SumOf(TermsOf("removed", Cpus))
  <2> HIDE DEF cpuA, cpuB, gains
  <2> QED
    BY <1>1, <1>2, <1>8, <1>19, NodesBalance
<1>21. SumOf(TermsOf("added", Ones)) \in Int /\ SumOf(TermsOf("removed", Ones)) \in Int
  <2>1. TermsOf("added", Ones) \in [1 .. l -> Int] /\ TermsOf("removed", Ones) \in [1 .. l -> Int]
    BY <1>3, <1>13
  <2> QED
    BY <2>1, SumInt
<1> HIDE DEF Subtrees, Processes, Time, oneA, oneB, cpuA, cpuB, zero, gains
<1>22. Len(treeB) - Len(treeA) = Processes(Subtrees("added")) - Processes(Subtrees("removed"))
  BY <1>9, <1>10, <1>13, <1>16, <1>21
<1>23. CpuOf(treeB) - CpuOf(treeA) = SumOf(gains) + Time(Subtrees("added")) - Time(Subtrees("removed"))
  BY <1>11, <1>13, <1>20
<1> QED
  BY <1>22, <1>23 DEF Subtrees, Processes, Time, gains

LEMMA CommsCounted ==
  ASSUME NEW tree, IsTree(tree), NEW c \in {tree[n].comm : n \in DOMAIN tree} \ {Unnamed}
  PROVE  LET own == {n \in DOMAIN tree : tree[n].comm = c}
             time == [n \in DOMAIN tree |-> IF n \in own THEN tree[n].utime + tree[n].stime ELSE 0]
             entry == CommTable(tree)[c]
         IN entry.utime + entry.stime = SumOf(time) /\ entry.count = Cardinality(own)
<1> DEFINE own == {n \in DOMAIN tree : tree[n].comm = c}
           time == [n \in DOMAIN tree |-> IF n \in own THEN tree[n].utime + tree[n].stime ELSE 0]
<1>1. DOMAIN tree = 1 .. Len(tree)
  BY TreeFacts
<1>2. own = NamedUpTo(tree, c, Len(tree)) /\ time = TimeOf(tree, c, Len(tree))
  BY <1>1 DEF NamedUpTo, TimeOf
<1>3. own # {}
  OBVIOUS
<1>4. Totalled(tree, c, Len(tree), CommTable(tree))
  BY TableTotals
<1> HIDE DEF own, time
<1>5. /\ CommTable(tree)[c].utime + CommTable(tree)[c].stime = SumOf(time)
      /\ CommTable(tree)[c].count = Cardinality(own)
  BY <1>2, <1>3, <1>4 DEF Totalled
<1> QED
  BY <1>5 DEF own, time

\* The report of every comparison adds up (run_diff(), diff_node_subtree_totals(),
\* collect_process_totals()).
THEOREM DiffsBalance == DiffSpec => []DiffBalances
<1>1. DiffInit => DiffInv
  BY DiffStart
<1>2. DiffInv /\ [DiffNext]_diffVars => DiffInv'
  BY DiffStep
<1>3. DiffInv => DiffBalances
  <2> SUFFICES ASSUME DiffInv, exit # <<>> PROVE DiffBalances
    BY DEF DiffBalances
  <2>1. IsTree(treeA) /\ IsTree(treeB)
    BY DEF DiffInv
  <2>2. \A tree \in {treeA, treeB} : \A c \in {tree[n].comm : n \in DOMAIN tree} \ {Unnamed} :
          LET own == {n \in DOMAIN tree : tree[n].comm = c}
              time == [n \in DOMAIN tree |-> IF n \in own THEN tree[n].utime + tree[n].stime ELSE 0]
              entry == CommTable(tree)[c]
          IN entry.utime + entry.stime = SumOf(time) /\ entry.count = Cardinality(own)
    <3> SUFFICES ASSUME NEW tree \in {treeA, treeB}, NEW c \in {tree[n].comm : n \in DOMAIN tree} \ {Unnamed}
                 PROVE  LET own == {n \in DOMAIN tree : tree[n].comm = c}
                            time == [n \in DOMAIN tree |-> IF n \in own THEN tree[n].utime + tree[n].stime ELSE 0]
                            entry == CommTable(tree)[c]
                        IN entry.utime + entry.stime = SumOf(time) /\ entry.count = Cardinality(own)
      OBVIOUS
    <3>1. IsTree(tree)
      BY <2>1
    <3> QED
      BY ONLY <3>1, c \in {tree[n].comm : n \in DOMAIN tree} \ {Unnamed}, CommsCounted, Zenon
  <2> QED
    BY <2>2, DiffCounted, ZenonT(60) DEF DiffBalances
<1> QED
  BY <1>1, <1>2, <1>3, PTL DEF DiffSpec
=================================================================================
