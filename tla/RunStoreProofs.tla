---------------------------- MODULE RunStoreProofs ----------------------------
(***************************************************************************)
(* What RunStore promises for any number of runs, output paths, natural    *)
(* keys and wspy-stores, any batch size, and any run that dies or file that *)
(* is emptied.  IndexInv is inductive for the writers of the index alone;  *)
(* TableInv says of every process in a transaction what it will commit,    *)
(* and VersionInv what every migration under way has done.                 *)
(***************************************************************************)
EXTENDS RunStore, TLAPS

-----------------------------------------------------------------------------
(* The index. *)

\* A run in the middle of its record holds the lock, and the index ends with
\* what it has written of it, unless the index was emptied since.
LockInv ==
  \A r \in Runs : wspy[r] = "half" =>
    /\ lock = r
    /\ IF index = <<>> THEN rotations > 0 ELSE index[Len(index)] = Opening(r)

IndexInv == IndexTypeOK /\ LockInv /\ NeverInterleaved

LEMMA IndexInitially == IndexInit => IndexInv
  BY IndexAssumption DEF IndexInit, IndexInv, IndexTypeOK, LockInv, NeverInterleaved, Stages, Pieces

\* What a file is when a piece is appended to it
LEMMA Appended ==
  ASSUME index \in Seq(Pieces), NEW x \in Pieces
  PROVE  /\ Append(index, x) \in Seq(Pieces)
         /\ Append(index, x) # <<>>
         /\ Len(Append(index, x)) = Len(index) + 1
         /\ DOMAIN Append(index, x) = 1..Len(index) + 1
         /\ DOMAIN index = 1..Len(index) /\ Len(index) \in Nat
         /\ \A i \in 1..Len(index) : Append(index, x)[i] = index[i]
         /\ Append(index, x)[Len(index) + 1] = x
  OBVIOUS

LEMMA PieceTypes == \A r \in Runs : Opening(r) \in Pieces /\ Closing(r) \in Pieces
  BY DEF Opening, Closing, Pieces

\* Each step of a run, and each emptying of the file, keeps the order of the pieces.
LEMMA IndexStep == IndexInv /\ [IndexNext]_indexVars => IndexInv'
<1> SUFFICES ASSUME IndexTypeOK, LockInv, NeverInterleaved, [IndexNext]_indexVars PROVE IndexInv'
  BY DEF IndexInv
<1>1. OutputOf \in [Runs -> Outputs] /\ NoRun \notin Runs /\ MaxRotations \in Nat
  BY IndexAssumption
<1>2. ASSUME NEW r \in Runs, Start(r) PROVE IndexInv'
  <2>1. IndexTypeOK' BY <1>1, <1>2 DEF Start, Step, IndexTypeOK, Stages
  <2> QED BY <1>2, <2>1 DEF Start, Step, IndexInv, IndexTypeOK, LockInv, NeverInterleaved
<1>3. ASSUME NEW r \in Runs, Finish(r) PROVE IndexInv'
  <2>1. IndexTypeOK' BY <1>1, <1>3 DEF Finish, Step, IndexTypeOK, Stages
  <2> QED BY <1>3, <2>1 DEF Finish, Step, IndexInv, IndexTypeOK, LockInv, NeverInterleaved
<1>4. ASSUME NEW r \in Runs, WriteHead(r) PROVE IndexInv'
  <2>0. index \in Seq(Pieces) BY DEF IndexTypeOK
  <2>1. Opening(r) \in Pieces BY PieceTypes
  <2>2. index' = Append(index, Opening(r)) BY <1>4 DEF WriteHead
  <2>3. IndexTypeOK' BY <1>1, <1>4, <2>0, <2>1, <2>2, Appended DEF WriteHead, Step, IndexTypeOK, Stages
  <2>4. \A s \in Runs : wspy'[s] = "half" => s = r
    BY <1>1, <1>4 DEF WriteHead, Step, IndexTypeOK, LockInv
  <2>5. LockInv' BY <1>4, <2>0, <2>1, <2>2, <2>4, Appended DEF WriteHead, LockInv
  <2>6. Opening(r).part = "head" BY DEF Opening
  <2>7. NeverInterleaved'
    BY <1>4, <2>0, <2>1, <2>2, <2>6, Appended DEF WriteHead, NeverInterleaved
  <2> QED BY <2>3, <2>5, <2>7 DEF IndexInv
<1>5. ASSUME NEW r \in Runs, WriteRest(r) PROVE IndexInv'
  <2>0. index \in Seq(Pieces) BY DEF IndexTypeOK
  <2>1. Closing(r) \in Pieces BY PieceTypes
  <2>2. index' = Append(index, Closing(r)) BY <1>5 DEF WriteRest
  <2>3. IndexTypeOK' BY <1>1, <1>5, <2>0, <2>1, <2>2, Appended DEF WriteRest, Step, IndexTypeOK, Stages
  <2>4. \A s \in Runs : wspy'[s] # "half"
    BY <1>5 DEF WriteRest, Step, IndexTypeOK, LockInv
  <2>5. LockInv' BY <2>4 DEF LockInv
  <2>6. Closing(r).run = r /\ Closing(r).part = "rest" BY DEF Closing
  <2>7. IF index = <<>> THEN rotations > 0 ELSE index[Len(index)] = Opening(r)
    BY <1>5 DEF WriteRest, Step, LockInv
  <2>8. rotations' = rotations BY <1>5 DEF WriteRest
  <2>9. NeverInterleaved'
    <3> SUFFICES ASSUME NEW i \in DOMAIN index', index'[i].part = "rest"
                 PROVE  \/ i > 1 /\ index'[i-1] = Opening(index'[i].run)
                        \/ i = 1 /\ rotations' > 0
      BY DEF NeverInterleaved
    <3>1. i \in 1..Len(index) + 1 /\ Len(index) \in Nat BY <2>0, <2>1, <2>2, Appended
    <3>2. CASE i = Len(index) + 1
      <4>1. index'[i].run = r BY <2>0, <2>1, <2>2, <2>6, <3>2, Appended
      <4>2. CASE index = <<>>
        BY <2>7, <2>8, <3>2, <4>2
      <4>3. CASE index # <<>>
        <5>1. Len(index) > 0 BY <2>0, <4>3
        <5>2. index'[i-1] = index[Len(index)] BY <2>0, <2>1, <2>2, <3>2, <5>1, Appended
        <5> QED BY <2>7, <3>1, <3>2, <4>1, <4>3, <5>1, <5>2
      <4> QED BY <4>2, <4>3
    <3>3. CASE i # Len(index) + 1
      <4>1. i \in 1..Len(index) BY <3>1, <3>3
      <4>2. index'[i] = index[i] /\ i \in DOMAIN index BY <2>0, <2>1, <2>2, <4>1, Appended
      <4>3. i > 1 => index'[i-1] = index[i-1]
        <5>1. i > 1 => i - 1 \in 1..Len(index) BY <3>1, <4>1
        <5> QED BY <2>0, <2>1, <2>2, <5>1, Appended
      <4> QED BY <2>8, <4>2, <4>3 DEF NeverInterleaved
    <3> QED BY <3>2, <3>3
  <2> QED BY <2>3, <2>5, <2>9 DEF IndexInv
<1>6. ASSUME NEW r \in Runs, WriteWhole(r) PROVE IndexInv'
  <2>0. index \in Seq(Pieces) BY DEF IndexTypeOK
  <2>1. Opening(r) \in Pieces /\ Closing(r) \in Pieces BY PieceTypes
  <2>2. index' = index \o <<Opening(r), Closing(r)>> BY <1>6 DEF WriteWhole
  <2>3. /\ index' \in Seq(Pieces) /\ Len(index') = Len(index) + 2 /\ Len(index) \in Nat
        /\ DOMAIN index' = 1..Len(index) + 2 /\ DOMAIN index = 1..Len(index)
        /\ \A i \in 1..Len(index) : index'[i] = index[i]
        /\ index'[Len(index) + 1] = Opening(r) /\ index'[Len(index) + 2] = Closing(r)
    BY <2>0, <2>1, <2>2
  <2>4. IndexTypeOK' BY <1>6, <2>3 DEF WriteWhole, Step, IndexTypeOK, Stages
  <2>5. \A s \in Runs : wspy'[s] # "half"
    BY <1>1, <1>6 DEF WriteWhole, Step, IndexTypeOK, LockInv
  <2>6. LockInv' BY <2>5 DEF LockInv
  <2>7. Closing(r).run = r /\ Opening(r).part = "head" BY DEF Closing, Opening
  <2>8. rotations' = rotations BY <1>6 DEF WriteWhole
  <2>9. NeverInterleaved'
    <3> SUFFICES ASSUME NEW i \in DOMAIN index', index'[i].part = "rest"
                 PROVE  \/ i > 1 /\ index'[i-1] = Opening(index'[i].run)
                        \/ i = 1 /\ rotations' > 0
      BY DEF NeverInterleaved
    <3>1. i # Len(index) + 1 BY <2>3, <2>7
    <3>2. CASE i = Len(index) + 2
      BY <2>3, <2>7, <3>2
    <3>3. CASE i \in 1..Len(index)
      <4>1. index'[i] = index[i] /\ i \in DOMAIN index BY <2>3, <3>3
      <4>2. i > 1 => index'[i-1] = index[i-1] BY <2>3, <3>3
      <4> QED BY <2>8, <4>1, <4>2 DEF NeverInterleaved
    <3> QED BY <2>3, <3>1, <3>2, <3>3
  <2> QED BY <2>4, <2>6, <2>9 DEF IndexInv
<1>7. ASSUME NEW r \in Runs, Die(r) PROVE IndexInv'
  <2>1. IndexTypeOK' BY <1>1, <1>7 DEF Die, Step, IndexTypeOK, Stages
  <2>2. \A s \in Runs : wspy'[s] # "half" BY <1>7 DEF Die, Step, IndexTypeOK, LockInv
  <2> QED BY <1>7, <2>1, <2>2 DEF Die, IndexInv, LockInv, NeverInterleaved
<1>8. CASE Rotate
  <2>1. IndexTypeOK' BY <1>1, <1>8 DEF Rotate, IndexTypeOK
  <2>2. rotations' > 0 BY <1>8 DEF Rotate, IndexTypeOK
  <2> QED BY <1>8, <2>1, <2>2 DEF Rotate, IndexInv, LockInv, NeverInterleaved
<1>9. CASE UNCHANGED indexVars
  BY <1>9 DEF indexVars, IndexInv, IndexTypeOK, LockInv, NeverInterleaved
<1> QED BY <1>2, <1>3, <1>4, <1>5, <1>6, <1>7, <1>8, <1>9 DEF IndexNext, Wspy

\* Records of different wspy processes never interleave in the index.
THEOREM RecordsNeverInterleave == IndexSpec => []NeverInterleaved
<1>1. IndexInv /\ [IndexNext]_indexVars => IndexInv' BY IndexStep
<1>2. IndexInv => NeverInterleaved BY DEF IndexInv
<1> QED BY IndexInitially, <1>1, <1>2, PTL DEF IndexSpec

-----------------------------------------------------------------------------
(* Tables. *)

StoreStages == {"idle", "migrating", "open", "located", "ready", "writing", "auto", "saving"}
JobFields == {"opts", "todo", "from", "size", "consumed", "generation", "left", "n", "view"}
Blank == [k \in Keys |-> NoRow]

HostsOwn(t) == \A k \in Keys : t[k] # NoRow => t[k].host \in {t[k].run, NoRun}

\* What a table may not lose on the way from t to u
Keeps(t, u) ==
  \A k \in Keys : t[k] # NoRow =>
    /\ u[k] # NoRow /\ u[k].run = t[k].run
    /\ t[k].host # NoRun => u[k].host # NoRun
    /\ t[k].metrics # NoRun => u[k].metrics # NoRun
    /\ t[k].features # NotExtracted => u[k].features # NotExtracted

LEMMA KeepsItself == \A t : Keeps(t, t)
  BY DEF Keeps

LEMMA KeepsTransitive ==
  ASSUME NEW t, NEW u, NEW v, Keeps(t, u), Keeps(u, v)
  PROVE  Keeps(t, v)
  BY DEF Keeps

LEMMA BlankTable == Blank \in Table /\ HostsOwn(Blank)
  BY DEF Blank, Table, HostsOwn

\* The row upsert_run() leaves for run r, from the row it finds (or a new one)
RowFor(old, r, opts) ==
  LET host == IF opts.enrich THEN EnrichedHost(r, old.host) ELSE old.host
      metrics == IF opts.metrics THEN IngestedMetrics(r, old.metrics) ELSE old.metrics
  IN [run |-> old.run, host |-> host, metrics |-> metrics,
      features |-> IF opts.features THEN metrics ELSE old.features]

LEMMA RowForFields ==
  ASSUME IndexTypeOK, NEW r \in Runs, NEW old \in Row, old.run = r, NEW opts
  PROVE  LET new == RowFor(old, r, opts) IN
         /\ new \in Row /\ new.run = r
         /\ old.host \in {r, NoRun} => new.host \in {r, NoRun}
         /\ old.host # NoRun => new.host # NoRun
         /\ old.metrics # NoRun => new.metrics # NoRun
         /\ old.features # NotExtracted => new.features # NotExtracted
<1> DEFINE o == OutputOf[r]
           new == RowFor(old, r, opts)
<1>1. o \in Outputs /\ NoRun \notin Runs /\ NotExtracted \notin Runs \cup {NoRun}
  BY IndexAssumption, StoreAssumption
<1>2. csv[o] \in Runs \cup {NoRun} BY <1>1 DEF IndexTypeOK
<1>3. /\ old.run \in Runs /\ old.host \in Runs \cup {NoRun} /\ old.metrics \in Runs \cup {NoRun}
      /\ old.features \in Runs \cup {NoRun, NotExtracted}
  BY DEF Row
<1> DEFINE host == IF opts.enrich THEN EnrichedHost(r, old.host) ELSE old.host
           metrics == IF opts.metrics THEN IngestedMetrics(r, old.metrics) ELSE old.metrics
           features == IF opts.features THEN metrics ELSE old.features
<1>4. /\ host \in Runs \cup {NoRun}
      /\ old.host \in {r, NoRun} => host \in {r, NoRun}
      /\ old.host # NoRun => host # NoRun
  BY <1>1, <1>3 DEF EnrichedHost
<1>5. /\ metrics \in Runs \cup {NoRun}
      /\ old.metrics # NoRun => metrics # NoRun
  BY <1>1, <1>2, <1>3 DEF IngestedMetrics
<1>6. /\ features \in Runs \cup {NoRun, NotExtracted}
      /\ old.features # NotExtracted => features # NotExtracted
  BY <1>1, <1>3, <1>5
<1>7. new = [run |-> old.run, host |-> host, metrics |-> metrics, features |-> features]
  BY DEF RowFor
<1> HIDE DEF new, host, metrics, features
<1>8. new \in Row BY <1>3, <1>4, <1>5, <1>6, <1>7 DEF Row
<1>9. new.run = old.run /\ new.host = host /\ new.metrics = metrics /\ new.features = features
  BY <1>7
<1> QED BY <1>4, <1>5, <1>6, <1>8, <1>9 DEF new

\* upsert_run() on a table, whatever line it is given
LEMMA UpsertedTable ==
  ASSUME IndexTypeOK, keyOf \in [Runs -> Keys], NEW t \in Table, NEW r \in Runs \cup {NoRun}, NEW opts
  PROVE  /\ Upserted(t, r, opts) \in Table
         /\ HostsOwn(t) => HostsOwn(Upserted(t, r, opts))
         /\ Keeps(t, Upserted(t, r, opts))
<1>1. CASE r = NoRun
  BY <1>1, KeepsItself DEF Upserted
<1>2. CASE r \in Runs /\ Collides(t, r)
  <2>1. r # NoRun BY <1>2, IndexAssumption
  <2> QED BY <1>2, <2>1, KeepsItself DEF Upserted
<1>3. CASE r \in Runs /\ ~Collides(t, r)
  <2> DEFINE k == keyOf[r]
             old == IF t[k] = NoRow THEN NewRow(r) ELSE t[k]
             new == RowFor(old, r, opts)
  <2>1. r # NoRun /\ k \in Keys BY <1>3, IndexAssumption
  <2>2. NewRow(r) \in Row /\ NewRow(r).run = r /\ NewRow(r).host = NoRun
    BY <1>3 DEF NewRow, Row
  <2>3. t[k] # NoRow => t[k] \in Row /\ t[k].run = r
    BY <1>3, <2>1 DEF Collides, Table
  <2>4. old \in Row /\ old.run = r BY <2>2, <2>3
  <2>5. Upserted(t, r, opts) = [t EXCEPT ![k] = new]
    BY <1>3, <2>1 DEF Upserted, RowFor
  <2>6. /\ new \in Row /\ new.run = r
        /\ old.host \in {r, NoRun} => new.host \in {r, NoRun}
        /\ old.host # NoRun => new.host # NoRun
        /\ old.metrics # NoRun => new.metrics # NoRun
        /\ old.features # NotExtracted => new.features # NotExtracted
    BY <1>3, <2>4, RowForFields
  <2>7. new # NoRow BY <2>6, NoRowAssumption
  <2>8. t[k] # NoRow => old = t[k] OBVIOUS
  <2>9. t[k] = NoRow => old.host = NoRun BY <2>2
  <2> HIDE DEF new, old
  <2> DEFINE u == Upserted(t, r, opts)
  <2>10. u \in Table BY <2>5, <2>6 DEF Table
  <2>11. u[k] = new /\ \A j \in Keys : j # k => u[j] = t[j]
    BY <2>1, <2>5 DEF Table
  <2> HIDE DEF u
  <2>12. HostsOwn(t) => HostsOwn(u)
    BY <2>1, <2>3, <2>6, <2>8, <2>9, <2>11 DEF HostsOwn
  <2>13. Keeps(t, u)
    BY <2>1, <2>3, <2>6, <2>7, <2>8, <2>11 DEF Keeps
  <2> QED BY <2>10, <2>12, <2>13 DEF u
<1> QED BY <1>1, <1>2, <1>3

-----------------------------------------------------------------------------
(* The tables and the transactions. *)

JobOK(j) ==
  /\ DOMAIN j = JobFields
  /\ j.left \subseteq Lines /\ j.n \in 0..BATCH
  /\ j.from \in Nat /\ j.consumed \in Nat
  /\ j.view \in Table /\ HostsOwn(j.view)

TableInv ==
  /\ keyOf \in [Runs -> Keys]
  /\ rows \in Table /\ HostsOwn(rows)
  /\ offset \in Nat
  /\ writer \in Stores \cup {NoStore}
  /\ stage \in [Stores -> StoreStages]
  /\ DOMAIN job = Stores /\ job = [q \in Stores |-> job[q]]
  /\ \A p \in Stores :
       /\ JobOK(job[p])
       /\ writer = p <=> stage[p] = "writing"
       /\ stage[p] = "writing" => Keeps(rows, job[p].view)

\* What no step does to the rows, whatever else it does
StepKeeps == Keeps(rows, rows') /\ keyOf' = keyOf

LEMMA NewJobOK == \A opts : JobOK(NewJob(opts))
  BY BlankTable, StoreAssumption DEF JobOK, NewJob, JobFields, Blank

LEMMA TablesInitially == Init => TableInv
<1> SUFFICES ASSUME Init PROVE TableInv
  OBVIOUS
<1>1. keyOf \in [Runs -> Keys] BY StoreAssumption DEF Init, StoreInit
<1>2. rows \in Table /\ HostsOwn(rows) BY BlankTable DEF Init, StoreInit, Blank
<1>3. offset \in Nat /\ writer = NoStore /\ NoStore \notin Stores
  BY StoreAssumption DEF Init, StoreInit
<1>4. stage = [p \in Stores |-> "idle"] /\ job = [p \in Stores |-> NewJob(AllOptions)]
  BY DEF Init, StoreInit
<1>5. \A p \in Stores : JobOK(job[p]) BY <1>4, NewJobOK
<1> QED BY <1>1, <1>2, <1>3, <1>4, <1>5 DEF TableInv, StoreStages

\* Most steps of a process only go on, with its local variables changed, and
\* have no part in a transaction.
Quiet(p) ==
  /\ stage[p] # "writing"
  /\ stage' = [stage EXCEPT ![p] = stage'[p]] /\ stage'[p] \in StoreStages \ {"writing"}
  /\ job' = [job EXCEPT ![p] = job'[p]] /\ JobOK(job'[p])
  /\ UNCHANGED <<keyOf, rows, writer>>
  /\ offset' \in Nat

LEMMA QuietKeeps ==
  ASSUME TableInv, NEW p \in Stores, Quiet(p)
  PROVE  TableInv' /\ StepKeeps
<1>1. /\ stage'[p] # "writing" /\ stage' \in [Stores -> StoreStages]
      /\ \A q \in Stores : q # p => stage'[q] = stage[q] /\ job'[q] = job[q]
      /\ DOMAIN job' = Stores
  BY DEF TableInv, Quiet
<1>2. rows' = rows /\ writer' = writer /\ keyOf' = keyOf BY DEF Quiet
<1>3. StepKeeps BY <1>2, KeepsItself DEF StepKeeps
<1>4. ASSUME NEW q \in Stores
      PROVE  /\ JobOK(job'[q])
             /\ writer' = q <=> stage'[q] = "writing"
             /\ stage'[q] = "writing" => Keeps(rows', job'[q].view)
  <2>1. CASE q = p BY <1>1, <1>2, <2>1 DEF TableInv, Quiet
  <2>2. CASE q # p BY <1>1, <1>2, <2>2 DEF TableInv, Quiet
  <2> QED BY <2>1, <2>2
<1>5. HostsOwn(rows') /\ rows' \in Table BY <1>2 DEF TableInv
<1>10. /\ (keyOf \in [Runs -> Keys])' /\ (rows \in Table)' /\ (offset \in Nat)'
       /\ (writer \in Stores \cup {NoStore})' /\ (stage \in [Stores -> StoreStages])'
       /\ (DOMAIN job = Stores)' /\ (job = [q \in Stores |-> job[q]])'
  BY <1>1, <1>2, <1>5 DEF TableInv, Quiet
<1> QED BY <1>3, <1>4, <1>5, <1>10 DEF TableInv

\* The same, for a step that leaves the job as it is, resets it, or changes it
LEMMA QuietJob ==
  ASSUME TableInv, NEW p \in Stores, NEW j, job' = [job EXCEPT ![p] = j]
  PROVE  job'[p] = j /\ job' = [job EXCEPT ![p] = job'[p]] /\ DOMAIN job' = Stores
         /\ \A q \in Stores : q # p => job'[q] = job[q]
  BY DEF TableInv

LEMMA QuietSteps ==
  ASSUME IndexTypeOK, TableInv, NEW p \in Stores,
         \/ \E o \in OptionSets : Open(p, o)
         \/ Migrate(p) \/ MigrateFails(p) \/ Stamp(p) \/ GetOffset(p) \/ ReadIndex(p)
         \/ BeginFails(p) \/ (\E line \in job[p].left : Refuse(p, line)) \/ CommitAuto(p)
         \/ SaveOffset(p) \/ SaveFails(p)
  PROVE  Quiet(p)
<1> DEFINE j == job[p]
<1>1. /\ JobOK(j) /\ stage \in [Stores -> StoreStages] /\ offset \in Nat /\ DOMAIN job = Stores
      /\ [job EXCEPT ![p] = job[p]] = job
  BY DEF TableInv
<1>2. BATCH \in Nat \ {0} BY StoreAssumption
<1>3. ASSUME NEW k, JobOK(k), job' = [job EXCEPT ![p] = k],
             NEW x \in StoreStages \ {"writing"}, stage' = [stage EXCEPT ![p] = x],
             stage[p] # "writing", UNCHANGED <<keyOf, rows, writer>>, offset' \in Nat
      PROVE  Quiet(p)
  <2>1. job'[p] = k /\ stage'[p] = x BY <1>1, <1>3
  <2> QED BY <1>3, <2>1 DEF Quiet
<1> USE DEF Go, Forget, StoreStages
<1>4. \A o : JobOK(NewJob(o)) BY NewJobOK
<1>5. ASSUME NEW o \in OptionSets, Open(p, o) PROVE Quiet(p)
  <2> DEFINE k == [NewJob(o) EXCEPT !.todo = version]
  <2>1. JobOK(k) BY <1>4 DEF JobOK, JobFields, NewJob
  <2>2. job' = [job EXCEPT ![p] = k] BY <1>5 DEF Open
  <2>3. /\ stage[p] # "writing" /\ UNCHANGED <<keyOf, rows, writer>> /\ offset' \in Nat
        /\ \E x \in StoreStages \ {"writing"} : stage' = [stage EXCEPT ![p] = x]
    BY <1>1, <1>5 DEF Open, schemaVars, tableVars
  <2> QED BY <1>3, <2>1, <2>2, <2>3
<1>6. CASE Migrate(p)
  <2>1. PICK k : JobOK(k) /\ job' = [job EXCEPT ![p] = k]
    <3>1. CASE job' = [job EXCEPT ![p] = NewJob(@.opts)] BY <1>4, <3>1
    <3>2. ASSUME NEW x, job' = [job EXCEPT ![p].todo = x] PROVE \E k : JobOK(k) /\ job' = [job EXCEPT ![p] = k]
      <4>1. JobOK([j EXCEPT !.todo = x]) BY <1>1 DEF JobOK, JobFields
      <4>2. job' = [job EXCEPT ![p] = [j EXCEPT !.todo = x]] BY <1>1, <3>2
      <4> QED BY <4>1, <4>2
    <3> QED BY <1>6, <3>1, <3>2 DEF Migrate
  <2>2. /\ stage[p] # "writing" /\ UNCHANGED <<keyOf, rows, writer>> /\ offset' \in Nat
        /\ \E x \in StoreStages \ {"writing"} : stage' = [stage EXCEPT ![p] = x]
    BY <1>1, <1>6 DEF Migrate, tableVars
  <2> QED BY <1>3, <2>1, <2>2
<1>7. CASE MigrateFails(p) \/ SaveFails(p) \/ SaveOffset(p)
  <2>1. job' = [job EXCEPT ![p] = NewJob(j.opts)] BY <1>1, <1>7 DEF MigrateFails, SaveFails, SaveOffset
  <2>2. /\ stage[p] # "writing" /\ UNCHANGED <<keyOf, rows, writer>>
        /\ \E x \in StoreStages \ {"writing"} : stage' = [stage EXCEPT ![p] = x]
    BY <1>1, <1>7 DEF MigrateFails, SaveFails, SaveOffset, schemaVars, tableVars
  <2>3. offset' \in Nat
    <3>1. j.from + j.consumed \in Nat BY <1>1 DEF JobOK
    <3> QED BY <1>1, <1>7, <3>1 DEF MigrateFails, SaveFails, SaveOffset, tableVars
  <2> QED BY <1>3, <1>4, <2>1, <2>2, <2>3
<1>8. CASE Stamp(p) \/ CommitAuto(p)
  <2>1. job' = [job EXCEPT ![p] = j] BY <1>1, <1>8 DEF Stamp, CommitAuto
  <2>2. /\ stage[p] # "writing" /\ UNCHANGED <<keyOf, rows, writer>> /\ offset' \in Nat
        /\ \E x \in StoreStages \ {"writing"} : stage' = [stage EXCEPT ![p] = x]
    BY <1>1, <1>8 DEF Stamp, CommitAuto, schemaVars, tableVars
  <2> QED BY <1>1, <1>3, <2>1, <2>2
<1>9. CASE GetOffset(p)
  <2>1. SourceOffset \in Nat BY <1>1 DEF SourceOffset
  <2> DEFINE g == IF SourceOffset = 0 THEN rotations ELSE savedGeneration
  <2>2. job' = [job EXCEPT ![p].from = SourceOffset, ![p].generation = g]
    BY <1>9 DEF GetOffset
  <2> HIDE DEF g
  <2> DEFINE k == [j EXCEPT !.from = SourceOffset, !.generation = g]
  <2>3. job' = [job EXCEPT ![p] = k] BY <1>1, <2>2
  <2>4. JobOK(k) BY <1>1, <2>1 DEF JobOK, JobFields
  <2>5. /\ stage[p] # "writing" /\ UNCHANGED <<keyOf, rows, writer>> /\ offset' \in Nat
        /\ \E x \in StoreStages \ {"writing"} : stage' = [stage EXCEPT ![p] = x]
    BY <1>1, <1>9 DEF GetOffset, schemaVars, tableVars
  <2> QED BY <1>3, <2>3, <2>4, <2>5
<1>10. CASE ReadIndex(p)
  <2> DEFINE s == SubSeq(index, j.from + 1, Len(index))
  <2>1. /\ stage[p] # "writing" /\ UNCHANGED <<keyOf, rows, writer>> /\ offset' \in Nat
        /\ \E x \in StoreStages \ {"writing"} : stage' = [stage EXCEPT ![p] = x]
    BY <1>1, <1>10 DEF ReadIndex, schemaVars, tableVars
  <2>2. CASE j.from > Len(index)
    <3>1. job' = [job EXCEPT ![p] = NewJob(j.opts)] BY <1>1, <1>10, <2>2 DEF ReadIndex
    <3> QED BY <1>3, <1>4, <2>1, <3>1
  <2>3. CASE ~(j.from > Len(index))
    <3>1. s \in Seq(Pieces) BY <1>1, <2>3 DEF IndexTypeOK, JobOK
    <3>2. Complete(s) \subseteq Lines
      <4>1. ASSUME NEW i \in DOMAIN s
            PROVE  [end |-> i, run |-> IF WholeAt(s, i) THEN s[i].run ELSE NoRun] \in Lines
        <5>1. i \in Nat \ {0} /\ s[i].run \in Runs BY <3>1, SMTT(30) DEF Pieces
        <5> QED BY <5>1 DEF Lines
      <4> QED BY <4>1 DEF Complete
    <3> DEFINE g == IF j.from = 0 THEN rotations ELSE j.generation
    <3>3. PICK c \in 0..Len(s) :
            job' = [job EXCEPT ![p].size = Len(index), ![p].consumed = c,
                               ![p].left = Complete(s), ![p].n = 0, ![p].generation = g]
      BY <1>1, <1>10, <2>3 DEF ReadIndex
    <3> HIDE DEF g
    <3> DEFINE k == [j EXCEPT !.size = Len(index), !.consumed = c, !.left = Complete(s),
                              !.n = 0, !.generation = g]
    <3>4. job' = [job EXCEPT ![p] = k] BY <1>1, <3>3
    <3>5. JobOK(k) BY <1>1, <1>2, <3>2 DEF JobOK, JobFields
    <3> QED BY <1>3, <2>1, <3>4, <3>5
  <2> QED BY <2>2, <2>3
<1>11. CASE BeginFails(p)
  <2>1. job' = [job EXCEPT ![p] = [j EXCEPT !.n = 0]] BY <1>1, <1>11 DEF BeginFails
  <2>2. JobOK([j EXCEPT !.n = 0]) BY <1>1, <1>2 DEF JobOK, JobFields
  <2>3. /\ stage[p] # "writing" /\ UNCHANGED <<keyOf, rows, writer>> /\ offset' \in Nat
        /\ \E x \in StoreStages \ {"writing"} : stage' = [stage EXCEPT ![p] = x]
    BY <1>1, <1>11 DEF BeginFails, schemaVars, tableVars
  <2> QED BY <1>3, <2>1, <2>2, <2>3
<1>12. ASSUME NEW line \in j.left, Refuse(p, line) PROVE Quiet(p)
  <2> DEFINE k == [j EXCEPT !.left = @ \ {line}, !.n = @ + 1, !.view = j.view]
  <2>1. job' = [job EXCEPT ![p] = k] BY <1>1, <1>12 DEF Refuse, Done
  <2>2. j.n + 1 \in 0..BATCH BY <1>1, <1>2, <1>12 DEF Refuse, NextLine, BatchFull, JobOK
  <2>3. JobOK(k) BY <1>1, <2>2 DEF JobOK, JobFields
  <2>4. /\ stage[p] # "writing" /\ UNCHANGED <<keyOf, rows, writer>> /\ offset' \in Nat
        /\ \E x \in StoreStages \ {"writing"} : stage' = [stage EXCEPT ![p] = x]
    BY <1>1, <1>12 DEF Refuse, schemaVars
  <2> QED BY <1>3, <2>1, <2>3, <2>4
<1> QED BY <1>5, <1>6, <1>7, <1>8, <1>9, <1>10, <1>11, <1>12

\* A step of p that may begin or end a transaction
LEMMA LoudKeeps ==
  ASSUME TableInv, NEW p \in Stores,
         NEW x \in StoreStages, stage' = [stage EXCEPT ![p] = x],
         NEW k, JobOK(k), job' = [job EXCEPT ![p] = k],
         rows' \in Table, HostsOwn(rows'), Keeps(rows, rows'), keyOf' = keyOf, offset' = offset,
         writer' \in Stores \cup {NoStore}, writer' = p <=> x = "writing",
         \A q \in Stores : q # p => (writer' = q <=> writer = q),
         x = "writing" => Keeps(rows', k.view),
         \A q \in Stores : q # p /\ stage[q] = "writing" => Keeps(rows', job[q].view)
  PROVE  TableInv' /\ StepKeeps
<1>1. /\ stage'[p] = x /\ job'[p] = k /\ stage' \in [Stores -> StoreStages]
      /\ \A q \in Stores : q # p => stage'[q] = stage[q] /\ job'[q] = job[q]
      /\ DOMAIN job' = Stores /\ job' = [q \in Stores |-> job'[q]]
  BY DEF TableInv
<1>2. ASSUME NEW q \in Stores
      PROVE  /\ JobOK(job'[q])
             /\ writer' = q <=> stage'[q] = "writing"
             /\ stage'[q] = "writing" => Keeps(rows', job'[q].view)
  <2>1. CASE q = p BY <1>1, <2>1
  <2>2. CASE q # p BY <1>1, <2>2 DEF TableInv
  <2> QED BY <2>1, <2>2
<1>3. HostsOwn(rows') OBVIOUS
<1>4. /\ (keyOf \in [Runs -> Keys])' /\ (rows \in Table)' /\ (offset \in Nat)'
      /\ (writer \in Stores \cup {NoStore})' /\ (stage \in [Stores -> StoreStages])'
      /\ (DOMAIN job = Stores)' /\ (job = [q \in Stores |-> job[q]])'
  BY <1>1 DEF TableInv
<1>5. StepKeeps BY DEF StepKeeps
<1> QED BY <1>2, <1>3, <1>4, <1>5 DEF TableInv

LEMMA TableStep ==
  ASSUME IndexTypeOK, TableInv, [Next]_vars
  PROVE  TableInv' /\ StepKeeps
<1>0. ASSUME UNCHANGED <<keyOf, rows, offset, writer, stage, job>> PROVE TableInv' /\ StepKeeps
  <2>1. (\A q \in Stores : JobOK(job[q]) /\ (writer = q <=> stage[q] = "writing")
                          /\ (stage[q] = "writing" => Keeps(rows, job[q].view)))'
    BY <1>0 DEF TableInv
  <2>2. (HostsOwn(rows))' BY <1>0 DEF TableInv
  <2>3. StepKeeps BY <1>0, KeepsItself DEF StepKeeps
  <2> QED BY <1>0, <2>1, <2>2, <2>3 DEF TableInv
<1>1. CASE UNCHANGED vars
  BY <1>0, <1>1 DEF vars, storeVars, schemaVars, tableVars
<1>2. CASE IndexNext /\ UNCHANGED storeVars
  BY <1>0, <1>2 DEF storeVars, schemaVars, tableVars
<1>3. ASSUME NEW p \in Stores, Store(p) PROVE TableInv' /\ StepKeeps
  <2> DEFINE j == job[p]
  <2>0. /\ NoStore \notin Stores /\ BATCH \in Nat \ {0}
        /\ [job EXCEPT ![p] = job[p]] = job /\ [stage EXCEPT ![p] = stage[p]] = stage
        /\ DOMAIN job = Stores /\ stage \in [Stores -> StoreStages]
    BY StoreAssumption DEF TableInv
  <2>1. JobOK(j) /\ rows \in Table /\ HostsOwn(rows) BY DEF TableInv
  <2>2. \A q \in Stores : (writer = q <=> stage[q] = "writing")
                       /\ (stage[q] = "writing" => Keeps(rows, job[q].view))
    BY DEF TableInv
  <2>3. Keeps(rows, rows) BY KeepsItself
  <2>4. CASE Begin(p)
    <3> DEFINE k == [j EXCEPT !.view = rows, !.n = 0]
    <3>1. job' = [job EXCEPT ![p] = k] BY <2>0, <2>4 DEF Begin
    <3>2. JobOK(k) /\ k.view = rows BY <2>0, <2>1 DEF JobOK, JobFields
    <3>3. /\ writer' = p /\ \A q \in Stores : writer # q /\ stage[q] # "writing"
          /\ stage' = [stage EXCEPT ![p] = "writing"] /\ UNCHANGED <<keyOf, rows, offset>>
      BY <2>0, <2>2, <2>4 DEF Begin, Free, Go, schemaVars
    <3> HIDE DEF k
    <3> QED BY <2>1, <2>3, <3>1, <3>2, <3>3, LoudKeeps DEF StoreStages
  <2>5. ASSUME NEW line \in j.left, Upsert(p, line) PROVE TableInv' /\ StepKeeps
    <3> DEFINE v == Upserted(j.view, line.run, j.opts)
               k == [j EXCEPT !.left = @ \ {line}, !.n = @ + 1, !.view = v]
    <3>1. line.run \in Runs \cup {NoRun} BY <2>1 DEF JobOK, Lines
    <3>2. keyOf \in [Runs -> Keys] /\ j.view \in Table /\ HostsOwn(j.view)
      BY <2>1 DEF TableInv, JobOK
    <3>3. v \in Table /\ HostsOwn(v) /\ Keeps(j.view, v) BY <3>1, <3>2, UpsertedTable
    <3> HIDE DEF v
    <3>4. job' = [job EXCEPT ![p] = k] BY <2>0, <2>5 DEF Upsert, Done, v
    <3>5. j.n + 1 \in 0..BATCH BY <2>0, <2>1, <2>5 DEF Upsert, NextLine, BatchFull, JobOK
    <3>6. JobOK(k) /\ k.view = v BY <2>1, <3>3, <3>5 DEF JobOK, JobFields
    <3>7. /\ stage[p] = "writing" /\ UNCHANGED <<keyOf, rows, offset, writer, stage>>
      BY <2>5 DEF Upsert, schemaVars, tableVars
    <3>8. Keeps(rows, v) BY <2>2, <3>3, <3>7, KeepsTransitive
    <3>9. stage' = [stage EXCEPT ![p] = "writing"] BY <2>0, <3>7
    <3>10. writer' \in Stores \cup {NoStore} BY <3>7 DEF TableInv
    <3> HIDE DEF k
    <3> QED BY <2>1, <2>2, <2>3, <3>4, <3>6, <3>7, <3>8, <3>9, <3>10, LoudKeeps DEF StoreStages
  <2>6. ASSUME NEW line \in j.left, UpsertAuto(p, line) PROVE TableInv' /\ StepKeeps
    <3> DEFINE v == Upserted(rows, line.run, j.opts)
               k == [j EXCEPT !.left = @ \ {line}, !.n = @ + 1, !.view = j.view]
    <3>1. line.run \in Runs \cup {NoRun} BY <2>1 DEF JobOK, Lines
    <3>2. keyOf \in [Runs -> Keys] BY DEF TableInv
    <3>3. v \in Table /\ HostsOwn(v) /\ Keeps(rows, v) BY <2>1, <3>1, <3>2, UpsertedTable
    <3>4. rows' = v BY <2>6 DEF UpsertAuto
    <3> HIDE DEF v
    <3>5. job' = [job EXCEPT ![p] = k] BY <2>0, <2>6 DEF UpsertAuto, Done
    <3>6. j.n + 1 \in 0..BATCH BY <2>0, <2>1, <2>6 DEF UpsertAuto, NextLine, BatchFull, JobOK
    <3>7. JobOK(k) BY <2>1, <3>6 DEF JobOK, JobFields
    <3>8. /\ stage[p] = "auto" /\ UNCHANGED <<keyOf, offset, writer, stage>>
          /\ \A q \in Stores : writer # q /\ stage[q] # "writing"
      BY <2>0, <2>2, <2>6 DEF UpsertAuto, Free, schemaVars
    <3>9. stage' = [stage EXCEPT ![p] = "auto"] BY <2>0, <3>8
    <3>10. writer' \in Stores \cup {NoStore} BY <3>8 DEF TableInv
    <3> HIDE DEF k
    <3> QED BY <3>3, <3>4, <3>5, <3>7, <3>8, <3>9, <3>10, LoudKeeps DEF StoreStages
  <2>7. CASE Commit(p)
    <3> DEFINE k == [j EXCEPT !.view = Blank]
    <3>1. job' = [job EXCEPT ![p] = k] BY <2>0, <2>7 DEF Commit, Blank
    <3>2. JobOK(k) BY <2>1, BlankTable DEF JobOK, JobFields
    <3>3. /\ stage[p] = "writing" /\ writer = p /\ writer' = NoStore /\ rows' = j.view
          /\ UNCHANGED <<keyOf, offset>>
      BY <2>2, <2>7 DEF Commit, schemaVars
    <3>4. PICK x \in StoreStages : x # "writing" /\ stage' = [stage EXCEPT ![p] = x]
      BY <2>7 DEF Commit, Go, StoreStages
    <3>5. rows' \in Table /\ HostsOwn(rows') /\ Keeps(rows, rows')
      BY <2>1, <2>2, <3>3 DEF JobOK
    <3>6. \A q \in Stores : q # p => writer # q /\ writer' # q /\ stage[q] # "writing"
      BY <2>0, <2>2, <3>3
    <3>7. writer' # p BY <2>0, <3>3
    <3> HIDE DEF k
    <3> QED BY <3>1, <3>2, <3>3, <3>4, <3>5, <3>6, <3>7, LoudKeeps
  <2>8. CASE Crash(p)
    <3>1. job' = [job EXCEPT ![p] = NewJob(j.opts)] BY <2>0, <2>8 DEF Crash, Forget
    <3>2. JobOK(NewJob(j.opts)) BY NewJobOK
    <3>3. /\ stage' = [stage EXCEPT ![p] = "idle"] /\ UNCHANGED <<keyOf, rows, offset>>
          /\ writer' = IF writer = p THEN NoStore ELSE writer
      BY <2>8 DEF Crash, Go, schemaVars
    <3>4. /\ writer' # p /\ writer' \in Stores \cup {NoStore}
          /\ \A q \in Stores : q # p => (writer' = q <=> writer = q)
      BY <2>0, <3>3 DEF TableInv
    <3> QED BY <2>1, <2>2, <2>3, <3>1, <3>2, <3>3, <3>4, LoudKeeps DEF StoreStages
  <2>9. CASE Quiet(p)
    BY <2>9, QuietKeeps
  <2> QED BY <1>3, <2>4, <2>5, <2>6, <2>7, <2>8, <2>9, QuietSteps DEF Store, Proceed
<1> QED BY <1>1, <1>2, <1>3 DEF Next

-----------------------------------------------------------------------------
(* What follows for the whole system. *)

LEMMA StoreLeavesIndex ==
  ASSUME NEW p \in Stores, Store(p) PROVE UNCHANGED indexVars
  BY DEF Store, Proceed, Open, Migrate, MigrateFails, Stamp, GetOffset, ReadIndex, Begin, BeginFails,
     Upsert, UpsertAuto, Refuse, Commit, CommitAuto, SaveOffset, SaveFails, Crash, indexVars

LEMMA IndexGoesOn == [Next]_vars => [IndexNext]_indexVars
  BY StoreLeavesIndex DEF Next, vars, indexVars

LEMMA Safe == Spec => [](IndexInv /\ TableInv)
<1>1. Init => IndexInv /\ TableInv BY IndexInitially, TablesInitially DEF Init
<1>2. IndexInv /\ TableInv /\ [Next]_vars => (IndexInv /\ TableInv)'
  <2> SUFFICES ASSUME IndexInv, TableInv, [Next]_vars PROVE IndexInv' /\ TableInv'
    OBVIOUS
  <2>1. IndexInv' BY IndexGoesOn, IndexStep
  <2>2. TableInv' BY TableStep DEF IndexInv
  <2> QED BY <2>1, <2>2
<1> QED BY <1>1, <1>2, PTL DEF Spec

\* Types, and the writer of the database is the one process in a transaction.
THEOREM StoreTypeCorrect == Spec => []StoreTypeOK
<1>1. IndexInv /\ TableInv => StoreTypeOK
  BY DEF IndexInv, TableInv, JobOK, StoreTypeOK, StoreStages
<1> QED BY <1>1, Safe, PTL

\* Whoever reads the index: records of different runs never interleave in it.
THEOREM IndexNeverInterleaved == Spec => []NeverInterleaved
<1>1. IndexInv /\ TableInv => NeverInterleaved BY DEF IndexInv
<1> QED BY <1>1, Safe, PTL

\* A run never gets the host columns of another run.
THEOREM HostsAreOwn == Spec => []HostIsOwn
<1>1. IndexInv /\ TableInv => HostIsOwn BY DEF TableInv, HostsOwn, HostIsOwn
<1> QED BY <1>1, Safe, PTL

\* No step of any process takes from the store what is in it.
THEOREM StoreNeverForgets == Spec => NeverForgets
<1>1. IndexInv /\ TableInv /\ [Next]_vars =>
        [\A k \in Keys : rows[k] # NoRow =>
           /\ rows'[k] # NoRow /\ rows'[k].run = rows[k].run
           /\ rows[k].host # NoRun => rows'[k].host # NoRun
           /\ rows[k].metrics # NoRun => rows'[k].metrics # NoRun
           /\ rows[k].features # NotExtracted => rows'[k].features # NotExtracted]_vars
  <2> SUFFICES ASSUME IndexInv, TableInv, [Next]_vars PROVE Keeps(rows, rows')
    BY DEF Keeps
  <2> QED BY TableStep DEF IndexInv, StepKeeps
<1> QED BY <1>1, Safe, PTL DEF Spec, NeverForgets

-----------------------------------------------------------------------------
(* Schema versions. *)

\* A process that migrates has done all migrations before the one it is at, and
\* no migration is ever undone.
VersionInv ==
  /\ version \in Nat /\ VersionIsTrue
  /\ version <= Current => migrated \subseteq 0..Current - 1
  /\ DOMAIN job = Stores /\ stage \in [Stores -> StoreStages]
  /\ \A p \in Stores : DOMAIN job[p] = JobFields
  /\ \A p \in Stores : stage[p] = "migrating" =>
       /\ version <= Current /\ job[p].todo \in 0..Current
       /\ \A m \in 0..job[p].todo - 1 : m \in migrated

LEMMA VersionInitially == Init => VersionInv
<1> SUFFICES ASSUME Init PROVE VersionInv
  OBVIOUS
<1>1. version \in Nat /\ migrated = IF version = 0 THEN {} ELSE 0..version - 1
  BY StoreAssumption DEF Init, StoreInit
<1>2. \A p \in Stores : stage[p] = "idle" BY DEF Init, StoreInit
<1>3. VersionIsTrue /\ (version <= Current => migrated \subseteq 0..Current - 1)
  BY <1>1 DEF VersionIsTrue, Current
<1> QED BY <1>1, <1>2, <1>3, TablesInitially DEF VersionInv, TableInv, JobOK

LEMMA VersionStep ==
  ASSUME IndexTypeOK, TableInv, VersionInv, [Next]_vars
  PROVE  VersionInv'
<1>0. (DOMAIN job = Stores /\ stage \in [Stores -> StoreStages] /\ \A p \in Stores : DOMAIN job[p] = JobFields)'
  BY TableStep DEF TableInv, JobOK
<1>1. ASSUME NEW p \in Stores, schemaVars' = schemaVars,
             \A q \in Stores : q # p => stage'[q] = stage[q] /\ job'[q] = job[q],
             stage'[p] = "migrating" => stage[p] = "migrating" /\ job'[p].todo = job[p].todo
      PROVE  VersionInv'
  BY <1>0, <1>1 DEF VersionInv, VersionIsTrue, schemaVars
<1>2. ASSUME UNCHANGED <<schemaVars, stage, job>> PROVE VersionInv'
  BY <1>0, <1>2 DEF VersionInv, VersionIsTrue, schemaVars
<1>3. CASE UNCHANGED vars \/ (IndexNext /\ UNCHANGED storeVars)
  BY <1>2, <1>3 DEF vars, storeVars
<1>4. ASSUME NEW p \in Stores, Store(p) PROVE VersionInv'
  <2>0. /\ DOMAIN job = Stores /\ stage \in [Stores -> StoreStages] /\ DOMAIN job[p] = JobFields
        /\ version \in Nat
    BY DEF VersionInv
  <2>1. ASSUME NEW opts \in OptionSets, Open(p, opts) PROVE VersionInv'
    <3>1. /\ schemaVars' = schemaVars
          /\ \A q \in Stores : q # p => stage'[q] = stage[q] /\ job'[q] = job[q]
          /\ stage'[p] = IF version > Current THEN "idle" ELSE IF version = Current THEN "open" ELSE "migrating"
          /\ job'[p].todo = version
      BY <2>0, <2>1 DEF Open, Go, NewJob, schemaVars
    <3>2. stage'[p] = "migrating" => version <= Current /\ version \in 0..Current
      BY <2>0, <3>1 DEF Current
    <3>3. stage'[p] = "migrating" => \A m \in 0..version - 1 : m \in migrated
      BY <3>2 DEF VersionInv, VersionIsTrue
    <3> QED BY <1>0, <3>1, <3>2, <3>3 DEF VersionInv, VersionIsTrue, schemaVars
  <2>2. CASE Migrate(p)
    <3> DEFINE todo == job[p].todo
    <3>1. /\ version' = version /\ version <= Current /\ todo \in 0..Current - 1
          /\ \A m \in 0..todo - 1 : m \in migrated
          /\ \A q \in Stores : q # p => stage'[q] = stage[q] /\ job'[q] = job[q]
          /\ migrated \subseteq 0..Current - 1
      BY <2>0, <2>2 DEF Migrate, VersionInv, Go, Forget, Current
    <3>2. migrated \subseteq migrated' /\ migrated' \subseteq 0..Current - 1
      BY <2>2, <3>1 DEF Migrate, Current
    <3>3. stage'[p] = "migrating" =>
            /\ job'[p].todo = IF todo = 0 THEN Current ELSE todo + 1
            /\ migrated' = IF todo = 0 THEN 0..Current - 1 ELSE migrated \cup {todo}
      <4> DEFINE fails == todo \in {1, 2} /\ todo \in migrated
      <4>1. CASE fails BY <2>0, <2>2, <4>1 DEF Migrate, Go
      <4>2. CASE ~fails
        <5>1. job' = [job EXCEPT ![p].todo = IF todo = 0 THEN Current ELSE todo + 1]
          BY <2>2, <4>2 DEF Migrate
        <5>2. job'[p].todo = IF todo = 0 THEN Current ELSE todo + 1
          BY <2>0, <5>1 DEF JobFields
        <5> QED BY <2>2, <4>2, <5>2 DEF Migrate
      <4> QED BY <4>1, <4>2
    <3>4. stage'[p] = "migrating" =>
            /\ job'[p].todo \in 0..Current
            /\ \A m \in 0..job'[p].todo - 1 : m \in migrated'
      BY <3>1, <3>3 DEF Current
    <3>5. VersionIsTrue' BY <3>1, <3>2 DEF VersionInv, VersionIsTrue
    <3> QED BY <1>0, <3>1, <3>2, <3>4, <3>5 DEF VersionInv
  <2>3. CASE Stamp(p)
    <3>1. /\ version' = Current /\ migrated' = migrated /\ version <= Current
          /\ \A m \in 0..Current - 1 : m \in migrated
          /\ stage'[p] = "open" /\ \A q \in Stores : q # p => stage'[q] = stage[q] /\ job'[q] = job[q]
      BY <2>0, <2>3 DEF Stamp, VersionInv, Go
    <3>2. version' \in Nat /\ VersionIsTrue' BY <3>1 DEF VersionIsTrue, Current
    <3> QED BY <1>0, <3>1, <3>2 DEF VersionInv
  <2>4. CASE MigrateFails(p) \/ SaveFails(p) \/ SaveOffset(p) \/ Crash(p)
    BY <1>1, <2>0, <2>4 DEF MigrateFails, SaveFails, SaveOffset, Crash, Go, Forget, schemaVars
  <2>5. CASE \E line \in job[p].left : Upsert(p, line) \/ UpsertAuto(p, line) \/ Refuse(p, line)
    BY <1>1, <2>0, <2>5 DEF Upsert, UpsertAuto, Refuse, Done
  <2>6. CASE GetOffset(p) \/ ReadIndex(p)
    <3>1. CASE GetOffset(p) BY <1>1, <2>0, <3>1 DEF GetOffset, Go
    <3>2. CASE ReadIndex(p) BY <1>1, <2>0, <3>2 DEF ReadIndex, Go, Forget
    <3> QED BY <2>6, <3>1, <3>2
  <2>7. CASE Begin(p) \/ BeginFails(p) \/ Commit(p) \/ CommitAuto(p)
    BY <1>1, <2>0, <2>7 DEF Begin, BeginFails, Commit, CommitAuto, Go
  <2> QED BY <1>4, <2>1, <2>2, <2>3, <2>4, <2>5, <2>6, <2>7 DEF Store, Proceed
<1> QED BY <1>3, <1>4 DEF Next

\* The version a database says it has is the version its tables have.
THEOREM VersionsAreTrue == Spec => []VersionIsTrue
<1>1. Init => VersionInv BY VersionInitially
<1>2. IndexInv /\ TableInv /\ VersionInv /\ [Next]_vars => VersionInv'
  BY VersionStep DEF IndexInv
<1>3. VersionInv => VersionIsTrue BY DEF VersionInv
<1> QED BY <1>1, <1>2, <1>3, Safe, PTL DEF Spec

-----------------------------------------------------------------------------
(* The offset. *)

Stored(r) == rows[keyOf[r]] # NoRow \/ r \in refused

\* The index up to o is a number of lines, and the records in it are stored.
Covered(o) ==
  /\ o <= Len(index) /\ (o # 0 => index[o].part = "rest")
  /\ \A i \in 1..o : WholeAt(index, i) => Stored(index[i].run)

Reading == {"located", "ready", "writing", "auto", "saving"}

\* What a process has read is stored, or left for it to do, or in its transaction.
JobCovers(p) ==
  LET j == job[p] IN
  stage[p] \in Reading =>
    /\ j.generation \in 0..rotations
    /\ j.generation = rotations => Covered(j.from)
    /\ stage[p] # "located" /\ j.generation = rotations =>
         /\ j.from + j.consumed <= Len(index)
         /\ j.from + j.consumed # 0 => index[j.from + j.consumed].part = "rest"
         /\ \A i \in j.from + 1..j.from + j.consumed : WholeAt(index, i) =>
              \/ Stored(index[i].run)
              \/ [end |-> i - j.from, run |-> index[i].run] \in j.left
              \/ stage[p] = "writing" /\ j.view[keyOf[index[i].run]] # NoRow
    /\ stage[p] = "saving" => j.left = {}

CoverInv ==
  /\ savedGeneration \in 0..rotations
  /\ savedGeneration = rotations => Covered(offset)
  /\ \A p \in Stores : JobCovers(p)

LEMMA UpsertedHas ==
  ASSUME keyOf \in [Runs -> Keys], NEW t \in Table, NEW r \in Runs, NEW opts
  PROVE  IndexTypeOK => Upserted(t, r, opts)[keyOf[r]] # NoRow
<1> SUFFICES ASSUME IndexTypeOK PROVE Upserted(t, r, opts)[keyOf[r]] # NoRow
  OBVIOUS
<1>1. r # NoRun /\ keyOf[r] \in Keys BY IndexAssumption
<1>2. CASE Collides(t, r) BY <1>1, <1>2 DEF Upserted, Collides
<1>3. CASE ~Collides(t, r)
  <2> DEFINE u == Upserted(t, r, opts)
             k == keyOf[r]
             old == IF t[k] = NoRow THEN NewRow(r) ELSE t[k]
  <2>1. CASE t[k] # NoRow
    <3>1. Keeps(t, u) BY <1>1, UpsertedTable
    <3> QED BY <1>1, <2>1, <3>1 DEF Keeps
  <2>2. CASE t[k] = NoRow
    <3>1. NewRow(r) \in Row /\ NewRow(r).run = r BY DEF NewRow, Row
    <3>2. RowFor(NewRow(r), r, opts) \in Row BY <3>1, RowForFields
    <3>3. u = [t EXCEPT ![k] = RowFor(NewRow(r), r, opts)]
      BY <1>1, <1>3, <2>2 DEF Upserted, RowFor
    <3> QED BY <1>1, <3>2, <3>3, NoRowAssumption DEF Table
  <2> QED BY <2>1, <2>2
<1> QED BY <1>2, <1>3

\* What is stored stays stored, and what is covered stays covered, while the
\* index grows.
Grows ==
  /\ rotations' = rotations
  /\ Len(index) <= Len(index') /\ \A i \in 1..Len(index) : index'[i] = index[i]

LEMMA IndexGrowsOrRestarts ==
  ASSUME IndexTypeOK, [IndexNext]_indexVars
  PROVE  Grows \/ rotations' = rotations + 1
<1>1. index \in Seq(Pieces) BY DEF IndexTypeOK
<1>2. \A r \in Runs : Opening(r) \in Pieces /\ Closing(r) \in Pieces BY PieceTypes
<1>3. ASSUME NEW x \in Pieces, index' = Append(index, x), rotations' = rotations PROVE Grows
  BY <1>1, <1>3, Appended DEF Grows
<1>4. ASSUME NEW r \in Runs, WriteWhole(r) PROVE Grows
  <2>1. index' = index \o <<Opening(r), Closing(r)>> /\ rotations' = rotations BY <1>4 DEF WriteWhole
  <2> QED BY <1>1, <1>2, <2>1 DEF Grows
<1>5. ASSUME index' = index, rotations' = rotations PROVE Grows
  BY <1>1, <1>5 DEF Grows
<1>6. ASSUME NEW r \in Runs, Wspy(r) PROVE Grows
  BY <1>2, <1>3, <1>4, <1>5, <1>6 DEF Wspy, Start, Finish, WriteHead, WriteRest, Die
<1>7. CASE Rotate BY <1>7 DEF Rotate
<1> QED BY <1>5, <1>6, <1>7 DEF IndexNext, indexVars

LEMMA WholeStays ==
  ASSUME IndexTypeOK, IndexTypeOK', Grows, NEW i \in 1..Len(index), WholeAt(index', i)
  PROVE  WholeAt(index, i) /\ index'[i] = index[i] /\ index[i].run \in Runs
<1>1. /\ Len(index) \in Nat /\ Len(index') \in Nat /\ index[i] \in Pieces
  BY DEF IndexTypeOK
<1>2. i \in Nat /\ i >= 2 /\ i - 1 \in 1..Len(index) /\ (i > 2 => i - 2 \in 1..Len(index))
  BY <1>1 DEF WholeAt
<1>3. index'[i] = index[i] /\ index'[i-1] = index[i-1] /\ (i > 2 => index'[i-2] = index[i-2])
  BY <1>1, <1>2 DEF Grows
<1>4. index[i].run \in Runs BY <1>1 DEF Pieces
<1>5. WholeAt(index, i) BY <1>1, <1>2, <1>3 DEF WholeAt
<1> QED BY <1>3, <1>4, <1>5

LEMMA CoveredStays ==
  ASSUME IndexTypeOK, IndexTypeOK', Grows, Keeps(rows, rows'), keyOf' = keyOf,
         keyOf \in [Runs -> Keys], refused \subseteq refused'
  PROVE  /\ \A r \in Runs : Stored(r) => Stored(r)'
         /\ \A o \in Nat : Covered(o) => Covered(o)'
<1>1. ASSUME NEW r \in Runs, Stored(r) PROVE Stored(r)'
  BY <1>1 DEF Stored, Keeps
<1>2. ASSUME NEW o \in Nat, Covered(o) PROVE Covered(o)'
  <2>1. Len(index) \in Nat /\ Len(index') \in Nat BY DEF IndexTypeOK
  <2>2. o <= Len(index') /\ (o # 0 => index'[o].part = "rest")
    BY <1>2, <2>1 DEF Covered, Grows
  <2>3. ASSUME NEW i \in 1..o, WholeAt(index', i) PROVE Stored(index[i].run)'
    <3>1. i \in 1..Len(index) BY <1>2, <2>1 DEF Covered
    <3>2. WholeAt(index, i) /\ index'[i] = index[i] /\ index[i].run \in Runs
      BY <2>3, <3>1, WholeStays
    <3>3. Stored(index[i].run) BY <1>2, <3>2 DEF Covered
    <3> QED BY <1>1, <3>2, <3>3 DEF Stored
  <2> QED BY <2>2, <2>3 DEF Covered
<1> QED BY <1>1, <1>2

LEMMA CoverInitially == Init => CoverInv
<1> SUFFICES ASSUME Init PROVE CoverInv
  OBVIOUS
<1>1. savedGeneration = 0 /\ rotations = 0 /\ offset = 0 /\ index = <<>>
  BY DEF Init, IndexInit, StoreInit
<1>2. \A p \in Stores : stage[p] \notin Reading BY DEF Init, StoreInit, Reading
<1>3. Covered(offset) BY <1>1 DEF Covered
<1> QED BY <1>1, <1>2, <1>3 DEF CoverInv, JobCovers

\* A process that does nothing keeps what it has read covered.
LEMMA OthersCover ==
  ASSUME IndexTypeOK, IndexTypeOK', TableInv, Grows, Keeps(rows, rows'), keyOf' = keyOf,
         refused \subseteq refused',
         NEW p \in Stores, JobCovers(p), stage'[p] = stage[p], job'[p] = job[p]
  PROVE  JobCovers(p)'
<1> DEFINE j == job[p]
<1>1. /\ JobOK(j) /\ keyOf \in [Runs -> Keys] /\ Len(index) \in Nat /\ Len(index') \in Nat
      /\ rotations' = rotations
  BY DEF TableInv, IndexTypeOK, Grows
<1>2. j.from \in Nat /\ j.consumed \in Nat BY <1>1 DEF JobOK
<1>3. /\ \A r \in Runs : Stored(r) => Stored(r)'
      /\ Covered(j.from) => Covered(job[p].from)'
  <2>1. \A o \in Nat : Covered(o) => Covered(o)' BY <1>1, CoveredStays
  <2>2. PICK o \in Nat : o = j.from BY <1>2
  <2>3. job'[p].from = o BY <2>2
  <2>4. Covered(o)' <=> Covered(job[p].from)' BY <2>3 DEF Covered
  <2> QED BY <1>1, <2>1, <2>2, <2>4, CoveredStays
<1>4. ASSUME stage[p] \in Reading, stage[p] # "located", j.generation = rotations
      PROVE  /\ j.from + j.consumed <= Len(index')
             /\ j.from + j.consumed # 0 => index'[j.from + j.consumed].part = "rest"
             /\ \A i \in j.from + 1..j.from + j.consumed : WholeAt(index', i) =>
                  \/ Stored(index[i].run)'
                  \/ [end |-> i - j.from, run |-> index'[i].run] \in j.left
                  \/ stage[p] = "writing" /\ j.view[keyOf[index'[i].run]] # NoRow
  <2>1. /\ j.from + j.consumed <= Len(index)
        /\ j.from + j.consumed # 0 => index[j.from + j.consumed].part = "rest"
        /\ \A i \in j.from + 1..j.from + j.consumed : WholeAt(index, i) =>
             \/ Stored(index[i].run)
             \/ [end |-> i - j.from, run |-> index[i].run] \in j.left
             \/ stage[p] = "writing" /\ j.view[keyOf[index[i].run]] # NoRow
    BY <1>4 DEF JobCovers
  <2>2. /\ j.from + j.consumed <= Len(index')
        /\ j.from + j.consumed # 0 => index'[j.from + j.consumed].part = "rest"
    BY <1>1, <1>2, <2>1 DEF Grows
  <2>3. ASSUME NEW i \in j.from + 1..j.from + j.consumed, WholeAt(index', i)
        PROVE  \/ Stored(index[i].run)'
               \/ [end |-> i - j.from, run |-> index'[i].run] \in j.left
               \/ stage[p] = "writing" /\ j.view[keyOf[index'[i].run]] # NoRow
    <3>1. i \in 1..Len(index) BY <1>1, <1>2, <2>1
    <3>2. WholeAt(index, i) /\ index'[i] = index[i] /\ index[i].run \in Runs
      BY <2>3, <3>1, WholeStays
    <3>3. Stored(index[i].run) => Stored(index[i].run)'
      BY <1>3, <3>2 DEF Stored
    <3> QED BY <2>1, <3>2, <3>3
  <2> QED BY <2>2, <2>3
<1> QED BY <1>1, <1>3, <1>4 DEF JobCovers

\* What a process reads: the lines after a line
LEMMA ReadCovers ==
  ASSUME IndexTypeOK, NEW from \in Nat, from <= Len(index), from # 0 => index[from].part = "rest",
         NEW c \in 0..Len(index) - from, LastNewline(SubSeq(index, from + 1, Len(index)), c)
  PROVE  /\ from + c <= Len(index)
         /\ from + c # 0 => index[from + c].part = "rest"
         /\ \A i \in from + 1..from + c : WholeAt(index, i) =>
              [end |-> i - from, run |-> index[i].run] \in Complete(SubSeq(index, from + 1, Len(index)))
<1> DEFINE s == SubSeq(index, from + 1, Len(index))
<1>1. index \in Seq(Pieces) /\ Len(index) \in Nat BY DEF IndexTypeOK
<1>2. Len(s) = Len(index) - from /\ DOMAIN s = 1..Len(index) - from
      /\ \A i \in 1..Len(index) - from : s[i] = index[from + i]
  BY <1>1
<1> HIDE DEF s
<1>3. c # 0 => s[c].part = "rest" BY DEF LastNewline, s
<1>4. from + c # 0 => index[from + c].part = "rest"
  BY <1>1, <1>2, <1>3
<1>5. ASSUME NEW i \in from + 1..from + c, WholeAt(index, i)
      PROVE  [end |-> i - from, run |-> index[i].run] \in Complete(s)
  <2> DEFINE n == i - from
  <2>1. n \in 1..Len(index) - from /\ i \in 2..Len(index) /\ s[n] = index[i]
    BY <1>1, <1>2, <1>5, SMTT(30) DEF WholeAt
  <2>2. index[i].part = "rest" /\ index[i-1] = Opening(index[i].run) /\ (i > 2 => index[i-2].part = "rest")
    BY <1>5 DEF WholeAt
  <2>3. n # 1
    <3> SUFFICES ASSUME n = 1 PROVE FALSE
      OBVIOUS
    <3>1. i - 1 = from /\ from # 0 BY <2>1
    <3> HIDE DEF n
    <3>2. index[from] = Opening(index[i].run) BY <2>2, <3>1
    <3>3. index[from].part = "head" BY <3>2 DEF Opening
    <3> QED BY <3>1, <3>3
  <2>4. n \in 2..Len(s) /\ s[n-1] = index[i-1] /\ (n > 2 => s[n-2] = index[i-2] /\ i > 2)
    <3>1. n \in 2..Len(s) /\ n - 1 \in 1..Len(index) - from /\ i \in Nat
      BY <1>1, <1>2, <2>1, <2>3
    <3>2. from + (n - 1) = i - 1 /\ from + (n - 2) = i - 2 BY <3>1
    <3>3. n > 2 => i > 2 /\ n - 2 \in 1..Len(index) - from BY <1>1, <3>1, <3>2
    <3> HIDE DEF n
    <3>4. s[n-1] = index[i-1] BY <1>2, <3>1, <3>2
    <3>5. n > 2 => s[n-2] = index[i-2] BY <1>2, <3>2, <3>3
    <3> QED BY <3>1, <3>3, <3>4, <3>5
  <2>5. WholeAt(s, n) BY <2>1, <2>2, <2>4 DEF WholeAt
  <2>6. n \in DOMAIN s /\ s[n].part = "rest" BY <1>2, <2>1, <2>2
  <2>7. [end |-> n, run |-> s[n].run] \in Complete(s) BY <2>5, <2>6 DEF Complete
  <2> QED BY <2>1, <2>7
<1> QED BY <1>1, <1>4, <1>5 DEF s

\* A process at work on what it has read
LEMMA WorkCovers ==
  ASSUME IndexTypeOK, TableInv, UNCHANGED <<index, rotations, keyOf>>, Keeps(rows, rows'),
         refused \subseteq refused',
         NEW p \in Stores, JobCovers(p),
         stage[p] \in Reading \ {"located"}, stage'[p] \in Reading \ {"located"},
         job'[p].from = job[p].from, job'[p].consumed = job[p].consumed,
         job'[p].generation = job[p].generation,
         \A r \in Runs, e \in Nat :
           \/ [end |-> e, run |-> r] \in job[p].left
           \/ stage[p] = "writing" /\ job[p].view[keyOf[r]] # NoRow
           => \/ Stored(r)'
              \/ [end |-> e, run |-> r] \in job'[p].left
              \/ stage'[p] = "writing" /\ job'[p].view[keyOf[r]] # NoRow,
         stage'[p] = "saving" => job'[p].left = {}
  PROVE  JobCovers(p)'
<1> DEFINE j == job[p]
           k == job'[p]
<1>1. /\ JobOK(j) /\ keyOf \in [Runs -> Keys] /\ Len(index) \in Nat /\ index \in Seq(Pieces)
  BY DEF TableInv, IndexTypeOK
<1>2. j.from \in Nat /\ j.consumed \in Nat BY <1>1 DEF JobOK
<1>3. \A r \in Runs : Stored(r) => Stored(r)' BY <1>1 DEF Stored, Keeps
<1>4. ASSUME NEW i, WholeAt(index, i) PROVE index[i].run \in Runs
  <2>1. i \in 1..Len(index) BY <1>1, <1>4 DEF WholeAt
  <2>2. index[i] \in Pieces BY <1>1, <2>1
  <2> QED BY <2>2 DEF Pieces
<1>5. Covered(j.from) => Covered(job[p].from)'
  <2> SUFFICES ASSUME Covered(j.from) PROVE Covered(job[p].from)'
    OBVIOUS
  <2>1. ASSUME NEW i \in 1..j.from, WholeAt(index, i) PROVE Stored(index[i].run)'
    <3>1. Stored(index[i].run) BY <2>1 DEF Covered
    <3>2. index[i].run \in Runs BY <1>4, <2>1
    <3> QED BY <1>3, <3>1, <3>2 DEF Stored
  <2> QED BY <2>1 DEF Covered
<1>6. ASSUME j.generation = rotations
      PROVE  /\ k.from + k.consumed <= Len(index')
             /\ k.from + k.consumed # 0 => index'[k.from + k.consumed].part = "rest"
             /\ \A i \in k.from + 1..k.from + k.consumed : WholeAt(index', i) =>
                  \/ Stored(index[i].run)'
                  \/ [end |-> i - k.from, run |-> index'[i].run] \in k.left
                  \/ stage'[p] = "writing" /\ k.view[keyOf'[index'[i].run]] # NoRow
  <2>1. /\ j.from + j.consumed <= Len(index)
        /\ j.from + j.consumed # 0 => index[j.from + j.consumed].part = "rest"
        /\ \A i \in j.from + 1..j.from + j.consumed : WholeAt(index, i) =>
             \/ Stored(index[i].run)
             \/ [end |-> i - j.from, run |-> index[i].run] \in j.left
             \/ stage[p] = "writing" /\ j.view[keyOf[index[i].run]] # NoRow
    BY <1>6 DEF JobCovers
  <2>2. ASSUME NEW i \in j.from + 1..j.from + j.consumed, WholeAt(index, i)
        PROVE  \/ Stored(index[i].run)'
               \/ [end |-> i - j.from, run |-> index[i].run] \in k.left
               \/ stage'[p] = "writing" /\ k.view[keyOf[index[i].run]] # NoRow
    <3>1. index[i].run \in Runs BY <1>4, <2>2
    <3>2. i - j.from \in Nat BY <1>2
    <3>3. PICK r \in Runs : r = index[i].run BY <3>1
    <3>4. PICK e \in Nat : e = i - j.from BY <3>2
    <3>5. Stored(r) \/ [end |-> e, run |-> r] \in j.left \/ (stage[p] = "writing" /\ j.view[keyOf[r]] # NoRow)
      BY <2>1, <2>2, <3>3, <3>4
    <3>6. Stored(r)' \/ [end |-> e, run |-> r] \in k.left \/ (stage'[p] = "writing" /\ k.view[keyOf[r]] # NoRow)
      BY <1>3, <3>5
    <3>7. Stored(r)' <=> Stored(index[i].run)' BY <3>3 DEF Stored
    <3> QED BY <3>3, <3>4, <3>6, <3>7
  <2> QED BY <2>1, <2>2
<1> QED BY <1>5, <1>6 DEF JobCovers

\* The process that steps
LEMMA OwnCovers ==
  ASSUME IndexTypeOK, TableInv, CoverInv, NEW p \in Stores, Store(p),
         UNCHANGED indexVars, StepKeeps
  PROVE  JobCovers(p)' /\ refused \subseteq refused'
<1> DEFINE j == job[p]
<1>0. /\ JobOK(j) /\ DOMAIN j = JobFields /\ DOMAIN job = Stores /\ stage \in [Stores -> StoreStages]
      /\ keyOf \in [Runs -> Keys] /\ offset \in Nat /\ JobCovers(p)
      /\ [job EXCEPT ![p] = job[p]] = job
  BY DEF TableInv, JobOK, CoverInv
<1>1. /\ index' = index /\ rotations' = rotations /\ keyOf' = keyOf /\ Keeps(rows, rows')
      /\ rotations \in Nat /\ index \in Seq(Pieces) /\ Len(index) \in Nat
  BY IndexAssumption DEF indexVars, StepKeeps, IndexTypeOK
<1>2. ASSUME stage'[p] \notin Reading PROVE JobCovers(p)'
  BY <1>2 DEF JobCovers
<1>3. CASE (\E o \in OptionSets : Open(p, o)) \/ Migrate(p) \/ MigrateFails(p) \/ Stamp(p)
           \/ SaveOffset(p) \/ SaveFails(p) \/ Crash(p)
  <2>1. stage'[p] \notin Reading
    BY <1>0, <1>3 DEF Open, Migrate, MigrateFails, Stamp, SaveOffset, SaveFails, Crash, Go, Reading
  <2>2. refused' = refused
    BY <1>3 DEF Open, Migrate, MigrateFails, Stamp, SaveOffset, SaveFails, Crash, tableVars
  <2> QED BY <1>2, <2>1, <2>2
<1>4. CASE GetOffset(p)
  <2> DEFINE g == IF SourceOffset = 0 THEN rotations ELSE savedGeneration
  <2>1. /\ job' = [job EXCEPT ![p].from = SourceOffset, ![p].generation = g]
        /\ stage'[p] = "located" /\ rows' = rows /\ refused' = refused
    BY <1>0, <1>4 DEF GetOffset, Go, tableVars
  <2>2. job'[p].from = SourceOffset /\ job'[p].generation = g BY <1>0, <2>1 DEF JobFields
  <2>3. g \in 0..rotations BY <1>1 DEF CoverInv
  <2>4. g = rotations => Covered(SourceOffset)
    <3>1. Covered(0) BY <1>1 DEF Covered
    <3>2. SourceOffset # 0 => SourceOffset = offset BY DEF SourceOffset
    <3> QED BY <3>1, <3>2 DEF CoverInv
  <2>5. g = rotations => Covered(job[p].from)'
    <3>1. PICK o : o = SourceOffset OBVIOUS
    <3>2. Covered(o) => Covered(o)' BY <1>1, <2>1 DEF Covered, Stored
    <3>3. Covered(o)' <=> Covered(job[p].from)' BY <2>2, <3>1 DEF Covered
    <3> QED BY <2>4, <3>1, <3>2, <3>3 DEF Covered
  <2> HIDE DEF g
  <2> QED BY <1>1, <2>1, <2>2, <2>3, <2>5 DEF JobCovers
<1>5. CASE ReadIndex(p)
  <2>0. rows' = rows /\ refused' = refused BY <1>5 DEF ReadIndex, tableVars
  <2>1. CASE j.from > Len(index)
    <3>1. stage'[p] \notin Reading BY <1>0, <1>5, <2>1 DEF ReadIndex, Go, Reading
    <3> QED BY <1>2, <2>0, <3>1
  <2>2. CASE ~(j.from > Len(index))
    <3> DEFINE s == SubSeq(index, j.from + 1, Len(index))
               g == IF j.from = 0 THEN rotations ELSE j.generation
    <3>1. j.from \in Nat /\ j.from <= Len(index) BY <1>0, <1>1, <2>2 DEF JobOK
    <3>2. PICK c \in 0..Len(s) :
            /\ LastNewline(s, c) /\ stage' = [stage EXCEPT ![p] = "ready"]
            /\ job' = [job EXCEPT ![p].size = Len(index), ![p].consumed = c,
                                  ![p].left = Complete(s), ![p].n = 0, ![p].generation = g]
      BY <1>0, <1>5, <2>2 DEF ReadIndex, Go
    <3>3. c \in 0..Len(index) - j.from
      <4>1. Len(s) = Len(index) - j.from BY <1>1, <3>1 DEF IndexTypeOK
      <4> HIDE DEF s
      <4> QED BY <3>2, <4>1
    <3> HIDE DEF s, g
    <3>4. /\ job'[p].from = j.from /\ job'[p].consumed = c /\ job'[p].left = Complete(s)
          /\ job'[p].generation = g /\ stage'[p] = "ready"
      BY <1>0, <3>2 DEF JobFields
    <3>5. stage[p] = "located" BY <1>5 DEF ReadIndex
    <3>6. g \in 0..rotations BY <1>0, <1>1, <3>5 DEF g, JobCovers, Reading
    <3>7. g = rotations => Covered(j.from)
      <4>1. Covered(0) BY <1>1 DEF Covered
      <4> QED BY <1>0, <3>5, <4>1 DEF g, JobCovers, Reading
    <3>8. g = rotations => Covered(job[p].from)'
      <4>1. PICK o : o = j.from OBVIOUS
      <4>2. Covered(o) => Covered(o)' BY <1>1, <2>0 DEF Covered, Stored
      <4>3. Covered(o)' <=> Covered(job[p].from)' BY <3>4, <4>1 DEF Covered
      <4>4. Covered(j.from) => Covered(o) BY <4>1
      <4> QED BY <3>7, <4>2, <4>3, <4>4
    <3>9. g = rotations =>
            /\ j.from + c <= Len(index)
            /\ j.from + c # 0 => index[j.from + c].part = "rest"
            /\ \A i \in j.from + 1..j.from + c : WholeAt(index, i) =>
                 [end |-> i - j.from, run |-> index[i].run] \in Complete(s)
      <4> SUFFICES ASSUME g = rotations
                   PROVE  /\ j.from + c <= Len(index)
                          /\ j.from + c # 0 => index[j.from + c].part = "rest"
                          /\ \A i \in j.from + 1..j.from + c : WholeAt(index, i) =>
                               [end |-> i - j.from, run |-> index[i].run] \in Complete(s)
        OBVIOUS
      <4>1. j.from # 0 => index[j.from].part = "rest" BY <3>7 DEF Covered
      <4> QED BY <3>1, <3>2, <3>3, <4>1, ReadCovers DEF s
    <3> QED BY <1>1, <2>0, <3>4, <3>6, <3>8, <3>9 DEF JobCovers
  <2> QED BY <2>1, <2>2
<1>6. CASE Begin(p) \/ BeginFails(p)
  <2>1. /\ rows' = rows /\ refused' = refused /\ stage[p] = "ready" /\ stage'[p] \in {"writing", "auto"}
    BY <1>0, <1>6 DEF Begin, BeginFails, Go, tableVars
  <2>2. /\ job'[p].from = j.from /\ job'[p].consumed = j.consumed
        /\ job'[p].generation = j.generation /\ job'[p].left = j.left
    BY <1>0, <1>6 DEF Begin, BeginFails, JobFields
  <2> QED BY <1>0, <1>1, <2>1, <2>2, WorkCovers DEF Reading
<1>7. ASSUME NEW line \in j.left, Upsert(p, line) PROVE JobCovers(p)' /\ refused \subseteq refused'
  <2> DEFINE v == Upserted(j.view, line.run, j.opts)
  <2>1. /\ rows' = rows /\ refused' = refused /\ stage' = stage /\ stage[p] = "writing"
    BY <1>7 DEF Upsert, tableVars
  <2>2. /\ job'[p].from = j.from /\ job'[p].consumed = j.consumed
        /\ job'[p].generation = j.generation /\ job'[p].left = j.left \ {line} /\ job'[p].view = v
    BY <1>0, <1>7 DEF Upsert, Done, JobFields
  <2>3. line.run \in Runs \cup {NoRun} /\ j.view \in Table BY <1>0 DEF JobOK, Lines
  <2>4. Keeps(j.view, v) BY <1>0, <2>3, UpsertedTable
  <2>5. line.run \in Runs => v[keyOf[line.run]] # NoRow BY <1>0, <2>3, UpsertedHas
  <2> HIDE DEF v
  <2>6. ASSUME NEW r \in Runs, NEW e \in Nat,
               [end |-> e, run |-> r] \in j.left \/ j.view[keyOf[r]] # NoRow
        PROVE  [end |-> e, run |-> r] \in job'[p].left \/ job'[p].view[keyOf[r]] # NoRow
    <3>1. CASE j.view[keyOf[r]] # NoRow
      BY <1>0, <2>2, <2>4, <3>1 DEF Keeps
    <3>2. CASE [end |-> e, run |-> r] = line
      <4>1. line.run = r BY <3>2
      <4> QED BY <2>2, <2>5, <4>1
    <3> QED BY <2>2, <2>6, <3>1, <3>2
  <2> QED BY <1>0, <1>1, <2>1, <2>2, <2>6, WorkCovers DEF Reading
<1>8. ASSUME NEW line \in j.left, UpsertAuto(p, line) PROVE JobCovers(p)' /\ refused \subseteq refused'
  <2> DEFINE v == Upserted(rows, line.run, j.opts)
  <2>1. /\ rows' = v /\ refused' = refused /\ stage' = stage /\ stage[p] = "auto"
    BY <1>8 DEF UpsertAuto
  <2>2. /\ job'[p].from = j.from /\ job'[p].consumed = j.consumed
        /\ job'[p].generation = j.generation /\ job'[p].left = j.left \ {line}
    BY <1>0, <1>8 DEF UpsertAuto, Done, JobFields
  <2>3. line.run \in Runs \cup {NoRun} /\ rows \in Table BY <1>0 DEF JobOK, Lines, TableInv
  <2>4. line.run \in Runs => v[keyOf[line.run]] # NoRow BY <1>0, <2>3, UpsertedHas
  <2> HIDE DEF v
  <2>5. ASSUME NEW r \in Runs, NEW e \in Nat, [end |-> e, run |-> r] \in j.left
        PROVE  [end |-> e, run |-> r] \in job'[p].left \/ Stored(r)'
    <3>1. CASE [end |-> e, run |-> r] = line
      <4>1. line.run = r BY <3>1
      <4> QED BY <1>1, <2>1, <2>4, <4>1 DEF Stored
    <3> QED BY <2>2, <2>5, <3>1
  <2> QED BY <1>0, <1>1, <2>1, <2>2, <2>5, WorkCovers DEF Reading
<1>9. ASSUME NEW line \in j.left, Refuse(p, line) PROVE JobCovers(p)' /\ refused \subseteq refused'
  <2>1. /\ rows' = rows /\ refused' = refused \cup {line.run} /\ stage' = stage /\ stage[p] = "auto"
    BY <1>9 DEF Refuse
  <2>2. /\ job'[p].from = j.from /\ job'[p].consumed = j.consumed
        /\ job'[p].generation = j.generation /\ job'[p].left = j.left \ {line}
    BY <1>0, <1>9 DEF Refuse, Done, JobFields
  <2>3. ASSUME NEW r \in Runs, NEW e \in Nat, [end |-> e, run |-> r] \in j.left
        PROVE  [end |-> e, run |-> r] \in job'[p].left \/ Stored(r)'
    <3>1. CASE [end |-> e, run |-> r] = line
      <4>1. line.run = r BY <3>1
      <4> QED BY <2>1, <4>1 DEF Stored
    <3> QED BY <2>2, <2>3, <3>1
  <2> QED BY <1>0, <1>1, <2>1, <2>2, <2>3, WorkCovers DEF Reading
<1>10. CASE Commit(p)
  <2>1. /\ rows' = j.view /\ refused' = refused /\ stage[p] = "writing"
        /\ stage'[p] = IF j.left = {} THEN "saving" ELSE "ready"
    BY <1>0, <1>10 DEF Commit, Go
  <2>2. /\ job'[p].from = j.from /\ job'[p].consumed = j.consumed
        /\ job'[p].generation = j.generation /\ job'[p].left = j.left
    BY <1>0, <1>10 DEF Commit, JobFields
  <2>3. ASSUME NEW r \in Runs, j.view[keyOf[r]] # NoRow PROVE Stored(r)'
    BY <1>1, <2>1, <2>3 DEF Stored
  <2> QED BY <1>0, <1>1, <2>1, <2>2, <2>3, WorkCovers DEF Reading
<1>11. CASE CommitAuto(p)
  <2>1. /\ rows' = rows /\ refused' = refused /\ stage[p] = "auto" /\ job' = job
        /\ stage'[p] = IF j.left = {} THEN "saving" ELSE "ready"
    BY <1>0, <1>11 DEF CommitAuto, Go, tableVars
  <2> QED BY <1>0, <1>1, <2>1, WorkCovers DEF Reading
<1> QED BY <1>3, <1>4, <1>5, <1>6, <1>7, <1>8, <1>9, <1>10, <1>11 DEF Store, Proceed

LEMMA CoverStep ==
  ASSUME IndexInv, TableInv, CoverInv, [Next]_vars
  PROVE  CoverInv'
<1>1. /\ IndexTypeOK /\ IndexTypeOK' /\ StepKeeps /\ keyOf \in [Runs -> Keys]
      /\ rotations \in Nat /\ offset \in Nat
  BY IndexGoesOn, IndexStep, TableStep, IndexAssumption DEF IndexInv, IndexTypeOK, TableInv
<1>2. Keeps(rows, rows') /\ keyOf' = keyOf BY <1>1 DEF StepKeeps
<1>3. ASSUME Grows, refused' = refused, offset' = offset, savedGeneration' = savedGeneration,
             stage' = stage, job' = job
      PROVE  CoverInv'
  <2>1. \A p \in Stores : JobCovers(p)'
    BY <1>1, <1>2, <1>3, OthersCover DEF CoverInv
  <2>2. Covered(offset) => Covered(offset)'
    <3>1. PICK o \in Nat : o = offset BY <1>1
    <3>2. Covered(o) => Covered(o)' BY <1>1, <1>2, <1>3, CoveredStays
    <3>3. Covered(o)' <=> Covered(offset)' BY <1>3, <3>1 DEF Covered
    <3> QED BY <3>1, <3>2, <3>3
  <2> QED BY <1>3, <2>1, <2>2 DEF CoverInv, Grows
<1>4. index' = index /\ rotations' = rotations => Grows
  BY <1>1 DEF Grows, IndexTypeOK
<1>5. CASE UNCHANGED vars
  BY <1>3, <1>4, <1>5 DEF vars, indexVars, storeVars, tableVars
<1>6. CASE IndexNext /\ UNCHANGED storeVars
  <2>1. Grows \/ rotations' = rotations + 1 BY <1>1, <1>6, IndexGrowsOrRestarts
  <2>2. CASE Grows
    BY <1>3, <1>6, <2>2 DEF storeVars, tableVars
  <2>3. CASE rotations' = rotations + 1
    <3>1. \A p \in Stores : JobCovers(p)'
      BY <1>1, <1>6, <2>3 DEF CoverInv, JobCovers, storeVars
    <3>2. savedGeneration' = savedGeneration BY <1>6 DEF storeVars, tableVars
    <3> QED BY <1>1, <2>3, <3>1, <3>2 DEF CoverInv
  <2> QED BY <2>1, <2>2, <2>3
<1>7. ASSUME NEW p \in Stores, Store(p) PROVE CoverInv'
  <2>1. UNCHANGED indexVars /\ Grows BY <1>4, <1>7, StoreLeavesIndex DEF indexVars
  <2>2. JobCovers(p)' /\ refused \subseteq refused' BY <1>1, <1>7, <2>1, OwnCovers
  <2>3. ASSUME NEW q \in Stores, q # p PROVE JobCovers(q)'
    <3>1. stage'[q] = stage[q] /\ job'[q] = job[q]
      BY <1>7, <2>3 DEF TableInv, Store, Proceed, Open, Migrate, MigrateFails, Stamp, GetOffset, ReadIndex,
        Begin, BeginFails, Upsert, UpsertAuto, Refuse, Commit, CommitAuto, SaveOffset, SaveFails, Crash,
        Go, Forget, Done
    <3> QED BY <1>1, <1>2, <2>1, <2>2, <3>1, OthersCover DEF CoverInv
  <2>4. CASE SaveOffset(p)
    <3> DEFINE j == job[p]
               o == j.from + j.consumed
    <3>1. /\ offset' = o /\ savedGeneration' = j.generation /\ rows' = rows /\ refused' = refused
          /\ stage[p] = "saving" /\ j.left = {}
      BY <2>4 DEF SaveOffset, CoverInv, JobCovers, Reading
    <3>2. /\ j.generation \in 0..rotations
          /\ j.generation = rotations => Covered(j.from) /\ o <= Len(index)
               /\ (o # 0 => index[o].part = "rest")
               /\ \A i \in j.from + 1..o : WholeAt(index, i) => Stored(index[i].run)
      BY <3>1 DEF CoverInv, JobCovers, Reading
    <3>3. j.from \in Nat /\ j.consumed \in Nat BY DEF TableInv, JobOK
    <3>4. j.generation = rotations => \A i \in 1..o : i \in 1..j.from \/ i \in j.from + 1..o
      BY <3>3
    <3>5. j.generation = rotations => Covered(o) BY <3>2, <3>4 DEF Covered
    <3>6. Covered(o) => Covered(offset)'
      <4>1. PICK n : n = o OBVIOUS
      <4>2. Covered(n) => Covered(n)' BY <1>2, <2>1, <3>1 DEF Covered, Stored, indexVars
      <4>3. Covered(n)' <=> Covered(offset)' BY <3>1, <4>1 DEF Covered
      <4>4. Covered(o) => Covered(n) BY <4>1
      <4> QED BY <4>2, <4>3, <4>4
    <3>7. \A q \in Stores : JobCovers(q)' BY <2>2, <2>3
    <3>8. rotations' = rotations BY <2>1 DEF indexVars
    <3> QED BY <3>1, <3>2, <3>5, <3>6, <3>7, <3>8 DEF CoverInv
  <2>5. CASE ~SaveOffset(p)
    <3>1. offset' = offset /\ savedGeneration' = savedGeneration
      BY <1>7, <2>5 DEF Store, Proceed, Open, Migrate, MigrateFails, Stamp, GetOffset, ReadIndex,
        Begin, BeginFails, Upsert, UpsertAuto, Refuse, Commit, CommitAuto, SaveFails, Crash, tableVars
    <3>2. Covered(offset) => Covered(offset)'
      <4>1. PICK o \in Nat : o = offset BY <1>1
      <4>2. Covered(o) => Covered(o)' BY <1>1, <1>2, <2>1, <2>2, CoveredStays
      <4>3. Covered(o)' <=> Covered(offset)' BY <3>1, <4>1 DEF Covered
      <4> QED BY <4>1, <4>2, <4>3
    <3>3. \A q \in Stores : JobCovers(q)' BY <2>2, <2>3
    <3>4. rotations' = rotations BY <2>1 DEF indexVars
    <3> QED BY <3>1, <3>2, <3>3, <3>4 DEF CoverInv
  <2> QED BY <2>4, <2>5
<1> QED BY <1>5, <1>6, <1>7 DEF Next

\* The offset in the store never passes a record of the index that is neither in
\* the store nor was refused, whatever crashes, times out and runs at once.
THEOREM OffsetSkipsOnlyStored == Spec => []SkipsOnlyStored
<1>1. Init => CoverInv BY CoverInitially
<1>2. IndexInv /\ TableInv /\ CoverInv /\ [Next]_vars => CoverInv' BY CoverStep
<1>3. IndexInv /\ TableInv /\ CoverInv => SkipsOnlyStored
  <2> SUFFICES ASSUME CoverInv, savedGeneration = rotations \/ Len(index) < size,
                      NEW i \in 1..SourceOffset, WholeAt(index, i)
               PROVE  Stored(index[i].run)
    BY DEF SkipsOnlyStored, Stored
  <2>1. SourceOffset = offset BY DEF SourceOffset
  <2>2. Covered(offset) BY <2>1 DEF CoverInv, SourceOffset
  <2> QED BY <2>1, <2>2 DEF Covered
<1> QED BY <1>1, <1>2, <1>3, Safe, PTL DEF Spec
=============================================================================
