------------------------------- MODULE RunStore -------------------------------
(***************************************************************************)
(* wspy-store: brings the lines of a run index into a SQLite database, from *)
(* the byte it stopped at last time.  Several wspy-store processes may work *)
(* on the same index and database (cron jobs, the web server after each    *)
(* run), each may be killed, and a write transaction that lasts longer than *)
(* the busy timeout lets the others go on without one.                     *)
(*                                                                         *)
(* A byte of the index is a piece of RunIndex.  The variables generation,  *)
(* savedGeneration and refused are history.                                *)
(***************************************************************************)
EXTENDS RunIndex

CONSTANTS
  Stores,      \* the wspy-store processes
  NoStore,
  Keys,        \* the values of (hostname, run_id)
  NoRow,
  KeyChoices,  \* which run may have which; runs in containers can share one
  OptionSets,  \* the combinations of --no-... options in use
  Versions,    \* the PRAGMA user_version a database can come with
  BATCH,       \* records per transaction
  MaxIngests   \* bound: how often wspy-store is run

NotExtracted == "not extracted"
Current == 4    \* STORE_SCHEMA_VERSION

ASSUME StoreAssumption ==
  /\ NoStore \notin Stores
  /\ NotExtracted \notin Runs \cup {NoRun}
  /\ KeyChoices \subseteq [Runs -> Keys]
  /\ OptionSets \subseteq [enrich : BOOLEAN, metrics : BOOLEAN, features : BOOLEAN]
  /\ Versions \subseteq Nat
  /\ BATCH \in Nat \ {0} /\ MaxIngests \in Nat

VARIABLES
  keyOf,                 \* keyOf[r]: the natural key of run r; it never changes
  version, migrated,     \* PRAGMA user_version, and the migrations the tables have had
  rows,                  \* the committed tables, by natural key
  writer,                \* who holds the write lock of the database in a transaction
  offset, size,          \* the ingest_sources row of the index
  stage,                 \* where each process is
  job,                   \* its local variables
  ingests,               \* how often wspy-store was run
  savedGeneration,       \* the rotations of the file the saved offset belongs to
  refused                \* records an INSERT of which failed, the database being busy

schemaVars == <<keyOf, version, migrated>>
tableVars == <<rows, writer, offset, size, savedGeneration, refused>>
storeVars == <<schemaVars, tableVars, stage, job, ingests>>
vars == <<indexVars, storeVars>>

Row == [run : Runs,                                   \* start_time and command
        host : Runs \cup {NoRun},                     \* the columns from the manifest
        metrics : Runs \cup {NoRun},                  \* metric_values: whose CSV they are from
        features : Runs \cup {NoRun, NotExtracted}]   \* run_features: the metrics behind them
ASSUME NoRowAssumption == NoRow \notin Row

Table == [Keys -> Row \cup {NoRow}]
Lines == [end : Nat \ {0}, run : Runs \cup {NoRun}]    \* NoRun: json_parse() refuses the line
NewJob(opts) ==
  [opts |-> opts, todo |-> 0, from |-> 0, size |-> 0, consumed |-> 0, generation |-> 0,
   left |-> {}, n |-> 0, view |-> [k \in Keys |-> NoRow]]
AllOptions == [enrich |-> TRUE, metrics |-> TRUE, features |-> TRUE]

StoreInit ==
  /\ keyOf \in KeyChoices
  /\ version \in Versions
  /\ migrated = IF version = 0 THEN {} ELSE 0..version - 1
  /\ rows = [k \in Keys |-> NoRow]
  /\ writer = NoStore
  /\ offset = 0 /\ size = 0
  /\ stage = [p \in Stores |-> "idle"]
  /\ job = [p \in Stores |-> NewJob(AllOptions)]
  /\ ingests = 0
  /\ savedGeneration = 0
  /\ refused = {}

Init == IndexInit /\ StoreInit

-----------------------------------------------------------------------------
Go(p, to) == stage' = [stage EXCEPT ![p] = to]
Free == writer = NoStore
Forget(p) == job' = [job EXCEPT ![p] = NewJob(@.opts)]    \* the local variables go

(* open_store(), ensure_schema(): each statement is a transaction of its own *)

\* Reads user_version; a database newer than this build is refused.
Open(p, opts) ==
  /\ stage[p] = "idle"
  /\ ingests < MaxIngests /\ ingests' = ingests + 1
  /\ Go(p, IF version > Current THEN "idle" ELSE IF version = Current THEN "open" ELSE "migrating")
  /\ job' = [job EXCEPT ![p] = [NewJob(opts) EXCEPT !.todo = version]]
  /\ UNCHANGED <<indexVars, schemaVars, tableVars>>

\* Migrations 1 and 2 add columns, which fails when they are there; the DDL of a
\* new database and migration 3 create tables only IF NOT EXISTS.
Migrate(p) ==
  LET todo == job[p].todo
      fails == todo \in {1, 2} /\ todo \in migrated
  IN
  /\ stage[p] = "migrating" /\ todo < Current /\ Free
  /\ migrated' = IF fails THEN migrated ELSE IF todo = 0 THEN 0..Current - 1 ELSE migrated \cup {todo}
  /\ Go(p, IF fails THEN "idle" ELSE "migrating")
  /\ IF fails THEN Forget(p)
     ELSE job' = [job EXCEPT ![p].todo = IF todo = 0 THEN Current ELSE todo + 1]
  /\ UNCHANGED <<indexVars, keyOf, version, tableVars, ingests>>

\* A statement that waits for a transaction of another process for too long fails.
MigrateFails(p) ==
  /\ stage[p] = "migrating" /\ ~Free
  /\ Go(p, "idle") /\ Forget(p)
  /\ UNCHANGED <<indexVars, schemaVars, tableVars, ingests>>

\* slip: the version is set before the tables are migrated
StampFirst(p) ==
  /\ stage[p] = "migrating" /\ Free
  /\ version' = Current
  /\ Go(p, IF job[p].todo = Current THEN "open" ELSE "migrating")
  /\ UNCHANGED <<indexVars, keyOf, migrated, tableVars, job, ingests>>

Stamp(p) ==
  /\ stage[p] = "migrating" /\ job[p].todo = Current /\ Free
  /\ version' = Current
  /\ Go(p, "open")
  /\ UNCHANGED <<indexVars, keyOf, migrated, tableVars, job, ingests>>

-----------------------------------------------------------------------------
(* ingest_run_index_file() up to BEGIN *)

SourceOffset == IF Len(index) < size THEN 0 ELSE offset

GetOffset(p) ==
  /\ stage[p] = "open"
  /\ job' = [job EXCEPT ![p].from = SourceOffset,
                        ![p].generation = IF SourceOffset = 0 THEN rotations ELSE savedGeneration]
  /\ Go(p, "located")
  /\ UNCHANGED <<indexVars, schemaVars, tableVars, ingests>>

\* split_complete_lines(): the last newline of the file is at c.
LastNewline(s, c) ==
  /\ c # 0 => s[c].part = "rest"
  /\ \A i \in DOMAIN s : s[i].part = "rest" => i <= c

\* The complete lines
Complete(s) ==
  {[end |-> i, run |-> IF WholeAt(s, i) THEN s[i].run ELSE NoRun] :
     i \in {j \in DOMAIN s : s[j].part = "rest"}}

\* read_whole_file_from() fails when the file is shorter than the offset.
ReadIndex(p) ==
  LET s == SubSeq(index, job[p].from + 1, Len(index)) IN
  /\ stage[p] = "located"
  /\ IF job[p].from > Len(index)
     THEN Go(p, "idle") /\ Forget(p)
     ELSE \E c \in 0..Len(s) :
            /\ LastNewline(s, c)
            /\ Go(p, "ready")
            /\ job' = [job EXCEPT ![p].size = Len(index), ![p].consumed = c,
                                  ![p].left = Complete(s), ![p].n = 0,
                                  ![p].generation = IF job[p].from = 0 THEN rotations ELSE @]
  /\ UNCHANGED <<indexVars, schemaVars, tableVars, ingests>>

Begin(p) ==
  /\ stage[p] = "ready" /\ Free
  /\ writer' = p
  /\ job' = [job EXCEPT ![p].view = rows, ![p].n = 0]
  /\ Go(p, "writing")
  /\ UNCHANGED <<indexVars, schemaVars, rows, offset, size, savedGeneration, refused, ingests>>

\* After the busy timeout BEGIN fails, which is not noticed.
BeginFails(p) ==
  /\ stage[p] = "ready" /\ ~Free
  /\ job' = [job EXCEPT ![p].n = 0]
  /\ Go(p, "auto")
  /\ UNCHANGED <<indexVars, schemaVars, tableVars, ingests>>

-----------------------------------------------------------------------------
(* upsert_run() *)

NewRow(r) == [run |-> r, host |-> NoRun, metrics |-> NoRun, features |-> NotExtracted]

\* slip: whatever manifest is at the path
AnyManifest(r, old) == IF manifest[OutputOf[r]] # NoRun THEN manifest[OutputOf[r]] ELSE old

\* enrich_from_manifest(): the manifest must have the command and the start time
\* of the record
EnrichedHost(r, old) == IF manifest[OutputOf[r]] = r THEN r ELSE old

\* slip: the old values are deleted before the file is looked at
DeletedFirst(r, old) == csv[OutputOf[r]]

\* ingest_csv_metrics(): a CSV that is not empty replaces the values
IngestedMetrics(r, old) == IF csv[OutputOf[r]] # NoRun THEN csv[OutputOf[r]] ELSE old

Collides(table, r) == table[keyOf[r]] # NoRow /\ table[keyOf[r]].run # r

Upserted(table, r, opts) ==
  LET old == IF table[keyOf[r]] = NoRow THEN NewRow(r) ELSE table[keyOf[r]]
      host == IF opts.enrich THEN EnrichedHost(r, old.host) ELSE old.host
      metrics == IF opts.metrics THEN IngestedMetrics(r, old.metrics) ELSE old.metrics
      features == IF opts.features THEN metrics ELSE old.features
  IN IF r = NoRun THEN table
     ELSE IF Collides(table, r) THEN table
     ELSE [table EXCEPT ![keyOf[r]] =
             [run |-> old.run, host |-> host, metrics |-> metrics, features |-> features]]

-----------------------------------------------------------------------------
(* The loop over the lines, and what follows it. *)

BatchFull(p) == job[p].left = {} \/ job[p].n = BATCH
NextLine(p, line) == ~BatchFull(p) /\ \A l \in job[p].left : line.end <= l.end
Done(p, line, view) == [job EXCEPT ![p].left = @ \ {line}, ![p].n = @ + 1, ![p].view = view]

Upsert(p, line) ==
  /\ stage[p] = "writing" /\ NextLine(p, line)
  /\ job' = Done(p, line, Upserted(job[p].view, line.run, job[p].opts))
  /\ UNCHANGED <<indexVars, schemaVars, tableVars, stage, ingests>>

\* Without a transaction every statement commits; wspy-store may be alone again.
UpsertAuto(p, line) ==
  /\ stage[p] = "auto" /\ NextLine(p, line) /\ Free
  /\ rows' = Upserted(rows, line.run, job[p].opts)
  /\ job' = Done(p, line, job[p].view)
  /\ UNCHANGED <<indexVars, schemaVars, writer, offset, size, savedGeneration, refused, stage, ingests>>

\* The INSERT waits as long again and fails: the record is counted as malformed.
Refuse(p, line) ==
  /\ stage[p] = "auto" /\ NextLine(p, line) /\ ~Free
  /\ refused' = refused \cup {line.run}
  /\ job' = Done(p, line, job[p].view)
  /\ UNCHANGED <<indexVars, schemaVars, rows, writer, offset, size, savedGeneration, stage, ingests>>

\* COMMIT, between two batches and after the last line
Commit(p) ==
  /\ stage[p] = "writing" /\ BatchFull(p)
  /\ rows' = job[p].view
  /\ writer' = NoStore
  /\ Go(p, IF job[p].left = {} THEN "saving" ELSE "ready")
  /\ job' = [job EXCEPT ![p].view = [k \in Keys |-> NoRow]]
  /\ UNCHANGED <<indexVars, schemaVars, offset, size, savedGeneration, refused, ingests>>

CommitAuto(p) ==
  /\ stage[p] = "auto" /\ BatchFull(p)
  /\ Go(p, IF job[p].left = {} THEN "saving" ELSE "ready")
  /\ UNCHANGED <<indexVars, schemaVars, tableVars, job, ingests>>

\* slip: the offset is where the file ended, not where its last line ended
SaveSize(p) ==
  /\ stage[p] = "saving" /\ Free
  /\ offset' = job[p].size /\ size' = job[p].size
  /\ savedGeneration' = job[p].generation
  /\ Go(p, "idle") /\ Forget(p)
  /\ UNCHANGED <<indexVars, schemaVars, rows, writer, refused, ingests>>

SaveOffset(p) ==
  /\ stage[p] = "saving" /\ Free
  /\ offset' = job[p].from + job[p].consumed /\ size' = job[p].size
  /\ savedGeneration' = job[p].generation
  /\ Go(p, "idle") /\ Forget(p)
  /\ UNCHANGED <<indexVars, schemaVars, rows, writer, refused, ingests>>

\* ... or the database is busy for too long
SaveFails(p) ==
  /\ stage[p] = "saving" /\ ~Free
  /\ Go(p, "idle") /\ Forget(p)
  /\ UNCHANGED <<indexVars, schemaVars, tableVars, ingests>>

\* A signal; SQLite rolls back what was not committed.
Crash(p) ==
  /\ stage[p] # "idle"
  /\ Go(p, "idle") /\ Forget(p)
  /\ writer' = IF writer = p THEN NoStore ELSE writer
  /\ UNCHANGED <<indexVars, schemaVars, rows, offset, size, savedGeneration, refused, ingests>>

-----------------------------------------------------------------------------
Proceed(p) ==
  \/ Migrate(p) \/ MigrateFails(p) \/ Stamp(p)
  \/ GetOffset(p) \/ ReadIndex(p) \/ Begin(p) \/ BeginFails(p)
  \/ (\E line \in job[p].left : Upsert(p, line) \/ UpsertAuto(p, line) \/ Refuse(p, line))
  \/ Commit(p) \/ CommitAuto(p)
  \/ SaveOffset(p) \/ SaveFails(p)

Store(p) == (\E o \in OptionSets : Open(p, o)) \/ Proceed(p) \/ Crash(p)

Next ==
  \/ IndexNext /\ UNCHANGED storeVars
  \/ \E p \in Stores : Store(p)

Spec == Init /\ [][Next]_vars

-----------------------------------------------------------------------------
StoreTypeOK ==
  /\ IndexTypeOK
  /\ rows \in Table /\ offset \in Nat
  /\ writer \in Stores \cup {NoStore}
  /\ stage \in [Stores -> {"idle", "migrating", "open", "located", "ready", "writing", "auto",
                           "saving"}]
  /\ \A p \in Stores :
       /\ job[p].left \subseteq Lines /\ job[p].n \in 0..BATCH /\ job[p].view \in Table
       /\ writer = p <=> stage[p] = "writing"

\* The saved offset never passes a record that was not stored ("tracking the
\* last byte offset successfully ingested", doc/ARTIFACT_CONTRACT.md): whatever
\* wspy-stores crash, time out and overtake each other between reading the offset,
\* reading the file, COMMIT and saving the offset.  Not stored are a record whose
\* key another run has, and one refused because the database was busy; and a file
\* emptied and grown past its old size before the next ingest is not noticed.
SkipsOnlyStored ==
  (savedGeneration = rotations \/ Len(index) < size) =>
    \A i \in 1..SourceOffset :
      WholeAt(index, i) => rows[keyOf[index[i].run]] # NoRow \/ index[i].run \in refused

\* The host columns of a run are never those of another run that used the same
\* paths, whatever was re-read when.
HostIsOwn ==
  \A k \in Keys : rows[k] # NoRow => rows[k].host \in {rows[k].run, NoRun}

\* user_version never promises a table or a column that is not there, for any
\* interleaving and crash of several wspy-stores that migrate the same database.
VersionIsTrue == version <= Current => \A m \in 0..version - 1 : m \in migrated

\* No ingest, however late or repeated, makes the store forget: a row stays the
\* row of its run, and what was once read from a manifest or a CSV stays read,
\* even when the files have gone or belong to another run by now.
NeverForgets ==
  [][\A k \in Keys : rows[k] # NoRow =>
       /\ rows'[k] # NoRow /\ rows'[k].run = rows[k].run
       /\ rows[k].host # NoRun => rows'[k].host # NoRun
       /\ rows[k].metrics # NoRun => rows'[k].metrics # NoRun
       /\ rows[k].features # NotExtracted => rows'[k].features # NotExtracted]_vars

=============================================================================
