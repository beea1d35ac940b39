-------------------------------- MODULE Ledger --------------------------------
(***************************************************************************)
(* wspy-ledger: the coverage report of a list of workloads, and the edits  *)
(* of that list.  The report reads the list, then the records of the run   *)
(* indexes one by one, and looks for each record whether the files of the  *)
(* run are still there; runs may be deleted meanwhile.  --add and --remove *)
(* are processes of their own (the threaded web server and                 *)
(* wspy-phoronix-import start them), and nothing locks the list.           *)
(***************************************************************************)
EXTENDS Integers, FiniteSets, Sequences

CONSTANTS
  Names,      \* workload names
  Editors,    \* processes that edit the list, one edit each
  Lists,      \* what the list may be at first: sequences of lines, or Absent
  Indexes,    \* what the run indexes may hold: sequences of records
  Profiles,   \* the test profiles, in an order readdir may give
  Absent, NoRun

VARIABLES
  list,       \* the workload list
  first,      \* history: the list before the edits
  editor,     \* what each editor does, has read, and is asked for
  overlap,    \* history: a --remove ran together with another edit
  dirs,       \* the runs whose output files exist
  before,     \* history: the same when the report started
  report

ledgerVars == <<list, first, editor, overlap, dirs, before, report>>

NoReport == [pc |-> "idle"]
Line(n) == [name |-> n, status |-> "none"]

\* The lines there may be, and the records and profiles
AllOf(sequences) == UNION {{s[i] : i \in DOMAIN s} : s \in sequences}
Entries == AllOf(Lists \ {Absent}) \cup {Line(n) : n \in Names}

\* option counts are products of the sizes of menus that have entries
ASSUME LedgerAssumption ==
  /\ Lists \ {Absent} \subseteq Seq(Entries) /\ Absent \notin Seq(Entries)
  /\ Indexes \subseteq Seq(AllOf(Indexes)) /\ Profiles \subseteq Seq(AllOf(Profiles))
  /\ \A r \in AllOf(Indexes) : r.start \in Nat
  /\ \A p \in AllOf(Profiles) : p.combos \in Nat \ {0}

LedgerInit ==
  /\ list = Absent /\ first = Absent
  /\ editor = [e \in Editors |-> [pc |-> "idle"]]
  /\ overlap = FALSE
  /\ dirs = {} /\ before = {}
  /\ report = NoReport

\* The list there is
LedgerStart ==
  /\ report = NoReport
  /\ first' \in Lists /\ list' = first'
  /\ report' = [pc |-> "list"]
  /\ UNCHANGED <<editor, overlap, dirs, before>>

-----------------------------------------------------------------------------
(* Edits of the list.  Bound: the report is of a list that is not edited; it    *)
(* reads the list once.                                                        *)

NamesOf(lines) == {lines[i].name : i \in DOMAIN lines}
Busy(e) == editor[e].pc \notin {"idle", "done"}
Removing(e) == Busy(e) /\ editor[e].op = "remove"

Begin(e, op, n, pc, lines) ==
  /\ report.pc = "list" /\ editor[e].pc = "idle"
  /\ editor' = [editor EXCEPT ![e] = [pc |-> pc, op |-> op, name |-> n, read |-> lines]]
  /\ overlap' = (overlap \/ \E f \in Editors \ {e} : IF op = "remove" THEN Busy(f) ELSE Removing(f))

Goto(e, pc) == editor' = [editor EXCEPT ![e].pc = pc]
Others == UNCHANGED <<first, dirs, before, report>>

\* --add: a name already there is not added; a missing file is created later.
Check(e, n) ==
  /\ Begin(e, "add", n, IF list # Absent /\ n \in NamesOf(list) THEN "done" ELSE "append", <<>>)
  /\ UNCHANGED list /\ Others

AppendName(e) ==
  /\ editor[e].pc = "append"
  /\ list' = IF list = Absent THEN <<Line(editor[e].name)>> ELSE Append(list, Line(editor[e].name))
  /\ Goto(e, "done")
  /\ UNCHANGED overlap /\ Others

\* --remove: the whole list is read, ...
ReadList(e, n) ==
  /\ IF list = Absent THEN Begin(e, "remove", n, "done", <<>>) ELSE Begin(e, "remove", n, "open", list)
  /\ UNCHANGED list /\ Others

\* The loop of remove_from_list(): line after line, those of another name
Without(lines, n) ==
  LET kept[i \in 0 .. Len(lines)] ==
        IF i = 0 THEN <<>>
        ELSE IF lines[i].name = n THEN kept[i - 1] ELSE Append(kept[i - 1], lines[i])
  IN kept[Len(lines)]

\* slip: the kept lines are written as parse_ledger_line() leaves them
ParsedRemnant(e) ==
  LET kept == Without(editor[e].read, editor[e].name) IN [i \in DOMAIN kept |-> Line(kept[i].name)]

Kept(e) == Without(editor[e].read, editor[e].name)

\* ... fopen(path,"w") empties it, ...
Truncate(e) ==
  /\ editor[e].pc = "open"
  /\ list' = <<>>
  /\ Goto(e, "write")
  /\ UNCHANGED overlap /\ Others

\* ... and fclose() writes the kept lines from the start of the file.
Rewrite(e) ==
  /\ editor[e].pc = "write"
  /\ list' = Kept(e) \o SubSeq(list, Len(Kept(e)) + 1, Len(list))
  /\ Goto(e, "done")
  /\ UNCHANGED overlap /\ Others

Edit(e) == (\E n \in Names : Check(e, n) \/ ReadList(e, n)) \/ AppendName(e) \/ Truncate(e) \/ Rewrite(e)

-----------------------------------------------------------------------------
(* The report *)

NewEntry(line) ==
  [name |-> line.name, annotation |-> line.status, matched |-> 0, succeeded |-> 0, stale |-> 0,
   last |-> NoRun, lastStart |-> 0, dep |-> FALSE, combos |-> 0, ambiguous |-> FALSE]

\* A list that is missing and one without entries end the report with status 2.
LoadList ==
  /\ report.pc = "list" /\ \A e \in Editors : editor[e].pc = "idle"
  /\ IF list \in {Absent, <<>>} THEN report' = [pc |-> "failed"] /\ UNCHANGED <<dirs, before>>
     ELSE \E index \in Indexes :
       /\ dirs' \in SUBSET {index[i].run : i \in DOMAIN index} /\ before' = dirs'
       /\ report' = [pc |-> "scan", index |-> index, at |-> 1,
                     entries |-> [i \in DOMAIN list |-> NewEntry(list[i])]]
  /\ UNCHANGED <<list, first, editor, overlap>>

\* command_matches(): the name occurs in a word of the command
Matches(record, entry) == entry.name \in record.command

\* record_paths_exist() is 0: it names files, and none of them is there
Stale(record) == record.paths /\ record.run \notin dirs

Counted(entry, record) ==
  IF ~Matches(record, entry) THEN entry
  ELSE IF Stale(record) THEN [entry EXCEPT !.stale = @ + 1]
  ELSE LET newest == record.start >= entry.lastStart IN
       [entry EXCEPT !.matched = @ + 1,
                     !.succeeded = IF record.succeeded THEN @ + 1 ELSE @,
                     !.last = IF newest THEN record.run ELSE @,
                     !.lastStart = IF newest THEN record.start ELSE @]

\* A record cut short by the run that is writing it is skipped.
ScanRecord ==
  /\ report.pc = "scan" /\ report.at <= Len(report.index)
  /\ LET record == report.index[report.at] IN
     report' = [report EXCEPT
                  !.at = @ + 1,
                  !.entries = IF record.torn THEN @ ELSE [i \in DOMAIN @ |-> Counted(@[i], record)]]
  /\ UNCHANGED <<list, first, editor, overlap, dirs, before>>

\* scan_phoronix_dependencies()
Dependent(entry, tree) ==
  [entry EXCEPT !.dep = entry.annotation = "none" /\
                          \E i \in DOMAIN tree : tree[i].base = entry.name /\ tree[i].unavailable]

\* scan_phoronix_option_combinations(): one profile directory; 0 is unknown
Combining(entry, profile) ==
  IF entry.name # profile.base THEN entry
  ELSE IF entry.combos = 0 THEN [entry EXCEPT !.combos = profile.combos]
  ELSE [entry EXCEPT !.ambiguous = @ \/ entry.combos # profile.combos]

\* ... and all of them
Combined(entry, tree) ==
  LET seen[i \in 0 .. Len(tree)] == IF i = 0 THEN entry ELSE Combining(seen[i - 1], tree[i])
  IN seen[Len(tree)]

ScanProfiles ==
  /\ report.pc = "scan" /\ report.at > Len(report.index)
  /\ \E tree \in Profiles, unavailable, combos \in BOOLEAN :
       LET Marked(entry) == IF unavailable THEN Dependent(entry, tree) ELSE entry
           Scanned(entry) == IF combos THEN Combined(Marked(entry), tree) ELSE Marked(entry)
       IN report' = [pc |-> "printed", index |-> report.index, tree |-> tree, combos |-> combos,
                     entries |-> [i \in DOMAIN report.entries |-> Scanned(report.entries[i])]]
  /\ UNCHANGED <<list, first, editor, overlap, dirs, before>>

\* slip: what cannot run here is unsupported even if it did
DependencyFirst(entry) ==
  IF entry.annotation # "none" THEN entry.annotation
  ELSE IF entry.dep THEN "unsupported"
  ELSE IF entry.succeeded > 0 THEN "done"
  ELSE IF entry.matched = 0 THEN "skipped"
  ELSE "needs-tool-support"

\* entry_status()
Status(entry) ==
  IF entry.annotation # "none" THEN entry.annotation
  ELSE IF entry.succeeded > 0 THEN "done"
  ELSE IF entry.dep THEN "unsupported"
  ELSE IF entry.matched = 0 THEN "skipped"
  ELSE "needs-tool-support"

\* The exit status with --strict
Strict == \E i \in DOMAIN report.entries : Status(report.entries[i]) \in {"skipped", "needs-tool-support"}

\* Somebody deletes the directory of a run.
DeleteRun(r) ==
  /\ report.pc = "scan" /\ r \in dirs
  /\ dirs' = dirs \ {r}
  /\ UNCHANGED <<list, first, editor, overlap, before, report>>

LedgerNext ==
  \/ LedgerStart
  \/ \E e \in Editors : Edit(e)
  \/ LoadList \/ ScanRecord \/ ScanProfiles
  \/ \E r \in dirs : DeleteRun(r)

LedgerSpec == LedgerInit /\ [][LedgerNext]_ledgerVars

-----------------------------------------------------------------------------
Records(entry) == {report.index[i] : i \in {k \in DOMAIN report.index :
                     ~report.index[k].torn /\ Matches(report.index[k], entry)}}
Attempts(entry, present) == {r \in Records(entry) : r.paths => r.run \in present}
Successes(entry, present) == {r \in Attempts(entry, present) : r.succeeded}
OfProfiles(entry) == {report.tree[i] : i \in {k \in DOMAIN report.tree : report.tree[k].base = entry.name}}

(* The report is about runs that are there, whatever the order of records and  *)
(* profiles and however many runs are deleted while it reads: a run that is     *)
(* still there counts, one that was gone when the report started does not, and  *)
(* neither a failed run nor a missing dependency outweighs a success; the run   *)
(* shown as the last is not older than one still there; --strict is silent only *)
(* if every workload is done or known to be unsupported; and a count of option  *)
(* combinations is one all matching profiles have, or marked as ambiguous.      *)
ReportFromEvidence ==
  report.pc = "printed" =>
    \A i \in DOMAIN report.entries :
      LET entry == report.entries[i]
          counts == {p.combos : p \in OfProfiles(entry)}
      IN
      /\ entry.annotation = "none" =>
           /\ Successes(entry, dirs) # {} => Status(entry) = "done"
           /\ Status(entry) = "done" => Successes(entry, before) # {}
           /\ Status(entry) = "skipped" => Attempts(entry, dirs) = {}
           /\ Status(entry) = "needs-tool-support" => Attempts(entry, before) # {}
           /\ ~Strict => Successes(entry, before) # {} \/ \E p \in OfProfiles(entry) : p.unavailable
      /\ \A r \in Attempts(entry, dirs) : r.start <= entry.lastStart
      /\ entry.last # NoRun => \E r \in Attempts(entry, before) : r.run = entry.last
      /\ report.combos => IF entry.ambiguous THEN Cardinality(counts) > 1 ELSE counts \subseteq {entry.combos}

(* An edit leaves the lines of other names as they are, text and annotation,    *)
(* and a name that was added is there, also if several are added at a time;     *)
(* except while a --remove runs together with another edit.                     *)
KeepsOthers ==
  LET removed == {editor[e].name : e \in {f \in Editors : editor[f].pc # "idle" /\ editor[f].op = "remove"}}
      added == {editor[e].name : e \in {f \in Editors : editor[f].pc = "done" /\ editor[f].op = "add"}}
  IN ~overlap /\ (\A e \in Editors : editor[e].pc # "write") =>
       /\ first # Absent => list # Absent /\ \A i \in DOMAIN first :
                              first[i].name \notin removed => \E k \in DOMAIN list : list[k] = first[i]
       /\ added \ removed # {} => list # Absent /\ added \ removed \subseteq NamesOf(list)
=============================================================================
