------------------------------- MODULE RunIndex -------------------------------
(***************************************************************************)
(* The run index: one JSON line per run, appended by every wspy of a host  *)
(* to one shared file under flock() (append_run_index).  Before its line a *)
(* run rewrites its CSV output and its manifest, whose paths another run   *)
(* may have used.  The line goes out through stdio: what does not fit the  *)
(* buffer is written early, so a wspy that dies can leave half a line.     *)
(***************************************************************************)
EXTENDS Naturals, Sequences

CONSTANTS
  Runs,        \* the runs of wspy that record themselves in this index
  Outputs,     \* the paths given to -o and --manifest
  OutputOf,    \* OutputOf[r]: the ones run r was given
  NoRun,
  MaxRotations \* bound: how often the index is truncated

ASSUME IndexAssumption ==
  /\ NoRun \notin Runs
  /\ OutputOf \in [Runs -> Outputs]
  /\ MaxRotations \in Nat

VARIABLES
  wspy,       \* how far each run has come
  index,      \* the file: the pieces written to it
  lock,       \* who holds flock(LOCK_EX)
  csv,        \* the run whose CSV is at each path; NoRun: an empty file, or none
  manifest,   \* the run whose manifest is at each path
  rotations   \* how often the file was truncated

indexVars == <<wspy, index, lock, csv, manifest, rotations>>

Stages == {"new", "running", "finished", "half", "done", "dead"}
Pieces == [run : Runs, part : {"head", "rest"}]
Opening(r) == [run |-> r, part |-> "head"]
Closing(r) == [run |-> r, part |-> "rest"]     \* ends with the newline

IndexTypeOK ==
  /\ wspy \in [Runs -> Stages]
  /\ index \in Seq(Pieces)
  /\ lock \in Runs \cup {NoRun}
  /\ csv \in [Outputs -> Runs \cup {NoRun}] /\ manifest \in [Outputs -> Runs \cup {NoRun}]
  /\ rotations \in 0..MaxRotations

IndexInit ==
  /\ wspy = [r \in Runs |-> "new"]
  /\ index = <<>>
  /\ lock = NoRun
  /\ csv = [o \in Outputs |-> NoRun] /\ manifest = [o \in Outputs |-> NoRun]
  /\ rotations = 0

-----------------------------------------------------------------------------
Step(r, from, to) == wspy[r] = from /\ wspy' = [wspy EXCEPT ![r] = to]

\* -o: fopen(path, "w") while the options are parsed
Start(r) ==
  /\ Step(r, "new", "running")
  /\ csv' = [csv EXCEPT ![OutputOf[r]] = NoRun]
  /\ UNCHANGED <<index, lock, manifest, rotations>>

\* the last rows, fclose(outfile), write_manifest()
Finish(r) ==
  /\ Step(r, "running", "finished")
  /\ csv' = [csv EXCEPT ![OutputOf[r]] = r]
  /\ manifest' = [manifest EXCEPT ![OutputOf[r]] = r]
  /\ UNCHANGED <<index, lock, rotations>>

\* A record longer than the stdio buffer: the buffer is written when it is full.
\* slip: flock() left out
WriteUnlocked(r) ==
  /\ Step(r, "finished", "half")
  /\ lock' = r
  /\ index' = Append(index, Opening(r))
  /\ UNCHANGED <<csv, manifest, rotations>>

WriteHead(r) ==
  /\ Step(r, "finished", "half")
  /\ lock = NoRun /\ lock' = r
  /\ index' = Append(index, Opening(r))
  /\ UNCHANGED <<csv, manifest, rotations>>

WriteRest(r) ==
  /\ Step(r, "half", "done")
  /\ index' = Append(index, Closing(r))
  /\ lock' = NoRun
  /\ UNCHANGED <<csv, manifest, rotations>>

\* A short record: fflush() writes all of it.
WriteWhole(r) ==
  /\ Step(r, "finished", "done")
  /\ lock = NoRun
  /\ index' = index \o <<Opening(r), Closing(r)>>
  /\ UNCHANGED <<lock, csv, manifest, rotations>>

\* A signal kills wspy in the middle of its line; the kernel drops the lock.
\* Killed earlier it leaves no more than a slow wspy does.
Die(r) ==
  /\ Step(r, "half", "dead")
  /\ lock' = NoRun
  /\ UNCHANGED <<index, csv, manifest, rotations>>

\* Somebody empties the file ("rotated/truncated?", store.c).
Rotate ==
  /\ rotations < MaxRotations /\ index # <<>>
  /\ rotations' = rotations + 1
  /\ index' = <<>>
  /\ UNCHANGED <<wspy, lock, csv, manifest>>

Wspy(r) ==
  Start(r) \/ Finish(r) \/ WriteHead(r) \/ WriteRest(r) \/ WriteWhole(r) \/ Die(r)

IndexNext == (\E r \in Runs : Wspy(r)) \/ Rotate

IndexSpec == IndexInit /\ [][IndexNext]_indexVars

-----------------------------------------------------------------------------
\* The newline at i ends a line that json_parse() accepts: one whole record,
\* with nothing before it on the line.
WholeAt(s, i) ==
  /\ i \in 2..Len(s) /\ s[i].part = "rest" /\ s[i-1] = Opening(s[i].run)
  /\ i > 2 => s[i-2].part = "rest"

\* Records of different wspy processes never interleave (run_index.h): the end
\* of a record directly follows its beginning, unless the file was emptied in
\* between.
NeverInterleaved ==
  \A i \in DOMAIN index : index[i].part = "rest" =>
    \/ i > 1 /\ index[i-1] = Opening(index[i].run)
    \/ i = 1 /\ rotations > 0
=============================================================================
