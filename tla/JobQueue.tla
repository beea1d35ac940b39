------------------------------- MODULE JobQueue -------------------------------
(***************************************************************************)
(* The job queue: <jobs-dir>/{pending,running,done,failed}/<job-id>.json.  *)
(* Jobs are written by `wspy-queue add` and by the web server, run by any  *)
(* number of `wspy-queue run` processes, and put back by `wspy-queue       *)
(* requeue`.  The processes share nothing but the file system: a call that *)
(* is one atomic step there (rename, replace, mkdir, an open that          *)
(* truncates) is one action here.                                          *)
(*                                                                         *)
(* The variables execs and requeued are history: only the properties       *)
(* read them.  requeued also bounds the model (MaxRequeues).               *)
(***************************************************************************)
EXTENDS Naturals, FiniteSets

CONSTANTS
  Jobs,          \* job ids; their order is that of the timestamp they begin with
  Runners,       \* the `wspy-queue run` processes
  Requeuers,     \* the `wspy-queue requeue` processes
  RunIds,
  NoId, NoJob,
  RunId,         \* the run_id a job document asks for, NoId if it leaves the choice
  Invalid,       \* the jobs validate_job() refuses (edited by hand)
  Web,           \* does the web server queue jobs too?
  Kills,         \* may a process be killed, or the machine stop, between two steps?
  LiveRequeue,   \* is a running job requeued even while its runner is alive?
  MaxRequeues    \* bound: a job is picked for a requeue at most this often, per requeuer

ASSUME QueueAssumption ==
  /\ Jobs \subseteq Nat
  /\ NoId \notin RunIds /\ NoJob \notin Jobs
  /\ RunId \in [Jobs -> RunIds \cup {NoId}]
  /\ Web \in BOOLEAN /\ Kills \in BOOLEAN /\ LiveRequeue \in BOOLEAN
  /\ MaxRequeues \in Nat

VARIABLES
  file,      \* file[s][j]: what <s>/<j>.json holds
  tmp,       \* tmp[s][j]: what <s>/<j>.json.tmp holds
  rundirs,   \* the run directories of explicit run ids that exist
  pc, todo, cur, verdict,   \* a runner: where it is, its candidates, its job, the result
  qpc, qjob, qdir,          \* a requeuer: where it is, its job and the state it found it in
  queued,    \* the job ids handed out
  execs,     \* how often each job's workload was run
  requeued   \* how often each job was put back

queueVars == <<file, tmp>>
runVars == <<pc, todo, cur, verdict, rundirs, execs>>
requeueVars == <<qpc, qjob, qdir, requeued>>
vars == <<queueVars, runVars, requeueVars, queued>>

States == {"pending", "running", "done", "failed"}
Verdicts == {"done", "failed"}
\* A file is absent, still being written, or a whole document: without a
\* "result", or with one whose "status" is done or failed.
Documents == {"fresh", "done", "failed"}
Contents == {"absent", "partial"} \cup Documents

Exists(s, j) == file[s][j] # "absent"

QueueInit ==
  /\ file = [s \in States |-> [j \in Jobs |-> "absent"]]
  /\ tmp = file
  /\ rundirs = {}
  /\ pc = [r \in Runners |-> "idle"]
  /\ todo = [r \in Runners |-> {}]
  /\ cur = [r \in Runners |-> NoJob]
  /\ verdict = [r \in Runners |-> "failed"]
  /\ qpc = [q \in Requeuers |-> "idle"]
  /\ qjob = [q \in Requeuers |-> NoJob]
  /\ qdir = [q \in Requeuers |-> "failed"]
  /\ queued = {}
  /\ execs = [j \in Jobs |-> 0]
  /\ requeued = [j \in Jobs |-> 0]

-----------------------------------------------------------------------------
(* File operations.  Rename replaces what the destination held. *)

\* slip: the claim copies the file instead of moving it
CopyNotRename(from, to, j) == file' = [file EXCEPT ![to][j] = file[from][j]]

Rename(from, to, j) ==
  file' = [file EXCEPT ![from][j] = "absent", ![to][j] = file[from][j]]

\* slip: the old file is removed before the new one is in place
RemoveThenWrite(s, j, c) ==
  /\ tmp' = [tmp EXCEPT ![s][j] = c]
  /\ file' = [file EXCEPT ![s][j] = "absent"]

\* The two halves of save_job(): write <path>.tmp, then replace <path> by it.
WriteTmp(s, j, c) == tmp' = [tmp EXCEPT ![s][j] = c] /\ UNCHANGED file
ReplaceByTmp(s, j) ==
  /\ file' = [file EXCEPT ![s][j] = tmp[s][j]]
  /\ tmp' = [tmp EXCEPT ![s][j] = "absent"]

-----------------------------------------------------------------------------
(* Queuing a job.  Job ids are new: nobody else touches add's .tmp file,   *)
(* and to the others its save_job() is one step.                           *)

Add(j) ==
  /\ j \notin queued
  /\ queued' = queued \cup {j}
  /\ file' = [file EXCEPT !["pending"][j] = "fresh"]
  /\ UNCHANGED <<tmp, runVars, requeueVars>>

\* The server opens the job file itself and fills it afterwards...
ServerOpen(j) ==
  /\ Web
  /\ j \notin queued
  /\ queued' = queued \cup {j}
  /\ file' = [file EXCEPT !["pending"][j] = "partial"]
  /\ UNCHANGED <<tmp, runVars, requeueVars>>

\* ...wherever it has been moved to meanwhile.
ServerWrite(s, j) ==
  /\ file[s][j] = "partial"
  /\ file' = [file EXCEPT ![s][j] = "fresh"]
  /\ UNCHANGED <<tmp, queued, runVars, requeueVars>>

-----------------------------------------------------------------------------
(* wspy-queue run *)

Goto(r, where) == pc' = [pc EXCEPT ![r] = where]

\* An exception nobody catches, or a signal: the process ends where it stands.
Die(r) ==
  /\ Goto(r, "idle")
  /\ todo' = [todo EXCEPT ![r] = {}]
  /\ cur' = [cur EXCEPT ![r] = NoJob]
  /\ UNCHANGED verdict

Pending == {j \in Jobs : Exists("pending", j)}

\* slip: an off-by-one in candidates[:limit]
SkipOldest(n) == {j \in Pending : Cardinality({k \in Pending : k < j}) \in 1 .. n}

\* no option, --limit n (the oldest first), and --job j
Oldest(n) == {j \in Pending : Cardinality({k \in Pending : k < j}) < n}
Candidates == {Pending} \cup {Oldest(n) : n \in 1 .. Cardinality(Pending)} \cup {{j} : j \in Pending}

\* The candidates are listed once; the claims come later.
List(r) ==
  /\ pc[r] = "idle"
  /\ \E c \in Candidates : todo' = [todo EXCEPT ![r] = c]
  /\ Goto(r, "claim")
  /\ UNCHANGED <<queueVars, cur, verdict, rundirs, execs, requeueVars, queued>>

IsNext(r, j) == j \in todo[r] /\ \A k \in todo[r] : j <= k

\* os.rename(pending, running): one of several runners gets it
Claim(r) ==
  /\ pc[r] = "claim"
  /\ \E j \in todo[r] :
       /\ IsNext(r, j)
       /\ todo' = [todo EXCEPT ![r] = @ \ {j}]
       /\ IF Exists("pending", j)
          THEN /\ Rename("pending", "running", j)
               /\ cur' = [cur EXCEPT ![r] = j]
               /\ Goto(r, "load")
          ELSE UNCHANGED <<file, cur, pc>>
  /\ UNCHANGED <<tmp, verdict, rundirs, execs, requeueVars, queued>>

RunDone(r) ==
  /\ pc[r] = "claim"
  /\ todo[r] = {}
  /\ Goto(r, "idle")
  /\ UNCHANGED <<queueVars, todo, cur, verdict, rundirs, execs, requeueVars, queued>>

\* slip: os.makedirs(rundir, exist_ok=True), and no test before
DirTestForgotten(j) == FALSE

RunDirTaken(j) == RunId[j] \in rundirs

\* load_job(), validate_job() and the test for the run directory
Load(r) ==
  /\ pc[r] = "load"
  /\ LET j == cur[r] IN
     \/ /\ file["running"][j] \notin Documents
        /\ Die(r)
     \/ /\ file["running"][j] \in Documents
        /\ j \in Invalid \/ RunDirTaken(j)
        /\ Goto(r, "save")
        /\ verdict' = [verdict EXCEPT ![r] = "failed"]
        /\ UNCHANGED <<todo, cur>>
     \/ /\ file["running"][j] \in Documents
        /\ j \notin Invalid /\ ~RunDirTaken(j)
        /\ Goto(r, "mkdir")
        /\ UNCHANGED <<todo, cur, verdict>>
  /\ UNCHANGED <<queueVars, rundirs, execs, requeueVars, queued>>

\* os.makedirs() raises if the directory has appeared since the test
MakeRunDir(r) ==
  /\ pc[r] = "mkdir"
  /\ IF RunDirTaken(cur[r])
     THEN Die(r) /\ UNCHANGED <<rundirs, execs>>
     ELSE /\ Goto(r, "execute")
          /\ rundirs' = rundirs \cup ({RunId[cur[r]]} \ {NoId})
          /\ execs' = [execs EXCEPT ![cur[r]] = @ + 1]
          /\ UNCHANGED <<todo, cur, verdict>>
  /\ UNCHANGED <<queueVars, requeueVars, queued>>

\* execute_profile_run() or execute_custom_run(), which ends with state.status
Execute(r) ==
  /\ pc[r] = "execute"
  /\ Goto(r, "save")
  /\ \E v \in Verdicts : verdict' = [verdict EXCEPT ![r] = v]
  /\ UNCHANGED <<queueVars, todo, cur, rundirs, execs, requeueVars, queued>>

SaveResult(r) ==
  /\ pc[r] = "save"
  /\ WriteTmp("running", cur[r], verdict[r])
  /\ Goto(r, "replace")
  /\ UNCHANGED <<todo, cur, verdict, rundirs, execs, requeueVars, queued>>

ReplaceResult(r) ==
  /\ pc[r] = "replace"
  /\ IF tmp["running"][cur[r]] = "absent"
     THEN Die(r) /\ UNCHANGED queueVars
     ELSE /\ ReplaceByTmp("running", cur[r])
          /\ Goto(r, "move")
          /\ UNCHANGED <<todo, cur, verdict>>
  /\ UNCHANGED <<rundirs, execs, requeueVars, queued>>

\* slip: a job that fails goes back to pending/ by itself
RetryFailed(r) ==
  /\ pc[r] = "move"
  /\ IF Exists("running", cur[r])
     THEN /\ Rename("running", IF verdict[r] = "failed" THEN "pending" ELSE "done", cur[r])
          /\ Goto(r, "claim")
          /\ cur' = [cur EXCEPT ![r] = NoJob]
          /\ UNCHANGED <<todo, verdict>>
     ELSE Die(r) /\ UNCHANGED file
  /\ UNCHANGED <<tmp, rundirs, execs, requeueVars, queued>>

\* os.rename(running, done or failed), and on to the next candidate
MoveResult(r) ==
  /\ pc[r] = "move"
  /\ IF Exists("running", cur[r])
     THEN /\ Rename("running", verdict[r], cur[r])
          /\ Goto(r, "claim")
          /\ cur' = [cur EXCEPT ![r] = NoJob]
          /\ UNCHANGED <<todo, verdict>>
     ELSE Die(r) /\ UNCHANGED file
  /\ UNCHANGED <<tmp, rundirs, execs, requeueVars, queued>>

KillRunner(r) ==
  /\ Kills
  /\ pc[r] # "idle"
  /\ Die(r)
  /\ UNCHANGED <<queueVars, rundirs, execs, requeueVars, queued>>

RunStep(r) ==
  \/ List(r) \/ Claim(r) \/ RunDone(r) \/ Load(r) \/ MakeRunDir(r) \/ Execute(r)
  \/ SaveResult(r) \/ ReplaceResult(r) \/ MoveResult(r)

-----------------------------------------------------------------------------
(* wspy-queue requeue *)

QGoto(q, where) == qpc' = [qpc EXCEPT ![q] = where]
QDie(q) == QGoto(q, "idle") /\ qjob' = [qjob EXCEPT ![q] = NoJob] /\ UNCHANGED qdir

\* find_job_file() looks into the directories in the order of JOB_STATES
FoundIn(s, j) ==
  /\ Exists(s, j)
  /\ s \in {"running", "done", "failed"} => ~Exists("pending", j)
  /\ s \in {"done", "failed"} => ~Exists("running", j)
  /\ s = "failed" => ~Exists("done", j)

Held(j) == \E r \in Runners : cur[r] = j

\* A pending job is left alone; a done one needs --force, which is given.
Find(q) ==
  /\ qpc[q] = "idle"
  /\ \E j \in Jobs, s \in States \ {"pending"} :
       /\ FoundIn(s, j)
       /\ requeued[j] < MaxRequeues
       /\ s = "running" /\ ~LiveRequeue => ~Held(j)
       /\ qjob' = [qjob EXCEPT ![q] = j]
       /\ qdir' = [qdir EXCEPT ![q] = s]
  /\ QGoto(q, "load")
  /\ UNCHANGED <<queueVars, runVars, requeued, queued>>

QLoad(q) ==
  /\ qpc[q] = "load"
  /\ IF file[qdir[q]][qjob[q]] \in Documents
     THEN QGoto(q, "save") /\ UNCHANGED <<qjob, qdir>>
     ELSE QDie(q)
  /\ UNCHANGED <<queueVars, runVars, requeued, queued>>

\* slip: requeue keeps the old result
ResultKept(q) ==
  /\ qpc[q] = "save"
  /\ WriteTmp(qdir[q], qjob[q], file[qdir[q]][qjob[q]])
  /\ QGoto(q, "replace")
  /\ UNCHANGED <<qjob, qdir, requeued, runVars, queued>>

\* job.pop("result"); save_job(path, job)
QSave(q) ==
  /\ qpc[q] = "save"
  /\ WriteTmp(qdir[q], qjob[q], "fresh")
  /\ QGoto(q, "replace")
  /\ UNCHANGED <<qjob, qdir, requeued, runVars, queued>>

QReplace(q) ==
  /\ qpc[q] = "replace"
  /\ IF tmp[qdir[q]][qjob[q]] = "absent"
     THEN QDie(q) /\ UNCHANGED queueVars
     ELSE ReplaceByTmp(qdir[q], qjob[q]) /\ QGoto(q, "move") /\ UNCHANGED <<qjob, qdir>>
  /\ UNCHANGED <<requeued, runVars, queued>>

QMove(q) ==
  /\ qpc[q] = "move"
  /\ IF Exists(qdir[q], qjob[q])
     THEN /\ Rename(qdir[q], "pending", qjob[q])
          /\ requeued' = [requeued EXCEPT ![qjob[q]] = @ + 1]
     ELSE UNCHANGED <<file, requeued>>
  /\ QDie(q)
  /\ UNCHANGED <<tmp, runVars, queued>>

KillRequeuer(q) ==
  /\ Kills
  /\ qpc[q] # "idle"
  /\ QDie(q)
  /\ UNCHANGED <<queueVars, runVars, requeued, queued>>

RequeueStep(q) == Find(q) \/ QLoad(q) \/ QSave(q) \/ QReplace(q) \/ QMove(q)

-----------------------------------------------------------------------------
QueueNext ==
  \/ \E j \in Jobs : Add(j) \/ ServerOpen(j)
  \/ \E s \in States, j \in Jobs : ServerWrite(s, j)
  \/ \E r \in Runners : RunStep(r) \/ KillRunner(r)
  \/ \E q \in Requeuers : RequeueStep(q) \/ KillRequeuer(q)

QueueSpec == QueueInit /\ [][QueueNext]_vars

\* cron starts `wspy-queue run` again and again, and a started process goes on.
CronSpec == QueueSpec /\ \A r \in Runners : WF_vars(RunStep(r))
-----------------------------------------------------------------------------
(* Properties *)

\* The types of the variables.
QueueTypeOK ==
  /\ file \in [States -> [Jobs -> Contents]]
  /\ tmp \in [States -> [Jobs -> {"absent"} \cup Documents]]
  /\ rundirs \subseteq RunIds
  /\ pc \in [Runners -> {"idle", "claim", "load", "mkdir", "execute", "save", "replace", "move"}]
  /\ todo \in [Runners -> SUBSET Jobs]
  /\ cur \in [Runners -> Jobs \cup {NoJob}]
  /\ \A r \in Runners : cur[r] = NoJob <=> pc[r] \in {"idle", "claim"}
  /\ verdict \in [Runners -> Verdicts]
  /\ qpc \in [Requeuers -> {"idle", "load", "save", "replace", "move"}]
  /\ qjob \in [Requeuers -> Jobs \cup {NoJob}]
  /\ \A q \in Requeuers : qjob[q] = NoJob <=> qpc[q] = "idle"
  /\ qdir \in [Requeuers -> States]
  /\ queued \subseteq Jobs
  /\ execs \in [Jobs -> Nat] /\ requeued \in [Jobs -> Nat]

\* A job is in one state: no two directories hold a file of it, whoever claims,
\* finishes, dies and requeues (joblib.find_job_file(): "a job's state is which
\* directory it's currently in").
OneState == \A j \in Jobs, s, t \in States : Exists(s, j) /\ Exists(t, j) => s = t

\* Two runners never work on the same job.
OneHolder == \A r1, r2 \in Runners : cur[r1] = cur[r2] /\ cur[r1] # NoJob => r1 = r2

\* A job once queued is never without a file: no sequence of renames and
\* replacements by several processes drops it.
NeverLost == \A j \in queued : \E s \in States : Exists(s, j)

\* The result of an earlier processing never comes along to pending/, and the
\* directory a job ends in never contradicts the result in the file.
ResultAgrees ==
  \A j \in Jobs : /\ file["pending"][j] \notin Verdicts
                  /\ file["done"][j] # "failed"
                  /\ file["failed"][j] # "done"

\* No silent retry: a workload runs at most once, and once more for each time a
\* human put the job back, however many runners race for it or die.
NoSilentRetry == \A j \in Jobs : execs[j] <= 1 + requeued[j]

\* A run directory is written by one execution only: neither two jobs with the
\* same explicit run_id nor a requeued one run into the same directory.
OneRunPerDir ==
  \A j, k \in Jobs :
    /\ RunId[j] = RunId[k] /\ RunId[j] # NoId
    /\ execs[j] > 0 /\ execs[k] > 0
    => j = k /\ execs[j] = 1

\* A queued job ends in done/ or failed/, if nobody is killed.
Drained == \A j \in Jobs : j \in queued ~> Exists("done", j) \/ Exists("failed", j)
=============================================================================
