------------------------------- MODULE RunStream -------------------------------
(***************************************************************************)
(* The web server: requests that start a run or an analysis, the thread    *)
(* that each of them starts, and the threads that stream its lines to a    *)
(* browser as events (RunState, _start_run(), execute_run(),               *)
(* execute_multi_vision_analyze(), _stream_events()).                      *)
(*                                                                         *)
(* A RunState is named by the request that made it.  The server can be     *)
(* killed; all threads and the registries are then gone, the files stay.   *)
(***************************************************************************)
EXTENDS Naturals, Sequences, SequencesExt

CONSTANTS
  Keys,          \* suite, benchmark and run_id: the name of a run
  Requests,      \* POST requests
  Streams,       \* connections of browsers to events URLs
  NoState,       \* None, for the RunState that a registry does not have
  Images,        \* plots selected for one analysis
  MaxOutput,     \* bound: lines that the programs of one request print
  MaxRestarts    \* bound: kills of the server

ASSUME StreamAssumption ==
  /\ NoState \notin Requests
  /\ Images \in Nat \ {0} /\ MaxOutput \in Nat /\ MaxRestarts \in Nat

Kinds == {"run", "analysis"}    \* RUNS and VISION_RUNS

VARIABLES
  (* the file system *)
  dirs,       \* run directories
  log,        \* each run's launch log
  (* the server *)
  registry,   \* of each kind: the RunState of a key
  handler,    \* where the thread of a request is
  kind, key,  \* what it asks for
  lines, status,    \* its RunState
  (* the thread it starts *)
  worker,     \* where it is
  hand,       \* lines it is about to emit
  stage,      \* the program it is at
  ok,         \* overall_ok
  printed,    \* lines printed so far by its programs
  (* the thread of a connection *)
  page,       \* where it is
  asks,       \* whose page the browser shows
  state, sent, pending, seen,   \* its locals; seen is its copy of the status
  got, end,   \* the log lines and the status that the browser was sent
  restarts

files      == <<dirs, log>>
serverVars == <<registry, handler, kind, key, lines, status>>
workerVars == <<worker, hand, stage, ok, printed>>
streamVars == <<page, asks, state, sent, pending, seen, got, end>>
everyVars  == <<files, serverVars, workerVars, streamVars, restarts>>

Init ==
  /\ dirs \in SUBSET Keys /\ log = [r \in Requests |-> <<>>]
  /\ registry = [n \in Kinds |-> [k \in Keys |-> NoState]]
  /\ handler = [r \in Requests |-> "new"]
  /\ kind \in [Requests -> Kinds] /\ key \in [Requests -> Keys]
  /\ lines = [r \in Requests |-> <<>>] /\ status = [r \in Requests |-> "running"]
  /\ worker = [r \in Requests |-> "none"] /\ hand = [r \in Requests |-> <<>>]
  /\ stage = [r \in Requests |-> 0] /\ ok = [r \in Requests |-> TRUE]
  /\ printed = [r \in Requests |-> 0]
  /\ page = [t \in Streams |-> "closed"] /\ asks = [t \in Streams |-> NoState]
  /\ state = asks /\ sent = [t \in Streams |-> 0] /\ pending = [t \in Streams |-> <<>>]
  /\ seen = [t \in Streams |-> "running"]
  /\ got = [t \in Streams |-> <<>>] /\ end = [t \in Streams |-> "running"]
  /\ restarts = 0

-----------------------------------------------------------------------------
(* A request (ThreadingHTTPServer has a thread for each). *)

At(r, from, to) == handler[r] = from /\ handler' = [handler EXCEPT ![r] = to]

\* A new run must not have a directory yet, an analysis needs one.
CheckDir(r) ==
  /\ At(r, "new", IF (key[r] \in dirs) = (kind[r] = "analysis")
                  THEN IF kind[r] = "run" THEN "checked" ELSE "ready" ELSE "refused")
  /\ UNCHANGED <<files, registry, kind, key, lines, status, workerVars, streamVars, restarts>>

\* slip: makedirs(exist_ok=True)
AnyDir(r) == TRUE
DirIsNew(r) == key[r] \notin dirs

\* os.makedirs() fails if another request has made the directory since; nobody
\* catches the exception, and the browser gets no answer.
MakeDirs(r) ==
  /\ At(r, "checked", IF DirIsNew(r) THEN "ready" ELSE "raised")
  /\ dirs' = dirs \cup {key[r]}
  /\ UNCHANGED <<log, registry, kind, key, lines, status, workerVars, streamVars, restarts>>

Register(r) ==
  /\ At(r, "ready", "registered")
  /\ registry' = [registry EXCEPT ![kind[r]][key[r]] = r]
  /\ UNCHANGED <<files, kind, key, lines, status, workerVars, streamVars, restarts>>

StartThread(r) ==
  /\ At(r, "registered", "answered")
  /\ worker' = [worker EXCEPT ![r] = "begin"]
  /\ stage' = [stage EXCEPT ![r] = 1]
  /\ UNCHANGED <<files, registry, kind, key, lines, status, hand, ok, printed, streamVars, restarts>>

-----------------------------------------------------------------------------
(* The run thread.  To emit a line is to write it to the launch log, if there   *)
(* is one, and then to append it to the RunState.                               *)

Stages(r) == IF kind[r] = "run" THEN 2 ELSE Images

WriteLog(r) ==
  /\ worker[r] # "none" /\ kind[r] = "run" /\ hand[r] # <<>> /\ Len(log[r]) = Len(lines[r])
  /\ log' = [log EXCEPT ![r] = Append(@, Head(hand[r]))]
  /\ UNCHANGED <<dirs, serverVars, workerVars, streamVars, restarts>>

AppendLine(r) ==
  /\ worker[r] # "none" /\ hand[r] # <<>>
  /\ kind[r] = "run" => Len(log[r]) > Len(lines[r])
  /\ lines' = [lines EXCEPT ![r] = Append(@, Head(hand[r]))]
  /\ hand' = [hand EXCEPT ![r] = Tail(@)]
  /\ UNCHANGED <<files, registry, handler, kind, key, status, worker, stage, ok, printed>>
  /\ UNCHANGED <<streamVars, restarts>>

\* The thread goes on from a statement, when it has emitted what it had to, to
\* emit more.
Goes(r, from, to, emitted) ==
  /\ worker[r] = from /\ hand[r] = <<>>
  /\ worker' = [worker EXCEPT ![r] = to]
  /\ hand' = [hand EXCEPT ![r] = emitted]
  /\ UNCHANGED <<files, registry, handler, kind, key, lines, streamVars, restarts>>

\* wspy, then wspy-plot; or wspy-analyze for each image, with a heading if there
\* are several.
BeginStage(r) ==
  /\ Goes(r, "begin", "launch",
          IF kind[r] = "analysis" /\ Images > 1 THEN <<"image", "command">> ELSE <<"command">>)
  /\ UNCHANGED <<status, stage, ok, printed>>

Launched(r) ==
  /\ Goes(r, "launch", "output", <<>>)
  /\ UNCHANGED <<status, stage, ok, printed>>

\* The next program, if the thread goes on with one.
Onward(r, goesOn) ==
  IF goesOn /\ stage[r] < Stages(r) THEN "begin" ELSE "finish"

\* slip: the error path returns without a finish()
JustReturns(r) == IF kind[r] = "run" THEN "ended" ELSE Onward(r, TRUE)
AfterFailure(r) == Onward(r, kind[r] = "analysis")

LaunchFails(r) ==
  /\ Goes(r, "launch", AfterFailure(r), <<"error">>)
  /\ ok' = [ok EXCEPT ![r] = FALSE]
  /\ stage' = [stage EXCEPT ![r] = @ + 1]
  /\ UNCHANGED <<status, printed>>

Output(r) ==
  /\ printed[r] < MaxOutput
  /\ Goes(r, "output", "output", <<"output">>)
  /\ printed' = [printed EXCEPT ![r] = @ + 1]
  /\ UNCHANGED <<status, stage, ok>>

\* The pipe is read as text: of other bytes UnicodeDecodeError is raised, nobody
\* catches it, and the thread ends without a finish().
Undecoded(r) ==
  /\ printed[r] < MaxOutput
  /\ Goes(r, "output", "raised", <<>>)
  /\ UNCHANGED <<status, stage, ok, printed>>

\* The program ends; of wspy a usable CSV is expected as well.
Exited(r) ==
  \E good \in BOOLEAN :
    /\ Goes(r, "output", Onward(r, good \/ kind[r] = "analysis"),
            IF kind[r] = "run" /\ stage[r] = 1 /\ ~good THEN <<"exited", "skip">> ELSE <<"exited">>)
    /\ ok' = [ok EXCEPT ![r] = @ /\ good]
    /\ stage' = [stage EXCEPT ![r] = @ + 1]
    /\ UNCHANGED <<status, printed>>

Finish(r) ==
  /\ Goes(r, "finish", "ended", <<>>)
  /\ status' = [status EXCEPT ![r] = IF ok[r] THEN "done" ELSE "error"]
  /\ UNCHANGED <<stage, ok, printed>>

-----------------------------------------------------------------------------
(* The thread of a connection.  An EventSource connects after the answer, and   *)
(* again whenever the connection breaks before it was told the end.             *)

Connect(t, r) ==
  /\ page[t] \in {"closed", "broken"} /\ handler[r] = "answered"
  /\ asks' = [asks EXCEPT ![t] = r]
  /\ LET s == registry[kind[r]][key[r]] IN
     /\ page' = [page EXCEPT ![t] = IF s = NoState THEN "not found" ELSE "wait"]
     /\ state' = [state EXCEPT ![t] = IF s = NoState THEN r ELSE s]
  /\ sent' = [sent EXCEPT ![t] = 0] /\ pending' = [pending EXCEPT ![t] = <<>>]
  /\ got' = [got EXCEPT ![t] = <<>>] /\ end' = [end EXCEPT ![t] = "running"]
  /\ UNCHANGED <<files, serverVars, workerVars, seen, restarts>>

\* wait_for() returns because there is something new or after 15 seconds; the
\* rest of the block is under the lock of the RunState as well.
Wake(t) ==
  /\ page[t] = "wait"
  /\ page' = [page EXCEPT ![t] = "write"]
  /\ pending' = [pending EXCEPT ![t] = SubSeq(lines[state[t]], sent[t] + 1, Len(lines[state[t]]))]
  /\ sent' = [sent EXCEPT ![t] = Len(lines[state[t]])]
  /\ seen' = [seen EXCEPT ![t] = status[state[t]]]
  /\ UNCHANGED <<files, serverVars, workerVars, asks, state, got, end, restarts>>

WriteLine(t) ==
  /\ page[t] = "write" /\ pending[t] # <<>>
  /\ got' = [got EXCEPT ![t] = Append(@, Head(pending[t]))]
  /\ pending' = [pending EXCEPT ![t] = Tail(@)]
  /\ UNCHANGED <<files, serverVars, workerVars, page, asks, state, sent, seen, end, restarts>>

\* slip: the status of the RunState is looked at again
EndedByNow(t) == status[state[t]] # "running"
\* The lines are counted again here, without the lock.
Ended(t) == seen[t] # "running" /\ sent[t] >= Len(lines[state[t]])

CheckEnd(t) ==
  /\ page[t] = "write" /\ pending[t] = <<>>
  /\ IF Ended(t)
     THEN /\ page' = [page EXCEPT ![t] = "done"]
          /\ end' = [end EXCEPT ![t] = seen[t]]
     ELSE /\ page' = [page EXCEPT ![t] = "wait"] /\ UNCHANGED end
  /\ UNCHANGED <<files, serverVars, workerVars, asks, state, sent, pending, seen, got, restarts>>

\* The connection breaks; the thread gets BrokenPipeError from its next write.
Break(t) ==
  /\ page[t] \in {"wait", "write"}
  /\ page' = [page EXCEPT ![t] = "broken"]
  /\ sent' = [sent EXCEPT ![t] = 0] /\ pending' = [pending EXCEPT ![t] = <<>>]
  /\ seen' = [seen EXCEPT ![t] = "running"]
  /\ UNCHANGED <<files, serverVars, workerVars, asks, state, got, end, restarts>>

\* The server is killed and started again.  Its threads and their locals are gone;
\* lines and status are kept as the history of what they were.
Restart ==
  /\ restarts < MaxRestarts
  /\ restarts' = restarts + 1
  /\ registry' = [n \in Kinds |-> [k \in Keys |-> NoState]]
  /\ handler' = [r \in Requests |-> IF handler[r] \in {"checked", "ready", "registered"}
                                    THEN "raised" ELSE handler[r]]
  /\ worker' = [r \in Requests |-> "none"]
  /\ page' = [t \in Streams |-> IF page[t] \in {"wait", "write"} THEN "broken" ELSE page[t]]
  /\ hand' = [r \in Requests |-> <<>>] /\ stage' = [r \in Requests |-> 0]
  /\ sent' = [t \in Streams |-> 0] /\ pending' = [t \in Streams |-> <<>>]
  /\ seen' = [t \in Streams |-> "running"]
  /\ UNCHANGED <<files, kind, key, lines, status, ok, printed, asks, state, got, end>>

-----------------------------------------------------------------------------
Handle(r) == CheckDir(r) \/ MakeDirs(r) \/ Register(r) \/ StartThread(r)
Work(r) ==
  \/ WriteLog(r) \/ AppendLine(r) \/ BeginStage(r) \/ Launched(r) \/ LaunchFails(r)
  \/ Output(r) \/ Undecoded(r) \/ Exited(r) \/ Finish(r)
Stream(t) == Wake(t) \/ WriteLine(t) \/ CheckEnd(t)

Next ==
  \/ \E r \in Requests : Handle(r) \/ Work(r)
  \/ \E t \in Streams : (\E r \in Requests : Connect(t, r)) \/ Stream(t) \/ Break(t)
  \/ Restart

Spec == Init /\ [][Next]_everyVars

(* The threads run, and the programs end: those of a request print at most         *)
(* MaxOutput lines.                                                                *)
Fairness ==
  /\ \A r \in Requests : WF_everyVars(Handle(r)) /\ WF_everyVars(Work(r))
  /\ \A t \in Streams : WF_everyVars(Stream(t))

FairSpec == Spec /\ Fairness

-----------------------------------------------------------------------------
Texts    == {"image", "command", "error", "output", "exited", "skip"}
Statuses == {"running", "done", "error"}

(* The type invariant. *)
StreamTypeOK ==
  /\ dirs \in SUBSET Keys /\ registry \in [Kinds -> [Keys -> Requests \cup {NoState}]]
  /\ handler \in [Requests -> {"new", "refused", "checked", "ready", "raised", "registered", "answered"}]
  /\ kind \in [Requests -> Kinds] /\ key \in [Requests -> Keys]
  /\ log \in [Requests -> Seq(Texts)] /\ lines \in [Requests -> Seq(Texts)]
  /\ hand \in [Requests -> Seq(Texts)] /\ status \in [Requests -> Statuses]
  /\ worker \in [Requests -> {"none", "begin", "launch", "output", "finish", "ended", "raised"}]
  /\ ok \in [Requests -> BOOLEAN]
  /\ stage \in [Requests -> Nat] /\ printed \in [Requests -> 0..MaxOutput]
  /\ page \in [Streams -> {"closed", "not found", "wait", "write", "done", "broken"}]
  /\ asks \in [Streams -> Requests \cup {NoState}] /\ state \in [Streams -> Requests \cup {NoState}]
  /\ sent \in [Streams -> Nat] /\ seen \in [Streams -> Statuses] /\ end \in [Streams -> Statuses]
  /\ pending \in [Streams -> Seq(Texts)] /\ got \in [Streams -> Seq(Texts)]
  /\ restarts \in 0..MaxRestarts

(* What a browser is sent is the log of its run, each line once and in order, and *)
(* at the end all of it with the run's own outcome - although the lines are       *)
(* counted outside the lock, two requests may want one name, and connections      *)
(* break.  A run's lines are in the launch log before anybody is sent them, so    *)
(* that a killed server has shown nothing that is not there.                      *)
StreamedWhole ==
  \A t \in Streams : page[t] # "closed" =>
    /\ IsPrefix(got[t], lines[state[t]])
    /\ kind[asks[t]] = "run" => state[t] = asks[t] /\ IsPrefix(got[t], log[asks[t]])
    /\ page[t] = "done" =>
         /\ got[t] = lines[state[t]]
         /\ end[t] = (IF ok[state[t]] THEN "done" ELSE "error") /\ worker[state[t]] \in {"none", "ended"}

(* A browser that stays connected is told the end, whatever program could not be  *)
(* started or failed, and whenever it connected - unless output that is not text  *)
(* made the run thread end before it could record one.                            *)
EveryStreamEnds ==
  \A t \in Streams :
    page[t] = "wait" ~> \/ page[t] \in {"done", "broken"}
                        \/ \E r \in Requests : state[t] = r /\ worker[r] = "raised"
=============================================================================
