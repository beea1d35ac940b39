------------------------------ MODULE ServerProofs ------------------------------
(***************************************************************************)
(* Proofs about what the web server starts and serves: the streams of a    *)
(* run (RunStream), and the queue of jobs (JobQueue).                      *)
(***************************************************************************)
EXTENDS RunStream, JobQueue, SequenceTheorems, TLAPS

-----------------------------------------------------------------------------
(***************************************************************************)
(* What the web server promises a browser for any number of requests,      *)
(* connections, names of runs, plots, lines of output and kills.  RunInv   *)
(* is about a run thread and its log, OwnerInv about the requests that     *)
(* want one name, PageInv about a connection and the RunState it follows.  *)
(***************************************************************************)

\* s is how t begins
Begins(s, t) == Len(s) <= Len(t) /\ \A i \in 1..Len(s) : s[i] = t[i]

-----------------------------------------------------------------------------
(* Facts about sequences of lines. *)

LEMMA BeginsIsPrefix ==
  ASSUME NEW s \in Seq(Texts), NEW t \in Seq(Texts), Begins(s, t)
  PROVE  IsPrefix(s, t)
<1>1. Len(s) \in Nat /\ Len(t) \in Nat /\ Len(s) <= Len(t) /\ \A i \in 1..Len(s) : s[i] = t[i]
  BY LenProperties DEF Begins
<1>2. \A i \in 1..Len(s) : s[i] \in Texts /\ t[i] \in Texts
  BY <1>1, LenProperties
<1>3. SubSeq(s, 1, Len(s)) = s
  BY SubSeqFull
<1>4. /\ SubSeq(t, 1, Len(s)) \in Seq(Texts)
      /\ Len(SubSeq(t, 1, Len(s))) = IF 1 <= Len(s) THEN Len(s) - 1 + 1 ELSE 0
      /\ \A i \in 1..Len(s) - 1 + 1 : SubSeq(t, 1, Len(s))[i] = t[1 + i - 1]
  <2>1. 1 \in Int /\ Len(s) \in Int /\ \A i \in 1..Len(s) : t[i] \in Texts
    BY <1>1, <1>2
  <2> QED BY <2>1, SubSeqProperties
<1>5. Len(SubSeq(t, 1, Len(s))) = Len(s)
  BY <1>1, <1>4
<1>6. \A i \in 1..Len(s) : s[i] = SubSeq(t, 1, Len(s))[i]
  BY <1>1, <1>4
<1>7. s = SubSeq(t, 1, Len(s))
  BY <1>4, <1>5, <1>6, SeqEqual
<1> QED BY <1>1, <1>3, <1>7 DEF IsPrefix

LEMMA BeginsWhole ==
  ASSUME NEW s \in Seq(Texts), NEW t \in Seq(Texts), Begins(s, t), Len(s) = Len(t)
  PROVE  s = t
  BY SeqEqual DEF Begins

LEMMA BeginsReflexive == ASSUME NEW s \in Seq(Texts) PROVE Begins(s, s)
  BY LenProperties DEF Begins

LEMMA BeginsTransitive ==
  ASSUME NEW s \in Seq(Texts), NEW t \in Seq(Texts), NEW u \in Seq(Texts), Begins(s, t), Begins(t, u)
  PROVE  Begins(s, u)
<1>1. Len(s) \in Nat /\ Len(t) \in Nat /\ Len(u) \in Nat BY LenProperties
<1> QED BY <1>1 DEF Begins

LEMMA BeginsAppend ==
  ASSUME NEW s \in Seq(Texts), NEW x \in Texts
  PROVE  Begins(s, Append(s, x))
<1>1. Len(s) \in Nat BY LenProperties
<1>2. Len(Append(s, x)) = Len(s) + 1 /\ \A i \in 1..Len(s) : Append(s, x)[i] = s[i]
  BY AppendProperties
<1> QED BY <1>1, <1>2 DEF Begins

-----------------------------------------------------------------------------
(* The invariant. *)

\* A run's log has its lines, and at most the line more that its thread emits;
\* of a thread that was killed, no less than its lines.
Logged(r) ==
  \/ log[r] = lines[r]
  \/ hand[r] # <<>> /\ log[r] = Append(lines[r], Head(hand[r]))
  \/ worker[r] = "none" /\ Begins(lines[r], log[r])

RunInv(r) ==
  /\ handler[r] # "answered" => /\ worker[r] = "none" /\ hand[r] = <<>> /\ status[r] = "running"
                                /\ lines[r] = <<>> /\ log[r] = <<>>
  /\ kind[r] = "run" => Logged(r)
  /\ status[r] # "running" => /\ worker[r] \in {"none", "ended"} /\ hand[r] = <<>>
                              /\ status[r] = (IF ok[r] THEN "done" ELSE "error")

\* A request for a run has the run's directory
Owns(r) == kind[r] = "run" /\ handler[r] \in {"ready", "registered", "answered"}

OwnerInv ==
  /\ \A r \in Requests : Owns(r) => key[r] \in dirs
  /\ \A r, s \in Requests : Owns(r) /\ Owns(s) /\ key[r] = key[s] => r = s
  /\ \A k \in Keys : registry["run"][k] # NoState =>
       Owns(registry["run"][k]) /\ key[registry["run"][k]] = k

PageInv(t) ==
  page[t] # "closed" =>
    /\ asks[t] \in Requests /\ state[t] \in Requests
    /\ kind[asks[t]] = "run" => state[t] = asks[t]
    /\ Begins(got[t], lines[state[t]])
    /\ page[t] \in {"wait", "write"} =>
         /\ sent[t] <= Len(lines[state[t]]) /\ Len(got[t]) + Len(pending[t]) = sent[t]
         /\ \A i \in 1..Len(pending[t]) : pending[t][i] = lines[state[t]][Len(got[t]) + i]
    /\ page[t] = "wait" => pending[t] = <<>>
    /\ page[t] = "write" /\ seen[t] # "running" => status[state[t]] = seen[t]
    /\ page[t] = "done" => /\ Len(got[t]) = Len(lines[state[t]])
                           /\ end[t] # "running" /\ status[state[t]] = end[t]

StreamInv ==
  /\ StreamTypeOK /\ OwnerInv
  /\ \A r \in Requests : RunInv(r)
  /\ \A t \in Streams : PageInv(t)

-----------------------------------------------------------------------------
(* The type invariant. *)

LEMMA StreamTypeInitially == Init => StreamTypeOK
<1> SUFFICES ASSUME Init PROVE StreamTypeOK
  OBVIOUS
<1>1. <<>> \in Seq(Texts) BY EmptySeq
<1> QED BY <1>1, StreamAssumption DEF Init, StreamTypeOK, Kinds, Statuses

\* The variables of the run threads, after a step of one of them
LEMMA GoesTypes ==
  ASSUME StreamTypeOK, NEW r \in Requests, NEW from, NEW to, NEW emitted \in Seq(Texts),
         to \in {"begin", "launch", "output", "finish", "ended", "raised"},
         Goes(r, from, to, emitted),
         status' \in [Requests -> Statuses], ok' \in [Requests -> BOOLEAN],
         stage' \in [Requests -> Nat], printed' \in [Requests -> 0..MaxOutput]
  PROVE  StreamTypeOK'
<1>1. worker' \in [Requests -> {"none", "begin", "launch", "output", "finish", "ended", "raised"}]
  BY DEF Goes, StreamTypeOK
<1>2. hand' \in [Requests -> Seq(Texts)]
  BY DEF Goes, StreamTypeOK
<1> QED BY <1>1, <1>2 DEF Goes, StreamTypeOK, files, streamVars

LEMMA OnwardTypes == \A r \in Requests, b \in BOOLEAN : Onward(r, b) \in {"begin", "finish"}
  BY DEF Onward

LEMMA HandleTypes ==
  ASSUME StreamTypeOK, NEW r \in Requests, Handle(r)
  PROVE  StreamTypeOK'
<1>1. CASE CheckDir(r)
  <2>1. handler' \in [Requests -> {"new", "refused", "checked", "ready", "raised", "registered", "answered"}]
    BY <1>1 DEF CheckDir, At, StreamTypeOK
  <2> QED BY <1>1, <2>1 DEF CheckDir, StreamTypeOK, files, workerVars, streamVars
<1>2. CASE MakeDirs(r)
  <2>1. handler' \in [Requests -> {"new", "refused", "checked", "ready", "raised", "registered", "answered"}]
    BY <1>2 DEF MakeDirs, At, StreamTypeOK
  <2>2. dirs' \in SUBSET Keys BY <1>2 DEF MakeDirs, StreamTypeOK
  <2> QED BY <1>2, <2>1, <2>2 DEF MakeDirs, StreamTypeOK, workerVars, streamVars
<1>3. CASE Register(r)
  <2>1. handler' \in [Requests -> {"new", "refused", "checked", "ready", "raised", "registered", "answered"}]
    BY <1>3 DEF Register, At, StreamTypeOK
  <2>2. registry' \in [Kinds -> [Keys -> Requests \cup {NoState}]]
    BY <1>3 DEF Register, StreamTypeOK
  <2> QED BY <1>3, <2>1, <2>2 DEF Register, StreamTypeOK, files, workerVars, streamVars
<1>4. CASE StartThread(r)
  <2>1. handler' \in [Requests -> {"new", "refused", "checked", "ready", "raised", "registered", "answered"}]
    BY <1>4 DEF StartThread, At, StreamTypeOK
  <2>2. worker' \in [Requests -> {"none", "begin", "launch", "output", "finish", "ended", "raised"}]
    BY <1>4 DEF StartThread, StreamTypeOK
  <2>3. stage' \in [Requests -> Nat] BY <1>4 DEF StartThread, StreamTypeOK
  <2> QED BY <1>4, <2>1, <2>2, <2>3 DEF StartThread, StreamTypeOK, files, streamVars
<1> QED BY <1>1, <1>2, <1>3, <1>4 DEF Handle

\* The lines a thread may be about to emit
LEMMA EmittedTypes ==
  /\ <<>> \in Seq(Texts) /\ <<"error">> \in Seq(Texts) /\ <<"output">> \in Seq(Texts)
  /\ <<"command">> \in Seq(Texts) /\ <<"image", "command">> \in Seq(Texts)
  /\ <<"exited">> \in Seq(Texts) /\ <<"exited", "skip">> \in Seq(Texts)
  BY DEF Texts

LEMMA WorkTypes ==
  ASSUME StreamTypeOK, NEW r \in Requests, Work(r)
  PROVE  StreamTypeOK'
<1>0. /\ status \in [Requests -> Statuses] /\ ok \in [Requests -> BOOLEAN]
      /\ stage \in [Requests -> Nat] /\ printed \in [Requests -> 0..MaxOutput] /\ MaxOutput \in Nat
  BY StreamAssumption DEF StreamTypeOK
<1>1. CASE WriteLog(r)
  <2>1. Head(hand[r]) \in Texts BY <1>1, HeadTailProperties DEF WriteLog, StreamTypeOK
  <2>2. log' \in [Requests -> Seq(Texts)]
    BY <1>1, <2>1, AppendProperties DEF WriteLog, StreamTypeOK
  <2> QED BY <1>1, <2>2 DEF WriteLog, StreamTypeOK, serverVars, workerVars, streamVars
<1>2. CASE AppendLine(r)
  <2>1. Head(hand[r]) \in Texts /\ Tail(hand[r]) \in Seq(Texts)
    BY <1>2, HeadTailProperties DEF AppendLine, StreamTypeOK
  <2>2. lines' \in [Requests -> Seq(Texts)] /\ hand' \in [Requests -> Seq(Texts)]
    BY <1>2, <2>1, AppendProperties DEF AppendLine, StreamTypeOK
  <2> QED BY <1>2, <2>2 DEF AppendLine, StreamTypeOK, files, streamVars
<1>3. CASE BeginStage(r)
  <2>1. \E e \in Seq(Texts) : Goes(r, "begin", "launch", e)
    BY <1>3, EmittedTypes DEF BeginStage
  <2> QED BY <1>0, <1>3, <2>1, GoesTypes DEF BeginStage
<1>4. CASE Launched(r)
  BY <1>0, <1>4, GoesTypes, EmittedTypes DEF Launched
<1>5. CASE LaunchFails(r)
  <2>1. AfterFailure(r) \in {"begin", "finish"} BY OnwardTypes DEF AfterFailure
  <2>2. ok' \in [Requests -> BOOLEAN] /\ stage' \in [Requests -> Nat]
    BY <1>0, <1>5 DEF LaunchFails
  <2>3. Goes(r, "launch", AfterFailure(r), <<"error">>) BY <1>5 DEF LaunchFails
  <2>4. status' \in [Requests -> Statuses] /\ printed' \in [Requests -> 0..MaxOutput]
    BY <1>0, <1>5 DEF LaunchFails
  <2> QED BY <2>1, <2>2, <2>3, <2>4, GoesTypes, EmittedTypes
<1>6. CASE Output(r)
  <2>1. printed' \in [Requests -> 0..MaxOutput] BY <1>0, <1>6 DEF Output
  <2> QED BY <1>0, <1>6, <2>1, GoesTypes, EmittedTypes DEF Output
<1>7. CASE Undecoded(r)
  BY <1>0, <1>7, GoesTypes, EmittedTypes DEF Undecoded
<1>8. CASE Exited(r)
  <2>1. PICK good \in BOOLEAN :
          /\ Goes(r, "output", Onward(r, good \/ kind[r] = "analysis"),
                  IF kind[r] = "run" /\ stage[r] = 1 /\ ~good THEN <<"exited", "skip">> ELSE <<"exited">>)
          /\ ok' = [ok EXCEPT ![r] = @ /\ good]
          /\ stage' = [stage EXCEPT ![r] = @ + 1]
          /\ UNCHANGED <<status, printed>>
    BY <1>8 DEF Exited
  <2>2. Onward(r, good \/ kind[r] = "analysis") \in {"begin", "finish"} BY OnwardTypes
  <2>3. ok' \in [Requests -> BOOLEAN] BY <1>0, <2>1, Zenon
  <2>4. stage' \in [Requests -> Nat] BY <1>0, <2>1
  <2>5. (IF kind[r] = "run" /\ stage[r] = 1 /\ ~good THEN <<"exited", "skip">> ELSE <<"exited">>) \in Seq(Texts)
    BY EmittedTypes
  <2>6. status' \in [Requests -> Statuses] /\ printed' \in [Requests -> 0..MaxOutput] BY <1>0, <2>1
  <2>7. Goes(r, "output", Onward(r, good \/ kind[r] = "analysis"),
             IF kind[r] = "run" /\ stage[r] = 1 /\ ~good THEN <<"exited", "skip">> ELSE <<"exited">>)
    BY <2>1
  <2> QED BY <2>2, <2>3, <2>4, <2>5, <2>6, <2>7, GoesTypes
<1>9. CASE Finish(r)
  <2>1. status' \in [Requests -> Statuses] BY <1>0, <1>9 DEF Finish, Statuses
  <2> QED BY <1>0, <1>9, <2>1, GoesTypes, EmittedTypes DEF Finish
<1> QED BY <1>1, <1>2, <1>3, <1>4, <1>5, <1>6, <1>7, <1>8, <1>9 DEF Work

\* The rest of the stream threads' steps needs that they follow a RunState.
LEMMA StreamTypes ==
  ASSUME StreamTypeOK, NEW t \in Streams, PageInv(t), Stream(t) \/ Break(t)
  PROVE  StreamTypeOK'
<1>0. <<>> \in Seq(Texts) BY EmptySeq
<1>1. CASE Wake(t)
  <2>0. state[t] \in Requests BY <1>1 DEF Wake, PageInv
  <2>1. lines[state[t]] \in Seq(Texts) /\ status[state[t]] \in Statuses
    BY <2>0 DEF StreamTypeOK
  <2>2. Len(lines[state[t]]) \in Nat /\ \A i \in 1..Len(lines[state[t]]) : lines[state[t]][i] \in Texts
    BY <2>1, LenProperties
  <2>3. sent[t] + 1 \in Int /\ Len(lines[state[t]]) \in Int
        /\ \A i \in sent[t] + 1..Len(lines[state[t]]) : lines[state[t]][i] \in Texts
    <3>1. sent[t] \in Nat BY DEF StreamTypeOK
    <3> QED BY <2>2, <3>1
  <2>4. SubSeq(lines[state[t]], sent[t] + 1, Len(lines[state[t]])) \in Seq(Texts)
    BY <2>3, SubSeqProperties
  <2>5. pending' \in [Streams -> Seq(Texts)] BY <1>1, <2>4 DEF Wake, StreamTypeOK
  <2>6. sent' \in [Streams -> Nat] /\ seen' \in [Streams -> Statuses]
    BY <1>1, <2>1, <2>2 DEF Wake, StreamTypeOK
  <2>7. page' \in [Streams -> {"closed", "not found", "wait", "write", "done", "broken"}]
    BY <1>1 DEF Wake, StreamTypeOK
  <2> QED BY <1>1, <2>5, <2>6, <2>7 DEF Wake, StreamTypeOK, files, serverVars, workerVars
<1>2. CASE WriteLine(t)
  <2>1. Head(pending[t]) \in Texts /\ Tail(pending[t]) \in Seq(Texts)
    BY <1>2, HeadTailProperties DEF WriteLine, StreamTypeOK
  <2>2. Append(got[t], Head(pending[t])) \in Seq(Texts)
    BY <2>1, AppendProperties DEF StreamTypeOK
  <2>3. got' \in [Streams -> Seq(Texts)] BY <1>2, <2>2 DEF WriteLine, StreamTypeOK
  <2>4. pending' \in [Streams -> Seq(Texts)] BY <1>2, <2>1 DEF WriteLine, StreamTypeOK
  <2> QED BY <1>2, <2>3, <2>4 DEF WriteLine, StreamTypeOK, files, serverVars, workerVars
<1>3. CASE CheckEnd(t)
  <2>0. /\ end' = [end EXCEPT ![t] = seen[t]] \/ end' = end
        /\ page' = [page EXCEPT ![t] = "done"] \/ page' = [page EXCEPT ![t] = "wait"]
    BY <1>3 DEF CheckEnd
  <2>1. end' \in [Streams -> Statuses]
    <3>1. end \in [Streams -> Statuses] /\ seen[t] \in Statuses BY DEF StreamTypeOK
    <3> QED BY <2>0, <3>1
  <2>2. page' \in [Streams -> {"closed", "not found", "wait", "write", "done", "broken"}]
    <3>1. page \in [Streams -> {"closed", "not found", "wait", "write", "done", "broken"}]
      BY DEF StreamTypeOK
    <3> QED BY <2>0, <3>1
  <2> QED BY <1>3, <2>1, <2>2 DEF CheckEnd, StreamTypeOK, files, serverVars, workerVars
<1>4. CASE Break(t)
  <2>1. pending' \in [Streams -> Seq(Texts)]
    <3>1. pending \in [Streams -> Seq(Texts)] /\ pending' = [pending EXCEPT ![t] = <<>>]
      BY <1>4 DEF Break, StreamTypeOK
    <3> QED BY <1>0, <3>1
  <2>2. sent' \in [Streams -> Nat]
    BY <1>4 DEF Break, StreamTypeOK
  <2>4. seen' \in [Streams -> Statuses]
    <3>1. seen \in [Streams -> Statuses] /\ seen' = [seen EXCEPT ![t] = "running"]
      BY <1>4 DEF Break, StreamTypeOK
    <3> QED BY <3>1 DEF Statuses
  <2>3. page' \in [Streams -> {"closed", "not found", "wait", "write", "done", "broken"}]
    BY <1>4 DEF Break, StreamTypeOK
  <2> QED BY <1>4, <2>1, <2>2, <2>3, <2>4 DEF Break, StreamTypeOK, files, serverVars, workerVars
<1> QED BY <1>1, <1>2, <1>3, <1>4 DEF Stream

LEMMA ConnectTypes ==
  ASSUME StreamTypeOK, NEW t \in Streams, NEW r \in Requests, Connect(t, r)
  PROVE  StreamTypeOK'
<1>1. registry[kind[r]][key[r]] \in Requests \cup {NoState}
  <2>1. kind[r] \in Kinds /\ key[r] \in Keys BY DEF StreamTypeOK
  <2>2. registry[kind[r]] \in [Keys -> Requests \cup {NoState}] BY <2>1 DEF StreamTypeOK
  <2> QED BY <2>1, <2>2
<1>2. state' \in [Streams -> Requests \cup {NoState}] /\ asks' \in [Streams -> Requests \cup {NoState}]
  BY <1>1 DEF Connect, StreamTypeOK
<1>3. page' \in [Streams -> {"closed", "not found", "wait", "write", "done", "broken"}]
  BY DEF Connect, StreamTypeOK
<1>4. pending' \in [Streams -> Seq(Texts)] /\ got' \in [Streams -> Seq(Texts)]
  <2>1. /\ pending \in [Streams -> Seq(Texts)] /\ got \in [Streams -> Seq(Texts)]
        /\ pending' = [pending EXCEPT ![t] = <<>>] /\ got' = [got EXCEPT ![t] = <<>>]
    BY DEF Connect, StreamTypeOK
  <2>2. <<>> \in Seq(Texts) BY EmptySeq
  <2> QED BY <2>1, <2>2
<1>5. sent' \in [Streams -> Nat] /\ end' \in [Streams -> Statuses]
  <2>1. /\ sent \in [Streams -> Nat] /\ end \in [Streams -> Statuses]
        /\ sent' = [sent EXCEPT ![t] = 0] /\ end' = [end EXCEPT ![t] = "running"]
    BY DEF Connect, StreamTypeOK
  <2> QED BY <2>1 DEF Statuses
<1> QED BY <1>2, <1>3, <1>4, <1>5 DEF Connect, StreamTypeOK, files, serverVars, workerVars

LEMMA RestartTypes ==
  ASSUME StreamTypeOK, Restart
  PROVE  StreamTypeOK'
<1>1. handler' \in [Requests -> {"new", "refused", "checked", "ready", "raised", "registered", "answered"}]
  BY DEF Restart, StreamTypeOK
<1>2. page' \in [Streams -> {"closed", "not found", "wait", "write", "done", "broken"}]
  BY DEF Restart, StreamTypeOK
<1>3. hand' \in [Requests -> Seq(Texts)] /\ pending' \in [Streams -> Seq(Texts)]
  BY EmptySeq DEF Restart
<1>4. registry' \in [Kinds -> [Keys -> Requests \cup {NoState}]]
  BY DEF Restart
<1>5. /\ stage' \in [Requests -> Nat] /\ sent' \in [Streams -> Nat]
      /\ seen' \in [Streams -> Statuses]
      /\ worker' \in [Requests -> {"none", "begin", "launch", "output", "finish", "ended", "raised"}]
  BY DEF Restart, Statuses
<1>6. restarts' \in 0..MaxRestarts
  <2>1. restarts \in 0..MaxRestarts BY DEF StreamTypeOK
  <2>2. restarts < MaxRestarts /\ restarts' = restarts + 1 BY DEF Restart
  <2> QED BY <2>1, <2>2, StreamAssumption
<1> QED BY <1>1, <1>2, <1>3, <1>4, <1>5, <1>6 DEF Restart, StreamTypeOK, files

-----------------------------------------------------------------------------
(* The requests that want one name. *)

\* What does not register a run, give up one or make a directory
LEMMA OwnersStay ==
  ASSUME OwnerInv, dirs \subseteq dirs', UNCHANGED <<kind, key, registry>>,
         \A r \in Requests : Owns(r)' <=> Owns(r), StreamTypeOK
  PROVE  OwnerInv'
<1>1. \A k \in Keys : registry["run"][k] # NoState => registry["run"][k] \in Requests
  <2>1. registry \in [Kinds -> [Keys -> Requests \cup {NoState}]] /\ "run" \in Kinds
    BY DEF StreamTypeOK, Kinds
  <2> QED BY ONLY <2>1
<1>2. \A r \in Requests : Owns(r)' => key'[r] \in dirs'
  BY DEF OwnerInv
<1>3. \A r, s \in Requests : Owns(r)' /\ Owns(s)' /\ key'[r] = key'[s] => r = s
  BY DEF OwnerInv
<1>4. \A k \in Keys : registry'["run"][k] # NoState =>
        Owns(registry["run"][k])' /\ key'[registry'["run"][k]] = k
  BY <1>1 DEF OwnerInv
<1> QED BY <1>2, <1>3, <1>4 DEF OwnerInv

LEMMA OwnerStep ==
  ASSUME StreamTypeOK, OwnerInv, NEW r \in Requests, Handle(r)
  PROVE  OwnerInv'
<1>0. /\ handler \in [Requests -> {"new", "refused", "checked", "ready", "raised", "registered", "answered"}]
      /\ key \in [Requests -> Keys] /\ kind \in [Requests -> Kinds]
      /\ registry \in [Kinds -> [Keys -> Requests \cup {NoState}]]
  BY DEF StreamTypeOK
<1>1. CASE CheckDir(r)
  <2>1. UNCHANGED <<dirs, kind, key, registry>> BY <1>1 DEF CheckDir, files
  <2>2. handler[r] = "new" /\ (kind[r] = "run" => handler'[r] \notin {"ready", "registered", "answered"})
    BY <1>0, <1>1 DEF CheckDir, At
  <2>3. \A s \in Requests : s # r => handler'[s] = handler[s]
    BY <1>0, <1>1 DEF CheckDir, At
  <2>4. \A s \in Requests : Owns(s)' <=> Owns(s) BY <2>1, <2>2, <2>3 DEF Owns
  <2> QED BY <2>1, <2>4, OwnersStay
<1>2. CASE MakeDirs(r)
  <2>1. UNCHANGED <<kind, key, registry>> /\ dirs' = dirs \cup {key[r]} BY <1>2 DEF MakeDirs
  <2>2. \A s \in Requests : s # r => handler'[s] = handler[s]
    BY <1>0, <1>2 DEF MakeDirs, At
  <2>3. handler[r] = "checked" /\ handler'[r] = (IF DirIsNew(r) THEN "ready" ELSE "raised")
    BY <1>0, <1>2 DEF MakeDirs, At
  <2>4. CASE DirIsNew(r) /\ kind[r] = "run"
    <3>1. \A s \in Requests : Owns(s) => key[s] \in dirs /\ s # r /\ key[s] # key[r]
      BY <2>3, <2>4 DEF OwnerInv, DirIsNew, Owns
    <3>2. \A s \in Requests : Owns(s)' <=> Owns(s) \/ s = r
      BY <2>1, <2>2, <2>3, <2>4 DEF Owns
    <3>3. \A s \in Requests : Owns(s)' => key'[s] \in dirs' BY <2>1, <3>1, <3>2
    <3>4. \A s, u \in Requests : Owns(s)' /\ Owns(u)' /\ key'[s] = key'[u] => s = u
      BY <2>1, <3>1, <3>2 DEF OwnerInv
    <3>5. \A k \in Keys : registry["run"][k] # NoState => registry["run"][k] \in Requests
      BY <1>0 DEF Kinds
    <3>6. \A k \in Keys : registry'["run"][k] # NoState =>
            Owns(registry["run"][k])' /\ key'[registry'["run"][k]] = k
      BY <2>1, <3>2, <3>5 DEF OwnerInv
    <3> QED BY <2>1, <3>3, <3>4, <3>6 DEF OwnerInv
  <2>5. CASE ~(DirIsNew(r) /\ kind[r] = "run")
    <3>1. \A s \in Requests : Owns(s)' <=> Owns(s) BY <2>1, <2>2, <2>3, <2>5 DEF Owns
    <3> QED BY <2>1, <3>1, OwnersStay
  <2> QED BY <2>4, <2>5
<1>3. CASE Register(r)
  <2>1. UNCHANGED <<dirs, kind, key>> /\ registry' = [registry EXCEPT ![kind[r]][key[r]] = r]
    BY <1>3 DEF Register, files
  <2>2. handler[r] = "ready" /\ handler'[r] = "registered"
        /\ \A s \in Requests : s # r => handler'[s] = handler[s]
    BY <1>0, <1>3 DEF Register, At
  <2>3. \A s \in Requests : Owns(s)' <=> Owns(s) BY <2>1, <2>2 DEF Owns
  <2>4. \A k \in Keys : \/ registry'["run"][k] = registry["run"][k]
                        \/ kind[r] = "run" /\ key[r] = k /\ registry'["run"][k] = r
    BY <1>0, <2>1 DEF Kinds
  <2>5. kind[r] = "run" => Owns(r) BY <2>2 DEF Owns
  <2>6. \A k \in Keys : registry["run"][k] # NoState => registry["run"][k] \in Requests
    BY <1>0 DEF Kinds
  <2>7. \A k \in Keys : registry'["run"][k] # NoState =>
          /\ registry'["run"][k] \in Requests /\ Owns(registry'["run"][k])
          /\ key[registry'["run"][k]] = k
    BY <2>4, <2>5, <2>6 DEF OwnerInv
  <2>8. \A k \in Keys : registry'["run"][k] # NoState =>
          Owns(registry["run"][k])' /\ key'[registry'["run"][k]] = k
    <3>1. SUFFICES ASSUME NEW k \in Keys, registry'["run"][k] # NoState
                   PROVE  kind'[registry'["run"][k]] = "run"
                          /\ handler'[registry'["run"][k]] \in {"ready", "registered", "answered"}
                          /\ key'[registry'["run"][k]] = k
      BY DEF Owns
    <3>2. PICK s \in Requests : s = registry'["run"][k] BY <2>7, <3>1
    <3>3. Owns(s)' BY <2>3, <2>7, <3>1, <3>2
    <3> QED BY <2>1, <2>7, <3>1, <3>2, <3>3 DEF Owns
  <2>9. \A s \in Requests : Owns(s)' => key'[s] \in dirs' BY <2>1, <2>3 DEF OwnerInv
  <2>10. \A s, u \in Requests : Owns(s)' /\ Owns(u)' /\ key'[s] = key'[u] => s = u
    BY <2>1, <2>3 DEF OwnerInv
  <2> QED BY <2>8, <2>9, <2>10 DEF OwnerInv
<1>4. CASE StartThread(r)
  <2>1. UNCHANGED <<dirs, kind, key, registry>> BY <1>4 DEF StartThread, files
  <2>2. handler[r] = "registered" /\ handler'[r] = "answered"
        /\ \A s \in Requests : s # r => handler'[s] = handler[s]
    BY <1>0, <1>4 DEF StartThread, At
  <2>3. \A s \in Requests : Owns(s)' <=> Owns(s) BY <2>1, <2>2 DEF Owns
  <2> QED BY <2>1, <2>3, OwnersStay
<1> QED BY <1>1, <1>2, <1>3, <1>4 DEF Handle

LEMMA RestartOwners ==
  ASSUME StreamTypeOK, OwnerInv, Restart
  PROVE  OwnerInv'
<1>1. UNCHANGED <<dirs, kind, key>> /\ \A k \in Keys : registry'["run"][k] = NoState
  BY DEF Restart, files, Kinds
<1>2. \A r \in Requests : handler'[r] = "raised" \/ handler'[r] = handler[r]
  BY DEF Restart
<1>3. \A r \in Requests : Owns(r)' => Owns(r)
  BY <1>1, <1>2 DEF Owns
<1> QED BY <1>1, <1>3 DEF OwnerInv

-----------------------------------------------------------------------------
(* A run thread and its log. *)

LEMMA RunUntouched ==
  ASSUME NEW s \in Requests, RunInv(s), kind' = kind,
         handler'[s] = handler[s], log'[s] = log[s], lines'[s] = lines[s], hand'[s] = hand[s],
         worker'[s] = worker[s], status'[s] = status[s], ok'[s] = ok[s]
  PROVE  RunInv(s)'
  BY DEF RunInv, Logged

\* A thread that works was started by its request and has not recorded a status.
LEMMA Working ==
  ASSUME NEW r \in Requests, RunInv(r), worker[r] \notin {"none", "ended"}
  PROVE  handler[r] = "answered" /\ status[r] = "running"
  BY DEF RunInv

\* What a statement of the thread does to its own RunState
LEMMA RunGoes ==
  ASSUME StreamTypeOK, NEW r \in Requests, RunInv(r),
         NEW from \in {"begin", "launch", "output", "finish"}, NEW to, NEW emitted,
         Goes(r, from, to, emitted),
         status'[r] = "running" \/ /\ to = "ended" /\ emitted = <<>>
                                   /\ status'[r] = (IF ok'[r] THEN "done" ELSE "error")
  PROVE  RunInv(r)'
<1>1. worker[r] = from /\ hand[r] = <<>> /\ UNCHANGED <<handler, kind, lines, log>>
  BY DEF Goes, files
<1>2. handler[r] = "answered" /\ status[r] = "running" BY <1>1, Working
<1>3. kind[r] = "run" => log[r] = lines[r] BY <1>1 DEF RunInv, Logged
<1>4. worker'[r] = to /\ hand'[r] = emitted BY DEF Goes, StreamTypeOK
<1>5. kind'[r] = "run" => Logged(r)' BY <1>1, <1>3 DEF Logged
<1> QED BY <1>1, <1>2, <1>4, <1>5 DEF RunInv

\* Lines are only added, and none after the terminal status, which stays.
Grows ==
  \A s \in Requests :
    /\ Begins(lines[s], lines'[s])
    /\ status[s] # "running" => lines'[s] = lines[s] /\ status'[s] = status[s]

LEMMA SameGrows ==
  ASSUME StreamTypeOK, lines' = lines, NEW r \in Requests,
         \A s \in Requests \ {r} : status'[s] = status[s],
         status[r] = "running" \/ status'[r] = status[r]
  PROVE  Grows
<1>1. \A s \in Requests : Begins(lines[s], lines[s]) BY BeginsReflexive DEF StreamTypeOK
<1> QED BY <1>1 DEF Grows

LEMMA HandleRuns ==
  ASSUME StreamTypeOK, \A s \in Requests : RunInv(s), NEW r \in Requests, Handle(r)
  PROVE  (\A s \in Requests : RunInv(s)') /\ Grows
<1>0. /\ handler \in [Requests -> {"new", "refused", "checked", "ready", "raised", "registered", "answered"}]
      /\ worker \in [Requests -> {"none", "begin", "launch", "output", "finish", "ended", "raised"}]
  BY DEF StreamTypeOK
<1>1. UNCHANGED <<kind, log, lines, hand, status, ok>> /\ handler[r] # "answered"
  BY DEF Handle, CheckDir, MakeDirs, Register, StartThread, At, files, workerVars
<1>2. \A s \in Requests : s # r => handler'[s] = handler[s] /\ worker'[s] = worker[s]
  BY <1>0 DEF Handle, CheckDir, MakeDirs, Register, StartThread, At, workerVars
<1>3. worker'[r] = worker[r] \/ handler'[r] = "answered"
  BY <1>0 DEF Handle, CheckDir, MakeDirs, Register, StartThread, At, workerVars
<1>4. ASSUME NEW s \in Requests PROVE RunInv(s)'
  <2>1. CASE s = r
    <3>1. hand[r] = <<>> /\ status[r] = "running" /\ lines[r] = <<>> /\ log[r] = <<>> /\ worker[r] = "none"
      BY <1>1 DEF RunInv
    <3> QED BY <1>1, <1>3, <2>1, <3>1 DEF RunInv, Logged
  <2>2. CASE s # r
    BY <1>1, <1>2, <2>2, RunUntouched
  <2> QED BY <2>1, <2>2
<1>5. Grows BY <1>1, SameGrows
<1> QED BY <1>4, <1>5

LEMMA WorkRuns ==
  ASSUME StreamTypeOK, \A s \in Requests : RunInv(s), NEW r \in Requests, Work(r)
  PROVE  (\A s \in Requests : RunInv(s)') /\ Grows
<1>0. /\ log \in [Requests -> Seq(Texts)] /\ lines \in [Requests -> Seq(Texts)]
      /\ hand \in [Requests -> Seq(Texts)] /\ status \in [Requests -> Statuses]
      /\ worker \in [Requests -> {"none", "begin", "launch", "output", "finish", "ended", "raised"}]
      /\ ok \in [Requests -> BOOLEAN]
  BY DEF StreamTypeOK
<1>1. CASE WriteLog(r)
  <2>1. /\ UNCHANGED <<handler, kind, lines, hand, worker, status, ok>>
        /\ log' = [log EXCEPT ![r] = Append(log[r], Head(hand[r]))]
        /\ worker[r] # "none" /\ kind[r] = "run" /\ hand[r] # <<>> /\ Len(log[r]) = Len(lines[r])
    BY <1>1 DEF WriteLog, serverVars, workerVars
  <2>2. Head(hand[r]) \in Texts BY <1>0, <2>1, HeadTailProperties
  <2>3. Len(Append(lines[r], Head(hand[r]))) = Len(lines[r]) + 1 /\ Len(lines[r]) \in Nat
    BY <1>0, <2>2, AppendProperties, LenProperties
  <2>4. log[r] = lines[r] BY <2>1, <2>3 DEF RunInv, Logged
  <2>5. log'[r] = Append(lines[r], Head(hand[r])) BY <1>0, <2>1, <2>4
  <2>6. handler[r] = "answered" /\ status[r] = "running" BY <2>1 DEF RunInv
  <2>7. RunInv(r)' BY <2>1, <2>5, <2>6 DEF RunInv, Logged
  <2>8. \A s \in Requests : s # r => log'[s] = log[s] BY <1>0, <2>1
  <2>9. \A s \in Requests : RunInv(s)' BY <2>1, <2>7, <2>8, RunUntouched
  <2>10. Grows BY <2>1, SameGrows
  <2> QED BY <2>9, <2>10
<1>2. CASE AppendLine(r)
  <2>1. /\ UNCHANGED <<handler, kind, log, worker, status, ok>>
        /\ lines' = [lines EXCEPT ![r] = Append(lines[r], Head(hand[r]))]
        /\ hand' = [hand EXCEPT ![r] = Tail(hand[r])]
        /\ worker[r] # "none" /\ hand[r] # <<>>
        /\ kind[r] = "run" => Len(log[r]) > Len(lines[r])
    BY <1>2 DEF AppendLine, files
  <2>2. Head(hand[r]) \in Texts BY <1>0, <2>1, HeadTailProperties
  <2>3. Len(lines[r]) \in Nat BY <1>0, LenProperties
  <2>4. lines'[r] = Append(lines[r], Head(hand[r])) BY <1>0, <2>1
  <2>5. kind[r] = "run" => log[r] = lines'[r]
    <3>1. kind[r] = "run" => log[r] # lines[r] BY <2>1, <2>3
    <3>2. kind[r] = "run" => Logged(r) BY DEF RunInv
    <3> QED BY <2>1, <2>4, <3>1, <3>2 DEF Logged
  <2>6. handler[r] = "answered" /\ status[r] = "running" BY <2>1 DEF RunInv
  <2>7. RunInv(r)' BY <2>1, <2>5, <2>6 DEF RunInv, Logged
  <2>8. \A s \in Requests : s # r => lines'[s] = lines[s] /\ hand'[s] = hand[s] BY <1>0, <2>1
  <2>9. \A s \in Requests : RunInv(s)' BY <2>1, <2>7, <2>8, RunUntouched
  <2>10. Begins(lines[r], lines'[r]) BY <1>0, <2>2, <2>4, BeginsAppend
  <2>11. \A s \in Requests : s # r => Begins(lines[s], lines'[s]) BY <1>0, <2>8, BeginsReflexive
  <2>12. Grows BY <2>1, <2>6, <2>8, <2>10, <2>11 DEF Grows
  <2> QED BY <2>9, <2>12
<1>3. ASSUME NEW from \in {"begin", "launch", "output", "finish"}, NEW to, NEW emitted,
             Goes(r, from, to, emitted), \A s \in Requests : s # r => status'[s] = status[s] /\ ok'[s] = ok[s],
             status'[r] = "running" \/ /\ to = "ended" /\ emitted = <<>>
                                       /\ status'[r] = (IF ok'[r] THEN "done" ELSE "error")
      PROVE  (\A s \in Requests : RunInv(s)') /\ Grows
  <2>1. RunInv(r)' BY <1>3, RunGoes
  <2>2. UNCHANGED <<handler, kind, log, lines>> /\ worker[r] = from BY <1>3 DEF Goes, files
  <2>3. \A s \in Requests : s # r => worker'[s] = worker[s] /\ hand'[s] = hand[s]
    BY <1>0, <1>3 DEF Goes
  <2>4. \A s \in Requests : RunInv(s)' BY <1>3, <2>1, <2>2, <2>3, RunUntouched
  <2>5. status[r] = "running" BY <2>2, Working
  <2>6. Grows BY <1>3, <2>2, <2>5, SameGrows
  <2> QED BY <2>4, <2>6
<1>4. CASE BeginStage(r) \/ Launched(r) \/ Output(r) \/ Undecoded(r)
  <2>1. PICK from \in {"begin", "launch", "output", "finish"}, to \in {"launch", "output", "raised"},
             emitted \in Seq(Texts) : Goes(r, from, to, emitted)
    BY <1>4, EmittedTypes DEF BeginStage, Launched, Output, Undecoded
  <2>2. UNCHANGED <<status, ok>> BY <1>4 DEF BeginStage, Launched, Output, Undecoded
  <2>3. status[r] = "running" BY <2>1, Working DEF Goes
  <2> QED BY <1>3, <2>1, <2>2, <2>3
<1>5. CASE LaunchFails(r)
  <2>1. Goes(r, "launch", AfterFailure(r), <<"error">>) /\ status' = status
        /\ ok' = [ok EXCEPT ![r] = FALSE]
    BY <1>5 DEF LaunchFails
  <2>2. status[r] = "running" BY <2>1, Working DEF Goes
  <2>3. \A s \in Requests : s # r => status'[s] = status[s] /\ ok'[s] = ok[s] BY <1>0, <2>1
  <2> QED BY <1>3, <2>1, <2>2, <2>3
<1>6. CASE Exited(r)
  <2>1. PICK good \in BOOLEAN :
          /\ Goes(r, "output", Onward(r, good \/ kind[r] = "analysis"),
                  IF kind[r] = "run" /\ stage[r] = 1 /\ ~good THEN <<"exited", "skip">> ELSE <<"exited">>)
          /\ ok' = [ok EXCEPT ![r] = @ /\ good]
          /\ status' = status
    BY <1>6 DEF Exited
  <2>2. status[r] = "running" BY <2>1, Working DEF Goes
  <2>3. \A s \in Requests : s # r => status'[s] = status[s] /\ ok'[s] = ok[s] BY <1>0, <2>1
  <2> QED BY <1>3, <2>1, <2>2, <2>3
<1>7. CASE Finish(r)
  <2>1. Goes(r, "finish", "ended", <<>>) /\ ok' = ok
        /\ status' = [status EXCEPT ![r] = IF ok[r] THEN "done" ELSE "error"]
    BY <1>7 DEF Finish
  <2>2. status'[r] = (IF ok'[r] THEN "done" ELSE "error") BY <1>0, <2>1
  <2>3. \A s \in Requests : s # r => status'[s] = status[s] /\ ok'[s] = ok[s] BY <1>0, <2>1
  <2> QED BY <1>3, <2>1, <2>2, <2>3
<1> QED BY <1>1, <1>2, <1>4, <1>5, <1>6, <1>7 DEF Work

LEMMA RestartRuns ==
  ASSUME StreamTypeOK, \A s \in Requests : RunInv(s), Restart
  PROVE  (\A s \in Requests : RunInv(s)') /\ Grows
<1>1. /\ UNCHANGED <<kind, log, lines, status, ok>>
      /\ \A s \in Requests : worker'[s] = "none" /\ hand'[s] = <<>>
      /\ \A s \in Requests : handler[s] = "answered" => handler'[s] = "answered"
  BY DEF Restart, files
<1>2. /\ log \in [Requests -> Seq(Texts)] /\ lines \in [Requests -> Seq(Texts)]
      /\ hand \in [Requests -> Seq(Texts)]
  BY DEF StreamTypeOK
<1>3. ASSUME NEW s \in Requests PROVE RunInv(s)'
  <2>1. kind[s] = "run" => Begins(lines[s], log[s])
    <3>1. SUFFICES ASSUME kind[s] = "run" PROVE Begins(lines[s], log[s])
      OBVIOUS
    <3>2. CASE log[s] = lines[s] BY <1>2, <3>2, BeginsReflexive
    <3>3. CASE hand[s] # <<>> /\ log[s] = Append(lines[s], Head(hand[s]))
      <4>1. Head(hand[s]) \in Texts BY <1>2, <3>3, HeadTailProperties
      <4> QED BY <1>2, <3>3, <4>1, BeginsAppend
    <3> QED BY <3>1, <3>2, <3>3 DEF RunInv, Logged
  <2>2. Logged(s)' \/ kind[s] # "run" BY <1>1, <2>1 DEF Logged, Begins
  <2> QED BY <1>1, <2>2 DEF RunInv
<1>4. \A s \in Requests : Begins(lines[s], lines[s]) BY <1>2, BeginsReflexive
<1>5. Grows BY <1>1, <1>4 DEF Grows
<1> QED BY <1>3, <1>5

-----------------------------------------------------------------------------
(* A connection and the RunState it follows. *)

\* Places in the lines that are still to be sent
LEMMA Stretch ==
  ASSUME NEW a \in Nat, NEW b \in Nat, NEW n \in Nat, a + b <= n, NEW i \in 1..b
  PROVE  a + i \in 1..n
  OBVIOUS

\* What a connection has and will be sent stays right when lines are added.
LEMMA PageGrows ==
  ASSUME StreamTypeOK, StreamTypeOK', Grows, kind' = kind, NEW t \in Streams, PageInv(t),
         asks'[t] = asks[t], state'[t] = state[t], got'[t] = got[t], end'[t] = end[t],
         \/ /\ page'[t] = page[t]
            /\ page[t] \in {"wait", "write"} =>
                 sent'[t] = sent[t] /\ pending'[t] = pending[t] /\ seen'[t] = seen[t]
         \/ page'[t] = "broken" /\ page[t] # "closed"
  PROVE  PageInv(t)'
<1> SUFFICES ASSUME page'[t] # "closed" PROVE PageInv(t)'
  BY DEF PageInv
<1>1. page[t] # "closed" /\ asks[t] \in Requests /\ state[t] \in Requests
  BY DEF PageInv
<1> DEFINE s == state[t]
<1>2. /\ got[t] \in Seq(Texts) /\ pending[t] \in Seq(Texts)
      /\ lines[s] \in Seq(Texts) /\ lines'[s] \in Seq(Texts) /\ sent[t] \in Nat
  BY <1>1 DEF StreamTypeOK
<1>3. /\ Len(got[t]) \in Nat /\ Len(pending[t]) \in Nat /\ Len(lines[s]) \in Nat
      /\ Len(lines'[s]) \in Nat
  BY <1>2, LenProperties
<1>4. Begins(lines[s], lines'[s])
      /\ (status[s] # "running" => lines'[s] = lines[s] /\ status'[s] = status[s])
  BY <1>1 DEF Grows
<1>5. Begins(got[t], lines'[s])
  BY <1>1, <1>2, <1>4, BeginsTransitive DEF PageInv
<1>6. page'[t] \in {"wait", "write"} =>
        /\ sent[t] <= Len(lines'[s]) /\ Len(got[t]) + Len(pending[t]) = sent[t]
        /\ \A i \in 1..Len(pending[t]) : pending[t][i] = lines'[s][Len(got[t]) + i]
  <2>1. SUFFICES ASSUME page'[t] \in {"wait", "write"}
                 PROVE  /\ sent[t] <= Len(lines'[s]) /\ Len(got[t]) + Len(pending[t]) = sent[t]
                        /\ \A i \in 1..Len(pending[t]) : pending[t][i] = lines'[s][Len(got[t]) + i]
    OBVIOUS
  <2>2. /\ sent[t] <= Len(lines[s]) /\ Len(got[t]) + Len(pending[t]) = sent[t]
        /\ \A i \in 1..Len(pending[t]) : pending[t][i] = lines[s][Len(got[t]) + i]
    BY <1>1, <2>1 DEF PageInv
  <2>3. Len(lines[s]) <= Len(lines'[s]) /\ \A i \in 1..Len(lines[s]) : lines[s][i] = lines'[s][i]
    BY <1>4 DEF Begins
  <2>4. ASSUME NEW i \in 1..Len(pending[t]) PROVE pending[t][i] = lines'[s][Len(got[t]) + i]
    <3>1. Len(got[t]) + i \in 1..Len(lines[s])
      BY ONLY <1>2, <1>3, <2>2, Stretch
    <3> QED BY <2>2, <2>3, <3>1
  <2>5. sent[t] <= Len(lines'[s])
    BY ONLY <1>2, <1>3, <2>2, <2>3
  <2> QED BY <2>2, <2>4, <2>5
<1>7. page'[t] = "write" /\ seen'[t] # "running" => status'[s] = seen'[t]
  BY <1>1, <1>4 DEF PageInv
<1>8. page'[t] = "done" => Len(got[t]) = Len(lines'[s]) /\ end[t] # "running" /\ status'[s] = end[t]
  BY <1>1, <1>4 DEF PageInv
<1>9. page'[t] = "wait" => pending'[t] = <<>> BY <1>1 DEF PageInv
<1>10. kind[asks[t]] = "run" => state[t] = asks[t] BY <1>1 DEF PageInv
<1>11. page'[t] \in {"wait", "write"} => sent'[t] = sent[t] /\ pending'[t] = pending[t]
  OBVIOUS
<1> QED BY <1>1, <1>5, <1>6, <1>7, <1>8, <1>9, <1>10, <1>11 DEF PageInv

\* The step of another connection
LEMMA PageUntouched ==
  ASSUME StreamTypeOK, StreamTypeOK', UNCHANGED <<kind, lines, status>>, NEW t \in Streams, PageInv(t),
         UNCHANGED <<asks[t], state[t], got[t], end[t], page[t], sent[t], pending[t], seen[t]>>
  PROVE  PageInv(t)'
<1>1. \A s \in Requests : Begins(lines[s], lines[s]) BY BeginsReflexive DEF StreamTypeOK
<1>2. Grows BY <1>1 DEF Grows
<1> QED BY <1>2, PageGrows

\* One more line is sent of p that are left, after g of them.
LEMMA OneSent ==
  ASSUME NEW g \in Nat, NEW p \in Nat \ {0}, NEW q \in Nat, NEW n \in Nat, g + p = q, q <= n
  PROVE  /\ g + 1 <= n /\ g + 1 + (p - 1) = q
         /\ \A i \in 1..p - 1 : i + 1 \in 1..p /\ g + (i + 1) = g + 1 + i
  OBVIOUS

LEMMA EmptyBegins == ASSUME NEW s \in Seq(Texts) PROVE Begins(<<>>, s)
<1>1. Len(s) \in Nat BY LenProperties
<1>2. Len(<<>>) = 0 BY EmptySeq
<1> QED BY <1>1, <1>2 DEF Begins

\* The locals of a connection are functions
LEMMA Locals ==
  StreamTypeOK => /\ got = [u \in Streams |-> got[u]] /\ end = [u \in Streams |-> end[u]]
                  /\ page = [u \in Streams |-> page[u]] /\ sent = [u \in Streams |-> sent[u]]
                  /\ pending = [u \in Streams |-> pending[u]] /\ seen = [u \in Streams |-> seen[u]]
                  /\ asks = [u \in Streams |-> asks[u]] /\ state = [u \in Streams |-> state[u]]
  BY DEF StreamTypeOK

LEMMA StreamPages ==
  ASSUME StreamTypeOK, StreamTypeOK', \A u \in Streams : PageInv(u),
         NEW t \in Streams, Stream(t) \/ Break(t)
  PROVE  \A u \in Streams : PageInv(u)'
<1> USE DEF StreamTypeOK
<1>1. /\ UNCHANGED <<kind, lines, status, asks, state>>
      /\ page[t] \in {"wait", "write"}
  BY DEF Stream, Wake, WriteLine, CheckEnd, Break, serverVars
<1>2. \A u \in Streams : u # t =>
        UNCHANGED <<got[u], end[u], page[u], sent[u], pending[u], seen[u]>>
  <2> HIDE DEF StreamTypeOK
  <2>1. CASE Wake(t) BY ONLY StreamTypeOK, <2>1, Locals DEF Wake
  <2>2. CASE WriteLine(t) BY ONLY StreamTypeOK, <2>2, Locals DEF WriteLine
  <2>3. CASE CheckEnd(t) BY ONLY StreamTypeOK, <2>3, Locals DEF CheckEnd
  <2>4. CASE Break(t) BY ONLY StreamTypeOK, <2>4, Locals DEF Break
  <2> QED BY <2>1, <2>2, <2>3, <2>4 DEF Stream
<1> DEFINE s == state[t]
<1>3. /\ asks[t] \in Requests /\ s \in Requests /\ (kind[asks[t]] = "run" => s = asks[t])
      /\ Begins(got[t], lines[s])
      /\ sent[t] <= Len(lines[s]) /\ Len(got[t]) + Len(pending[t]) = sent[t]
      /\ \A i \in 1..Len(pending[t]) : pending[t][i] = lines[s][Len(got[t]) + i]
      /\ page[t] = "wait" => pending[t] = <<>>
      /\ page[t] = "write" /\ seen[t] # "running" => status[s] = seen[t]
  BY <1>1 DEF PageInv
<1>4. got[t] \in Seq(Texts) /\ pending[t] \in Seq(Texts) /\ lines[s] \in Seq(Texts) /\ sent[t] \in Nat
  BY <1>3
<1>5. Len(got[t]) \in Nat /\ Len(pending[t]) \in Nat /\ Len(lines[s]) \in Nat
  BY <1>4, LenProperties
<1> HIDE DEF StreamTypeOK
<1>6. ASSUME Wake(t) PROVE PageInv(t)'
  <2>1. /\ page'[t] = "write" /\ sent'[t] = Len(lines[s]) /\ seen'[t] = status[s]
        /\ pending'[t] = SubSeq(lines[s], sent[t] + 1, Len(lines[s]))
        /\ got' = got /\ end' = end /\ pending[t] = <<>>
    <3>1. pending[t] = <<>> BY <1>3, <1>6 DEF Wake
    <3> QED BY ONLY <1>6, <3>1, StreamTypeOK, Locals DEF Wake
  <2>2. Len(got[t]) = sent[t] BY <1>3, <1>4, <1>5, <2>1
  <2>3. \A i \in sent[t] + 1..Len(lines[s]) : lines[s][i] \in Texts
    BY <1>4, <1>5, LenProperties
  <2>4. sent[t] + 1 \in Int /\ Len(lines[s]) \in Int BY <1>4, <1>5
  <2>5. /\ Len(pending'[t]) = IF sent[t] + 1 <= Len(lines[s]) THEN Len(lines[s]) - (sent[t] + 1) + 1 ELSE 0
        /\ \A i \in 1..Len(lines[s]) - (sent[t] + 1) + 1 :
             pending'[t][i] = lines[s][sent[t] + 1 + i - 1]
    BY <2>1, <2>3, <2>4, SubSeqProperties
  <2>6. Len(pending'[t]) = Len(lines[s]) - sent[t]
    BY ONLY <1>3, <1>4, <1>5, <2>5
  <2>7. ASSUME NEW i \in 1..Len(pending'[t]) PROVE pending'[t][i] = lines[s][Len(got[t]) + i]
    <3>1. i \in 1..Len(lines[s]) - (sent[t] + 1) + 1 /\ sent[t] + 1 + i - 1 = sent[t] + i
      BY ONLY <1>4, <1>5, <2>6, <2>7
    <3> QED BY <2>2, <2>5, <3>1
  <2>8. Len(got[t]) + Len(pending'[t]) = Len(lines[s]) /\ Len(lines[s]) <= Len(lines[s])
    BY ONLY <1>4, <1>5, <2>2, <2>6
  <2> QED BY <1>1, <1>3, <2>1, <2>7, <2>8 DEF PageInv
<1>7. ASSUME WriteLine(t) PROVE PageInv(t)'
  <2>1. /\ page'[t] = "write" /\ UNCHANGED <<sent, seen, end>> /\ page[t] = "write"
        /\ pending[t] # <<>> /\ pending'[t] = Tail(pending[t])
        /\ got'[t] = Append(got[t], Head(pending[t]))
    BY ONLY <1>7, StreamTypeOK, Locals DEF WriteLine
  <2>2. /\ Head(pending[t]) \in Texts /\ Tail(pending[t]) \in Seq(Texts)
        /\ Len(Tail(pending[t])) = Len(pending[t]) - 1
        /\ \A i \in 1..Len(Tail(pending[t])) : Tail(pending[t])[i] = pending[t][i + 1]
        /\ Len(pending[t]) \in Nat \ {0}
    BY <1>4, <2>1, HeadTailProperties, EmptySeq
  <2>3. Head(pending[t]) = pending[t][1] BY <1>4, <2>1
  <2>4. /\ Len(got'[t]) = Len(got[t]) + 1 /\ got'[t][Len(got[t]) + 1] = Head(pending[t])
        /\ \A i \in 1..Len(got[t]) : got'[t][i] = got[t][i]
    BY <1>4, <2>1, <2>2, AppendProperties
  <2>10. /\ Len(got[t]) + 1 <= Len(lines[s]) /\ Len(got[t]) + 1 + (Len(pending[t]) - 1) = sent[t]
         /\ \A i \in 1..Len(pending[t]) - 1 :
              i + 1 \in 1..Len(pending[t]) /\ Len(got[t]) + (i + 1) = Len(got[t]) + 1 + i
    <3>1. Len(got[t]) + Len(pending[t]) = sent[t] /\ sent[t] <= Len(lines[s]) BY <1>3
    <3>2. Len(pending[t]) \in Nat \ {0} BY <2>2
    <3> QED BY ONLY <1>4, <1>5, <3>1, <3>2, OneSent
  <2>5. got'[t][Len(got[t]) + 1] = lines[s][Len(got[t]) + 1]
    <3>1. 1 \in 1..Len(pending[t]) BY ONLY <2>2
    <3> QED BY <1>3, <2>3, <2>4, <3>1
  <2>6. \A i \in 1..Len(got[t]) : got'[t][i] = lines[s][i]
    BY <1>3, <2>4 DEF Begins
  <2>7. Begins(got'[t], lines[s])
    <3>1. Len(got'[t]) <= Len(lines[s]) BY <2>4, <2>10, Zenon
    <3>2. \A i \in 1..Len(got'[t]) : i \in 1..Len(got[t]) \/ i = Len(got[t]) + 1
      BY ONLY <1>5, <2>4
    <3> QED BY <2>5, <2>6, <3>1, <3>2 DEF Begins
  <2>8. Len(got'[t]) + Len(pending'[t]) = sent[t]
    BY <2>1, <2>2, <2>4, <2>10, Zenon
  <2>9. ASSUME NEW i \in 1..Len(pending'[t]) PROVE pending'[t][i] = lines[s][Len(got'[t]) + i]
    <3>1. i \in 1..Len(Tail(pending[t])) BY <2>1, <2>9
    <3>2. i + 1 \in 1..Len(pending[t]) /\ Len(got[t]) + (i + 1) = Len(got'[t]) + i
      BY <2>2, <2>4, <2>10, <3>1, Zenon
    <3> QED BY <1>3, <2>1, <2>2, <3>1, <3>2
  <2> QED BY <1>1, <1>3, <2>1, <2>7, <2>8, <2>9 DEF PageInv
<1>8. ASSUME CheckEnd(t) PROVE PageInv(t)'
  <2>1. UNCHANGED <<sent, pending, seen, got>> /\ page[t] = "write" /\ pending[t] = <<>>
    BY <1>8 DEF CheckEnd
  <2>2. Len(got[t]) = sent[t] BY <1>3, <1>4, <1>5, <2>1
  <2>3. CASE Ended(t)
    <3>1. page'[t] = "done" /\ end'[t] = seen[t] BY ONLY <1>8, <2>3, StreamTypeOK, Locals DEF CheckEnd
    <3>2. seen[t] # "running" /\ sent[t] >= Len(lines[s]) BY <2>3 DEF Ended
    <3>3. Len(got[t]) = Len(lines[s]) BY <1>3, <1>4, <1>5, <2>2, <3>2
    <3> QED BY <1>1, <1>3, <2>1, <3>1, <3>2, <3>3 DEF PageInv
  <2>4. CASE ~Ended(t)
    <3>1. page'[t] = "wait" /\ end' = end BY ONLY <1>8, <2>4, StreamTypeOK, Locals DEF CheckEnd
    <3> QED BY <1>1, <1>3, <2>1, <3>1 DEF PageInv
  <2> QED BY <2>3, <2>4
<1>9. ASSUME Break(t) PROVE PageInv(t)'
  <2>1. page'[t] = "broken" /\ got' = got BY ONLY <1>9, StreamTypeOK, Locals DEF Break
  <2> QED BY <1>1, <1>3, <2>1 DEF PageInv
<1>10. PageInv(t)' BY <1>6, <1>7, <1>8, <1>9 DEF Stream
<1>11. \A u \in Streams : u # t => PageInv(u)' BY <1>1, <1>2, PageUntouched
<1> QED BY <1>10, <1>11

\* The registry has the RunState of the run itself, or none.
LEMMA ConnectPages ==
  ASSUME StreamTypeOK, StreamTypeOK', OwnerInv, \A u \in Streams : PageInv(u),
         NEW t \in Streams, NEW r \in Requests, Connect(t, r)
  PROVE  \A u \in Streams : PageInv(u)'
<1>1. UNCHANGED <<kind, lines, status, seen>> /\ handler[r] = "answered"
  BY DEF Connect, serverVars
<1>2. \A u \in Streams : u # t =>
        UNCHANGED <<asks[u], state[u], got[u], end[u], page[u], sent[u], pending[u], seen[u]>>
  BY ONLY StreamTypeOK, Connect(t, r), Locals DEF Connect
<1> DEFINE s == registry[kind[r]][key[r]]
<1>3. /\ asks'[t] = r /\ state'[t] = (IF s = NoState THEN r ELSE s)
      /\ page'[t] = (IF s = NoState THEN "not found" ELSE "wait")
      /\ sent'[t] = 0 /\ pending'[t] = <<>> /\ got'[t] = <<>>
  BY ONLY StreamTypeOK, Connect(t, r), Locals DEF Connect
<1>4. kind[r] \in Kinds /\ key[r] \in Keys BY DEF StreamTypeOK
<1>5. s \in Requests \cup {NoState}
  <2>1. registry[kind[r]] \in [Keys -> Requests \cup {NoState}] BY <1>4 DEF StreamTypeOK
  <2> QED BY <1>4, <2>1
<1>6. kind[r] = "run" => state'[t] = r
  <2>1. SUFFICES ASSUME kind[r] = "run", s # NoState PROVE s = r
    BY <1>3
  <2>2. Owns(r) BY <1>1, <2>1 DEF Owns
  <2>3. s = registry["run"][key[r]] /\ s \in Requests BY <1>5, <2>1
  <2>4. Owns(s) /\ key[s] = key[r] BY <1>4, <2>1, <2>3 DEF OwnerInv
  <2> QED BY <2>2, <2>3, <2>4 DEF OwnerInv
<1>7. state'[t] \in Requests BY <1>3, <1>5
<1>8. lines[state'[t]] \in Seq(Texts) BY <1>7 DEF StreamTypeOK
<1>9. Begins(got'[t], lines[state'[t]]) /\ Len(got'[t]) = 0 /\ 0 <= Len(lines[state'[t]])
  <2>1. Len(<<>>) = 0 /\ Len(lines[state'[t]]) \in Nat BY <1>8, EmptySeq, LenProperties
  <2>2. Begins(<<>>, lines[state'[t]]) BY <1>8, EmptyBegins
  <2>3. got'[t] = <<>> BY <1>3
  <2>4. Begins(got'[t], lines[state'[t]]) BY ONLY <2>2, <2>3
  <2>5. 0 <= Len(lines[state'[t]]) BY ONLY <2>1
  <2> QED BY ONLY <2>1, <2>3, <2>4, <2>5
<1>10. Len(pending'[t]) = 0 BY <1>3
<1>11. PageInv(t)'
  <2>1. r \in Requests /\ page'[t] \in {"not found", "wait"} BY <1>3
  <2>2. \A i \in 1..Len(pending'[t]) : FALSE BY <1>10
  <2>3. Len(got'[t]) + Len(pending'[t]) = sent'[t] /\ sent'[t] <= Len(lines[state'[t]])
    <3>1. sent'[t] = 0 BY <1>3
    <3> QED BY ONLY <1>9, <1>10, <3>1
  <2> QED BY <1>1, <1>3, <1>6, <1>7, <1>9, <2>1, <2>2, <2>3 DEF PageInv
<1>12. \A u \in Streams : u # t => PageInv(u)' BY <1>1, <1>2, PageUntouched
<1> QED BY <1>11, <1>12

-----------------------------------------------------------------------------
(* The invariant holds, and what it gives. *)

LEMMA StreamInitially == Init => StreamInv
<1> SUFFICES ASSUME Init PROVE StreamInv
  OBVIOUS
<1>1. StreamTypeOK BY StreamTypeInitially
<1>2. \A r \in Requests : /\ handler[r] = "new" /\ worker[r] = "none" /\ hand[r] = <<>>
                          /\ status[r] = "running" /\ lines[r] = <<>> /\ log[r] = <<>>
  BY DEF Init
<1>3. OwnerInv
  <2>1. \A r \in Requests : ~Owns(r) BY <1>2 DEF Owns
  <2>2. \A k \in Keys : registry["run"][k] = NoState BY DEF Init, Kinds
  <2> QED BY <2>1, <2>2 DEF OwnerInv
<1>4. \A r \in Requests : RunInv(r) BY <1>2 DEF RunInv, Logged
<1>5. \A t \in Streams : PageInv(t)
  <2>1. \A t \in Streams : page[t] = "closed" BY DEF Init
  <2> QED BY <2>1 DEF PageInv
<1> QED BY <1>1, <1>3, <1>4, <1>5 DEF StreamInv

LEMMA StreamStep == StreamInv /\ [Next]_everyVars => StreamInv'
<1> SUFFICES ASSUME StreamInv, [Next]_everyVars PROVE StreamInv'
  OBVIOUS
<1>0. StreamTypeOK /\ OwnerInv /\ (\A s \in Requests : RunInv(s)) /\ (\A u \in Streams : PageInv(u))
  BY DEF StreamInv
<1>1. ASSUME NEW r \in Requests, Handle(r) PROVE StreamInv'
  <2>1. StreamTypeOK' BY <1>0, <1>1, HandleTypes
  <2>2. OwnerInv' BY <1>0, <1>1, OwnerStep
  <2>3. (\A s \in Requests : RunInv(s)') /\ Grows BY <1>0, <1>1, HandleRuns
  <2>4. UNCHANGED <<kind, streamVars>>
    BY <1>1 DEF Handle, CheckDir, MakeDirs, Register, StartThread
  <2>5. \A u \in Streams : PageInv(u)'
    BY <1>0, <2>1, <2>3, <2>4, PageGrows DEF streamVars
  <2> QED BY <2>1, <2>2, <2>3, <2>5 DEF StreamInv
<1>2. ASSUME NEW r \in Requests, Work(r) PROVE StreamInv'
  <2>1. StreamTypeOK' BY <1>0, <1>2, WorkTypes
  <2>2. (\A s \in Requests : RunInv(s)') /\ Grows BY <1>0, <1>2, WorkRuns
  <2>3. UNCHANGED <<kind, streamVars>> /\ UNCHANGED <<dirs, handler, key, registry>>
    BY <1>2 DEF Work, WriteLog, AppendLine, BeginStage, Launched, LaunchFails, Output, Undecoded,
                Exited, Finish, Goes, files, serverVars
  <2>4. OwnerInv' BY <1>0, <2>3, OwnersStay DEF Owns
  <2>5. \A u \in Streams : PageInv(u)'
    BY <1>0, <2>1, <2>2, <2>3, PageGrows DEF streamVars
  <2> QED BY <2>1, <2>2, <2>4, <2>5 DEF StreamInv
<1>3. ASSUME NEW t \in Streams, (\E r \in Requests : Connect(t, r)) \/ Stream(t) \/ Break(t)
      PROVE  StreamInv'
  <2>1. UNCHANGED <<files, serverVars, workerVars>>
    BY <1>3 DEF Connect, Stream, Wake, WriteLine, CheckEnd, Break
  <2>2. UNCHANGED <<dirs, log, registry, handler, kind, key, lines, status, worker, hand, ok>>
    BY <2>1 DEF files, serverVars, workerVars
  <2>3. OwnerInv' BY <1>0, <2>2, OwnersStay DEF Owns
  <2>4. \A s \in Requests : RunInv(s)' BY <1>0, <2>2, RunUntouched
  <2>5. StreamTypeOK' /\ \A u \in Streams : PageInv(u)'
    <3>1. CASE Stream(t) \/ Break(t)
      <4>1. StreamTypeOK' BY <1>0, <3>1, StreamTypes
      <4> QED BY <1>0, <3>1, <4>1, StreamPages
    <3>2. CASE \E r \in Requests : Connect(t, r)
      <4>1. PICK r \in Requests : Connect(t, r) BY <3>2
      <4>2. StreamTypeOK' BY <1>0, <4>1, ConnectTypes
      <4> QED BY <1>0, <4>1, <4>2, ConnectPages
    <3> QED BY <1>3, <3>1, <3>2
  <2> QED BY <2>3, <2>4, <2>5 DEF StreamInv
<1>4. CASE Restart
  <2>1. StreamTypeOK' BY <1>0, <1>4, RestartTypes
  <2>2. OwnerInv' BY <1>0, <1>4, RestartOwners
  <2>3. (\A s \in Requests : RunInv(s)') /\ Grows BY <1>0, <1>4, RestartRuns
  <2>4. UNCHANGED <<kind, asks, state, got, end>> BY <1>4 DEF Restart
  <2>5. \A u \in Streams : \/ page'[u] = page[u] /\ page[u] \notin {"wait", "write"}
                           \/ page'[u] = "broken" /\ page[u] # "closed"
    BY <1>4 DEF Restart
  <2>6. \A u \in Streams : PageInv(u)' BY <1>0, <2>1, <2>3, <2>4, <2>5, PageGrows
  <2> QED BY <2>1, <2>2, <2>3, <2>6 DEF StreamInv
<1>5. CASE UNCHANGED everyVars
  <2>1. UNCHANGED <<dirs, registry, handler, kind, key, log, lines, hand, status, worker, ok>>
    BY <1>5 DEF everyVars, files, serverVars, workerVars
  <2>2. UNCHANGED <<asks, state, got, end, page, sent, pending, seen>>
    BY <1>5 DEF everyVars, streamVars
  <2>3. StreamTypeOK'
    BY <1>0, <1>5, <2>1, <2>2 DEF everyVars, workerVars, StreamTypeOK
  <2>4. OwnerInv' BY <1>0, <2>1, OwnersStay DEF Owns
  <2>5. \A s \in Requests : RunInv(s)' BY <1>0, <2>1, RunUntouched
  <2>6. \A u \in Streams : PageInv(u)' BY <1>0, <2>1, <2>2, <2>3, PageUntouched
  <2> QED BY <2>3, <2>4, <2>5, <2>6 DEF StreamInv
<1> QED BY <1>1, <1>2, <1>3, <1>4, <1>5 DEF Next

LEMMA Whole == StreamInv => StreamedWhole
<1> SUFFICES ASSUME StreamInv, NEW t \in Streams, page[t] # "closed"
             PROVE  /\ IsPrefix(got[t], lines[state[t]])
                    /\ kind[asks[t]] = "run" => state[t] = asks[t] /\ IsPrefix(got[t], log[asks[t]])
                    /\ page[t] = "done" =>
                         /\ got[t] = lines[state[t]]
                         /\ end[t] = (IF ok[state[t]] THEN "done" ELSE "error")
                         /\ worker[state[t]] \in {"none", "ended"}
  BY DEF StreamedWhole
<1>1. PageInv(t) /\ StreamTypeOK /\ state[t] \in Requests /\ asks[t] \in Requests
  BY DEF StreamInv, PageInv
<1>2. /\ got[t] \in Seq(Texts) /\ lines[state[t]] \in Seq(Texts) /\ log[asks[t]] \in Seq(Texts)
      /\ hand[asks[t]] \in Seq(Texts) /\ lines[asks[t]] \in Seq(Texts)
  BY <1>1 DEF StreamTypeOK
<1>3. Begins(got[t], lines[state[t]]) BY <1>1 DEF PageInv
<1>4. IsPrefix(got[t], lines[state[t]]) BY <1>2, <1>3, BeginsIsPrefix
<1>5. ASSUME kind[asks[t]] = "run" PROVE state[t] = asks[t] /\ IsPrefix(got[t], log[asks[t]])
  <2>1. state[t] = asks[t] BY <1>1, <1>5 DEF PageInv
  <2>2. Logged(asks[t]) BY <1>1, <1>5 DEF StreamInv, RunInv
  <2>3. Begins(lines[asks[t]], log[asks[t]])
    <3>1. CASE log[asks[t]] = lines[asks[t]] BY <1>2, <3>1, BeginsReflexive
    <3>2. CASE hand[asks[t]] # <<>> /\ log[asks[t]] = Append(lines[asks[t]], Head(hand[asks[t]]))
      <4>1. Head(hand[asks[t]]) \in Texts BY <1>2, <3>2, HeadTailProperties
      <4> QED BY <1>2, <3>2, <4>1, BeginsAppend
    <3> QED BY <2>2, <3>1, <3>2 DEF Logged
  <2>4. Begins(got[t], lines[asks[t]]) BY <1>3, <2>1
  <2>5. Begins(got[t], log[asks[t]]) BY <1>2, <2>3, <2>4, BeginsTransitive
  <2>6. IsPrefix(got[t], log[asks[t]]) BY <1>2, <2>5, BeginsIsPrefix
  <2> QED BY <2>1, <2>6
<1>6. ASSUME page[t] = "done"
      PROVE  /\ got[t] = lines[state[t]]
             /\ end[t] = (IF ok[state[t]] THEN "done" ELSE "error")
             /\ worker[state[t]] \in {"none", "ended"}
  <2>1. Len(got[t]) = Len(lines[state[t]]) /\ end[t] # "running" /\ status[state[t]] = end[t]
    BY <1>1, <1>6 DEF PageInv
  <2>2. got[t] = lines[state[t]] BY <1>2, <1>3, <2>1, BeginsWhole
  <2>3. RunInv(state[t]) BY <1>1 DEF StreamInv
  <2> QED BY <2>1, <2>2, <2>3 DEF RunInv
<1> QED BY <1>4, <1>5, <1>6

(* Every variable of the server keeps its type: a thread is at one of its       *)
(* statements, a connection has sent a number of lines, and all lines, in the   *)
(* log, in the RunState or on their way, are of the kinds that are emitted.     *)
THEOREM StreamTypeCorrect == Spec => []StreamTypeOK
<1>1. StreamInv => StreamTypeOK BY DEF StreamInv
<1> QED BY <1>1, StreamInitially, StreamStep, PTL DEF Spec

(* What a browser is sent is the log of its own run, each line once and in      *)
(* order, and at the end all of it with the run's own outcome - for any number  *)
(* of requests, of connections that break and come back, of names that are      *)
(* wanted twice, and of kills of the server.                                    *)
THEOREM StreamsAreWhole == Spec => []StreamedWhole
<1> QED BY StreamInitially, StreamStep, Whole, PTL DEF Spec

-----------------------------------------------------------------------------
(***************************************************************************)
(* What JobQueue promises for any jobs, runners, requeuers and bounds.     *)
(***************************************************************************)

USE DEF States, Verdicts, Documents, Contents

-----------------------------------------------------------------------------
(* Types. *)

LEMMA RunTypes ==
  ASSUME QueueTypeOK, NEW r \in Runners, RunStep(r) \/ KillRunner(r)
  PROVE  QueueTypeOK'
<1> USE QueueAssumption DEF queueVars, requeueVars, Goto
<1>1. CASE List(r)
  <2>1. \A c \in Candidates : c \in SUBSET Jobs  BY DEF Candidates, Oldest, Pending
  <2> QED BY <1>1, <2>1, SMTT(30) DEF List, QueueTypeOK
<1>2. CASE Claim(r)
  <2>1. PICK j \in todo[r] :
          /\ todo' = [todo EXCEPT ![r] = @ \ {j}]
          /\ IF Exists("pending", j)
             THEN /\ Rename("pending", "running", j)
                  /\ cur' = [cur EXCEPT ![r] = j]
                  /\ Goto(r, "load")
             ELSE UNCHANGED <<file, cur, pc>>
    BY <1>2 DEF Claim
  <2>2. j \in Jobs  BY DEF QueueTypeOK
  <2>3. CASE Exists("pending", j)
    <3>1. /\ Rename("pending", "running", j)
          /\ cur' = [cur EXCEPT ![r] = j] /\ pc' = [pc EXCEPT ![r] = "load"]
          /\ UNCHANGED <<tmp, verdict, rundirs, execs, requeueVars, queued>>
      BY <1>2, <2>1, <2>3 DEF Claim
    <3>2. file["pending"][j] \in Contents  BY <2>2 DEF QueueTypeOK
    <3>3. file' \in [States -> [Jobs -> Contents]]
      BY <2>2, <3>1, <3>2 DEF Rename, QueueTypeOK
    <3>4. todo' \in [Runners -> SUBSET Jobs]  BY <2>1 DEF QueueTypeOK
    <3>5. /\ pc' \in [Runners -> {"idle", "claim", "load", "mkdir", "execute", "save",
                                  "replace", "move"}]
          /\ cur' \in [Runners -> Jobs \cup {NoJob}]
          /\ \A x \in Runners : cur'[x] = NoJob <=> pc'[x] \in {"idle", "claim"}
      BY <2>2, <3>1 DEF QueueTypeOK
    <3> QED BY <3>1, <3>3, <3>4, <3>5 DEF QueueTypeOK, requeueVars
  <2>4. CASE ~Exists("pending", j)  BY <1>2, <2>1, <2>2, <2>4 DEF Claim, QueueTypeOK
  <2> QED BY <2>3, <2>4
<1>3. CASE RunDone(r)  BY <1>3 DEF RunDone, QueueTypeOK
<1>4. CASE Load(r)  BY <1>4, SMTT(30) DEF Load, Die, QueueTypeOK
<1>5. CASE MakeRunDir(r)
  <2>1. cur[r] \in Jobs  BY <1>5 DEF MakeRunDir, QueueTypeOK
  <2>2. RunId[cur[r]] \in RunIds \cup {NoId}  BY <2>1
  <2>3. CASE RunDirTaken(cur[r])  BY <1>5, <2>3, SMTT(30) DEF MakeRunDir, Die, QueueTypeOK
  <2>4. CASE ~RunDirTaken(cur[r])
    <3>1. /\ pc[r] = "mkdir" /\ pc' = [pc EXCEPT ![r] = "execute"]
          /\ rundirs' = rundirs \cup ({RunId[cur[r]]} \ {NoId})
          /\ execs' = [execs EXCEPT ![cur[r]] = @ + 1]
          /\ UNCHANGED <<todo, cur, verdict, file, tmp, requeueVars, queued>>
      BY <1>5, <2>4 DEF MakeRunDir
    <3>2. execs' \in [Jobs -> Nat]
      <4>1. execs \in [Jobs -> Nat]  BY DEF QueueTypeOK
      <4>2. execs[cur[r]] + 1 \in Nat  BY ONLY <2>1, <4>1
      <4> QED BY ONLY <2>1, <3>1, <4>1, <4>2
    <3>3. rundirs' \subseteq RunIds
      <4>1. rundirs \subseteq RunIds  BY DEF QueueTypeOK
      <4> QED BY ONLY <2>2, <3>1, <4>1
    <3>4. /\ pc' \in [Runners -> {"idle", "claim", "load", "mkdir", "execute", "save",
                                  "replace", "move"}]
          /\ \A x \in Runners : cur'[x] = NoJob <=> pc'[x] \in {"idle", "claim"}
      BY <3>1 DEF QueueTypeOK
    <3> QED BY <3>1, <3>2, <3>3, <3>4 DEF QueueTypeOK, requeueVars
  <2> QED BY <2>3, <2>4
<1>6. CASE Execute(r)  BY <1>6 DEF Execute, QueueTypeOK
<1>7. CASE SaveResult(r)  BY <1>7 DEF SaveResult, WriteTmp, QueueTypeOK
<1>8. CASE ReplaceResult(r)
  <2>1. cur[r] \in Jobs  BY <1>8 DEF ReplaceResult, QueueTypeOK
  <2> QED BY <1>8, <2>1, SMTT(30) DEF ReplaceResult, ReplaceByTmp, Die, QueueTypeOK
<1>9. CASE MoveResult(r)
  <2>1. cur[r] \in Jobs  BY <1>9 DEF MoveResult, QueueTypeOK
  <2>2. CASE ~Exists("running", cur[r])  BY <1>9, <2>1, <2>2 DEF MoveResult, Die, QueueTypeOK
  <2>3. CASE Exists("running", cur[r])
    <3>1. /\ Rename("running", verdict[r], cur[r])
          /\ Goto(r, "claim") /\ cur' = [cur EXCEPT ![r] = NoJob]
          /\ UNCHANGED <<tmp, todo, verdict, rundirs, execs, requeueVars, queued>>
      BY <1>9, <2>3 DEF MoveResult
    <3>2. verdict[r] \in States /\ file["running"][cur[r]] \in Contents
      BY <2>1 DEF QueueTypeOK
    <3>3. file' \in [States -> [Jobs -> Contents]]
      <4>1. file \in [States -> [Jobs -> Contents]] /\ "running" \in States
        BY DEF QueueTypeOK
      <4>2. "absent" \in Contents  OBVIOUS
      <4> QED BY ONLY <2>1, <3>1, <3>2, <4>1, <4>2 DEF Rename
    <3>4. /\ pc' \in [Runners -> {"idle", "claim", "load", "mkdir", "execute", "save",
                                  "replace", "move"}]
          /\ cur' \in [Runners -> Jobs \cup {NoJob}]
          /\ \A x \in Runners : cur'[x] = NoJob <=> pc'[x] \in {"idle", "claim"}
      BY <3>1 DEF QueueTypeOK
    <3> QED BY <3>1, <3>3, <3>4 DEF QueueTypeOK, requeueVars
  <2> QED BY <2>2, <2>3
<1>10. CASE KillRunner(r)  BY <1>10 DEF KillRunner, Die, QueueTypeOK
<1> QED BY <1>1, <1>2, <1>3, <1>4, <1>5, <1>6, <1>7, <1>8, <1>9, <1>10 DEF RunStep

LEMMA RequeueTypes ==
  ASSUME QueueTypeOK, NEW q \in Requeuers, RequeueStep(q) \/ KillRequeuer(q)
  PROVE  QueueTypeOK'
<1> USE QueueAssumption DEF queueVars, runVars, QGoto
<1>1. CASE Find(q)  BY <1>1 DEF Find, QueueTypeOK
<1>2. CASE QLoad(q)  BY <1>2 DEF QLoad, QDie, QueueTypeOK
<1>3. CASE QSave(q)  BY <1>3 DEF QSave, WriteTmp, QueueTypeOK
<1>4. CASE QReplace(q)
  <2>1. qjob[q] \in Jobs /\ qdir[q] \in States  BY <1>4 DEF QReplace, QueueTypeOK
  <2>2. CASE tmp[qdir[q]][qjob[q]] = "absent"  BY <1>4, <2>1, <2>2 DEF QReplace, QDie, QueueTypeOK
  <2>3. CASE tmp[qdir[q]][qjob[q]] # "absent"
    <3>1. ReplaceByTmp(qdir[q], qjob[q])  BY <1>4, <2>3 DEF QReplace
    <3>2. tmp[qdir[q]][qjob[q]] \in Documents  BY <2>1, <2>3 DEF QueueTypeOK
    <3>3. /\ file' \in [States -> [Jobs -> Contents]]
          /\ tmp' \in [States -> [Jobs -> {"absent"} \cup Documents]]
      BY <2>1, <3>1, <3>2 DEF ReplaceByTmp, QueueTypeOK
    <3>4. QGoto(q, "move") /\ UNCHANGED <<qjob, qdir, requeued, runVars, queued>>
      BY <1>4, <2>3 DEF QReplace
    <3> QED BY <2>1, <3>3, <3>4, <1>4 DEF QReplace, QueueTypeOK
  <2> QED BY <2>2, <2>3
<1>5. CASE QMove(q)
  <2>1. qjob[q] \in Jobs /\ qdir[q] \in States  BY <1>5 DEF QMove, QueueTypeOK
  <2>2. CASE ~Exists(qdir[q], qjob[q])  BY <1>5, <2>1, <2>2 DEF QMove, QDie, QueueTypeOK
  <2>3. CASE Exists(qdir[q], qjob[q])
    <3>1. Rename(qdir[q], "pending", qjob[q])  BY <1>5, <2>3 DEF QMove
    <3>2. file[qdir[q]][qjob[q]] \in Contents  BY <2>1 DEF QueueTypeOK
    <3> DEFINE s == qdir[q]  j == qjob[q]  c == file[s][j]
    <3>a. file' = [file EXCEPT ![s][j] = "absent", !["pending"][j] = c]  BY <3>1 DEF Rename
    <3>b. s \in States /\ j \in Jobs /\ c \in Contents  BY <2>1, <3>2
    <3>3. file' \in [States -> [Jobs -> Contents]]
      <4> HIDE DEF s, j, c
      <4> QED BY <3>a, <3>b DEF QueueTypeOK
    <3>4. requeued' = [requeued EXCEPT ![qjob[q]] = @ + 1]
      BY <1>5, <2>3 DEF QMove
    <3>c. requeued[j] + 1 \in Nat
      <4>1. requeued \in [Jobs -> Nat]  BY DEF QueueTypeOK
      <4>2. requeued[j] \in Nat  BY <3>b, <4>1
      <4> HIDE DEF j
      <4> QED BY <4>2
    <3>d. requeued' \in [Jobs -> Nat]
      <4>1. requeued' = [requeued EXCEPT ![j] = requeued[j] + 1]  BY <3>4
      <4> HIDE DEF j
      <4> QED BY <3>b, <3>c, <4>1 DEF QueueTypeOK
    <3>5. requeued' \in [Jobs -> Nat]  BY <3>d, <3>4 DEF QueueTypeOK
    <3>6. QDie(q) /\ UNCHANGED <<tmp, runVars, queued>>  BY <1>5 DEF QMove
    <3> QED BY <2>1, <3>3, <3>5, <3>6 DEF QDie, QueueTypeOK
  <2> QED BY <2>2, <2>3
<1>6. CASE KillRequeuer(q)  BY <1>6 DEF KillRequeuer, QDie, QueueTypeOK
<1> QED BY <1>1, <1>2, <1>3, <1>4, <1>5, <1>6 DEF RequeueStep

LEMMA InitTypes == QueueInit => QueueTypeOK
BY QueueAssumption DEF QueueInit, QueueTypeOK

LEMMA NextTypes == QueueTypeOK /\ [QueueNext]_vars => QueueTypeOK'
<1> SUFFICES ASSUME QueueTypeOK, [QueueNext]_vars PROVE QueueTypeOK'  OBVIOUS
<1>1. CASE UNCHANGED vars
  BY <1>1 DEF vars, queueVars, runVars, requeueVars, QueueTypeOK
<1>2. ASSUME NEW j \in Jobs, Add(j) \/ ServerOpen(j) PROVE QueueTypeOK'
  BY <1>2 DEF Add, ServerOpen, runVars, requeueVars, QueueTypeOK
<1>3. ASSUME NEW s \in States, NEW j \in Jobs, ServerWrite(s, j) PROVE QueueTypeOK'
  BY <1>3 DEF ServerWrite, runVars, requeueVars, QueueTypeOK
<1> QED BY <1>1, <1>2, <1>3, RunTypes, RequeueTypes DEF QueueNext

\* The variables keep their types, and a process has a job exactly while it is
\* at a step that works on one.
THEOREM QueueTypeCorrect == QueueSpec => []QueueTypeOK
BY InitTypes, NextTypes, PTL DEF QueueSpec

-----------------------------------------------------------------------------
(* A job with an explicit run_id runs into its directory once.             *)

\* The directory of every execution exists, so no second one is let through.
DirInv ==
  \A j \in Jobs : RunId[j] # NoId =>
    /\ execs[j] <= 1
    /\ execs[j] > 0 =>
         /\ RunId[j] \in rundirs
         /\ \A k \in Jobs : RunId[k] = RunId[j] /\ execs[k] > 0 => k = j

LEMMA DirStep ==
  ASSUME QueueTypeOK, DirInv, [QueueNext]_vars
  PROVE  DirInv'
<1>1. CASE UNCHANGED <<rundirs, execs>>  BY <1>1 DEF DirInv
<1>2. ASSUME NEW r \in Runners, MakeRunDir(r), ~RunDirTaken(cur[r])  PROVE DirInv'
  <2> DEFINE j == cur[r]
  <2>1. j \in Jobs  BY <1>2 DEF MakeRunDir, QueueTypeOK
  <2>2. execs' = [execs EXCEPT ![j] = @ + 1] /\ rundirs' = rundirs \cup ({RunId[j]} \ {NoId})
    BY <1>2 DEF MakeRunDir
  <2>3. RunId[j] \notin rundirs  BY <1>2 DEF RunDirTaken
  <2>4. execs \in [Jobs -> Nat]  BY DEF QueueTypeOK
  <2> HIDE DEF j
  <2>5. \A k \in Jobs : execs'[k] = IF k = j THEN execs[j] + 1 ELSE execs[k]  BY <2>1, <2>2, <2>4
  <2>6. RunId[j] # NoId => \A k \in Jobs : RunId[k] = RunId[j] => execs[k] = 0
    BY <2>3, <2>4 DEF DirInv
  <2> QED BY <2>1, <2>2, <2>4, <2>5, <2>6 DEF DirInv
<1>3. \A r \in Runners : RunStep(r) \/ KillRunner(r) =>
        UNCHANGED <<rundirs, execs>> \/ (MakeRunDir(r) /\ ~RunDirTaken(cur[r]))
  BY DEF RunStep, KillRunner, List, Claim, RunDone, Load, MakeRunDir, Execute, SaveResult,
         ReplaceResult, MoveResult
<1>4. \A q \in Requeuers : RequeueStep(q) \/ KillRequeuer(q) => UNCHANGED <<rundirs, execs>>
  BY DEF RequeueStep, KillRequeuer, Find, QLoad, QSave, QReplace, QMove, runVars
<1>5. \A j \in Jobs : Add(j) \/ ServerOpen(j) => UNCHANGED <<rundirs, execs>>
  BY DEF Add, ServerOpen, runVars
<1>6. \A s \in States, j \in Jobs : ServerWrite(s, j) => UNCHANGED <<rundirs, execs>>
  BY DEF ServerWrite, runVars
<1>7. UNCHANGED vars => UNCHANGED <<rundirs, execs>>  BY DEF vars, runVars
<1> QED BY <1>1, <1>2, <1>3, <1>4, <1>5, <1>6, <1>7 DEF QueueNext

\* No two executions ever share a run directory, however many runners test and
\* make it at once and however often its job is put back.
THEOREM RunsApart == QueueSpec => []OneRunPerDir
<1>1. QueueInit => DirInv  BY DEF QueueInit, DirInv
<1>2. QueueTypeOK /\ DirInv => OneRunPerDir
  <2> SUFFICES ASSUME QueueTypeOK, DirInv, NEW j \in Jobs, NEW k \in Jobs,
                      RunId[j] = RunId[k], RunId[j] # NoId, execs[j] > 0, execs[k] > 0
               PROVE  j = k /\ execs[j] = 1
    BY DEF OneRunPerDir
  <2>1. execs[j] \in Nat  BY DEF QueueTypeOK
  <2> QED BY <2>1 DEF DirInv
<1> QED BY <1>1, <1>2, DirStep, QueueTypeCorrect, PTL DEF QueueSpec

-----------------------------------------------------------------------------
(* One file, one runner per job, as long as a running job is put back only  *)
(* when its runner is gone, and by one person at a time.                    *)

\* What a runner or a requeuer works on is where it believes it is, and nobody
\* else has it.
HandsInv ==
  /\ \A r \in Runners : cur[r] \in Jobs => Exists("running", cur[r])
  /\ \A q \in Requeuers : qjob[q] \in Jobs =>
       /\ qdir[q] # "pending"
       /\ Exists(qdir[q], qjob[q])
       /\ qdir[q] = "running" => ~Held(qjob[q])
  /\ \A j \in Jobs, s \in States : Exists(s, j) => j \in queued

QueueInv == QueueTypeOK /\ OneState /\ OneHolder /\ HandsInv

\* A step that moves no file and takes up no job keeps the invariant.
LEMMA Still ==
  ASSUME QueueInv, QueueTypeOK',
         \A s \in States, j \in Jobs : Exists(s, j)' <=> Exists(s, j),
         \A r \in Runners : cur'[r] = cur[r] \/ cur'[r] = NoJob,
         \A q \in Requeuers : qjob'[q] = NoJob \/ (qjob'[q] = qjob[q] /\ qdir'[q] = qdir[q]),
         queued' = queued
  PROVE  QueueInv'
<1> USE QueueAssumption
<1>1. OneState'  BY DEF QueueInv, OneState
<1>2. OneHolder'  BY DEF QueueInv, OneHolder
<1>3. ASSUME NEW r \in Runners, cur'[r] \in Jobs  PROVE Exists("running", cur[r])'
  <2>1. cur'[r] = cur[r]  BY <1>3
  <2>2. file["running"][cur[r]] # "absent"  BY <1>3, <2>1 DEF QueueInv, HandsInv, Exists
  <2>3. file'["running"][cur[r]] # "absent"  BY <1>3, <2>1, <2>2 DEF Exists
  <2> QED BY <2>1, <2>3 DEF Exists
<1>4. ASSUME NEW q \in Requeuers, qjob'[q] \in Jobs
      PROVE  /\ qdir'[q] # "pending"
             /\ Exists(qdir[q], qjob[q])'
             /\ qdir'[q] = "running" => ~Held(qjob[q])'
  <2>1. qjob'[q] = qjob[q] /\ qdir'[q] = qdir[q] /\ qdir[q] \in States
    BY <1>4 DEF QueueInv, QueueTypeOK
  <2>2. qdir[q] = "running" => ~Held(qjob[q])  BY <1>4, <2>1 DEF QueueInv, HandsInv
  <2>3. qdir'[q] = "running" => ~Held(qjob[q])'  BY <1>4, <2>1, <2>2 DEF Held
  <2>4. Exists(qdir[q], qjob[q])  BY <1>4, <2>1 DEF QueueInv, HandsInv
  <2>5. file'[qdir[q]][qjob[q]] # "absent"  BY <1>4, <2>1, <2>4 DEF Exists
  <2> QED BY <1>4, <2>1, <2>3, <2>5 DEF QueueInv, HandsInv, Exists
<1>5. \A j \in Jobs, s \in States : Exists(s, j)' => j \in queued'  BY DEF QueueInv, HandsInv
<1> QED BY <1>1, <1>2, <1>3, <1>4, <1>5 DEF QueueInv, HandsInv

LEMMA Replaced ==
  ASSUME QueueTypeOK, NEW s \in States, NEW j \in Jobs, Exists(s, j), tmp[s][j] # "absent",
         ReplaceByTmp(s, j)
  PROVE  \A t \in States, k \in Jobs : Exists(t, k)' <=> Exists(t, k)
BY DEF QueueTypeOK, ReplaceByTmp, Exists

\* What a job's move to another directory, or into a runner's hands, does.
Moved(j, to) == \A t \in States, k \in Jobs : Exists(t, k)' <=> IF k = j THEN t = to ELSE Exists(t, k)
RunnersAfter(j, to) ==
  /\ \A r \in Runners : cur'[r] # j => cur'[r] = cur[r] \/ cur'[r] = NoJob
  /\ \A r \in Runners : cur'[r] = j => to = "running"
  /\ \A r1, r2 \in Runners : cur'[r1] = j /\ cur'[r2] = j => r1 = r2
RequeuersAfter(j) ==
  \A q \in Requeuers :
    qjob'[q] = NoJob \/ (qjob'[q] = qjob[q] /\ qdir'[q] = qdir[q] /\ qjob[q] # j)

LEMMA Renamed ==
  ASSUME QueueTypeOK, OneState, NEW from \in States, NEW to \in States, from # to,
         NEW j \in Jobs, Exists(from, j), Rename(from, to, j)
  PROVE  Moved(j, to)
<1>1. file' = [file EXCEPT ![from][j] = "absent", ![to][j] = file[from][j]]  BY DEF Rename
<1>2. file \in [States -> [Jobs -> Contents]]  BY DEF QueueTypeOK
<1>3. ASSUME NEW t \in States, NEW k \in Jobs, k # j  PROVE file'[t][k] = file[t][k]
  BY <1>1, <1>2, <1>3
<1>4. file'[to][j] = file[from][j] /\ file'[from][j] = "absent"  BY <1>1, <1>2
<1>5. ASSUME NEW t \in States, t # to, t # from  PROVE file'[t][j] = file[t][j]
  BY <1>1, <1>2, <1>5
<1>6. \A t \in States : t # from => ~Exists(t, j)  BY DEF OneState
<1> QED BY <1>3, <1>4, <1>5, <1>6 DEF Exists, Moved

\* A job moves on, out of the hands that held it or into those of one runner.
LEMMA Handed ==
  ASSUME QueueInv, QueueTypeOK', NEW from \in States, NEW to \in States, NEW j \in Jobs,
         Exists(from, j), Moved(j, to), RunnersAfter(j, to), RequeuersAfter(j), queued' = queued
  PROVE  QueueInv'
<1> USE QueueAssumption DEF Moved, RunnersAfter, RequeuersAfter
<1>1. OneState'  BY DEF QueueInv, OneState
<1>2. OneHolder'  BY DEF QueueInv, OneHolder
<1>3. ASSUME NEW r \in Runners, cur'[r] \in Jobs  PROVE Exists("running", cur[r])'
  <2>1. CASE cur'[r] = j
    <3>1. Exists("running", j)'  BY <2>1
    <3> QED BY <2>1, <3>1 DEF Exists
  <2>2. CASE cur'[r] # j
    <3>1. cur'[r] = cur[r] /\ Exists("running", cur[r])
      BY <1>3, <2>2 DEF QueueInv, HandsInv
    <3>2. file'["running"][cur[r]] # "absent"  BY <1>3, <2>2, <3>1 DEF Exists
    <3> QED BY <3>1, <3>2 DEF Exists
  <2> QED BY <2>1, <2>2
<1>4. ASSUME NEW q \in Requeuers, qjob'[q] \in Jobs
      PROVE  /\ qdir'[q] # "pending"
             /\ Exists(qdir[q], qjob[q])'
             /\ qdir'[q] = "running" => ~Held(qjob[q])'
  <2>1. qjob'[q] = qjob[q] /\ qdir'[q] = qdir[q] /\ qdir[q] \in States /\ qjob[q] # j
    BY <1>4 DEF QueueInv, QueueTypeOK
  <2>2. qdir[q] = "running" => ~Held(qjob[q])  BY <1>4, <2>1 DEF QueueInv, HandsInv
  <2>3. qdir'[q] = "running" => ~Held(qjob[q])'  BY <1>4, <2>1, <2>2 DEF Held
  <2>4. Exists(qdir[q], qjob[q]) /\ qdir[q] # "pending"  BY <1>4, <2>1 DEF QueueInv, HandsInv
  <2>5. file'[qdir[q]][qjob[q]] # "absent"  BY <1>4, <2>1, <2>4 DEF Exists
  <2> QED BY <2>1, <2>3, <2>4, <2>5 DEF Exists
<1>5. \A k \in Jobs, s \in States : Exists(s, k)' => k \in queued'  BY DEF QueueInv, HandsInv
<1> QED BY <1>1, <1>2, <1>3, <1>4, <1>5 DEF QueueInv, HandsInv

LEMMA QueuingStep ==
  ASSUME QueueInv, QueueTypeOK', NEW j \in Jobs, Add(j) \/ ServerOpen(j)
  PROVE  QueueInv'
<1> USE QueueAssumption
<1>1. PICK c \in {"fresh", "partial"} : file' = [file EXCEPT !["pending"][j] = c]
  BY DEF Add, ServerOpen
<1>2. /\ j \notin queued /\ queued' = queued \cup {j}
      /\ UNCHANGED <<cur, qjob, qdir>>
  BY DEF Add, ServerOpen, runVars, requeueVars
<1>3. \A s \in States : ~Exists(s, j)  BY <1>2 DEF QueueInv, HandsInv
<1>4. \A s \in States, k \in Jobs :
        Exists(s, k)' <=> IF k = j THEN s = "pending" ELSE Exists(s, k)
  <2>1. file \in [States -> [Jobs -> Contents]]  BY DEF QueueInv, QueueTypeOK
  <2>2. \A s \in States, k \in Jobs :
          file'[s][k] = IF s = "pending" /\ k = j THEN c ELSE file[s][k]  BY <1>1, <2>1
  <2> QED BY <1>3, <2>2 DEF Exists
<1>5. OneState'  BY <1>3, <1>4 DEF QueueInv, OneState
<1>6. OneHolder'  BY <1>2 DEF QueueInv, OneHolder
<1>7. ASSUME NEW r \in Runners, cur[r] \in Jobs  PROVE Exists("running", cur[r])'
  <2>1. Exists("running", cur[r])  BY <1>7 DEF QueueInv, HandsInv
  <2>2. cur[r] # j  BY <1>3, <2>1
  <2>3. file'["running"][cur[r]] # "absent"  BY <1>4, <1>7, <2>1, <2>2 DEF Exists
  <2> QED BY <1>2, <2>3 DEF Exists
<1>8. ASSUME NEW q \in Requeuers, qjob[q] \in Jobs
      PROVE  /\ qdir[q] # "pending"
             /\ Exists(qdir[q], qjob[q])'
             /\ qdir[q] = "running" => ~Held(qjob[q])'
  <2>1. /\ qdir[q] \in States /\ qdir[q] # "pending"
        /\ Exists(qdir[q], qjob[q])
        /\ qdir[q] = "running" => ~Held(qjob[q])
    BY <1>8 DEF QueueInv, HandsInv, QueueTypeOK
  <2>2. qjob[q] # j  BY <1>3, <2>1
  <2>3. file'[qdir[q]][qjob[q]] # "absent"  BY <1>4, <1>8, <2>1, <2>2 DEF Exists
  <2>4. qdir[q] = "running" => ~Held(qjob[q])'  BY <1>2, <2>1 DEF Held
  <2> QED BY <1>2, <2>1, <2>3, <2>4 DEF Exists
<1>9. \A k \in Jobs, s \in States : Exists(s, k)' => k \in queued'
  BY <1>2, <1>4 DEF QueueInv, HandsInv
<1> QED BY <1>2, <1>5, <1>6, <1>7, <1>8, <1>9 DEF QueueInv, HandsInv

LEMMA RunKeepsInv ==
  ASSUME QueueInv, QueueTypeOK', NEW r \in Runners, RunStep(r) \/ KillRunner(r)
  PROVE  QueueInv'
<1> USE QueueAssumption
<1>t. QueueTypeOK  BY DEF QueueInv
<1>q. UNCHANGED <<qjob, qdir, queued>>
  BY DEF RunStep, KillRunner, List, Claim, RunDone, Load, MakeRunDir, Execute, SaveResult,
         ReplaceResult, MoveResult, requeueVars
<1>c. ASSUME Die(r) \/ UNCHANGED cur
      PROVE  \A x \in Runners : cur'[x] = cur[x] \/ cur'[x] = NoJob
  BY <1>t, <1>c DEF Die, QueueTypeOK
<1>1. CASE UNCHANGED file /\ (Die(r) \/ UNCHANGED cur)
  <2>1. \A s \in States, j \in Jobs : Exists(s, j)' <=> Exists(s, j)  BY <1>1 DEF Exists
  <2> QED BY <1>1, <1>c, <1>q, <2>1, Still
<1>2. CASE Claim(r)
  <2>1. PICK j \in todo[r] :
          IF Exists("pending", j)
          THEN Rename("pending", "running", j) /\ cur' = [cur EXCEPT ![r] = j]
          ELSE UNCHANGED <<file, cur, pc>>
    BY <1>2 DEF Claim
  <2>2. j \in Jobs  BY <1>t DEF QueueTypeOK
  <2>3. CASE Exists("pending", j)
    <3>1. Moved(j, "running")
      BY <1>t, <2>1, <2>2, <2>3, Renamed DEF QueueInv
    <3>2. \A s \in States : s # "pending" => ~Exists(s, j)
      BY <2>2, <2>3 DEF QueueInv, OneState
    <3>3. \A x \in Runners : cur[x] # j  BY <2>2, <3>2 DEF QueueInv, HandsInv
    <3>4. ASSUME NEW q \in Requeuers  PROVE qjob[q] # j
      <4> SUFFICES ASSUME qjob[q] = j PROVE FALSE  OBVIOUS
      <4>1. qdir[q] # "pending" /\ Exists(qdir[q], j)  BY <2>2 DEF QueueInv, HandsInv
      <4>2. qdir[q] \in States  BY <1>t DEF QueueTypeOK
      <4> QED BY <3>2, <4>1, <4>2
    <3>5. \A x \in Runners : cur'[x] = IF x = r THEN j ELSE cur[x]
      BY <1>t, <2>1, <2>3 DEF QueueTypeOK
    <3>6. RunnersAfter(j, "running")  BY <3>3, <3>5 DEF RunnersAfter
    <3>7. RequeuersAfter(j)  BY <1>q, <3>4 DEF RequeuersAfter
    <3>8. "pending" \in States /\ "running" \in States /\ queued' = queued  BY <1>q
    <3> HIDE DEF States
    <3> QED BY <2>2, <2>3, <3>1, <3>6, <3>7, <3>8, Handed
  <2>4. CASE ~Exists("pending", j)  BY <1>1, <2>1, <2>4
  <2> QED BY <2>3, <2>4
<1>3. CASE ReplaceResult(r)
  <2>1. CASE tmp["running"][cur[r]] = "absent"  BY <1>1, <1>3, <2>1 DEF ReplaceResult, queueVars
  <2>2. CASE tmp["running"][cur[r]] # "absent"
    <3>1. cur[r] \in Jobs
      <4>1. pc[r] = "replace"  BY <1>3 DEF ReplaceResult
      <4>2. cur \in [Runners -> Jobs \cup {NoJob}]  BY <1>t DEF QueueTypeOK
      <4>3. cur[r] = NoJob <=> pc[r] \in {"idle", "claim"}  BY <1>t DEF QueueTypeOK
      <4> QED BY <4>1, <4>2, <4>3
    <3>2. Exists("running", cur[r])  BY <3>1 DEF QueueInv, HandsInv
    <3>3. ReplaceByTmp("running", cur[r]) /\ UNCHANGED cur  BY <1>3, <2>2 DEF ReplaceResult
    <3>4. \A s \in States, j \in Jobs : Exists(s, j)' <=> Exists(s, j)
      BY <1>t, <2>2, <3>1, <3>2, <3>3, Replaced
    <3> QED BY <1>q, <3>3, <3>4, Still
  <2> QED BY <2>1, <2>2
<1>4. CASE MoveResult(r)
  <2>1. CASE ~Exists("running", cur[r])  BY <1>1, <1>4, <2>1 DEF MoveResult
  <2>2. CASE Exists("running", cur[r])
    <3>1. cur[r] \in Jobs /\ verdict[r] \in {"done", "failed"}
      BY <1>t, <1>4 DEF MoveResult, QueueTypeOK
    <3>2. Rename("running", verdict[r], cur[r]) /\ cur' = [cur EXCEPT ![r] = NoJob]
      BY <1>4, <2>2 DEF MoveResult
    <3>3. Moved(cur[r], verdict[r])
      <4>1. OneState /\ "running" # verdict[r] /\ verdict[r] \in States /\ "running" \in States
        BY <3>1 DEF QueueInv
      <4>2. Rename("running", verdict[r], cur[r])  BY <3>2
      <4> HIDE DEF States
      <4> QED BY <1>t, <2>2, <3>1, <4>1, <4>2, Renamed
    <3>4. \A x \in Runners : cur'[x] = IF x = r THEN NoJob ELSE cur[x]
      BY <1>t, <3>2 DEF QueueTypeOK
    <3>5. \A x \in Runners : cur'[x] # cur[r]
      BY <3>1, <3>4 DEF QueueInv, OneHolder
    <3>6. ASSUME NEW q \in Requeuers  PROVE qjob[q] # cur[r]
      <4> SUFFICES ASSUME qjob[q] = cur[r] PROVE FALSE  OBVIOUS
      <4>1. /\ qdir[q] \in States /\ Exists(qdir[q], cur[r])
            /\ qdir[q] = "running" => ~Held(cur[r])
        BY <1>t, <3>1 DEF QueueInv, HandsInv, QueueTypeOK
      <4>2. qdir[q] = "running"  BY <2>2, <3>1, <4>1 DEF QueueInv, OneState
      <4> QED BY <4>1, <4>2 DEF Held
    <3>7. RunnersAfter(cur[r], verdict[r])  BY <3>4, <3>5 DEF RunnersAfter
    <3>8. RequeuersAfter(cur[r])  BY <1>q, <3>6 DEF RequeuersAfter
    <3>9. "running" \in States /\ verdict[r] \in States /\ queued' = queued  BY <1>q, <3>1
    <3>10. PICK j \in Jobs, to \in States : j = cur[r] /\ to = verdict[r]  BY <3>1, <3>9
    <3>11. Moved(j, to)  BY <3>3, <3>10
    <3>12. RunnersAfter(j, to) /\ RequeuersAfter(j)  BY <3>7, <3>8, <3>10
    <3>13. "running" \in States /\ Exists("running", j)  BY <2>2, <3>10
    <3> HIDE DEF States
    <3> QED BY <3>9, <3>11, <3>12, <3>13, Handed
  <2> QED BY <2>1, <2>2
<1>5. CASE List(r) \/ RunDone(r) \/ Load(r) \/ MakeRunDir(r) \/ Execute(r) \/ SaveResult(r)
             \/ KillRunner(r)
  BY <1>1, <1>5 DEF List, RunDone, Load, MakeRunDir, Execute, SaveResult, WriteTmp,
                    KillRunner, queueVars
<1> QED BY <1>2, <1>3, <1>4, <1>5 DEF RunStep

\* What the person who requeues keeps to.
Discipline == ~LiveRequeue /\ \A q1, q2 \in Requeuers : q1 = q2

LEMMA RequeueKeepsInv ==
  ASSUME QueueInv, QueueTypeOK', Discipline, NEW q \in Requeuers,
         RequeueStep(q) \/ KillRequeuer(q)
  PROVE  QueueInv'
<1> USE QueueAssumption
<1>t. QueueTypeOK  BY DEF QueueInv
<1>q. UNCHANGED <<cur, queued>>
  BY DEF RequeueStep, KillRequeuer, Find, QLoad, QSave, QReplace, QMove, runVars
<1>o. \A x \in Requeuers : x = q  BY DEF Discipline
<1>c. ASSUME QDie(q) \/ UNCHANGED <<qjob, qdir>>
      PROVE  \A x \in Requeuers : qjob'[x] = NoJob \/ (qjob'[x] = qjob[x] /\ qdir'[x] = qdir[x])
  BY <1>t, <1>c DEF QDie, QueueTypeOK
<1>1. CASE UNCHANGED file /\ (QDie(q) \/ UNCHANGED <<qjob, qdir>>)
  <2>1. \A s \in States, j \in Jobs : Exists(s, j)' <=> Exists(s, j)  BY <1>1 DEF Exists
  <2> QED BY <1>1, <1>c, <1>q, <2>1, Still
<1>2. CASE Find(q)
  <2>1. PICK j \in Jobs, s \in States \ {"pending"} :
          /\ Exists(s, j)
          /\ s = "running" => ~Held(j)
          /\ qjob' = [qjob EXCEPT ![q] = j] /\ qdir' = [qdir EXCEPT ![q] = s]
    BY <1>2 DEF Find, FoundIn, Discipline
  <2>2. qjob'[q] = j /\ qdir'[q] = s  BY <1>t, <2>1 DEF QueueTypeOK
  <2>3. UNCHANGED file  BY <1>2 DEF Find, queueVars
  <2>4. OneState' /\ OneHolder'  BY <1>q, <2>3 DEF QueueInv, OneState, OneHolder, Exists
  <2>5. \A r \in Runners : cur'[r] \in Jobs => Exists("running", cur[r])'
    BY <1>q, <2>3 DEF QueueInv, HandsInv, Exists
  <2>6. file'[qdir'[q]][qjob'[q]] # "absent"  BY <2>1, <2>2, <2>3 DEF Exists
  <2>7. qdir'[q] = "running" => ~Held(qjob[q])'  BY <1>q, <2>1, <2>2 DEF Held
  <2>8. \A k \in Jobs, t \in States : Exists(t, k)' => k \in queued'
    BY <1>q, <2>3 DEF QueueInv, HandsInv, Exists
  <2>9. qdir'[q] # "pending"  BY <2>1, <2>2
  <2>10. ASSUME NEW x \in Requeuers
         PROVE  /\ qdir'[x] # "pending"
                /\ Exists(qdir[x], qjob[x])'
                /\ qdir'[x] = "running" => ~Held(qjob[x])'
    <3>1. x = q  BY <1>o
    <3> QED BY <3>1, <2>6, <2>7, <2>9 DEF Exists
  <2> QED BY <2>4, <2>5, <2>8, <2>10 DEF QueueInv, HandsInv
<1>3. CASE QReplace(q)
  <2>1. CASE tmp[qdir[q]][qjob[q]] = "absent"  BY <1>1, <1>3, <2>1 DEF QReplace, queueVars
  <2>2. CASE tmp[qdir[q]][qjob[q]] # "absent"
    <3>1. qjob[q] \in Jobs /\ qdir[q] \in States  BY <1>t, <1>3 DEF QReplace, QueueTypeOK
    <3>2. Exists(qdir[q], qjob[q])  BY <3>1 DEF QueueInv, HandsInv
    <3>3. ReplaceByTmp(qdir[q], qjob[q]) /\ UNCHANGED <<qjob, qdir>>  BY <1>3, <2>2 DEF QReplace
    <3>4. \A s \in States, j \in Jobs : Exists(s, j)' <=> Exists(s, j)
      BY <1>t, <2>2, <3>1, <3>2, <3>3, Replaced
    <3> QED BY <1>c, <1>q, <3>3, <3>4, Still
  <2> QED BY <2>1, <2>2
<1>4. CASE QMove(q)
  <2>1. CASE ~Exists(qdir[q], qjob[q])  BY <1>1, <1>4, <2>1 DEF QMove
  <2>2. CASE Exists(qdir[q], qjob[q])
    <3>1. qjob[q] \in Jobs /\ qdir[q] \in States  BY <1>t, <1>4 DEF QMove, QueueTypeOK
    <3>2. Rename(qdir[q], "pending", qjob[q]) /\ QDie(q)  BY <1>4, <2>2 DEF QMove
    <3>3. qdir[q] # "pending" /\ (qdir[q] = "running" => ~Held(qjob[q]))
      BY <3>1 DEF QueueInv, HandsInv
    <3>4. Moved(qjob[q], "pending")
      <4>1. PICK j \in Jobs, from \in States : j = qjob[q] /\ from = qdir[q]  BY <3>1
      <4>2. Rename(from, "pending", j) /\ from # "pending" /\ Exists(from, j)
        BY <2>2, <3>2, <3>3, <4>1
      <4>3. OneState /\ "pending" \in States  BY DEF QueueInv
      <4> QED BY ONLY <1>t, <4>1, <4>2, <4>3, Renamed
    <3>5. ASSUME NEW r \in Runners  PROVE cur'[r] # qjob[q]
      <4> SUFFICES ASSUME cur[r] = qjob[q] PROVE FALSE  BY <1>q
      <4>1. Exists("running", qjob[q])  BY <3>1 DEF QueueInv, HandsInv
      <4>2. qdir[q] = "running"  BY <2>2, <3>1, <4>1 DEF QueueInv, OneState
      <4> QED BY <3>3, <4>2 DEF Held
    <3>6. \A x \in Requeuers : qjob'[x] = NoJob
      BY <1>o, <1>t, <3>2 DEF QDie, QueueTypeOK
    <3>7. RunnersAfter(qjob[q], "pending")  BY <1>q, <3>5 DEF RunnersAfter
    <3>8. "pending" \in States /\ queued' = queued  BY <1>q
    <3>9. RequeuersAfter(qjob[q])  BY <3>6 DEF RequeuersAfter
    <3>10. PICK j \in Jobs, from \in States : j = qjob[q] /\ from = qdir[q]  BY <3>1
    <3>11. Moved(j, "pending")  BY <3>4, <3>10
    <3>12. RunnersAfter(j, "pending") /\ RequeuersAfter(j)  BY <3>7, <3>9, <3>10
    <3>13. Exists(from, j)  BY <2>2, <3>10
    <3> HIDE DEF States
    <3> QED BY <3>8, <3>11, <3>12, <3>13, Handed
  <2> QED BY <2>1, <2>2
<1>5. CASE QLoad(q) \/ QSave(q) \/ KillRequeuer(q)
  BY <1>1, <1>5 DEF QLoad, QSave, WriteTmp, KillRequeuer, queueVars
<1> QED BY <1>2, <1>3, <1>4, <1>5 DEF RequeueStep

LEMMA InvStep ==
  ASSUME Discipline, QueueInv, [QueueNext]_vars
  PROVE  QueueInv'
<1>1. QueueTypeOK'  BY NextTypes DEF QueueInv
<1>2. CASE UNCHANGED vars
  BY <1>1, <1>2 DEF QueueInv, OneState, OneHolder, HandsInv, Held, Exists, vars, queueVars,
                    runVars, requeueVars
<1>3. ASSUME NEW s \in States, NEW j \in Jobs, ServerWrite(s, j) PROVE QueueInv'
  <2>1. \A t \in States, k \in Jobs : Exists(t, k)' <=> Exists(t, k)
    BY <1>3 DEF QueueInv, QueueTypeOK, ServerWrite, Exists
  <2>2. UNCHANGED <<cur, qjob, qdir, queued>>  BY <1>3 DEF ServerWrite, runVars, requeueVars
  <2> QED BY <1>1, <2>1, <2>2, Still
<1> QED BY <1>1, <1>2, <1>3, QueuingStep, RunKeepsInv, RequeueKeepsInv DEF QueueNext

LEMMA InitInv == QueueInit => QueueInv
BY InitTypes, QueueAssumption
   DEF QueueInit, QueueInv, OneState, OneHolder, HandsInv, Exists

\* A job has one file and at most one runner, for any number of runners that race
\* and die, if running jobs are requeued one at a time and after their runner died.
THEOREM OneStateEach ==
  ASSUME Discipline
  PROVE  QueueSpec => [](OneState /\ OneHolder)
<1>1. QueueInit => QueueInv  BY InitInv
<1>2. QueueInv /\ [QueueNext]_vars => QueueInv'  BY InvStep
<1>3. QueueInv => OneState /\ OneHolder  BY DEF QueueInv
<1> QED BY <1>1, <1>2, <1>3, PTL DEF QueueSpec

-----------------------------------------------------------------------------
(* No job is lost, and none is run again that nobody put back.             *)

LEMMA FilesStay ==
  ASSUME QueueTypeOK, [QueueNext]_vars, NEW j \in queued, NEW s \in States, Exists(s, j)
  PROVE  \E t \in States : Exists(t, j)'
<1> USE QueueAssumption
<1>0. j \in Jobs /\ file \in [States -> [Jobs -> Contents]]  BY DEF QueueTypeOK
<1>1. CASE UNCHANGED file  BY <1>1 DEF Exists
<1>2. ASSUME NEW t \in States, NEW k \in Jobs, tmp[t][k] # "absent", ReplaceByTmp(t, k)
      PROVE  Exists(s, j)'
  BY <1>0, <1>2 DEF ReplaceByTmp, Exists
<1>3. ASSUME NEW from \in States, NEW to \in States, NEW k \in Jobs,
             Exists(from, k), Rename(from, to, k)
      PROVE  Exists(s, j)' \/ Exists(to, j)'
  <2>1. file' = [file EXCEPT ![from][k] = "absent", ![to][k] = file[from][k]]
    BY <1>3 DEF Rename
  <2>2. CASE j = k
    <3>1. file'[to][k] = file[from][k]  BY <1>0, <2>1
    <3> QED BY <1>3, <2>2, <3>1 DEF Exists
  <2>3. CASE j # k
    <3>1. file'[s][j] = file[s][j]  BY <1>0, <2>1, <2>3
    <3> QED BY <3>1 DEF Exists
  <2> QED BY <2>2, <2>3
<1>4. ASSUME NEW k \in Jobs, Add(k) \/ ServerOpen(k)  PROVE Exists(s, j)'
  <2>1. k # j  BY <1>4 DEF Add, ServerOpen
  <2> QED BY <1>0, <1>4, <2>1 DEF Add, ServerOpen, Exists
<1>5. ASSUME NEW t \in States, NEW k \in Jobs, ServerWrite(t, k)  PROVE Exists(s, j)'
  BY <1>0, <1>5 DEF ServerWrite, Exists
<1>6. ASSUME NEW r \in Runners, RunStep(r) \/ KillRunner(r)
      PROVE  \E t \in States : Exists(t, j)'
  <2>1. CASE UNCHANGED file  BY <1>1, <2>1
  <2>2. CASE Claim(r)
    <3>1. PICK k \in todo[r] : IF Exists("pending", k) THEN Rename("pending", "running", k)
                               ELSE UNCHANGED file
      BY <2>2 DEF Claim
    <3>2. k \in Jobs  BY DEF QueueTypeOK
    <3> QED BY <1>1, <1>3, <3>1, <3>2
  <2>3. ASSUME cur[r] \in Jobs, ReplaceResult(r)  PROVE \E t \in States : Exists(t, j)'
    BY <1>1, <1>2, <2>3 DEF ReplaceResult, queueVars
  <2>4. ASSUME cur[r] \in Jobs, MoveResult(r)  PROVE \E t \in States : Exists(t, j)'
    <3>1. verdict[r] \in States  BY DEF QueueTypeOK
    <3> QED BY <1>1, <1>3, <2>4, <3>1 DEF MoveResult
  <2>5. ReplaceResult(r) \/ MoveResult(r) => cur[r] \in Jobs
    <3>1. cur \in [Runners -> Jobs \cup {NoJob}]  BY DEF QueueTypeOK
    <3>2. cur[r] = NoJob <=> pc[r] \in {"idle", "claim"}  BY DEF QueueTypeOK
    <3> QED BY <3>1, <3>2 DEF ReplaceResult, MoveResult
  <2> QED BY <1>6, <2>1, <2>2, <2>3, <2>4, <2>5
      DEF RunStep, List, RunDone, Load, MakeRunDir, Execute, SaveResult, WriteTmp, KillRunner,
          queueVars
<1>7. ASSUME NEW q \in Requeuers, RequeueStep(q) \/ KillRequeuer(q)
      PROVE  \E t \in States : Exists(t, j)'
  <2>1. CASE UNCHANGED file  BY <1>1, <2>1
  <2>2. ASSUME qjob[q] \in Jobs, qdir[q] \in States, QReplace(q) \/ QMove(q)
        PROVE  \E t \in States : Exists(t, j)'
    BY <1>1, <1>2, <1>3, <2>2 DEF QReplace, QMove, queueVars
  <2>3. qdir[q] \in States /\ (QReplace(q) \/ QMove(q) => qjob[q] \in Jobs)
    <3>1. qjob \in [Requeuers -> Jobs \cup {NoJob}] /\ qdir \in [Requeuers -> States]
      BY DEF QueueTypeOK
    <3>2. qjob[q] = NoJob <=> qpc[q] = "idle"  BY DEF QueueTypeOK
    <3> QED BY <3>1, <3>2 DEF QReplace, QMove
  <2> QED BY <1>7, <2>1, <2>2, <2>3
      DEF RequeueStep, Find, QLoad, QSave, WriteTmp, KillRequeuer, queueVars
<1>8. UNCHANGED vars => UNCHANGED file  BY DEF vars, queueVars
<1> QED BY <1>1, <1>4, <1>5, <1>6, <1>7, <1>8 DEF QueueNext

LEMMA NewFile ==
  ASSUME QueueTypeOK, [QueueNext]_vars, NEW j \in queued' \ queued
  PROVE  \E t \in States : Exists(t, j)'
<1>1. file \in [States -> [Jobs -> Contents]] /\ queued \subseteq Jobs  BY DEF QueueTypeOK
<1>2. PICK k \in Jobs : (Add(k) \/ ServerOpen(k)) /\ j = k
  BY DEF QueueNext, RunStep, RequeueStep, vars, Add, ServerOpen, ServerWrite, List, Claim, RunDone,
         Load, MakeRunDir, Execute, SaveResult, ReplaceResult, MoveResult, KillRunner, Find,
         QLoad, QSave, QReplace, QMove, KillRequeuer
<1>3. file'["pending"][j] # "absent"  BY <1>1, <1>2 DEF Add, ServerOpen
<1> QED BY <1>3 DEF Exists

\* Whatever runners and requeuers do to each other, disciplined or not, a queued
\* job always has a file in some state.
THEOREM JobsKept == QueueSpec => []NeverLost
<1>1. QueueInit => NeverLost  BY DEF QueueInit, NeverLost
<1>2. QueueTypeOK /\ NeverLost /\ [QueueNext]_vars => NeverLost'
  <2> SUFFICES ASSUME QueueTypeOK, NeverLost, [QueueNext]_vars, NEW j \in queued'
               PROVE  \E t \in States : Exists(t, j)'
    BY DEF NeverLost
  <2>1. CASE j \in queued
    <3>1. PICK s \in States : Exists(s, j)  BY <2>1 DEF NeverLost
    <3> QED BY <2>1, <3>1, FilesStay
  <2>2. CASE j \notin queued  BY <2>2, NewFile
  <2> QED BY <2>1, <2>2
<1> QED BY <1>1, <1>2, QueueTypeCorrect, PTL DEF QueueSpec

-----------------------------------------------------------------------------
(* No silent retry. *)

\* j can be run again without another requeue.
Due(j) ==
  \/ Exists("pending", j)
  \/ \E r \in Runners : cur[r] = j /\ pc[r] \in {"load", "mkdir"}

RetryInv ==
  \A j \in Jobs : /\ execs[j] <= 1 + requeued[j]
                  /\ Due(j) => execs[j] <= requeued[j]
                  /\ j \notin queued => execs[j] = 0

\* A step that makes no job due and runs none.
LEMMA NoneDue ==
  ASSUME QueueTypeOK, RetryInv, UNCHANGED <<execs, requeued, queued>>,
         \A j \in Jobs : Due(j)' => Due(j)
  PROVE  RetryInv'
BY DEF RetryInv

LEMMA RetryRun ==
  ASSUME QueueInv, RetryInv, NEW r \in Runners, RunStep(r) \/ KillRunner(r), QueueTypeOK'
  PROVE  RetryInv'
<1> USE QueueAssumption
<1>t. QueueTypeOK  BY DEF QueueInv
<1>f. /\ file \in [States -> [Jobs -> Contents]]
      /\ pc \in [Runners -> {"idle", "claim", "load", "mkdir", "execute", "save", "replace", "move"}]
      /\ cur \in [Runners -> Jobs \cup {NoJob}]
      /\ \A x \in Runners : cur[x] = NoJob <=> pc[x] \in {"idle", "claim"}
  BY <1>t DEF QueueTypeOK
<1>q. UNCHANGED <<requeued, queued>>
  BY DEF RunStep, KillRunner, List, Claim, RunDone, Load, MakeRunDir, Execute, SaveResult,
         ReplaceResult, MoveResult, requeueVars
<1>1. ASSUME UNCHANGED execs, \A j \in Jobs : Exists("pending", j)' => Exists("pending", j),
             \A x \in Runners : pc'[x] \in {"load", "mkdir"} =>
                                  cur'[x] = cur[x] /\ pc[x] \in {"load", "mkdir"}
      PROVE  RetryInv'
  <2>1. \A j \in Jobs : Due(j)' => Due(j)  BY <1>1 DEF Due
  <2> QED BY <1>1, <1>q, <1>t, <2>1, NoneDue
<1>2. CASE List(r) \/ RunDone(r) \/ Load(r) \/ Execute(r) \/ SaveResult(r) \/ KillRunner(r)
  <2>1. UNCHANGED <<execs, file>>
    BY <1>2 DEF List, RunDone, Load, Execute, SaveResult, WriteTmp, KillRunner, queueVars
  <2>2. \A x \in Runners : pc'[x] \in {"load", "mkdir"} =>
                             cur'[x] = cur[x] /\ pc[x] \in {"load", "mkdir"}
    BY <1>2, <1>f DEF List, RunDone, Load, Execute, SaveResult, KillRunner, Goto, Die
  <2> QED BY <1>1, <2>1, <2>2 DEF Exists
<1>3. CASE ReplaceResult(r)
  <2>1. \A j \in Jobs : Exists("pending", j)' => Exists("pending", j)
    BY <1>3, <1>f DEF ReplaceResult, ReplaceByTmp, queueVars, Exists
  <2>2. \A x \in Runners : pc'[x] \in {"load", "mkdir"} =>
                             cur'[x] = cur[x] /\ pc[x] \in {"load", "mkdir"}
    BY <1>3, <1>f DEF ReplaceResult, Goto, Die
  <2> QED BY <1>1, <1>3, <2>1, <2>2 DEF ReplaceResult
<1>4. CASE MoveResult(r)
  <2>0. verdict[r] \in {"done", "failed"}  BY <1>t DEF QueueTypeOK
  <2>1. \A j \in Jobs : Exists("pending", j)' => Exists("pending", j)
    BY <1>4, <1>f, <2>0 DEF MoveResult, Rename, Exists
  <2>2. \A x \in Runners : pc'[x] \in {"load", "mkdir"} =>
                             cur'[x] = cur[x] /\ pc[x] \in {"load", "mkdir"}
    BY <1>4, <1>f DEF MoveResult, Goto, Die
  <2> QED BY <1>1, <1>4, <2>1, <2>2 DEF MoveResult
<1>5. CASE Claim(r)
  <2>1. PICK j \in todo[r] :
          IF Exists("pending", j)
          THEN /\ Rename("pending", "running", j)
               /\ cur' = [cur EXCEPT ![r] = j]
               /\ Goto(r, "load")
          ELSE UNCHANGED <<file, cur, pc>>
    BY <1>5 DEF Claim
  <2>2. j \in Jobs /\ UNCHANGED execs  BY <1>5, <1>t DEF Claim, QueueTypeOK
  <2>3. CASE Exists("pending", j)
    <3>1. \A k \in Jobs : Exists("pending", k)' => Exists("pending", k)
      BY <1>f, <2>1, <2>2, <2>3 DEF Rename, Exists
    <3>2. \A x \in Runners : x # r => cur'[x] = cur[x] /\ pc'[x] = pc[x]
      BY <1>f, <2>1, <2>3 DEF Goto
    <3>3. cur'[r] = j  BY <1>f, <2>1, <2>3
    <3>4. \A k \in Jobs : Due(k)' => Due(k)  BY <2>3, <3>1, <3>2, <3>3 DEF Due
    <3> QED BY <1>q, <1>t, <2>2, <3>4, NoneDue
  <2>4. CASE ~Exists("pending", j)  BY <1>1, <2>1, <2>2, <2>4 DEF Exists
  <2> QED BY <2>3, <2>4
<1>6. CASE MakeRunDir(r)
  <2>f. UNCHANGED file  BY <1>6 DEF MakeRunDir, queueVars
  <2>1. \A x \in Runners : pc'[x] \in {"load", "mkdir"} =>
                             cur'[x] = cur[x] /\ pc[x] \in {"load", "mkdir"}
    BY <1>6, <1>f DEF MakeRunDir, Goto, Die
  <2>2. CASE RunDirTaken(cur[r])  BY <1>1, <1>6, <2>1, <2>2, <2>f DEF MakeRunDir, Exists
  <2>3. CASE ~RunDirTaken(cur[r])
    <3>0. cur[r] \in Jobs /\ pc[r] = "mkdir"  BY <1>6, <1>f DEF MakeRunDir
    <3>1. PICK j \in Jobs : j = cur[r]  BY <3>0
    <3>2. execs' = [execs EXCEPT ![j] = @ + 1] /\ pc'[r] = "execute" /\ UNCHANGED cur
      BY <1>6, <1>f, <2>3, <3>1 DEF MakeRunDir, Goto
    <3>3. Exists("running", j)  BY <3>1 DEF QueueInv, HandsInv
    <3>4. ~Exists("pending", j)  BY <3>1, <3>3 DEF QueueInv, OneState
    <3>5. \A x \in Runners : cur[x] = j => x = r  BY <1>t, <3>1, <1>f DEF QueueInv, OneHolder
    <3>6. ~Due(j)'  BY <2>f, <3>2, <3>4, <3>5, <3>1 DEF Due, Exists
    <3>7. execs[j] <= requeued[j]  BY <3>0, <3>1 DEF RetryInv, Due
    <3>8. j \in queued  BY <3>1, <3>3 DEF QueueInv, HandsInv
    <3>9. \A k \in Jobs : Due(k)' => Due(k)  BY <2>1, <2>f DEF Due, Exists
    <3>10. execs \in [Jobs -> Nat] /\ requeued \in [Jobs -> Nat]  BY <1>t DEF QueueTypeOK
    <3>11. \A k \in Jobs : execs'[k] = IF k = j THEN execs[j] + 1 ELSE execs[k]
      BY <3>1, <3>2, <3>10
    <3>12. execs[j] \in Nat /\ requeued[j] \in Nat  BY <3>1, <3>10
    <3>13. execs'[j] <= 1 + requeued[j]  BY <3>1, <3>7, <3>11, <3>12
    <3>14. ASSUME NEW k \in Jobs, k # j
           PROVE  /\ execs'[k] <= 1 + requeued[k]
                  /\ Due(k)' => execs'[k] <= requeued[k]
                  /\ k \notin queued => execs'[k] = 0
      BY <3>9, <3>11, <3>14 DEF RetryInv
    <3> QED BY <1>q, <3>6, <3>8, <3>13, <3>14 DEF RetryInv
  <2> QED BY <2>2, <2>3
<1> QED BY <1>2, <1>3, <1>4, <1>5, <1>6 DEF RunStep

LEMMA RetryStep ==
  ASSUME QueueInv, RetryInv, QueueTypeOK', [QueueNext]_vars
  PROVE  RetryInv'
<1> USE QueueAssumption
<1>t. QueueTypeOK  BY DEF QueueInv
<1>f. /\ file \in [States -> [Jobs -> Contents]]
      /\ execs \in [Jobs -> Nat] /\ requeued \in [Jobs -> Nat]
  BY <1>t DEF QueueTypeOK
<1>1. ASSUME UNCHANGED <<execs, requeued, queued, cur, pc>>,
             \A j \in Jobs : Exists("pending", j)' => Exists("pending", j)
      PROVE  RetryInv'
  <2>1. \A j \in Jobs : Due(j)' => Due(j)  BY <1>1 DEF Due
  <2> QED BY <1>1, <1>t, <2>1, NoneDue
<1>2. CASE UNCHANGED vars
  BY <1>1, <1>2 DEF vars, queueVars, runVars, requeueVars, Exists
<1>3. ASSUME NEW j \in Jobs, Add(j) \/ ServerOpen(j)  PROVE RetryInv'
  <2>1. /\ j \notin queued /\ queued' = queued \cup {j}
        /\ UNCHANGED <<execs, requeued, cur, pc>>
    BY <1>3 DEF Add, ServerOpen, runVars, requeueVars
  <2>2. execs[j] = 0  BY <2>1 DEF RetryInv
  <2>3. \A k \in Jobs : k # j => (Exists("pending", k)' => Exists("pending", k))
    BY <1>3, <1>f DEF Add, ServerOpen, Exists
  <2>4. \A k \in Jobs : k # j => (Due(k)' => Due(k))  BY <2>1, <2>3 DEF Due
  <2>5. requeued[j] \in Nat  BY <1>f
  <2> QED BY <2>1, <2>2, <2>4, <2>5 DEF RetryInv
<1>4. ASSUME NEW s \in States, NEW j \in Jobs, ServerWrite(s, j)  PROVE RetryInv'
  <2>1. \A k \in Jobs : Exists("pending", k)' => Exists("pending", k)
    BY <1>4, <1>f DEF ServerWrite, Exists
  <2> QED BY <1>1, <1>4, <2>1 DEF ServerWrite, runVars, requeueVars
<1>5. ASSUME NEW q \in Requeuers, Find(q) \/ QLoad(q) \/ QSave(q) \/ KillRequeuer(q)
      PROVE  RetryInv'
  BY <1>1, <1>5 DEF Find, QLoad, QSave, KillRequeuer, WriteTmp, queueVars, runVars, Exists
<1>6. ASSUME NEW q \in Requeuers, QReplace(q)  PROVE RetryInv'
  <2>1. qjob[q] \in Jobs
    <3>1. qjob \in [Requeuers -> Jobs \cup {NoJob}]  BY <1>t DEF QueueTypeOK
    <3>2. qjob[q] = NoJob <=> qpc[q] = "idle"  BY <1>t DEF QueueTypeOK
    <3> QED BY <1>6, <3>1, <3>2 DEF QReplace
  <2>2. Exists(qdir[q], qjob[q]) /\ qdir[q] \in States
    BY <1>t, <2>1 DEF QueueInv, HandsInv, QueueTypeOK
  <2>3. \A k \in Jobs : Exists("pending", k)' => Exists("pending", k)
    BY <1>6, <1>f, <1>t, <2>1, <2>2, Replaced DEF QReplace, queueVars, Exists
  <2> QED BY <1>1, <1>6, <2>3 DEF QReplace, runVars
<1>7. ASSUME NEW q \in Requeuers, QMove(q)  PROVE RetryInv'
  <2>1. qjob[q] \in Jobs /\ qdir[q] \in States
    <3>1. qjob \in [Requeuers -> Jobs \cup {NoJob}] /\ qdir \in [Requeuers -> States]
      BY <1>t DEF QueueTypeOK
    <3>2. qjob[q] = NoJob <=> qpc[q] = "idle"  BY <1>t DEF QueueTypeOK
    <3> QED BY <1>7, <3>1, <3>2 DEF QMove
  <2>2. Exists(qdir[q], qjob[q]) /\ qdir[q] # "pending"  BY <2>1 DEF QueueInv, HandsInv
  <2>3. /\ Rename(qdir[q], "pending", qjob[q])
        /\ requeued' = [requeued EXCEPT ![qjob[q]] = @ + 1]
        /\ UNCHANGED <<execs, queued, cur, pc>>
    BY <1>7, <2>2 DEF QMove, runVars
  <2> DEFINE j == qjob[q]  d == qdir[q]
  <2>4. \A t \in States, k \in Jobs :
          Exists(t, k)' <=> IF k = j THEN t = "pending" ELSE Exists(t, k)
    <3>1. Moved(j, "pending")  BY <1>t, <2>1, <2>2, <2>3, Renamed DEF QueueInv
    <3> QED BY <3>1 DEF Moved
  <2>5. \A k \in Jobs : k # j => (Due(k)' => Due(k))  BY <2>3, <2>4 DEF Due
  <2>6. j \in Jobs /\ requeued' = [requeued EXCEPT ![j] = @ + 1]  BY <2>1, <2>3
  <2> HIDE DEF j, d
  <2>7. \A k \in Jobs : requeued'[k] = IF k = j THEN requeued[j] + 1 ELSE requeued[k]
    BY <1>f, <2>6
  <2>8. requeued[j] \in Nat /\ execs[j] \in Nat  BY <1>f, <2>6
  <2>9. execs[j] <= 1 + requeued[j]  BY <2>6 DEF RetryInv
  <2>10. \A k \in Jobs : execs[k] \in Nat /\ requeued[k] \in Nat  BY <1>f
  <2>11. execs' = execs /\ queued' = queued  BY <2>3
  <2>12. \A k \in Jobs :
           /\ execs[k] <= 1 + requeued[k]
           /\ Due(k) => execs[k] <= requeued[k]
           /\ k \notin queued => execs[k] = 0
    BY DEF RetryInv
  <2>13. \A k \in Jobs : k # j =>
           /\ execs'[k] <= 1 + requeued'[k]
           /\ Due(k)' => execs'[k] <= requeued'[k]
           /\ k \notin queued' => execs'[k] = 0
    BY <2>5, <2>7, <2>11, <2>12
  <2>14. /\ execs'[j] <= 1 + requeued'[j]
         /\ execs'[j] <= requeued'[j]
         /\ j \notin queued' => execs'[j] = 0
    BY <2>6, <2>7, <2>8, <2>9, <2>11, <2>12
  <2> QED BY <2>13, <2>14 DEF RetryInv
<1> QED BY <1>2, <1>3, <1>4, <1>5, <1>6, <1>7, RetryRun DEF QueueNext, RequeueStep

\* A workload is never run more often than its job was queued and put back.
THEOREM RetriesAreAsked ==
  ASSUME Discipline
  PROVE  QueueSpec => []NoSilentRetry
<1>1. QueueInit => QueueInv  BY InitInv
<1>2. QueueInv /\ [QueueNext]_vars => QueueInv'  BY InvStep
<1>3. QueueInit => RetryInv
  BY QueueAssumption DEF QueueInit, RetryInv, Due, Exists
<1>4. QueueInv /\ RetryInv /\ [QueueNext]_vars => RetryInv'
  BY NextTypes, RetryStep DEF QueueInv
<1>5. RetryInv => NoSilentRetry  BY DEF RetryInv, NoSilentRetry
<1> QED BY <1>1, <1>2, <1>3, <1>4, <1>5, PTL DEF QueueSpec

-----------------------------------------------------------------------------
(* The result in the file is that of the directory.  save_job()'s .tmp file     *)
(* and the job file it replaces are, between two steps, what their writer left: *)
(* nobody else has the job.                                                     *)
AgreeInv ==
  /\ ResultAgrees
  /\ \A r \in Runners :
       /\ pc[r] = "replace" => tmp["running"][cur[r]] = verdict[r]
       /\ pc[r] = "move" => file["running"][cur[r]] = verdict[r]
  /\ \A q \in Requeuers :
       /\ qpc[q] = "replace" => tmp[qdir[q]][qjob[q]] = "fresh"
       /\ qpc[q] = "move" => file[qdir[q]][qjob[q]] = "fresh"

\* Who is inside save_job() has the job, and only that one.
LEMMA OwnJob ==
  ASSUME QueueInv
  PROVE  /\ \A r \in Runners : pc[r] \notin {"idle", "claim"} =>
              cur[r] \in Jobs /\ Exists("running", cur[r]) /\ ~Exists("pending", cur[r])
         /\ \A q \in Requeuers : qpc[q] # "idle" =>
              /\ qjob[q] \in Jobs /\ qdir[q] \in States /\ qdir[q] # "pending"
              /\ Exists(qdir[q], qjob[q]) /\ ~Exists("pending", qjob[q])
         /\ \A r, x \in Runners : cur[r] = cur[x] /\ cur[r] \in Jobs => r = x
         /\ \A r \in Runners, q \in Requeuers :
              cur[r] \in Jobs /\ qjob[q] \in Jobs => cur[r] # qjob[q]
<1> USE QueueAssumption
<1>1. QueueTypeOK /\ OneState /\ OneHolder /\ HandsInv  BY DEF QueueInv
<1>2. ASSUME NEW r \in Runners, pc[r] \notin {"idle", "claim"}
      PROVE  cur[r] \in Jobs /\ Exists("running", cur[r]) /\ ~Exists("pending", cur[r])
  <2>1. cur[r] \in Jobs
    <3>1. cur[r] \in Jobs \cup {NoJob} /\ (cur[r] = NoJob <=> pc[r] \in {"idle", "claim"})
      BY <1>1 DEF QueueTypeOK
    <3> QED BY <1>2, <3>1
  <2>2. Exists("running", cur[r])  BY <1>1, <2>1 DEF HandsInv
  <2> QED BY <1>1, <2>1, <2>2 DEF OneState
<1>3. ASSUME NEW q \in Requeuers, qpc[q] # "idle"
      PROVE  /\ qjob[q] \in Jobs /\ qdir[q] \in States /\ qdir[q] # "pending"
             /\ Exists(qdir[q], qjob[q]) /\ ~Exists("pending", qjob[q])
  <2>1. qjob[q] \in Jobs /\ qdir[q] \in States
    <3>1. /\ qjob[q] \in Jobs \cup {NoJob} /\ (qjob[q] = NoJob <=> qpc[q] = "idle")
          /\ qdir[q] \in States
      BY <1>1 DEF QueueTypeOK
    <3> QED BY <1>3, <3>1
  <2>2. qdir[q] # "pending" /\ Exists(qdir[q], qjob[q])  BY <1>1, <2>1 DEF HandsInv
  <2> QED BY <1>1, <2>1, <2>2 DEF OneState
<1>4. ASSUME NEW r \in Runners, NEW x \in Runners, cur[r] = cur[x], cur[r] \in Jobs
      PROVE  r = x
  BY <1>1, <1>4 DEF OneHolder
<1>5. ASSUME NEW r \in Runners, NEW q \in Requeuers, cur[r] \in Jobs, cur[r] = qjob[q]
      PROVE  FALSE
  <2>1. /\ Exists("running", cur[r]) /\ Exists(qdir[q], cur[r]) /\ qdir[q] \in States
        /\ qdir[q] = "running" => ~Held(cur[r])
    BY <1>1, <1>5 DEF HandsInv, QueueTypeOK
  <2>2. qdir[q] = "running"  BY <1>1, <1>5, <2>1 DEF OneState
  <2> QED BY <2>1, <2>2 DEF Held
<1> QED BY <1>2, <1>3, <1>4, <1>5

\* What a step of a runner does to a job that is not its own.
LEMMA RunTouches ==
  ASSUME QueueTypeOK, NEW r \in Runners, RunStep(r) \/ KillRunner(r),
         NEW s \in States, NEW j \in Jobs, cur[r] # j, ~Exists("pending", j)
  PROVE  tmp'[s][j] = tmp[s][j] /\ file'[s][j] = file[s][j]
<1>t. /\ file \in [States -> [Jobs -> Contents]]
      /\ tmp \in [States -> [Jobs -> {"absent"} \cup Documents]]
      /\ cur[r] \in Jobs \cup {NoJob} /\ verdict[r] \in States
  BY DEF QueueTypeOK
<1>1. CASE UNCHANGED queueVars  BY <1>1 DEF queueVars
<1>2. CASE Claim(r)
  <2>1. PICK k \in todo[r] : IF Exists("pending", k) THEN Rename("pending", "running", k)
                                                   ELSE file' = file
    BY <1>2 DEF Claim
  <2>2. tmp' = tmp  BY <1>2 DEF Claim
  <2>3. CASE Exists("pending", k)
    <3>1. k # j /\ k \in Jobs  BY <2>3 DEF QueueTypeOK
    <3> QED BY <1>t, <2>1, <2>2, <2>3, <3>1 DEF Rename
  <2>4. CASE ~Exists("pending", k)  BY <2>1, <2>2, <2>4
  <2> QED BY <2>3, <2>4
<1>3. CASE SaveResult(r)  BY <1>t, <1>3 DEF SaveResult, WriteTmp
<1>4. CASE ReplaceResult(r)
  <2>1. CASE ReplaceByTmp("running", cur[r])  BY <1>t, <2>1 DEF ReplaceByTmp
  <2> QED BY <1>1, <1>4, <2>1 DEF ReplaceResult
<1>5. CASE MoveResult(r)
  <2>1. tmp' = tmp  BY <1>5 DEF MoveResult
  <2>2. CASE Rename("running", verdict[r], cur[r])  BY <1>t, <2>1, <2>2 DEF Rename
  <2>3. CASE file' = file  BY <2>1, <2>3
  <2> QED BY <1>5, <2>2, <2>3 DEF MoveResult
<1> QED BY <1>1, <1>2, <1>3, <1>4, <1>5
        DEF RunStep, List, RunDone, Load, MakeRunDir, Execute, KillRunner

LEMMA RunAgrees ==
  ASSUME QueueInv, AgreeInv, NEW r \in Runners, RunStep(r) \/ KillRunner(r)
  PROVE  AgreeInv'
<1> USE QueueAssumption
<1>t. /\ QueueTypeOK
      /\ file \in [States -> [Jobs -> Contents]]
      /\ tmp \in [States -> [Jobs -> {"absent"} \cup Documents]]
      /\ cur \in [Runners -> Jobs \cup {NoJob}] /\ verdict \in [Runners -> Verdicts]
      /\ todo \in [Runners -> SUBSET Jobs]
  BY DEF QueueInv, QueueTypeOK
<1>p. pc \in [Runners -> {"idle", "claim", "load", "mkdir", "execute", "save", "replace", "move"}]
  BY DEF QueueInv, QueueTypeOK
<1>f. UNCHANGED <<qpc, qjob, qdir>>
  BY DEF RunStep, KillRunner, List, Claim, RunDone, Load, MakeRunDir, Execute, SaveResult,
         ReplaceResult, MoveResult, requeueVars
<1>1. ASSUME NEW x \in Runners, x # r
      PROVE  /\ pc'[x] = "replace" => tmp'["running"][cur'[x]] = verdict'[x]
             /\ pc'[x] = "move" => file'["running"][cur'[x]] = verdict'[x]
  <2>1. pc'[x] = pc[x] /\ cur'[x] = cur[x] /\ verdict'[x] = verdict[x]
    BY <1>t, <1>p, <1>1 DEF RunStep, KillRunner, List, Claim, RunDone, Load, MakeRunDir, Execute,
         SaveResult, ReplaceResult, MoveResult, Die, Goto
  <2>2. CASE pc[x] \in {"replace", "move"}
    <3>1. /\ cur[x] \in Jobs /\ ~Exists("pending", cur[x])
          /\ cur[r] # cur[x] /\ "running" \in States
      BY <1>1, <2>2, OwnJob
    <3>2. /\ tmp'["running"][cur[x]] = tmp["running"][cur[x]]
          /\ file'["running"][cur[x]] = file["running"][cur[x]]
      BY <1>t, <3>1, RunTouches
    <3> QED BY <2>1, <2>2, <3>2 DEF AgreeInv
  <2> QED BY <2>1, <2>2
<1>2. /\ pc'[r] = "replace" => tmp'["running"][cur'[r]] = verdict'[r]
      /\ pc'[r] = "move" => file'["running"][cur'[r]] = verdict'[r]
  <2>1. CASE SaveResult(r)
    <3>1. cur[r] \in Jobs  BY <2>1, OwnJob DEF SaveResult
    <3>2. /\ tmp' = [tmp EXCEPT !["running"][cur[r]] = verdict[r]]
          /\ pc'[r] = "replace" /\ cur' = cur /\ verdict' = verdict
      BY <1>p, <2>1 DEF SaveResult, WriteTmp, Goto
    <3> QED BY <1>t, <3>1, <3>2
  <2>2. CASE ReplaceResult(r)
    <3>1. cur[r] \in Jobs /\ tmp["running"][cur[r]] = verdict[r]
      BY <2>2, OwnJob DEF ReplaceResult, AgreeInv
    <3>2. CASE tmp["running"][cur[r]] = "absent"
      BY <1>p, <2>2, <3>2 DEF ReplaceResult, Die, Goto
    <3>3. CASE tmp["running"][cur[r]] # "absent"
      <4>1. /\ file' = [file EXCEPT !["running"][cur[r]] = tmp["running"][cur[r]]]
            /\ pc'[r] = "move" /\ cur' = cur /\ verdict' = verdict
        BY <1>p, <2>2, <3>3 DEF ReplaceResult, ReplaceByTmp, Goto
      <4> QED BY <1>t, <3>1, <4>1
    <3> QED BY <3>2, <3>3
  <2>3. CASE ~SaveResult(r) /\ ~ReplaceResult(r)
    <3>1. pc'[r] \notin {"replace", "move"}
      BY <1>p, <2>3 DEF RunStep, KillRunner, List, Claim, RunDone, Load, MakeRunDir, Execute,
           MoveResult, Die, Goto
    <3> QED BY <3>1
  <2> QED BY <2>1, <2>2, <2>3
<1>3. ASSUME NEW q \in Requeuers
      PROVE  /\ qpc'[q] = "replace" => tmp'[qdir'[q]][qjob'[q]] = "fresh"
             /\ qpc'[q] = "move" => file'[qdir'[q]][qjob'[q]] = "fresh"
  <2>1. CASE qpc[q] \in {"replace", "move"}
    <3>1. /\ qjob[q] \in Jobs /\ qdir[q] \in States /\ ~Exists("pending", qjob[q])
          /\ cur[r] # qjob[q]
      BY <2>1, OwnJob
    <3>2. /\ tmp'[qdir[q]][qjob[q]] = tmp[qdir[q]][qjob[q]]
          /\ file'[qdir[q]][qjob[q]] = file[qdir[q]][qjob[q]]
      <4>1. PICK j \in Jobs, d \in States : j = qjob[q] /\ d = qdir[q]  BY <3>1
      <4>2. cur[r] # j /\ ~Exists("pending", j)  BY <3>1, <4>1
      <4>3. tmp'[d][j] = tmp[d][j] /\ file'[d][j] = file[d][j]
        BY ONLY <1>t, <4>2, RunTouches, RunStep(r) \/ KillRunner(r)
      <4> QED BY <4>1, <4>3
    <3> QED BY <1>f, <3>2 DEF AgreeInv
  <2> QED BY <1>f, <2>1
<1>4. ASSUME NEW j \in Jobs
      PROVE  file'["pending"][j] \notin Verdicts /\ file'["done"][j] # "failed"
               /\ file'["failed"][j] # "done"
  <2>1. file["pending"][j] \notin Verdicts /\ file["done"][j] # "failed"
          /\ file["failed"][j] # "done"
    BY DEF AgreeInv, ResultAgrees
  <2>2. CASE UNCHANGED file  BY <2>1, <2>2
  <2>3. CASE Claim(r)
    <3>1. PICK k \in todo[r] : IF Exists("pending", k) THEN Rename("pending", "running", k)
                                                     ELSE file' = file
      BY <2>3 DEF Claim
    <3>2. k \in Jobs  BY <1>t
    <3>3. CASE Rename("pending", "running", k)
      BY <1>t, <2>1, <3>2, <3>3 DEF Rename
    <3> QED BY <2>1, <3>1, <3>3
  <2>4. CASE ReplaceResult(r)
    <3>1. CASE ReplaceByTmp("running", cur[r])
      <4>1. cur[r] \in Jobs  BY <2>4, OwnJob DEF ReplaceResult
      <4> QED BY <1>t, <2>1, <3>1, <4>1 DEF ReplaceByTmp
    <3> QED BY <2>2, <2>4, <3>1 DEF ReplaceResult, queueVars
  <2>5. CASE MoveResult(r)
    <3>1. CASE Rename("running", verdict[r], cur[r])
      <4>1. cur[r] \in Jobs /\ file["running"][cur[r]] = verdict[r]
        BY <2>5, OwnJob DEF MoveResult, AgreeInv
      <4>2. verdict[r] \in Verdicts  BY <1>t
      <4>3. file' = [file EXCEPT !["running"][cur[r]] = "absent",
                                 ![verdict[r]][cur[r]] = verdict[r]]
        BY <3>1, <4>1 DEF Rename
      <4> QED BY <1>t, <2>1, <4>1, <4>2, <4>3
    <3> QED BY <2>2, <2>5, <3>1 DEF MoveResult
  <2> QED BY <2>2, <2>3, <2>4, <2>5
          DEF RunStep, List, RunDone, Load, MakeRunDir, Execute, SaveResult, WriteTmp,
              KillRunner, queueVars
<1> QED BY <1>1, <1>2, <1>3, <1>4 DEF AgreeInv, ResultAgrees

LEMMA RequeueAgrees ==
  ASSUME QueueInv, AgreeInv, Discipline, NEW q \in Requeuers, RequeueStep(q) \/ KillRequeuer(q)
  PROVE  AgreeInv'
<1> USE QueueAssumption
<1>t. /\ QueueTypeOK
      /\ file \in [States -> [Jobs -> Contents]]
      /\ tmp \in [States -> [Jobs -> {"absent"} \cup Documents]]
      /\ qdir \in [Requeuers -> States] /\ qjob \in [Requeuers -> Jobs \cup {NoJob}]
  BY DEF QueueInv, QueueTypeOK
<1>p. qpc \in [Requeuers -> {"idle", "load", "save", "replace", "move"}]
  BY DEF QueueInv, QueueTypeOK
<1>f. UNCHANGED <<pc, cur, verdict>>
  BY DEF RequeueStep, KillRequeuer, Find, QLoad, QSave, QReplace, QMove, runVars
<1>o. \A x \in Requeuers : x = q  BY DEF Discipline
<1>g. ASSUME NEW j \in Jobs
      PROVE  file["pending"][j] \notin Verdicts /\ file["done"][j] # "failed"
               /\ file["failed"][j] # "done"
  BY DEF AgreeInv, ResultAgrees
<1>j. qpc[q] # "idle" => qjob[q] \in Jobs /\ qdir[q] \in States
  BY OwnJob
<1>1. CASE UNCHANGED <<file, tmp>> /\ qpc'[q] \notin {"replace", "move"}
  <2>1. \A x \in Requeuers : qpc'[x] \notin {"replace", "move"}  BY <1>o, <1>1
  <2> QED BY <1>1, <1>f, <2>1 DEF AgreeInv, ResultAgrees
<1>2. CASE Find(q) \/ QLoad(q) \/ KillRequeuer(q)
  <2>1. UNCHANGED <<file, tmp>>
    BY <1>2 DEF Find, QLoad, KillRequeuer, queueVars
  <2>2. qpc'[q] \in {"idle", "load", "save"}
    BY <1>p, <1>2 DEF Find, QLoad, KillRequeuer, QDie, QGoto
  <2> QED BY <1>1, <2>1, <2>2
<1>3. ASSUME NEW x \in Runners, pc[x] \in {"replace", "move"}, qpc[q] # "idle"
      PROVE  cur[x] \in Jobs /\ cur[x] # qjob[q]
  BY <1>3, <1>j, OwnJob
<1>4. CASE QSave(q)
  <2>1. /\ tmp' = [tmp EXCEPT ![qdir[q]][qjob[q]] = "fresh"] /\ file' = file
        /\ qpc'[q] = "replace" /\ UNCHANGED <<qjob, qdir>> /\ qpc[q] # "idle"
    BY <1>p, <1>4 DEF QSave, WriteTmp, QGoto
  <2>2. tmp'[qdir[q]][qjob[q]] = "fresh"  BY <1>t, <1>j, <2>1
  <2>3. ASSUME NEW x \in Runners
        PROVE  /\ pc'[x] = "replace" => tmp'["running"][cur'[x]] = verdict'[x]
               /\ pc'[x] = "move" => file'["running"][cur'[x]] = verdict'[x]
    <3>1. CASE pc[x] \in {"replace", "move"}
      <4>1. cur[x] \in Jobs /\ cur[x] # qjob[q]  BY <1>3, <2>1, <3>1
      <4>2. tmp'["running"][cur[x]] = tmp["running"][cur[x]]  BY <1>t, <1>j, <2>1, <4>1
      <4> QED BY <1>f, <2>1, <4>2 DEF AgreeInv
    <3> QED BY <1>f, <3>1
  <2>4. \A x \in Requeuers :
          /\ qpc'[x] = "replace" => tmp'[qdir'[x]][qjob'[x]] = "fresh"
          /\ qpc'[x] = "move" => file'[qdir'[x]][qjob'[x]] = "fresh"
    BY <1>o, <2>1, <2>2
  <2>5. ResultAgrees'  BY <2>1 DEF AgreeInv, ResultAgrees
  <2> QED BY <2>3, <2>4, <2>5 DEF AgreeInv
<1>5. CASE QReplace(q)
  <2>1. CASE tmp[qdir[q]][qjob[q]] = "absent"
    <3>1. UNCHANGED <<file, tmp>> /\ qpc'[q] = "idle"
      BY <1>p, <1>5, <2>1 DEF QReplace, QDie, QGoto, queueVars
    <3> QED BY <1>1, <3>1
  <2>2. CASE tmp[qdir[q]][qjob[q]] # "absent"
    <3>1. /\ qpc[q] = "replace" /\ qpc'[q] = "move" /\ UNCHANGED <<qjob, qdir>>
          /\ ReplaceByTmp(qdir[q], qjob[q])
      BY <1>p, <1>5, <2>2 DEF QReplace, QGoto
    <3>2. tmp[qdir[q]][qjob[q]] = "fresh" /\ qjob[q] \in Jobs /\ qdir[q] \in States
      BY <1>j, <3>1 DEF AgreeInv
    <3>3. /\ file' = [file EXCEPT ![qdir[q]][qjob[q]] = "fresh"]
          /\ tmp' = [tmp EXCEPT ![qdir[q]][qjob[q]] = "absent"]
      BY <3>1, <3>2 DEF ReplaceByTmp
    <3>4. file'[qdir[q]][qjob[q]] = "fresh"  BY <1>t, <3>2, <3>3
    <3>5. ASSUME NEW x \in Runners
          PROVE  /\ pc'[x] = "replace" => tmp'["running"][cur'[x]] = verdict'[x]
                 /\ pc'[x] = "move" => file'["running"][cur'[x]] = verdict'[x]
      <4>1. CASE pc[x] \in {"replace", "move"}
        <5>1. cur[x] \in Jobs /\ cur[x] # qjob[q]  BY <1>3, <3>1, <4>1
        <5>2. /\ tmp'["running"][cur[x]] = tmp["running"][cur[x]]
              /\ file'["running"][cur[x]] = file["running"][cur[x]]
          BY <1>t, <3>2, <3>3, <5>1
        <5> QED BY <1>f, <5>2 DEF AgreeInv
      <4> QED BY <1>f, <4>1
    <3>6. \A x \in Requeuers :
            /\ qpc'[x] = "replace" => tmp'[qdir'[x]][qjob'[x]] = "fresh"
            /\ qpc'[x] = "move" => file'[qdir'[x]][qjob'[x]] = "fresh"
      BY <1>o, <3>1, <3>4
    <3>7. ResultAgrees'
      <4>1. ASSUME NEW j \in Jobs, NEW s \in States
            PROVE  file'[s][j] = file[s][j] \/ file'[s][j] = "fresh"
        BY <1>t, <3>2, <3>3
      <4> QED BY <1>g, <4>1 DEF ResultAgrees
    <3> QED BY <3>5, <3>6, <3>7 DEF AgreeInv
  <2> QED BY <2>1, <2>2
<1>6. CASE QMove(q)
  <2>1. tmp' = tmp /\ qpc[q] = "move" /\ qpc'[q] = "idle"
    BY <1>p, <1>6 DEF QMove, QDie, QGoto
  <2>2. CASE UNCHANGED file  BY <1>1, <2>1, <2>2
  <2>3. CASE Rename(qdir[q], "pending", qjob[q])
    <3>1. file[qdir[q]][qjob[q]] = "fresh" /\ qjob[q] \in Jobs /\ qdir[q] \in States
      BY <1>j, <2>1 DEF AgreeInv
    <3>2. file' = [file EXCEPT ![qdir[q]][qjob[q]] = "absent", !["pending"][qjob[q]] = "fresh"]
      BY <2>3, <3>1 DEF Rename
    <3>3. ASSUME NEW j \in Jobs, NEW s \in States
          PROVE  /\ file'[s][j] = file[s][j] \/ file'[s][j] \in {"absent", "fresh"}
                 /\ j # qjob[q] => file'[s][j] = file[s][j]
      BY <1>t, <3>1, <3>2
    <3>4. ResultAgrees'  BY <1>g, <3>3 DEF ResultAgrees
    <3>5. ASSUME NEW x \in Runners
          PROVE  /\ pc'[x] = "replace" => tmp'["running"][cur'[x]] = verdict'[x]
                 /\ pc'[x] = "move" => file'["running"][cur'[x]] = verdict'[x]
      <4>1. CASE pc[x] \in {"replace", "move"}
        <5>1. cur[x] \in Jobs /\ cur[x] # qjob[q]  BY <1>3, <2>1, <4>1
        <5>2. file'["running"][cur[x]] = file["running"][cur[x]]  BY <3>3, <5>1
        <5> QED BY <1>f, <2>1, <5>2 DEF AgreeInv
      <4> QED BY <1>f, <4>1
    <3>6. \A x \in Requeuers : qpc'[x] = "idle"  BY <1>o, <2>1
    <3> QED BY <3>4, <3>5, <3>6 DEF AgreeInv
  <2> QED BY <1>6, <2>2, <2>3 DEF QMove
<1> QED BY <1>2, <1>4, <1>5, <1>6 DEF RequeueStep

LEMMA QueuingAgrees ==
  ASSUME QueueInv, AgreeInv,
         \/ \E j \in Jobs : Add(j) \/ ServerOpen(j)
         \/ \E s \in States, j \in Jobs : ServerWrite(s, j)
  PROVE  AgreeInv'
<1> USE QueueAssumption
<1>t. file \in [States -> [Jobs -> Contents]]  BY DEF QueueInv, QueueTypeOK
<1>f. UNCHANGED <<pc, cur, verdict, qpc, qjob, qdir, tmp>>
  BY DEF Add, ServerOpen, ServerWrite, runVars, requeueVars
<1>1. PICK j \in Jobs, s \in States, c \in {"fresh", "partial"} :
        /\ file' = [file EXCEPT ![s][j] = c]
        /\ (s = "pending" /\ j \notin queued) \/ (file[s][j] = "partial" /\ c = "fresh")
  BY DEF Add, ServerOpen, ServerWrite
<1>2. \A k \in Jobs, t \in States :
        file'[t][k] = IF t = s /\ k = j THEN c ELSE file[t][k]
  BY <1>t, <1>1
<1>3. ResultAgrees'
  <2> SUFFICES ASSUME NEW k \in Jobs
               PROVE  file'["pending"][k] \notin Verdicts /\ file'["done"][k] # "failed"
                        /\ file'["failed"][k] # "done"
    BY DEF ResultAgrees
  <2>1. file["pending"][k] \notin Verdicts /\ file["done"][k] # "failed"
          /\ file["failed"][k] # "done"
    BY DEF AgreeInv, ResultAgrees
  <2> QED BY <1>2, <2>1
<1>5. ASSUME NEW x \in Runners
      PROVE  /\ pc'[x] = "replace" => tmp'["running"][cur'[x]] = verdict'[x]
             /\ pc'[x] = "move" => file'["running"][cur'[x]] = verdict'[x]
  <2>1. CASE pc[x] = "move"
    <3>1. cur[x] \in Jobs /\ Exists("running", cur[x]) /\ file["running"][cur[x]] = verdict[x]
      BY <2>1, OwnJob DEF AgreeInv
    <3>2. verdict[x] \in Verdicts  BY DEF QueueInv, QueueTypeOK
    <3>3. ~(s = "running" /\ j = cur[x])  BY <1>1, <3>1, <3>2
    <3> QED BY <1>2, <1>f, <2>1, <3>1, <3>3
  <2>2. CASE pc[x] # "move"  BY <1>f, <2>2 DEF AgreeInv
  <2> QED BY <2>1, <2>2
<1>6. ASSUME NEW q \in Requeuers
      PROVE  /\ qpc'[q] = "replace" => tmp'[qdir'[q]][qjob'[q]] = "fresh"
             /\ qpc'[q] = "move" => file'[qdir'[q]][qjob'[q]] = "fresh"
  <2>1. CASE qpc[q] = "move"
    <3>1. /\ qjob[q] \in Jobs /\ qdir[q] \in States /\ qdir[q] # "pending"
          /\ file[qdir[q]][qjob[q]] = "fresh"
      BY <2>1, OwnJob DEF AgreeInv
    <3>2. ~(s = qdir[q] /\ j = qjob[q])  BY <1>1, <3>1
    <3> QED BY <1>2, <1>f, <2>1, <3>1, <3>2
  <2>2. CASE qpc[q] # "move"  BY <1>f, <2>2 DEF AgreeInv
  <2> QED BY <2>1, <2>2
<1> QED BY <1>3, <1>5, <1>6 DEF AgreeInv

\* The result in a job's file is that of its directory, and none goes back to
\* pending/ with it, for any jobs, runners, run ids and kills, while one person
\* requeues and leaves running jobs alone.
THEOREM ResultsAgree ==
  ASSUME Discipline
  PROVE  QueueSpec => []ResultAgrees
<1>1. QueueInit => AgreeInv
  BY QueueAssumption DEF QueueInit, AgreeInv, ResultAgrees
<1>2. QueueInv /\ AgreeInv /\ [QueueNext]_vars => AgreeInv'
  <2> SUFFICES ASSUME QueueInv, AgreeInv, [QueueNext]_vars PROVE AgreeInv'  OBVIOUS
  <2>1. CASE UNCHANGED vars
    BY <2>1 DEF AgreeInv, ResultAgrees, vars, queueVars, runVars, requeueVars
  <2> QED BY <2>1, QueuingAgrees, RunAgrees, RequeueAgrees DEF QueueNext
<1>3. AgreeInv => ResultAgrees  BY DEF AgreeInv
<1>4. QueueInit => QueueInv  BY InitInv
<1>5. QueueInv /\ [QueueNext]_vars => QueueInv'  BY InvStep
<1> QED BY <1>1, <1>2, <1>3, <1>4, <1>5, PTL DEF QueueSpec
=============================================================================
