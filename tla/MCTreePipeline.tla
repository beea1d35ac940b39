---------------------------- MODULE MCTreePipeline ----------------------------
(***************************************************************************)
(* Instances of TreePipeline for TLC.  The file is written by the tracer,  *)
(* or it is any short file that TreeFile allows, pids that are used twice  *)
(* included.                                                               *)
(***************************************************************************)
EXTENDS TreePipeline, TLC

CONSTANTS p1, p2, p3, MaxLines, MaxInc

VARIABLE writer

writerVars == <<kernelVars, known, pending, target, events, rootStatus, open>>

\* The fork and exit lines that may come next: about a process of the file, unless
\* it is the fork line of a new one or a block flushed at the very end.
Allowed(l) ==
  /\ l.kind = "exit" => l.by = l.pid /\ l.byInc = l.inc
  /\ l.kind = "fork" \/ loop # "wait" \/ Promised!Process(l) \in Promised!Named
NextLines ==
  {l \in [kind : {"fork", "exit"}, pid : Pids, inc : 1 .. MaxInc, by : Pids, byInc : 1 .. MaxInc,
          at : {Len(file)}, groups : {0}] : Allowed(l)}

WriteLine == Len(file) < MaxLines /\ UNCHANGED loop /\ Promised!Write(NextLines)
LastNamed == loop = "wait" /\ loop' = "flush" /\ UNCHANGED file
EndOfFile == loop = "flush" /\ loop' = "done" /\ UNCHANGED file

MCInit == PipelineInit /\ writer \in {"tracer", "contract"}
MCNext ==
  /\ UNCHANGED writer
  /\ \/ writer = "tracer" /\ Trace
     \/ /\ writer = "contract" /\ loop # "done"
        /\ (WriteLine \/ LastNamed \/ EndOfFile) /\ UNCHANGED <<writerVars, readerVars>>
     \/ Rebuild \/ Shown

MCSpec == MCInit /\ [][MCNext]_<<writer, allVars>>

Symmetry == Permutations(Pids \ {Root})
=============================================================================
