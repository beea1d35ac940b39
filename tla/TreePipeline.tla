----------------------------- MODULE TreePipeline -----------------------------
(***************************************************************************)
(* The whole way from a workload to its process tree: PtraceLoop writes    *)
(* the file, and proctree reads it once wspy is done.                      *)
(***************************************************************************)
EXTENDS PtraceLoop

VARIABLES pos, proc_table, nodes, root_process

Reading == INSTANCE Proctree
readerVars == <<pos, proc_table, nodes, root_process>>
allVars == <<vars, readerVars>>

PipelineInit == Init /\ Reading!ReaderInit

Trace == loop # "done" /\ Next /\ UNCHANGED readerVars
Rebuild == loop = "done" /\ Reading!Reader /\ UNCHANGED vars
Shown == loop = "done" /\ Reading!AllRead /\ UNCHANGED allVars

PipelineNext == Trace \/ Rebuild \/ Shown

PipelineSpec == PipelineInit /\ [][PipelineNext]_allVars

-----------------------------------------------------------------------------
\* The workload has ended, the whole file is read, and no stop was lost to SIGKILL
\* on the way to it.
Complete ==
  /\ loop = "done" /\ Reading!AllRead /\ ~SigKill
  /\ \A p \in Pids : life[p] \in {"unborn", "reaped"}

(* The tree shown is the one the kernel ran: one exited node per process, each *)
(* under the process that forked it and reached by print_tree() from the root, *)
(* however the stops were reordered on the way.                                *)
TreeRebuilt ==
  Complete =>
    /\ Len(nodes) = births
    /\ Reading!Forest /\ Reading!EdgesKept
    /\ Reading!Below(root_process) = DOMAIN nodes
    /\ \A n \in DOMAIN nodes : nodes[n].exited /\ nodes[n].comm = "comm"
    /\ \A n \in DOMAIN nodes :
         IF n = root_process THEN nodes[n].pid = Root /\ nodes[n].parent = 0
         ELSE /\ nodes[n].parent # 0
              /\ nodes[nodes[n].parent].pid = parentOf[nodes[n].pid]

(* The tree has every edge of the file, whoever wrote it. *)
EdgesKept == Reading!EdgesKept
=============================================================================
