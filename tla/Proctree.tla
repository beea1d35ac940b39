------------------------------- MODULE Proctree -------------------------------
(***************************************************************************)
(* proctree: it reads a --tree file line by line and rebuilds the process  *)
(* tree (proctree.c, the loop of original_main() and its handle_...()).    *)
(*                                                                         *)
(* A process_info is a position in nodes; proc_table maps each pid that    *)
(* has not exited to its node, NoNode standing for a missing entry.        *)
(***************************************************************************)
EXTENDS Naturals, Sequences, FiniteSets, SequencesExt

CONSTANT Pids

VARIABLES
  file,          \* the lines of the tree file, as PtraceLoop writes them
  pos,           \* how many of them have been read
  proc_table,
  nodes,         \* every process_info ever allocated (total_processes of them)
  root_process

readerVars == <<pos, proc_table, nodes, root_process>>

NoNode == 0

\* What calloc gives and handle_fork, handle_comm and handle_exit fill in; inc,
\* which process of that pid it stands for, is for the properties only.
NewNode(p, i) ==
  [pid |-> p, inc |-> i, parent |-> NoNode, children |-> <<>>, start |-> 0, finish |-> 0,
   exited |-> FALSE, comm |-> "none", groups |-> 0]

ReaderInit ==
  /\ pos = 0
  /\ proc_table = [p \in Pids |-> NoNode]
  /\ nodes = <<>>
  /\ root_process = NoNode

-----------------------------------------------------------------------------
(* The table and the nodes together, as one value the handlers transform. *)

db == [table |-> proc_table, nodes |-> nodes]
Store(d) == proc_table' = d.table /\ nodes' = d.nodes

\* lookup_pid(pid,1)
Inserted(d, p, i) ==
  IF d.table[p] # NoNode THEN d
  ELSE [table |-> [d.table EXCEPT ![p] = Len(d.nodes) + 1],
        nodes |-> Append(d.nodes, NewNode(p, i))]

\* lookup_pid(pid,0), and what its fields become if there is such a node
NodeOf(d, p) == d.nodes[d.table[p]]
Updated(d, p, node) ==
  IF d.table[p] = NoNode THEN d
  ELSE [d EXCEPT !.nodes[d.table[p]] = node]

\* The first parent wins; a later fork line that names another is ignored.
Attached(d, c, p) ==
  LET child == d.table[c]
      parent == d.table[p]
      hung == [d.nodes EXCEPT ![child].parent = parent]
  IN IF d.nodes[child].parent # NoNode THEN d
     ELSE [d EXCEPT !.nodes = [hung EXCEPT ![parent].children = Append(@, child)]]

LeftInTable(d, p) == d \* slip: the entry stays after the exit
Removed(d, p) == [d EXCEPT !.table[p] = NoNode]

Next1(kind) == pos < Len(file) /\ file[pos + 1].kind = kind /\ pos' = pos + 1
Read == file[pos + 1]

ReadRoot ==
  /\ Next1("root")
  /\ LET d == Inserted(db, Read.pid, Read.inc) IN Store(d) /\ root_process' = d.table[Read.pid]
  /\ UNCHANGED file

ChildOnlyInserted(l) == \* slip: a parent not in the table yet is skipped
  LET d == Inserted(db, l.pid, l.inc) IN
  IF d.table[l.by] = NoNode THEN d ELSE Attached(d, l.pid, l.by)
Forked(l) ==
  LET d == Inserted(Inserted(db, l.pid, l.inc), l.by, l.byInc)
  IN Attached(Updated(d, l.pid, [NodeOf(d, l.pid) EXCEPT !.start = l.at]), l.pid, l.by)

ReadFork ==
  /\ Next1("fork")
  /\ Store(Forked(Read))
  /\ UNCHANGED <<file, root_process>>

ReadExec ==
  /\ Next1("exec")
  /\ Store(Updated(db, Read.pid, [NodeOf(db, Read.pid) EXCEPT !.comm = "exec"]))
  /\ UNCHANGED <<file, root_process>>

\* The comm, targetcounter and exit lines of one block, which nothing divides.
Exited(node, l) ==
  [node EXCEPT !.comm = "comm", !.groups = @ + l.groups, !.finish = l.at, !.exited = TRUE]
ReadExit ==
  /\ Next1("exit")
  /\ Store(Removed(Updated(db, Read.pid, Exited(NodeOf(db, Read.pid), Read)), Read.pid))
  /\ UNCHANGED <<file, root_process>>

\* The comm line of a killed pid; its signal line is ignored.
ReadKilled ==
  /\ Next1("killed")
  /\ Store(Updated(db, Read.pid, [NodeOf(db, Read.pid) EXCEPT !.comm = "comm"]))
  /\ UNCHANGED <<file, root_process>>

ReadIgnored ==
  /\ \E kind \in {"exited", "unknown", "signal"} : Next1(kind)
  /\ UNCHANGED <<file, proc_table, nodes, root_process>>

Reader ==
  ReadRoot \/ ReadFork \/ ReadExec \/ ReadExit \/ ReadKilled \/ ReadIgnored

AllRead == pos = Len(file)

-----------------------------------------------------------------------------

\* The nodes print_tree() visits from n down, following children.
Below(n) ==
  LET reach[k \in 0 .. Len(nodes)] ==
        IF k = 0 THEN {n}
        ELSE reach[k - 1] \cup
             UNION {Range(nodes[m].children) : m \in reach[k - 1]}
  IN reach[Len(nodes)]

(* parent and children are two views of one forest: every child is listed once, *)
(* under its parent, and no process is its own ancestor.                        *)
Forest ==
  \A n \in DOMAIN nodes :
    /\ IsInjective(nodes[n].children)
    /\ \A m \in DOMAIN nodes : m \in Range(nodes[n].children) <=> nodes[m].parent = n
    /\ \A m \in Range(nodes[n].children) : n \notin Below(m)

ProcessOf(n) == <<nodes[n].pid, nodes[n].inc>>

(* Every process has one node, and every fork line read so far hangs the node *)
(* of its child under the node of its parent, even if the pid of either is    *)
(* that of a process that exited before.                                      *)
EdgesKept ==
  /\ \A m, n \in DOMAIN nodes : ProcessOf(m) = ProcessOf(n) => m = n
  /\ \A i \in 1 .. pos : file[i].kind = "fork" =>
       \E n \in DOMAIN nodes :
         /\ ProcessOf(n) = <<file[i].pid, file[i].inc>>
         /\ nodes[n].parent # NoNode
         /\ ProcessOf(nodes[n].parent) = <<file[i].by, file[i].byInc>>
=============================================================================
