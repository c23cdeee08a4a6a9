------------------------------- MODULE MCTables -------------------------------
(***************************************************************************)
(* Two tables of xv6 that several processes change at once under many      *)
(* locks, the inodes and the processes.  In every behaviour one of them is *)
(* in use.                                                                 *)
(***************************************************************************)
EXTENDS Inode, Proc

VARIABLE which

all == <<which, vars, procVars>>

(***************************************************************************)
(* One process makes and removes a directory, the other works in it or in  *)
(* the root, and both remove the file there.                               *)
(***************************************************************************)
MCMaker == CHOOSE p \in Procs : TRUE
MCDir == CHOOSE n \in Names : TRUE
MCFile == CHOOSE n \in Names : n # MCDir
InRoot == [abs |-> TRUE, elems |-> <<MCDir>>]
Here == [abs |-> FALSE, elems |-> <<MCFile>>]
CallOf(o, path) == [op |-> o, path |-> path, new |-> NoPath]
MCCalls == [p \in Procs |->
  IF p = MCMaker THEN {CallOf("mkdir", InRoot), CallOf("unlink", InRoot), CallOf("unlink", Here)}
  ELSE {CallOf("create", Here), CallOf("unlink", Here), CallOf("chdir", InRoot),
        [op |-> "link", path |-> Here, new |-> InRoot]}]

\* The entries of the inode table, and the CPUs, are interchangeable.  As only
\* one of the two is in use, it is enough to exchange the two CPUs whenever
\* two entries are exchanged.
OtherCPU == [c \in CPUs |-> CHOOSE d \in CPUs : d # c]
Exchange == {p \in Permutations(Slots) : Cardinality({s \in Slots : p[s] = s}) = 1}
MCSymmetry == {IF p \in Exchange THEN p @@ OtherCPU ELSE p : p \in Permutations(Slots)}

MCInit == which \in {"inodes", "processes"} /\ Init /\ ProcInit
MCNext ==
  \/ which = "inodes" /\ Next /\ UNCHANGED <<which, procVars>>
  \* ialloc, or iget with its lock held, has stopped the kernel in panic.
  \/ (\E p \in Procs : pc[p] \in {"panic", "igetPanic"}) /\ UNCHANGED all
  \/ which = "processes" /\ ProcNext /\ UNCHANGED <<which, vars>>
MCSpec == MCInit /\ [][MCNext]_all
==============================================================================
