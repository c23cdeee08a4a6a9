-------------------------------- MODULE MCDisk --------------------------------
(***************************************************************************)
(* xv6's disk driver, the buffer cache above it, and the driver that       *)
(* mini-riscv-os took from xv6.  In every behaviour one of them runs.      *)
(***************************************************************************)
EXTENDS VirtioDisk, BufferCache, MiniKernel

VARIABLE which

all == <<which, vars, bioVars, kernelvars>>

\* Processes, blocks, buffers and contents are interchangeable; those that have
\* the same model values are exchanged together.
MCSymmetry == Permutations(Bufs) \cup Permutations(Data) \cup Permutations(Buffers)

\* Those that do not run have contents that do not matter.
Blank == CHOOSE v \in Sectors : TRUE
MCInit ==
  /\ which \in {"xv6", "cache", "mini"}
  /\ Init /\ BioInit /\ KernelInit
  /\ which # "xv6" => block = [b \in Bufs |-> CHOOSE d \in Data : TRUE] /\ data = block
  /\ which # "cache" => /\ bdisk = [n \in Blocks |-> CHOOSE c \in Contents : TRUE]
                        /\ bdata = [b \in Buffers |-> CHOOSE c \in Contents : TRUE]
                        /\ lru = SetToSeq(Buffers)
  /\ which # "mini" => dev.block = Blank /\ disk.data = Blank
MCNext ==
  \/ which = "xv6" /\ Next /\ UNCHANGED <<which, bioVars, kernelvars>>
  \/ which = "cache" /\ BioNext /\ UNCHANGED <<which, vars, kernelvars>>
  \* bget has found no buffer and stopped the kernel in panic.
  \/ ~CacheLockFree /\ UNCHANGED all
  \/ which = "mini" /\ KernelNext /\ UNCHANGED <<which, vars, bioVars>>
MCSpec == MCInit /\ [][MCNext]_all
===============================================================================
