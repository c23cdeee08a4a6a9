------------------------------ MODULE MCMemory ------------------------------
(***************************************************************************)
(* The memory of xv6's processes, the heap a program makes of it, the heap *)
(* of mini-riscv-os; or one of the programs that test the system calls of  *)
(* xv6: in every behaviour one of them runs.                               *)
(***************************************************************************)
EXTENDS Memory, Malloc

VARIABLES which, sys, process

heaps == <<page, hdr, freep, brk, alien, block>>
calling == <<sys, process>>
all == <<which, vars, heaps, calling>>

Seg(vaddr, memsz, filesz) == [vaddr |-> vaddr, memsz |-> memsz, filesz |-> filesz, short |-> FALSE]
Short(s) == [s EXCEPT !.short = TRUE]
\* One segment with a bss; two that share a page, in either order; none at
\* all; and what exec must refuse: an empty segment at 0, one that is not
\* aligned, more file than memory, a file that ends early.
MCPrograms ==
  {[segments |-> s, fits |-> TRUE] : s \in
    { <<Seg(0, 3, 1)>>, <<Seg(2, 2, 1), Seg(0, 1, 1)>>, <<>>,
      <<Seg(0, 0, 0)>>, <<Seg(1, 2, 1)>>, <<Seg(0, 1, 1), Seg(2, 1, 2)>>, <<Seg(0, 2, 2), Short(Seg(2, 1, 1))>> }}
  \cup {[segments |-> <<Seg(0, 1, 1)>>, fits |-> FALSE]}
MCIncrements == {-5, -2, 1, 3}

\* What mkfs makes: the root directory, four files of a block, and beside them
\* the console, which is init's.
MCImage ==
  LET Ino(type, data, blocks) ==
        [type |-> type, nlink |-> 1, ref |-> 0, ents |-> <<>>, data |-> data, blocks |-> blocks]
      contents == <<<<"r", "e", "a">>, <<"ELF", "echo">>, <<"ELF", "cat">>, <<"ELF", "init">>>>
      root == [Ino("dir", <<>>, 0) EXCEPT
                 !.ents = "." :> 1 @@ ".." :> 1 @@ "README" :> 2 @@ "echo" :> 3 @@ "cat" :> 4 @@ "init" :> 5
                          @@ "console" :> 6]
  IN [i \in 1 .. 14 |-> IF i = 1 THEN root ELSE IF i \in 2 .. 5 THEN Ino("file", contents[i - 1], 1)
                        ELSE IF i = 6 THEN Ino("device", <<>>, 0)
                        ELSE [Ino("free", <<>>, 0) EXCEPT !.nlink = 0]]
Xv6 == INSTANCE UserTests WITH
  proc <- process, NPROC <- 7, NOFILE <- 8, NFILE <- 10, NInodes <- 14, NPages <- 40, NBlocks <- 14,
  BSIZE <- 3, NDIRECT <- 2, NINDIRECT <- 2, MAXOPBLOCKS <- 6, PIPESIZE <- 2, DIRSIZ <- 14, MAXARG <- 4,
  Image <- MCImage

Others == Init /\ page_init /\ UInit /\ block = [s \in Slots |-> NoBlock]
MCInit ==
  /\ \/ which \in {"kernel", "pages", "units"} /\ Xv6!Began(<<>>)
     \/ which = "calls" /\ \E script \in Xv6!scripts : Xv6!Began(script)
  /\ Others
MCNext ==
  \/ which = "kernel" /\ Next /\ UNCHANGED <<which, heaps, calling>>
  \/ which = "pages" /\ PageNext /\ UNCHANGED <<which, vars, hdr, freep, brk, alien, calling>>
  \/ which = "units" /\ UNext /\ UNCHANGED <<which, vars, page, calling>>
  \/ which = "calls" /\ Xv6!Calling /\ UNCHANGED <<which, vars, heaps>>
MCSpec == MCInit /\ [][MCNext]_all /\ (which = "calls" => Xv6!Scheduled)

(***************************************************************************)
(* Refinement: blocks in use lie within the heap and apart, for both       *)
(* allocators.  A block of umalloc.c is as large as was asked for, one of  *)
(* alloc.c is as large as its pages are.                                   *)
(***************************************************************************)
Given == INSTANCE Allocator WITH
  heap <- IF which = "units" THEN UHeap ELSE PageHeap,
  block <- IF which = "pages" THEN PagesGiven ELSE block
HeapsImplementAllocator == Given!Spec

(***************************************************************************)
(* No memory is lost or given back too early over any sequence of calls: a *)
(* page is taken while a block covers it (alloc.c), and the free list has  *)
(* exactly the memory that is not in use, joined where it touches          *)
(* (umalloc.c).                                                            *)
(***************************************************************************)
NothingLost == IF which = "units" THEN FreeExact ELSE PagesHeld

(***************************************************************************)
(* Whatever programs do in whatever order, with calls that fail in the     *)
(* middle and undo what they did, processes killed and descriptors shared  *)
(* (sysfile.c, fs.c, file.c, pipe.c, exec.c, proc.c): every page is free,  *)
(* a process's or a pipe's, every block free or a file's, each count is    *)
(* what it counts, and what nothing leads to has been given back.          *)
(***************************************************************************)
Accounted == which = "calls" => Xv6!Accounted

(***************************************************************************)
(* Every test of usertests.c, the moves of grind.c and calls that fail for *)
(* want of a descriptor, a file or a page come to their end and are        *)
(* content with every result, in whatever order their processes run; of    *)
(* grind's echo hi | cat, with all but the exit statuses.                  *)
(***************************************************************************)
TestsPass == which = "calls" => <>Xv6!Passed
=============================================================================
