-------------------------------- MODULE Memory --------------------------------
(***************************************************************************)
(* Physical pages and user page tables of xv6: kalloc.c, vm.c, exec.c and  *)
(* the parts of proc.c that own memory (allocproc, freeproc, growproc,     *)
(* fork).  A system call is one action, made of the same functions the     *)
(* code is made of; each takes the memory and returns the memory after it. *)
(*                                                                         *)
(* Page tables belong to one process, so that calls of several CPUs meet   *)
(* only in the list of free pages.  What another CPU can do to a call is   *)
(* to let one of its kallocs fail: luck is how many succeed before that.   *)
(*                                                                         *)
(* A table has two entries, so that the three levels of Sv39 span eight    *)
(* virtual pages; sizes are in units of half a page.  The contents of a    *)
(* data page are one value.                                                *)
(***************************************************************************)
EXTENDS Integers, FiniteSetsExt, SequencesExt

CONSTANTS
  NPages,     (* pages between end and PHYSTOP                             *)
  Processes,  (* the process table                                         *)
  Values,     (* what a program may write                                  *)
  Programs,   (* executables: see Exec                                     *)
  Increments, (* arguments of sbrk, in half pages                          *)
  MaxPages,   (* bound of the runs: pages of a program                     *)
  MaxCalls    (* bound of the runs: calls in a behaviour                   *)

ASSUME MemoryAssumption == NPages \in Nat /\ {0, 1} \subseteq Values /\ MaxPages \in 1 .. 6

VARIABLES
  mem,        (* [free, pte, data, panic], and the results of a function   *)
  proc,       (* [pagetable, trapframe, sz, state] of each slot            *)
  calls       (* so far, for the bound                                     *)

vars == <<mem, proc, calls>>

PGSIZE == 2
Pages == 1 .. NPages
TRAMPOLINE == 7
TRAPFRAME == 6
Null == 0                 \* the null pointer; also the trampoline's page
Junk == 9
RoundUp(sz) == (sz + PGSIZE - 1) \div PGSIZE       \* in pages
PX(level, va) == (va \div 2^level) % 2
Upto(first, last) == [i \in 1 .. (IF last >= first THEN last - first + 1 ELSE 0) |-> first + i - 1]

Pte(kind, to, user) == [kind |-> kind, to |-> to, user |-> user]
NoPte == Pte("none", Null, FALSE)
JunkTable == [x \in 0 .. 1 |-> Pte("junk", Null, FALSE)]

(***************************************************************************)
(* kalloc.c.  free counts how often a page is on the list: kfree looks at  *)
(* the address only.  The order of the list is left out: kalloc takes the  *)
(* lowest page.                                                            *)
(***************************************************************************)
Kfree(m, pa) ==
  IF pa \in Pages
  THEN [m EXCEPT !.free[pa] = @ + 1, !.data[pa] = Junk, !.pte[pa] = JunkTable]
  ELSE [m EXCEPT !.panic = TRUE]
Listed(m) == {p \in Pages : m.free[p] > 0}
Kalloc(m) ==
  IF m.luck = 0 \/ Listed(m) = {} THEN [m EXCEPT !.got = Null]
  ELSE LET p == Min(Listed(m)) IN
       [m EXCEPT !.free[p] = @ - 1, !.luck = @ - 1, !.got = p]

\* memset(page, 0, PGSIZE) of a new page table.
ClearTable(m, t) == [m EXCEPT !.pte[t] = [x \in 0 .. 1 |-> NoPte]]

(***************************************************************************)
(* vm.c.  A function that may fail leaves ok; walk leaves the level-0      *)
(* table in got.                                                           *)
(***************************************************************************)
NewTable(m, a, e) == IF a.got = Null THEN a
                     ELSE [ClearTable(a, a.got) EXCEPT !.pte[m.got][e] = Pte("table", a.got, FALSE)]
WalkLevel(m, va, level, alloc) ==
  LET e == m.pte[m.got][PX(level, va)] IN
  IF m.got = Null THEN m
  ELSE IF e.kind # "none" THEN [m EXCEPT !.got = e.to]
  ELSE IF ~alloc THEN [m EXCEPT !.got = Null]
  ELSE NewTable(m, Kalloc(m), PX(level, va))
Walk(m, root, va, alloc) ==
  WalkLevel(WalkLevel([m EXCEPT !.got = root], va, 2, alloc), va, 1, alloc)
\* walk without alloc: the entry of va, or NoPte.
Below(m, e, x) == IF e.kind = "table" THEN m.pte[e.to][x] ELSE NoPte
Entry(m, root, va) ==
  Below(m, Below(m, m.pte[root][PX(2, va)], PX(1, va)), PX(0, va))
WalkAddr(m, root, va) == LET e == Entry(m, root, va) IN IF e.user THEN e.to ELSE Null

SetPte(w, x, pte) ==
  IF w.got = Null THEN [w EXCEPT !.ok = FALSE]
  ELSE IF w.pte[w.got][x].kind # "none" THEN [w EXCEPT !.panic = TRUE]
  ELSE [w EXCEPT !.pte[w.got][x] = pte]
MapPage(m, root, va, pa, user) ==
  SetPte(Walk(m, root, va, TRUE), PX(0, va), Pte("leaf", pa, user))

ClearPte(w, x, doFree) ==
  LET e == w.pte[w.got][x]
  IN IF w.got = Null \/ e.kind # "leaf" THEN [w EXCEPT !.panic = TRUE]
     ELSE [(IF doFree THEN Kfree(w, e.to) ELSE w) EXCEPT !.pte[w.got][x] = NoPte]
UnmapPage(m, root, va, doFree) == ClearPte(Walk(m, root, va, FALSE), PX(0, va), doFree)
Uvmunmap(m, root, first, npages, doFree) ==
  FoldLeft(LAMBDA acc, va : IF acc.panic THEN acc ELSE UnmapPage(acc, root, va, doFree),
           m, Upto(first, first + npages - 1))

Uvmdealloc(m, root, oldsz, newsz) ==
  IF RoundUp(newsz) < RoundUp(oldsz)
  THEN Uvmunmap(m, root, RoundUp(newsz), RoundUp(oldsz) - RoundUp(newsz), TRUE) ELSE m

\* One round of uvmalloc: a page for va, or everything since oldsz undone.
AllocUndo(m, root, oldsz, va) == [Uvmdealloc(m, root, va * PGSIZE, oldsz) EXCEPT !.ok = FALSE]
\* Mutant of AllocMapped: the page that could not be mapped is not freed.
AllocMappedLeak(m, root, oldsz, va, pa) ==
  IF m.ok \/ pa = Null THEN m ELSE AllocUndo(m, root, oldsz, va)
AllocMapped(m, root, oldsz, va, pa) ==
  IF m.ok THEN m ELSE AllocUndo(Kfree(m, pa), root, oldsz, va)
AllocPage(m, root, oldsz, va) ==
  LET a == Kalloc(m)
  IN IF a.got = Null THEN AllocUndo(a, root, oldsz, va)
     ELSE AllocMapped(MapPage([a EXCEPT !.data[a.got] = 0], root, va, a.got, TRUE),
                      root, oldsz, va, a.got)
Uvmalloc(m, root, oldsz, newsz) ==
  FoldLeft(LAMBDA acc, va : IF acc.ok THEN AllocPage(acc, root, RoundUp(oldsz) * PGSIZE, va) ELSE acc,
           m, Upto(RoundUp(oldsz), RoundUp(newsz) - 1))
\* Its result: 0 is also the size of an empty program.
UvmallocSize(m, oldsz, newsz) ==
  IF newsz < oldsz THEN oldsz ELSE IF m.ok THEN newsz ELSE 0

\* Mutant of CopyFlags: the copy does not take the flags along.
CopyFlagsOpen(e) == e.kind = "leaf"
CopyFlags(e) == e.user
CopyUndo(m, new, va) == [Uvmunmap(m, new, 0, va, TRUE) EXCEPT !.ok = FALSE]
CopyMapped(m, new, va, pa) == IF m.ok THEN m ELSE CopyUndo(Kfree(m, pa), new, va)
CopyPage(m, old, new, va) ==
  LET e == Entry(m, old, va)
      a == Kalloc(m)
  IN IF e.kind = "none" THEN [m EXCEPT !.panic = TRUE]
     ELSE IF a.got = Null THEN CopyUndo(a, new, va)
     ELSE CopyMapped(MapPage([a EXCEPT !.data[a.got] = m.data[e.to]], new, va, a.got, CopyFlags(e)),
                     new, va, a.got)
Uvmcopy(m, old, new, sz) ==
  FoldLeft(LAMBDA acc, va : IF acc.ok THEN CopyPage(acc, old, new, va) ELSE acc,
           m, Upto(0, RoundUp(sz) - 1))

\* freewalk: the tables below first; a leaf that is left is a panic.
FreeTable(m, t, FreeBelow(_, _)) ==
  Kfree(FoldLeft(LAMBDA acc, x : CASE acc.pte[t][x].kind = "table" -> FreeBelow(acc, acc.pte[t][x].to)
                                   [] acc.pte[t][x].kind = "none" -> acc
                                   [] OTHER -> [acc EXCEPT !.panic = TRUE],
                 m, <<0, 1>>), t)
Freewalk(m, root) ==
  FreeTable(m, root,
    LAMBDA m1, t1 : FreeTable(m1, t1,
      LAMBDA m2, t2 : FreeTable(m2, t2, LAMBDA m3, t3 : [m3 EXCEPT !.panic = TRUE])))
Uvmfree(m, root, sz) == Freewalk(Uvmunmap(m, root, 0, RoundUp(sz), TRUE), root)
Uvmclear(m, root, va) ==
  LET w == Walk(m, root, va, FALSE) IN [w EXCEPT !.pte[w.got][PX(0, va)].user = FALSE]

\* copyout: page by page, until one is not the user's.
Copyout(m, root, pages, v) ==
  FoldLeft(LAMBDA acc, va :
             LET pa == WalkAddr(acc, root, va) IN
             IF ~acc.ok THEN acc
             ELSE IF pa = Null THEN [acc EXCEPT !.ok = FALSE] ELSE [acc EXCEPT !.data[pa] = v],
           m, pages)

(***************************************************************************)
(* proc.c: page tables with trampoline and trapframe.                      *)
(***************************************************************************)
NoTable(m) == [m EXCEPT !.got = Null, !.ok = FALSE]
TrapframeMapped(m, root) ==
  IF m.ok THEN [m EXCEPT !.got = root]
  ELSE NoTable(Uvmfree(Uvmunmap(m, root, TRAMPOLINE, 1, FALSE), root, 0))
TrampolineMapped(m, root, trapframe) ==
  IF m.ok THEN TrapframeMapped(MapPage(m, root, TRAPFRAME, trapframe, FALSE), root)
  ELSE NoTable(Uvmfree(m, root, 0))
ProcPagetable(m, trapframe) ==
  LET a == Kalloc(m)
  IN IF a.got = Null THEN NoTable(a)
     ELSE TrampolineMapped(MapPage(ClearTable(a, a.got), a.got, TRAMPOLINE, Null, FALSE),
                           a.got, trapframe)
ProcFreePagetable(m, root, sz) ==
  Uvmfree(Uvmunmap(Uvmunmap(m, root, TRAMPOLINE, 1, FALSE), root, TRAPFRAME, 1, FALSE), root, sz)

NoProc == [pagetable |-> Null, trapframe |-> Null, sz |-> 0, state |-> "UNUSED"]
FreeProc(m, pr) ==
  LET a == IF pr.trapframe # Null THEN Kfree(m, pr.trapframe) ELSE m
  IN IF pr.pagetable # Null THEN ProcFreePagetable(a, pr.pagetable, pr.sz) ELSE a
\* The trapframe and page table of a new process, or nothing.
WithTable(m, trapframe) ==
  IF ~m.ok THEN [mem |-> FreeProc(m, [NoProc EXCEPT !.trapframe = trapframe]), proc |-> NoProc]
  ELSE [mem |-> m, proc |-> [NoProc EXCEPT !.trapframe = trapframe, !.pagetable = m.got, !.state = "USED"]]
AllocProc(m) ==
  LET a == Kalloc(m)
  IN IF a.got = Null THEN [mem |-> [a EXCEPT !.ok = FALSE], proc |-> NoProc]
     ELSE WithTable(ProcPagetable(a, a.got), a.got)

(***************************************************************************)
(* System calls.  Begin gives a call its luck, Done forgets its results.   *)
(***************************************************************************)
MaxLuck == MaxPages + MaxPages \div 2 + 5
Begin(luck) == [mem EXCEPT !.luck = luck]
Done(m) == [m EXCEPT !.luck = 0, !.got = Null, !.ok = TRUE]
Runs(p) == proc[p].state = "USED" /\ ~mem.panic

ForkCopied(p, q, m, np) ==
  IF ~m.ok THEN mem' = Done(FreeProc(m, np)) /\ proc' = proc
  ELSE mem' = Done(m) /\ proc' = [proc EXCEPT ![q] = [np EXCEPT !.sz = proc[p].sz]]
Fork(p, q, luck) ==
  /\ Runs(p) /\ proc[q].state = "UNUSED"
  /\ LET a == AllocProc(Begin(luck))
     IN IF ~a.mem.ok THEN mem' = Done(a.mem) /\ proc' = proc
        ELSE ForkCopied(p, q, Uvmcopy(a.mem, proc[p].pagetable, a.proc.pagetable, proc[p].sz), a.proc)

\* sbrk(n): growproc computes in a uint, which wraps below zero.
Uint(n) == n % 1000
Growproc(p, n, luck) ==
  /\ Runs(p)
  /\ RoundUp(proc[p].sz + n) <= MaxPages
  /\ LET sz == proc[p].sz
         root == proc[p].pagetable
         a == Uvmalloc(Begin(luck), root, sz, sz + n)
         newsz == Uint(sz + n)
     IN IF n > 0
        THEN IF UvmallocSize(a, sz, sz + n) = 0 THEN mem' = Done(a) /\ proc' = proc
             ELSE mem' = Done(a) /\ proc' = [proc EXCEPT ![p].sz = sz + n]
        ELSE IF newsz >= sz THEN UNCHANGED <<mem, proc>>
        ELSE /\ mem' = Done(Uvmdealloc(Begin(0), root, sz, newsz))
             /\ proc' = [proc EXCEPT ![p].sz = newsz]

\* One program header, read into s = [mem, sz, ok]: [vaddr, memsz, filesz,
\* short], short when the file ends before the segment does.
ReadSegment(a, root, size, ph) ==
  LET b == Copyout(a, root, Upto(ph.vaddr \div PGSIZE, RoundUp(ph.vaddr + ph.filesz) - 1), 1)
  IN [mem |-> [b EXCEPT !.panic = @ \/ ~b.ok, !.ok = TRUE], sz |-> size, ok |-> ~ph.short]
AllocSegment(s, a, size, root, ph) ==
  IF size = 0 THEN [s EXCEPT !.mem = [a EXCEPT !.ok = TRUE], !.ok = FALSE]
  ELSE IF ph.vaddr % PGSIZE # 0 THEN [mem |-> a, sz |-> size, ok |-> FALSE]
  ELSE ReadSegment(a, root, size, ph)
LoadSegment(s, root, ph) ==
  LET end == ph.vaddr + ph.memsz
      a == Uvmalloc(s.mem, root, s.sz, end)
  IN IF ~s.ok THEN s
     ELSE IF ph.memsz < ph.filesz THEN [s EXCEPT !.ok = FALSE]
     ELSE AllocSegment(s, a, UvmallocSize(a, s.sz, end), root, ph)

\* exec: bad.  The new page table goes, the process keeps what it has.
Bad(m, root, sz) == mem' = Done(ProcFreePagetable(m, root, sz)) /\ proc' = proc
\* The arguments go on the stack, and the old page table goes.
Commit(p, prog, root, c, sz) ==
  IF ~prog.fits THEN Bad(c, root, sz)
  ELSE /\ mem' = Done(ProcFreePagetable(c, proc[p].pagetable, proc[p].sz))
       /\ proc' = [proc EXCEPT ![p].pagetable = root, ![p].sz = sz]
\* Two pages above the segments: one that nobody may touch, and the stack.
Stack(p, prog, root, s, base) ==
  LET b == Uvmalloc(s.mem, root, base, base + 2 * PGSIZE)
  IN IF ~b.ok THEN Bad(b, root, base)
     ELSE Commit(p, prog, root,
                 Copyout(Uvmclear(b, root, base \div PGSIZE), root, <<base \div PGSIZE + 1>>, 1),
                 base + 2 * PGSIZE)
Segments(p, prog, root, s) ==
  IF ~s.ok THEN Bad(s.mem, root, s.sz) ELSE Stack(p, prog, root, s, RoundUp(s.sz) * PGSIZE)
\* The whole of exec, from a readable header on: prog has the segments, and
\* fits unless the arguments go below the stack's base.
Exec(p, prog, luck) ==
  /\ Runs(p)
  /\ LET a == ProcPagetable(Begin(luck), proc[p].trapframe)
     IN IF ~a.ok THEN mem' = Done(a) /\ proc' = proc
        ELSE Segments(p, prog, a.got,
                      FoldLeft(LAMBDA acc, ph : LoadSegment(acc, a.got, ph),
                               [mem |-> a, sz |-> 0, ok |-> TRUE], prog.segments))

\* The kernel writes to pages va .. va + n - 1 for a system call.
KernelWrite(p, va, n, v) ==
  /\ Runs(p)
  /\ mem' = Done(Copyout(mem, proc[p].pagetable, Upto(va, va + n - 1), v))
  /\ proc' = proc

\* A store of the program itself; one that faults kills it (usertrap).
Exit(p) ==
  /\ Runs(p)
  /\ proc' = [proc EXCEPT ![p].state = "ZOMBIE"]
  /\ mem' = mem
UserWrite(p, va, v) ==
  /\ Runs(p)
  /\ WalkAddr(mem, proc[p].pagetable, va) # Null
  /\ KernelWrite(p, va, 1, v)
\* wait() of the parent.
Reap(p) ==
  /\ proc[p].state = "ZOMBIE" /\ ~mem.panic
  /\ mem' = Done(FreeProc(mem, proc[p]))
  /\ proc' = [proc EXCEPT ![p] = NoProc]

Next ==
  /\ calls < MaxCalls /\ calls' = calls + 1
  /\ \E p \in Processes :
     \/ \E q \in Processes, luck \in 0 .. MaxLuck : Fork(p, q, luck)
     \/ \E n \in Increments, luck \in 0 .. MaxLuck : Growproc(p, n, luck)
     \/ \E prog \in Programs, luck \in 0 .. MaxLuck : Exec(p, prog, luck)
     \/ \E va \in 0 .. 7, n \in 1 .. 2, v \in Values : va + n <= 8 /\ KernelWrite(p, va, n, v)
     \/ \E va \in 0 .. 7, v \in Values : UserWrite(p, va, v)
     \/ Exit(p)
     \/ Reap(p)

\* kinit, then userinit: one page of initcode in the first slot.
Init ==
  LET fresh == [free |-> [p \in Pages |-> 1], data |-> [p \in Pages |-> Junk],
                pte |-> [p \in Pages |-> JunkTable], panic |-> FALSE,
                luck |-> MaxLuck, got |-> Null, ok |-> TRUE]
      a == AllocProc(fresh)
      b == Kalloc(a.mem)
      c == MapPage([b EXCEPT !.data[b.got] = 1], a.proc.pagetable, 0, b.got, TRUE)
      first == CHOOSE p \in Processes : TRUE
  IN /\ mem = Done(c) /\ calls = 0
     /\ proc = [p \in Processes |-> IF p = first THEN [a.proc EXCEPT !.sz = PGSIZE] ELSE NoProc]

Spec == Init /\ [][Next]_vars

(***************************************************************************)
(* Properties.                                                             *)
(***************************************************************************)
\* Every reference to a page: <<who holds it, where, the page>>.
Owned(p) ==
  IF proc[p].pagetable = Null THEN {}
  ELSE LET root == proc[p].pagetable
           one == {<<root, x, mem.pte[root][x]>> : x \in 0 .. 1}
           two == UNION {{<<e[3].to, x, mem.pte[e[3].to][x]>> : x \in 0 .. 1} :
                          e \in {f \in one : f[3].kind = "table"}}
           three == UNION {{<<e[3].to, x, mem.pte[e[3].to][x]>> : x \in 0 .. 1} :
                          e \in {f \in two : f[3].kind = "table"}}
           slot == {e \in three : e[3].to = proc[p].trapframe}
       IN {<<p, 0, root>>, <<p, 1, proc[p].trapframe>>}
            \cup {<<e[1], e[2], e[3].to>> :
                    e \in {f \in one \cup two \cup three : f[3].kind # "none" /\ f[3].to # Null} \ slot}

\* Every page is at every time exactly once on the free list or in the hands
\* of one process, whichever kalloc failed: no call leaks a page, frees one
\* twice or shares one (kfree, uvmalloc, uvmcopy, exec's bad), and none of
\* the panics of vm.c is reached.
PagesAccounted ==
  /\ ~mem.panic
  /\ LET held == UNION {Owned(p) : p \in Processes} IN
     \A pg \in Pages : mem.free[pg] + Cardinality({h \in held : h[3] = pg}) = 1

\* A process has exactly the pages its size says, trampoline and trapframe
\* above them, and only the pages below its size are the program's.
SizeMapped ==
  \A p \in Processes : proc[p].state # "UNUSED" =>
    LET E(va) == Entry(mem, proc[p].pagetable, va) IN
    /\ \A va \in 0 .. 5 : E(va).kind = IF va < RoundUp(proc[p].sz) THEN "leaf" ELSE "none"
    /\ E(TRAPFRAME) = Pte("leaf", proc[p].trapframe, FALSE)
    /\ E(TRAMPOLINE) = Pte("leaf", Null, FALSE)

\* Whatever fails in whichever call, pages and tables are exactly those that
\* the sizes of the processes ask for.
MemoryExact == PagesAccounted /\ SizeMapped

\* Refinement: programs live in address spaces of their own; what fork
\* copies, sbrk adds or cuts and exec replaces is seen by one process only,
\* and a call that fails changes nothing.
Spaces == INSTANCE AddressSpaces WITH
  space <- [p \in Processes |->
    IF proc[p].state = "UNUSED" THEN [size |-> 0, page |-> <<>>, live |-> FALSE]
    ELSE [size |-> proc[p].sz, live |-> TRUE,
          page |-> [i \in 1 .. RoundUp(proc[p].sz) |->
                      LET e == Entry(mem, proc[p].pagetable, i - 1) IN
                      IF e.kind = "leaf" THEN [val |-> mem.data[e.to], user |-> e.user]
                      ELSE [val |-> Junk, user |-> FALSE]]]]
ImplementsAddressSpaces == Spaces!Spec
=============================================================================
