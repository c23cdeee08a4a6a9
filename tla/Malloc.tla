-------------------------------- MODULE Malloc --------------------------------
(***************************************************************************)
(* The two allocators that programs take their blocks from: malloc and     *)
(* free of mini-riscv-os (alloc.c) and of xv6's user programs (umalloc.c). *)
(***************************************************************************)
EXTENDS Naturals, FiniteSets

CONSTANTS Slots,    (* the variables of the program that hold blocks       *)
          NoBlock
VARIABLE block      (* of each slot: NoBlock, or [at, size], in bytes      *)

InUse == {block[s] : s \in Slots} \ {NoBlock}
------------------------------------------------------------------------------
(***************************************************************************)
(* alloc.c: a heap of pages, each with a descriptor that says whether it   *)
(* is taken and whether it is the last page of its block.                  *)
(***************************************************************************)
CONSTANTS PAGE_SIZE, NumPages,
          PageSizes     (* the sizes that are asked for                    *)

VARIABLE page           (* the flags of every page                         *)

pageNum(x) == x \div (PAGE_SIZE + 1) + 1
\* A request for more pages than the heap has makes the unsigned bound of the
\* search wrap.
ASSUME PageAllocAssumption ==
  /\ PAGE_SIZE \in Nat \ {0} /\ NumPages \in Nat
  /\ \A n \in PageSizes : pageNum(n) < NumPages

Clear(p) == [taken |-> FALSE, last |-> FALSE]
Fits(i, npages) == \A j \in i .. i + npages - 1 : ~page[j].taken
\* Mutant of Found: the first page alone is looked at.
FoundShort(npages) == {i \in 0 .. NumPages - npages - 1 : ~page[i].taken}
Found(npages) == {i \in 0 .. NumPages - npages - 1 : Fits(i, npages)}

Malloc(s, size) ==
  LET npages == pageNum(size)
      i == CHOOSE k \in Found(npages) : \A m \in Found(npages) : k <= m
      end == i + npages - 1
  IN
  /\ block[s] = NoBlock
  /\ Found(npages) # {}
  /\ page' = [j \in DOMAIN page |->
       IF j \in i .. end THEN [taken |-> TRUE, last |-> page[j].last \/ j = end] ELSE page[j]]
  /\ block' = [block EXCEPT ![s] = [at |-> i * PAGE_SIZE, size |-> size]]
\* From the first page to the one that is the last of its block.
Freed(i) ==
  LET ends == {j \in i .. NumPages - 1 : page[j].last \/ ~page[j].taken}
  IN i .. CHOOSE j \in ends : \A k \in ends : j <= k
Free(s) ==
  /\ block[s] # NoBlock
  /\ page' = [j \in DOMAIN page |->
       IF j \in Freed(block[s].at \div PAGE_SIZE) THEN Clear(page[j]) ELSE page[j]]
  /\ block' = [block EXCEPT ![s] = NoBlock]

page_init == page = [j \in 0 .. NumPages - 1 |-> [taken |-> FALSE, last |-> FALSE]]
PageNext == \E s \in Slots : Free(s) \/ \E n \in PageSizes : Malloc(s, n)

\* A page is taken exactly while a block in use covers it.
PagesHeld ==
  {j \in DOMAIN page : page[j].taken} =
    UNION {LET i == b.at \div PAGE_SIZE IN i .. i + pageNum(b.size) - 1 : b \in InUse}
PageHeap == 0 .. NumPages * PAGE_SIZE - 1
\* The blocks as large as the pages they have got: PAGE_SIZE * k + j bytes with
\* 0 < j <= k - 1 get a page too few.
PagesGiven == [s \in Slots |-> IF block[s] = NoBlock THEN NoBlock
                               ELSE [block[s] EXCEPT !.size = pageNum(@) * PAGE_SIZE]]
------------------------------------------------------------------------------
(***************************************************************************)
(* umalloc.c: a circular list of free blocks in the order of their         *)
(* addresses, searched from where the last search ended.  Address 0 is     *)
(* base; the heap grows by sbrk, which the program may call as well.       *)
(* Addresses count headers.                                                *)
(***************************************************************************)
CONSTANTS HeaderSize,
          MoreUnits,        (* 4096 in the code: what morecore asks for    *)
          MaxHeap,          (* sbrk fails above                            *)
          Sizes
ASSUME UmallocAssumption ==
  {HeaderSize, MoreUnits} \subseteq Nat \ {0} /\ MaxHeap \in Nat /\ Sizes \subseteq Nat

VARIABLES hdr,      (* [ptr, size] at every address                        *)
          freep,    (* NoBlock until malloc is called                      *)
          brk,      (* the end of the heap                                 *)
          alien     (* units the program got from sbrk itself              *)

base == 0
Unused == [ptr |-> base, size |-> 0]

\* The list from p on: p itself, its successor, and so on.
ListFrom(h, p) == LET w[n \in 0 .. MaxHeap] == IF n = 0 THEN p ELSE h[w[n - 1]].ptr IN w
FirstOf(S) == CHOOSE n \in S : \A m \in S : n <= m

\* free: p is the last free block below bp, or the one where the list wraps.
Between(h, p, bp) ==
  LET q == h[p].ptr IN (bp > p /\ bp < q) \/ (p >= q /\ (bp > p \/ bp < q))
\* The two halves of free, with memory that is a header no longer cleared.
Up(h, p, bp) ==
  LET q == h[p].ptr IN
  IF bp + h[bp].size = q
  THEN [h EXCEPT ![bp] = [ptr |-> h[q].ptr, size |-> @.size + h[q].size], ![q] = Unused]
  ELSE [h EXCEPT ![bp].ptr = q]
\* Mutant of Join: blocks are joined upwards only.
JoinUp(h, p, bp) == [Up(h, p, bp) EXCEPT ![p].ptr = bp]
Join(h, p, bp) ==
  LET up == Up(h, p, bp) IN
  IF p + up[p].size = bp
  THEN [up EXCEPT ![p] = [ptr |-> up[bp].ptr, size |-> @.size + up[bp].size], ![bp] = Unused]
  ELSE [up EXCEPT ![p].ptr = bp]
Place(h, from, bp) ==
  LET w == ListFrom(h, from) IN w[FirstOf({n \in DOMAIN w : Between(h, w[n], bp)})]

\* The search of malloc, from the successor of freep around to freep itself:
\* the positions at which a block is large enough.
Round(h, p) == LET w == ListFrom(h, p) IN FirstOf({n \in DOMAIN w : n > 0 /\ w[n] = p})
Enough(h, p, nunits) ==
  LET w == ListFrom(h, p) IN {n \in 1 .. Round(h, p) : h[w[n]].size >= nunits}
Carve(h, prev, p, nunits) ==
  IF h[p].size = nunits THEN [at |-> p, hdr |-> [h EXCEPT ![prev].ptr = h[p].ptr, ![p].ptr = base]]
  ELSE LET at == p + h[p].size - nunits IN
       [at |-> at, hdr |-> [h EXCEPT ![p].size = @ - nunits, ![at].size = nunits]]
Take(s, size, h, from, nunits) ==
  LET w == ListFrom(h, from)
      n == FirstOf(Enough(h, from, nunits))
      got == Carve(h, w[n - 1], w[n], nunits)
  IN /\ hdr' = got.hdr /\ freep' = w[n - 1]
     /\ block' = [block EXCEPT ![s] = [at |-> (got.at + 1) * HeaderSize, size |-> size]]

\* The first call makes a list of base alone, which UInit has.
From == IF freep = NoBlock THEN base ELSE freep
Units(size) == (size + HeaderSize - 1) \div HeaderSize + 1
UMalloc(s, size) ==
  /\ block[s] = NoBlock
  /\ Enough(hdr, From, Units(size)) # {}
  /\ Take(s, size, hdr, From, Units(size))
  /\ UNCHANGED <<brk, alien>>
\* morecore: sbrk, and the new memory is freed.
UMallocMore(s, size) ==
  LET nu == IF Units(size) < MoreUnits THEN MoreUnits ELSE Units(size)
      grown == [hdr EXCEPT ![brk].size = nu]
      p == Place(grown, From, brk)
  IN
  /\ block[s] = NoBlock
  /\ Enough(hdr, From, Units(size)) = {}
  /\ IF brk + nu > MaxHeap
     THEN freep' = From /\ UNCHANGED <<hdr, brk, block>>
     ELSE Take(s, size, Join(grown, p, brk), p, Units(size)) /\ brk' = brk + nu
  /\ alien' = alien
UFree(s) ==
  /\ block[s] # NoBlock
  /\ LET bp == block[s].at \div HeaderSize - 1
         p == Place(hdr, freep, bp)
     IN hdr' = Join(hdr, p, bp) /\ freep' = p
  /\ block' = [block EXCEPT ![s] = NoBlock]
  /\ UNCHANGED <<brk, alien>>
\* The program calls sbrk: the allocator's memory has a gap.
Sbrk ==
  /\ brk + 1 <= MaxHeap /\ alien = {}
  /\ alien' = {brk} /\ brk' = brk + 1
  /\ UNCHANGED <<hdr, freep, block>>

UInit ==
  /\ hdr = [a \in 0 .. MaxHeap |-> Unused]
  /\ freep = NoBlock /\ brk = 1 /\ alien = {}
UNext == Sbrk \/ \E s \in Slots : UFree(s) \/ \E n \in Sizes : UMalloc(s, n) \/ UMallocMore(s, n)

\* The free list is the list of all free memory, joined where it touches:
\* nothing the allocator got is ever lost to it.
FreeBlocks ==
  IF freep = NoBlock THEN {}
  ELSE LET w == ListFrom(hdr, freep) IN {w[n] : n \in DOMAIN w} \ {base}
UnitsOf(p) == p .. p + hdr[p].size - 1
FreeExact ==
  /\ \A p, q \in FreeBlocks : p # q => p + hdr[p].size # q /\ UnitsOf(p) \cap UnitsOf(q) = {}
  /\ LET used == {b.at \div HeaderSize - 1 : b \in InUse} IN
     UNION {UnitsOf(p) : p \in FreeBlocks \cup used} = (1 .. brk - 1) \ alien
UHeap == {a \in HeaderSize .. brk * HeaderSize - 1 : a \div HeaderSize \notin alien}
==============================================================================
