----------------------------- MODULE BufferCache ----------------------------
(***************************************************************************)
(* The buffer cache of kernel/bio.c with the sleep locks of sleeplock.c    *)
(* that it is built on.  What happens under one hold of bcache.lock, or of *)
(* the spin lock inside a sleep lock, is one step; between the reference   *)
(* that bget() takes and the sleep lock it then waits for, anything may    *)
(* happen.                                                                 *)
(*                                                                         *)
(* The owner of a buffer may release it changed, neither written nor       *)
(* pinned: writei() does so after a copyin that failed (fs.c:500).  The    *)
(* change is seen for as long as the buffer is not recycled.               *)
(***************************************************************************)
EXTENDS Naturals, FiniteSets

CONSTANTS Procs, Blocks, Contents,
          Buffers, \* the NBUF buffers
          Nobody   \* none of the above

ASSUME NoneAssumption == Nobody \notin Procs \cup Blocks \cup Buffers \cup Contents
ASSUME FiniteAssumption == IsFiniteSet(Buffers) /\ IsFiniteSet(Procs)

VARIABLES
  bdisk,    \* the contents of every block on the disk
  lru,      \* the buffers from head.next (most recent) to head.prev
  blockno,  \* the block each buffer caches, Nobody before its first use
  valid,    \* has it been read from the disk?
  bdata,    \* its contents
  refcnt,   \* its references
  locked,   \* its sleep lock: the owner, or Nobody
  pinned,   \* is one of its references the log's?
  at,       \* where each process is
  buf,      \* the buffer it is working on, or Nobody
  want      \* the block it called bread() for, or Nobody

cacheVars == <<lru, blockno, valid, bdata, refcnt, pinned>>
bioVars == <<bdisk, lru, blockno, valid, bdata, refcnt, locked, pinned, at, buf, want>>

Goto(p, l) == at' = [at EXCEPT ![p] = l]

\* bget() panics with bcache.lock held.
CacheLockFree == \A p \in Procs : at[p] # "panic"

\* wakeup(b) at the end of releasesleep: the sleepers on b try again.
Woken(b) == {q \in Procs : at[q] = "asleep" /\ buf[q] = b}
Waken(p, b, l) ==
  at' = [q \in Procs |-> IF q = p THEN l
                         ELSE IF q \in Woken(b) THEN "acquire" ELSE at[q]]

Place(b) == CHOOSE i \in DOMAIN lru : lru[i] = b
\* brelse() unlinks a free buffer and puts it in front of the others.
ToFront(b) == lru' = [i \in DOMAIN lru |-> IF i = 1 THEN b
                                          ELSE IF i <= Place(b) THEN lru[i - 1]
                                          ELSE lru[i]]

BioInit == /\ bdisk \in [Blocks -> Contents]
           /\ lru \in {s \in [1..Cardinality(Buffers) -> Buffers] :
                         \A i, j \in DOMAIN s : s[i] = s[j] => i = j}
           /\ blockno = [b \in Buffers |-> Nobody]
           /\ valid = [b \in Buffers |-> FALSE]
           /\ bdata \in [Buffers -> Contents]
           /\ refcnt = [b \in Buffers |-> 0]
           /\ locked = [b \in Buffers |-> Nobody]
           /\ pinned = [b \in Buffers |-> FALSE]
           /\ at = [p \in Procs |-> "idle"]
           /\ buf = [p \in Procs |-> Nobody]
           /\ want = [p \in Procs |-> Nobody]
-----------------------------------------------------------------------------
\* A process calls bread(dev, n).
CallBread(p, n) ==
  /\ at[p] = "idle"
  /\ Goto(p, "bget")
  /\ want' = [want EXCEPT ![p] = n]
  /\ UNCHANGED <<bdisk, cacheVars, locked, buf>>

Cached(n) == {b \in Buffers : blockno[b] = n}

\* Positions of the buffers bget() may recycle.
FreeAt == {i \in DOMAIN lru : refcnt[lru[i]] = 0}

BgetHit(p) ==
  /\ CacheLockFree
  /\ at[p] = "bget"
  /\ \E b \in Cached(want[p]) :
       /\ refcnt' = [refcnt EXCEPT ![b] = @ + 1]
       /\ buf' = [buf EXCEPT ![p] = b]
  /\ Goto(p, "acquire")
  /\ UNCHANGED <<bdisk, lru, blockno, valid, bdata, pinned, locked, want>>

\* Mutant of Victim: the search does not look at refcnt.
LastOfAll(b) == b = lru[Cardinality(Buffers)]
\* b is the free buffer nearest the end of the list.
Victim(b) == \E i \in FreeAt : lru[i] = b /\ \A j \in FreeAt : j <= i

\* Mutant of Invalidate: bget does not reset b->valid.
InvalidateForgotten(b) == valid' = valid /\ b \in Buffers
Invalidate(b) == valid' = [valid EXCEPT ![b] = FALSE]

BgetMiss(p) ==
  /\ CacheLockFree
  /\ at[p] = "bget"
  /\ Cached(want[p]) = {}
  /\ \E b \in Buffers :
       /\ Victim(b)
       /\ blockno' = [blockno EXCEPT ![b] = want[p]]
       /\ Invalidate(b)
       /\ refcnt' = [refcnt EXCEPT ![b] = 1]
       /\ buf' = [buf EXCEPT ![p] = b]
  /\ Goto(p, "acquire")
  /\ UNCHANGED <<bdisk, lru, bdata, pinned, locked, want>>

BgetPanic(p) ==
  /\ CacheLockFree
  /\ at[p] = "bget"
  /\ Cached(want[p]) = {} /\ FreeAt = {}
  /\ Goto(p, "panic")
  /\ UNCHANGED <<bdisk, cacheVars, locked, buf, want>>

\* acquiresleep(): sleep() gives up the inner spin lock only once p is asleep.
AcquireSleep(p) ==
  /\ at[p] = "acquire"
  /\ IF locked[buf[p]] # Nobody
     THEN Goto(p, "asleep") /\ locked' = locked
     ELSE Goto(p, "read") /\ locked' = [locked EXCEPT ![buf[p]] = p]
  /\ UNCHANGED <<bdisk, cacheVars, buf, want>>

\* The rest of bread(): virtio_disk_rw(b, 0) unless the buffer is valid.
FillBuffer(p) ==
  /\ at[p] = "read"
  /\ IF valid[buf[p]] THEN UNCHANGED <<valid, bdata>>
     ELSE /\ bdata' = [bdata EXCEPT ![buf[p]] = bdisk[blockno[buf[p]]]]
          /\ valid' = [valid EXCEPT ![buf[p]] = TRUE]
  /\ Goto(p, "held")
  /\ UNCHANGED <<bdisk, lru, blockno, refcnt, pinned, locked, buf, want>>
-----------------------------------------------------------------------------
(* What the owner of a buffer does with it.                                *)

\* holdingsleep(): bwrite and brelse panic unless it is true.
HoldingSleep(p) == at[p] = "held" /\ locked[buf[p]] = p

Dirty(b) == bdata[b] # bdisk[blockno[b]]

Modify(p, v) ==
  /\ HoldingSleep(p)
  /\ bdata' = [bdata EXCEPT ![buf[p]] = v]
  /\ UNCHANGED <<bdisk, lru, blockno, valid, refcnt, pinned, locked, at, buf, want>>

Bwrite(p) ==
  /\ HoldingSleep(p)
  /\ bdisk' = [bdisk EXCEPT ![blockno[buf[p]]] = bdata[buf[p]]]
  /\ UNCHANGED <<cacheVars, locked, at, buf, want>>

\* log_write() pins a buffer that the log does not hold yet.
Bpin(p) ==
  /\ HoldingSleep(p)
  /\ ~pinned[buf[p]]
  /\ refcnt' = [refcnt EXCEPT ![buf[p]] = @ + 1]
  /\ pinned' = [pinned EXCEPT ![buf[p]] = TRUE]
  /\ UNCHANGED <<bdisk, lru, blockno, valid, bdata, locked, at, buf, want>>

\* install_trans() unpins a buffer that it has just written.
Bunpin(p) ==
  /\ HoldingSleep(p)
  /\ pinned[buf[p]] /\ ~Dirty(buf[p])
  /\ refcnt' = [refcnt EXCEPT ![buf[p]] = @ - 1]
  /\ pinned' = [pinned EXCEPT ![buf[p]] = FALSE]
  /\ UNCHANGED <<bdisk, lru, blockno, valid, bdata, locked, at, buf, want>>

\* brelse(), first the sleep lock ...
BrelseUnlock(p) ==
  /\ HoldingSleep(p)
  /\ locked' = [locked EXCEPT ![buf[p]] = Nobody]
  /\ Waken(p, buf[p], "drop")
  /\ UNCHANGED <<bdisk, cacheVars, buf, want>>

\* ... then, under bcache.lock, the reference.
BrelseDrop(p) ==
  /\ CacheLockFree
  /\ at[p] = "drop"
  /\ refcnt' = [refcnt EXCEPT ![buf[p]] = @ - 1]
  /\ IF refcnt[buf[p]] = 1 THEN ToFront(buf[p]) ELSE lru' = lru
  /\ Goto(p, "idle")
  /\ buf' = [buf EXCEPT ![p] = Nobody]
  /\ want' = [want EXCEPT ![p] = Nobody]
  /\ UNCHANGED <<bdisk, blockno, valid, bdata, pinned, locked>>

\* The steps that take p from bread() to a buffer it owns.
Bread(p) == BgetHit(p) \/ BgetMiss(p) \/ BgetPanic(p) \/ AcquireSleep(p) \/ FillBuffer(p)
Brelse(p) == BrelseUnlock(p) \/ BrelseDrop(p)
Use(p) == (\E v \in Contents : Modify(p, v)) \/ Bwrite(p) \/ Bpin(p) \/ Bunpin(p)

BioNext == \E p \in Procs : \/ \E n \in Blocks : CallBread(p, n)
                            \/ Bread(p)
                            \/ Use(p)
                            \/ Brelse(p)

BioSpec == BioInit /\ [][BioNext]_bioVars
-----------------------------------------------------------------------------
(* Properties                                                              *)

PCs == {"idle", "bget", "acquire", "asleep", "read", "held", "drop", "panic"}

\* The types; the list holds every buffer once.
CacheTypeOK ==
  /\ bdisk \in [Blocks -> Contents]
  /\ lru \in [1..Cardinality(Buffers) -> Buffers] /\ {lru[i] : i \in DOMAIN lru} = Buffers
  /\ blockno \in [Buffers -> Blocks \cup {Nobody}]
  /\ valid \in [Buffers -> BOOLEAN]
  /\ bdata \in [Buffers -> Contents]
  /\ refcnt \in [Buffers -> Nat]
  /\ locked \in [Buffers -> Procs \cup {Nobody}]
  /\ pinned \in [Buffers -> BOOLEAN]
  /\ at \in [Procs -> PCs]
  /\ buf \in [Procs -> Buffers \cup {Nobody}]
  /\ want \in [Procs -> Blocks \cup {Nobody}]

\* No block has two buffers, so that no two processes change copies of it.
OneBufferPerBlock ==
  \A b, c \in Buffers : blockno[b] = blockno[c] /\ blockno[b] # Nobody => b = c

\* From bget() to brelse() a process's buffer stays the buffer of its block,
\* also while it waits for the sleep lock.
BufferStays == \A p \in Procs : buf[p] # Nobody => blockno[buf[p]] = want[p]

\* refcnt counts the processes that work on a buffer, and the log's pin.
RefcntExact ==
  \A b \in Buffers : refcnt[b] = Cardinality({p \in Procs : buf[p] = b})
                              + (IF pinned[b] THEN 1 ELSE 0)

\* A sleeper is never left behind: whenever one sleeps, its lock is taken by
\* somebody who will release it.
SleeperHasOwner == \A p \in Procs :
  at[p] = "asleep" => /\ locked[buf[p]] \in Procs \ {p}
                      /\ at[locked[buf[p]]] \in {"read", "held"}

\* Nothing that several processes do to the cache between bget() and brelse(),
\* in whatever order, breaks the correspondence of blocks, buffers, counts and
\* sleepers.
CacheSound == CacheTypeOK /\ OneBufferPerBlock /\ BufferStays /\ RefcntExact /\ SleeperHasOwner

InCache(n) == \E b \in Buffers : blockno[b] = n
BufferOf(n) == CHOOSE b \in Buffers : blockno[b] = n
Owner(n) == IF InCache(n) THEN locked[BufferOf(n)] ELSE Nobody
Value(n) == IF InCache(n) /\ valid[BufferOf(n)] THEN bdata[BufferOf(n)] ELSE bdisk[n]

Pinned == {n \in Blocks : InCache(n) /\ pinned[BufferOf(n)]}

Store == INSTANCE BlockStore WITH value <- [n \in Blocks |-> Value(n)],
                                  owner <- [n \in Blocks |-> Owner(n)],
                                  written <- bdisk, Data <- Contents, None <- Nobody,
                                  pinned <- Pinned

\* Through buffers that come and go, each block behaves as one locked register.
\* When a buffer is recycled no update is lost that was written or is pinned, and
\* one that was neither goes back to what is on the disk, never to a part of it or to
\* another block's contents (bget and brelse, bio.c:60-138).
ImplementsBlockStore == Store!Spec
=============================================================================
