----------------------------- MODULE VirtioDisk -----------------------------
(***************************************************************************)
(* The disk driver of kernel/virtio_disk.c: virtio_disk_rw() in several    *)
(* processes, the interrupt handler, and the device they share descriptors *)
(* and two rings with.  What happens under one hold of vdisk_lock is one   *)
(* step unless the device can see the difference.                          *)
(*                                                                         *)
(* A process owns the buffer it calls with (its sleep lock), so that a     *)
(* buffer stands for the process too, and for the block that it caches.    *)
(* The device is as the virtio specification and the driver want it: it    *)
(* may complete requests in any order, and never fails.                    *)
(*                                                                         *)
(* A ring entry, once read, is dead: the model makes it Nil, so that a     *)
(* state does not remember what nobody is to read again.                   *)
(***************************************************************************)
EXTENDS Naturals, FiniteSets, FiniteSetsExt

CONSTANTS Bufs, Data,
          NUM,    \* descriptors, and entries of each ring
          Wrap,   \* values of a uint16: 2^16
          None, Intr

Descs == 0..(NUM - 1)
Nil == NUM  \* no VRING_DESC_F_NEXT

ASSUME NumAssumption == NUM \in Nat /\ NUM >= 3
ASSUME WrapAssumption == Wrap \in Nat /\ \E n \in 1..Wrap : Wrap = n * NUM
ASSUME BufsAssumption == IsFiniteSet(Bufs)
ASSUME NameAssumption == None \notin Bufs \cup {Intr} /\ Intr \notin Bufs

VARIABLES
  free,                 \* the descriptors with disk.free set
  desc,                 \* [addr, next] of each one; an address of ops[i] is its contents
  infob, status,        \* info[i].b, info[i].status
  busy,                 \* b->disk
  ring, idx,            \* avail->ring, avail->idx
  usedRing, usedIdx,    \* used->ring, used->idx: written by the device
  seenIdx,              \* disk.used_idx
  lock,                 \* vdisk_lock: a buffer's process, Intr or None
  pc, rw, head,         \* each process: where it is, its request, idx[0]
  \* the device: how far it has read, what it works at,
  \* VIRTIO_MMIO_INTERRUPT_STATUS; block and buffer contents
  takenIdx, working, intr, block, data

driver == <<free, desc, infob, busy, ring, idx, seenIdx, head>>
device == <<usedRing, usedIdx, takenIdx, working, block>>
vars == <<driver, device, status, lock, pc, rw, intr, data>>

NoDesc == [addr |-> None, next |-> Nil]

Init == /\ free = Descs
        /\ desc = [i \in Descs |-> NoDesc]
        /\ infob = [i \in Descs |-> None]
        /\ status = [i \in Descs |-> 0]
        /\ busy = [b \in Bufs |-> FALSE]
        /\ ring = [i \in Descs |-> Nil] /\ idx = 0
        /\ usedRing = [i \in Descs |-> Nil] /\ usedIdx = 0
        /\ seenIdx = 0
        /\ lock = None
        /\ pc = [b \in Bufs |-> "idle"]
        /\ rw = [b \in Bufs |-> None]
        /\ head = [b \in Bufs |-> Nil]
        /\ takenIdx = 0 /\ working = {} /\ intr = FALSE
        /\ block \in [Bufs -> Data] /\ data \in [Bufs -> Data]

NextIdx(n) == (n + 1) % Wrap
-----------------------------------------------------------------------------
(* virtio_disk_rw()                                                        *)

\* bread() or bwrite(); before the latter its owner may have changed the buffer.
Call(b, type, v) ==
  /\ pc[b] = "idle"
  /\ type = "read" => v = data[b]
  /\ pc' = [pc EXCEPT ![b] = "lock"]
  /\ rw' = [rw EXCEPT ![b] = type]
  /\ data' = [data EXCEPT ![b] = v]
  /\ UNCHANGED <<driver, device, status, lock, intr>>

\* Mutant of WakeFree: free_desc does not call wakeup.
WakeFreeNobody(b, l) == pc' = [pc EXCEPT ![b] = l]
\* wakeup(&disk.free[0]), while the process of b goes on at l.
WakeFree(b, l) == pc' = [q \in Bufs |-> IF q = b THEN l
                                        ELSE IF pc[q] = "asleepFree" THEN "lock"
                                        ELSE pc[q]]

\* alloc3_desc() gives back what it got, which wakes the others: even if there
\* are too few descriptors for them.
AllocFails(b) ==
  /\ pc[b] = "lock" /\ lock = None
  /\ Cardinality(free) < 3
  /\ IF free = {} THEN pc' = [pc EXCEPT ![b] = "asleepFree"]
                  ELSE WakeFree(b, "asleepFree")
  /\ desc' = [i \in Descs |-> IF i \in free THEN NoDesc ELSE desc[i]]
  /\ UNCHANGED <<free, infob, busy, ring, idx, seenIdx, head, device,
                 status, lock, rw, intr, data>>

\* The three lowest free descriptors become a chain for the device.
Format(b) ==
  /\ pc[b] = "lock" /\ lock = None
  /\ Cardinality(free) >= 3
  /\ LET i0 == Min(free)
         i1 == Min(free \ {i0})
         i2 == Min(free \ {i0, i1})
     IN /\ free' = free \ {i0, i1, i2}
        /\ desc' = [desc EXCEPT ![i0] = [addr |-> <<rw[b], b>>, next |-> i1],
                                ![i1] = [addr |-> b, next |-> i2],
                                ![i2] = [addr |-> i0, next |-> Nil]]
        /\ status' = [status EXCEPT ![i0] = 255]
        /\ infob' = [infob EXCEPT ![i0] = b]
        /\ head' = [head EXCEPT ![b] = i0]
        /\ ring' = [ring EXCEPT ![idx % NUM] = i0]
  /\ busy' = [busy EXCEPT ![b] = TRUE]
  /\ pc' = [pc EXCEPT ![b] = "notify"]
  /\ lock' = b
  /\ UNCHANGED <<idx, seenIdx, device, rw, intr, data>>

\* The device may start now; b->disk is still 1, and the process sleeps.
Notify(b) ==
  /\ pc[b] = "notify"
  /\ idx' = NextIdx(idx)
  /\ pc' = [pc EXCEPT ![b] = "asleep"]
  /\ lock' = None
  /\ UNCHANGED <<free, desc, infob, busy, ring, seenIdx, head, device,
                 status, rw, intr, data>>

\* Mutant of StillBusy: if, where the code has while.
NeverBusy(b) == ~busy[b] /\ busy[b]
StillBusy(b) == busy[b]

\* Awake, but not because the request has finished.
SleepAgain(b) ==
  /\ pc[b] = "relock" /\ lock = None /\ StillBusy(b)
  /\ pc' = [pc EXCEPT ![b] = "asleep"]
  /\ UNCHANGED <<driver, device, status, lock, rw, intr, data>>

Chain(i) == {i, desc[i].next, desc[desc[i].next].next}

Finish(b) ==
  /\ pc[b] = "relock" /\ lock = None /\ ~StillBusy(b)
  /\ infob' = [infob EXCEPT ![head[b]] = None]
  /\ free' = free \cup Chain(head[b])
  /\ desc' = [i \in Descs |-> IF i \in Chain(head[b]) THEN NoDesc ELSE desc[i]]
  /\ head' = [head EXCEPT ![b] = Nil]
  /\ rw' = [rw EXCEPT ![b] = None]
  /\ WakeFree(b, "idle")
  /\ UNCHANGED <<busy, ring, idx, seenIdx, device, status, lock, intr, data>>

\* kill() makes any sleeper runnable.
Kill(b) ==
  /\ pc[b] \in {"asleep", "asleepFree"}
  /\ pc' = [pc EXCEPT ![b] = IF @ = "asleep" THEN "relock" ELSE "lock"]
  /\ UNCHANGED <<driver, device, status, lock, rw, intr, data>>
-----------------------------------------------------------------------------
(* virtio_disk_intr()                                                      *)

\* The interrupt is acknowledged before the used ring is looked at.
IntrStart ==
  /\ intr /\ lock = None
  /\ lock' = Intr
  /\ intr' = FALSE
  /\ UNCHANGED <<driver, device, status, pc, rw, data>>

IntrEntry ==
  /\ lock = Intr /\ seenIdx # usedIdx
  /\ LET b == infob[usedRing[seenIdx % NUM]]
     IN /\ busy' = [busy EXCEPT ![b] = FALSE]
        /\ pc' = [pc EXCEPT ![b] = IF @ = "asleep" THEN "relock" ELSE @]
  /\ usedRing' = [usedRing EXCEPT ![seenIdx % NUM] = Nil]
  /\ seenIdx' = NextIdx(seenIdx)
  /\ UNCHANGED <<free, desc, infob, ring, idx, head, usedIdx, takenIdx, working,
                 block, status, lock, rw, intr, data>>

RingEmpty == seenIdx = usedIdx

IntrEnd ==
  /\ lock = Intr /\ RingEmpty
  /\ lock' = None
  /\ UNCHANGED <<driver, device, status, pc, rw, intr, data>>
-----------------------------------------------------------------------------
(* The device                                                              *)

Take ==
  /\ takenIdx # idx
  /\ working' = working \cup {ring[takenIdx % NUM]}
  /\ ring' = [ring EXCEPT ![takenIdx % NUM] = Nil]
  /\ takenIdx' = NextIdx(takenIdx)
  /\ UNCHANGED <<free, desc, infob, busy, idx, seenIdx, head, usedRing, usedIdx, block, status, lock, pc, rw,
                 intr, data>>

\* It does what the chain says, and adds its head to the used ring.
Complete(h) ==
  /\ h \in working
  /\ working' = working \ {h}
  /\ LET b == desc[desc[h].next].addr
         n == desc[h].addr[2]
     IN IF desc[h].addr[1] = "read"
        THEN data' = [data EXCEPT ![b] = block[n]] /\ block' = block
        ELSE block' = [block EXCEPT ![n] = data[b]] /\ data' = data
  /\ status' = [status EXCEPT ![desc[desc[desc[h].next].next].addr] = 0]
  /\ usedRing' = [usedRing EXCEPT ![usedIdx % NUM] = h]
  /\ usedIdx' = NextIdx(usedIdx)
  /\ intr' = TRUE
  /\ UNCHANGED <<driver, takenIdx, lock, pc, rw>>
-----------------------------------------------------------------------------
Wake(b) == SleepAgain(b) \/ Finish(b)
Handler == IntrEntry \/ IntrEnd
Device == Take \/ \E h \in working : Complete(h)

Next == \/ \E b \in Bufs :
             \/ \E type \in {"read", "write"}, v \in Data : Call(b, type, v)
             \/ AllocFails(b) \/ Format(b) \/ Notify(b) \/ Wake(b) \/ Kill(b)
        \/ IntrStart \/ Handler
        \/ Device

Spec == Init /\ [][Next]_vars
-----------------------------------------------------------------------------
(* Properties                                                              *)

Submitted(b) == pc[b] \in {"notify", "asleep", "relock"}

\* The types; the device is never more than the requests there are behind.
TypeOK == /\ free \subseteq Descs /\ working \subseteq Descs
          /\ \A i \in Descs : desc[i].next \in 0..NUM
          /\ infob \in [Descs -> Bufs \cup {None}]
          /\ status \in [Descs -> {0, 255}]
          /\ busy \in [Bufs -> BOOLEAN]
          /\ ring \in [Descs -> 0..NUM] /\ usedRing \in [Descs -> 0..NUM]
          /\ {idx, takenIdx, usedIdx, seenIdx} \subseteq 0..(Wrap - 1)
          /\ (idx + Wrap - seenIdx) % Wrap <= NUM \div 3
          /\ lock \in Bufs \cup {None, Intr}
          /\ pc \in [Bufs -> {"idle", "lock", "asleepFree", "notify", "asleep", "relock"}]
          /\ rw \in [Bufs -> {"read", "write", None}]
          /\ head \in [Bufs -> 0..NUM]
          /\ intr \in BOOLEAN
          /\ block \in [Bufs -> Data] /\ data \in [Bufs -> Data]

\* Every descriptor is free or in the chain of one request: none is lost, and
\* free_desc never panics; the indices of the rings stay within a ring of each
\* other when they wrap.
DescriptorsOwned ==
  LET S == {b \in Bufs : Submitted(b)}
  IN /\ TypeOK
     /\ \A b \in S : Cardinality(Chain(head[b])) = 3
     /\ \A b, c \in S : b # c => Chain(head[b]) \cap Chain(head[c]) = {}
     /\ Descs \ free = UNION {Chain(head[b]) : b \in S}

\* No wakeup is lost: nobody sleeps for descriptors while there are enough;
\* and while a process sleeps whose request is done, an interrupt is pending
\* or the handler is at work.
CompletionNoticed ==
  /\ (\E b \in Bufs : pc[b] = "asleepFree") => Cardinality(free) < 3
  /\ \A b \in Bufs : pc[b] = "asleep" /\ status[head[b]] = 0 => intr \/ lock = Intr

\* Descriptors and wakeups together: the driver neither runs dry nor sleeps
\* through what it waits for.
DriverSound == DescriptorsOwned /\ CompletionNoticed

\* What the caller can tell of a request.
Stage == [b \in Bufs |-> IF pc[b] = "idle" THEN "none"
                         ELSE IF Submitted(b) /\ status[head[b]] = 0 THEN "done"
                         ELSE rw[b]]

Promise == INSTANCE BlockDevice WITH req <- Stage

\* Each request moves the right block, between its call and its return.
ImplementsBlockDevice == Promise!Spec
=============================================================================
