---------------------------- MODULE Drivers_proof ----------------------------
(***************************************************************************)
(* Proofs about the two disk drivers: VirtioDisk, for any number of        *)
(* buffers and descriptors and any counters that the size of the rings     *)
(* divides; then MiniKernel, for any contents of sectors, any size of the  *)
(* rings and of their indices, and any number of requests and keys.        *)
(***************************************************************************)
EXTENDS VirtioDisk, MiniKernel, FiniteSetTheorems, SequenceTheorems,
        WellFoundedInduction, TLAPS

(* What the proofs need beside the properties of VirtioDisk.               *)

\* TypeOK, but for the distance of the counters, which follows from Counts.
Types ==
  /\ free \subseteq Descs /\ working \subseteq Descs
  /\ DOMAIN desc = Descs /\ \A i \in Descs : desc[i].next \in 0..NUM
  /\ infob \in [Descs -> Bufs \cup {None}]
  /\ status \in [Descs -> {0, 255}]
  /\ busy \in [Bufs -> BOOLEAN]
  /\ ring \in [Descs -> 0..NUM] /\ usedRing \in [Descs -> 0..NUM]
  /\ idx \in 0..(Wrap - 1) /\ takenIdx \in 0..(Wrap - 1)
  /\ usedIdx \in 0..(Wrap - 1) /\ seenIdx \in 0..(Wrap - 1)
  /\ lock \in Bufs \cup {None, Intr}
  /\ pc \in [Bufs -> {"idle", "lock", "asleepFree", "notify", "asleep", "relock"}]
  /\ rw \in [Bufs -> {"read", "write", None}]
  /\ head \in [Bufs -> 0..NUM]
  /\ intr \in BOOLEAN
  /\ block \in [Bufs -> Data] /\ data \in [Bufs -> Data]

\* How far counter b is ahead of a, and the place in a ring of entry j from a.
Dist(a, b) == (b + Wrap - a) % Wrap
PlaceAt(a, j) == (a + j) % NUM

\* The entries that the device, and the handler, have still to read.
Waiting(j) == ring[PlaceAt(takenIdx, j)]
Answer(j) == usedRing[PlaceAt(seenIdx, j)]

Submitters == {b \in Bufs : Submitted(b)}
Outstanding == {b \in Bufs : busy[b] /\ pc[b] # "notify"}

Queued == Dist(takenIdx, idx)
Used == Dist(seenIdx, usedIdx)

\* The three descriptors of a request point to each other, to the buffer and to
\* the status byte, and are nobody else's.
Linked(b) ==
  LET h == head[b]
      i == desc[h].next
      j == desc[i].next
  IN /\ h \in Descs /\ i \in Descs /\ j \in Descs
     /\ h # i /\ h # j /\ i # j
     /\ desc[h].addr = <<rw[b], b>> /\ desc[i].addr = b /\ desc[j].addr = h
     /\ infob[h] = b

Requests ==
  /\ \A b \in Bufs : pc[b] # "idle" => rw[b] \in {"read", "write"}
  /\ \A b \in Submitters : Linked(b) /\ Chain(head[b]) \cap free = {}
  /\ \A b, c \in Submitters : b # c => Chain(head[b]) \cap Chain(head[c]) = {}
  /\ \A i \in Descs \ free : \E b \in Submitters : i \in Chain(head[b])

\* A request is marked before the device hears of it, and finished after.
Phases ==
  /\ \A b \in Bufs : pc[b] \in {"notify", "asleep"} => busy[b]
  /\ \A b \in Bufs : busy[b] => b \in Submitters
  /\ \A b \in Submitters : ~busy[b] => status[head[b]] = 0
  /\ \A b \in Bufs : pc[b] = "notify" =>
       lock = b /\ status[head[b]] = 255 /\ ring[idx % NUM] = head[b]
  /\ lock \in Bufs => pc[lock] = "notify"

\* h is the head of a request that the device has been told of.
PendingRequest(h) == h \in Descs /\ infob[h] \in Outstanding /\ head[infob[h]] = h

\* The device has each request once: in the ring from which it takes them ...
DeviceQueue ==
  /\ \A j \in 0..(Queued - 1) : /\ PendingRequest(Waiting(j)) /\ status[Waiting(j)] = 255
                                /\ Waiting(j) \notin working
  /\ \A i, j \in 0..(Queued - 1) : i # j => Waiting(i) # Waiting(j)
  /\ \A h \in working : PendingRequest(h) /\ status[h] = 255

\* ... or in the one where it puts those it has done, all of which are there,
\* and of which the handler will hear.
UsedQueue ==
  /\ \A j \in 0..(Used - 1) : PendingRequest(Answer(j)) /\ status[Answer(j)] = 0
  /\ \A i, j \in 0..(Used - 1) : i # j => Answer(i) # Answer(j)
  /\ \A b \in Outstanding : status[head[b]] = 0 =>
       \E j \in 0..(Used - 1) : Answer(j) = head[b]
  /\ Used # 0 => intr \/ lock = Intr

\* The rings never overflow, because there are three descriptors to a request.
Counts ==
  /\ Dist(usedIdx, takenIdx) = Cardinality(working)
  /\ Queued + Cardinality(working) + Used = Cardinality(Outstanding)
  /\ Cardinality(free) + 3 * Cardinality(Submitters) = NUM

NobodyStarves == (\E b \in Bufs : pc[b] = "asleepFree") => Cardinality(free) < 3

(* Counters that wrap, and the places of a ring that they point to.        *)

LEMMA DivMod == ASSUME NEW a \in Nat, NEW P \in Nat \ {0}
                PROVE  /\ a % P \in 0..(P - 1) /\ a \div P \in Nat
                       /\ a = P * (a \div P) + (a % P)
  OBVIOUS

\* The next value of a counter, and how far one counter is behind another.
LEMMA WrapsInc == ASSUME NEW P \in Nat \ {0}, NEW a \in 0..(P - 1)
                  PROVE  (a + 1) % P = IF a + 1 < P THEN a + 1 ELSE 0
  OBVIOUS

LEMMA WrapsDiff == ASSUME NEW P \in Nat \ {0}, NEW a \in 0..(P - 1), NEW b \in 0..(P - 1)
                   PROVE  (a + P - b) % P = IF b <= a THEN a - b ELSE a + P - b
  OBVIOUS

LEMMA Quotient == ASSUME NEW P \in Nat \ {0}, NEW q \in Nat, NEW r \in 0..(P - 1)
                  PROVE  (q * P + r) % P = r
  OBVIOUS

LEMMA Distribute == ASSUME NEW P \in Nat, NEW q \in Nat, NEW k \in Nat
                    PROVE  (q + k) * P = q * P + k * P /\ q * P = P * q /\ q * P \in Nat
  OBVIOUS

\* Full rounds do not change a place in the array.
LEMMA Round == ASSUME NEW a \in Nat, NEW k \in Nat, NEW P \in Nat \ {0}
               PROVE  (a + k * P) % P = a % P
<1>1. PICK q \in Nat, r \in 0..(P - 1) : r = a % P /\ a = P * q + r
  BY DivMod
<1>2. PICK s \in Nat : s = q + k
  OBVIOUS
<1>3. a + k * P = s * P + r
  BY <1>1, <1>2, Distribute
<1>4. (s * P + r) % P = r
  BY Quotient
<1> QED
  BY <1>1, <1>3, <1>4

\* Less than a round does.
LEMMA Apart == ASSUME NEW a \in Nat, NEW P \in Nat \ {0}, NEW d \in 1..(P - 1)
               PROVE  (a + d) % P # a % P
<1>1. PICK q \in Nat, r \in 0..(P - 1) : r = a % P /\ a = P * q + r
  BY DivMod
<1>2. CASE r + d < P
  <2>1. PICK s \in 0..(P - 1) : s = r + d
    BY <1>2
  <2>2. a + d = q * P + s
    BY <1>1, <2>1, Distribute
  <2>3. (q * P + s) % P = s
    BY Quotient
  <2>4. (a + d) % P = s
    BY <2>2, <2>3
  <2> QED
    BY <1>1, <2>1, <2>4
<1>3. CASE r + d >= P
  <2>1. PICK s \in 0..(P - 1) : s = r + d - P
    BY <1>3
  <2>2. PICK t \in Nat : t = q + 1
    OBVIOUS
  <2>3. t * P = q * P + P
    BY <2>2, Distribute
  <2>4. a + d = t * P + s
    BY <1>1, <2>1, <2>3, Distribute
  <2>5. (t * P + s) % P = s
    BY Quotient
  <2>6. (a + d) % P = s
    BY <2>4, <2>5
  <2>7. s # r
    BY <2>1
  <2> QED
    BY <1>1, <2>6, <2>7
<1> QED
  BY <1>1, <1>2, <1>3

\* Less than a round apart are two places.
LEMMA PlacesDiffer == ASSUME NEW P \in Nat \ {0}, NEW a \in Nat, NEW i \in Nat, NEW j \in Nat,
                             i # j, i < j + P, j < i + P
                      PROVE  (a + i) % P # (a + j) % P
<1>1. ASSUME NEW x \in Nat, NEW y \in Nat, x < y, y < x + P
      PROVE  (a + x) % P # (a + y) % P
  <2>1. PICK m \in Nat, d \in 1..(P - 1) : m = a + x /\ m + d = a + y
    BY <1>1
  <2>2. (m + d) % P # m % P
    BY Apart
  <2> QED
    BY <2>1, <2>2
<1>2. i < j \/ j < i
  OBVIOUS
<1> QED
  BY <1>1, <1>2

IndInv == /\ Types /\ Requests /\ Phases /\ DeviceQueue /\ UsedQueue
          /\ Counts /\ NobodyStarves
-----------------------------------------------------------------------------
(* Numbers, counters and sets                                              *)

LEMMA Numbers == /\ NUM \in Nat \ {0} /\ NUM >= 3 /\ Wrap \in Nat \ {0} /\ Wrap >= NUM
                 /\ Descs \subseteq Nat /\ NUM \notin Descs /\ 0 \in 0..(Wrap - 1)
                 /\ \A i \in Descs : i \in 0..NUM
                 /\ Nil = NUM /\ NUM \in 0..NUM
<1>1. PICK n \in 1..Wrap : Wrap = n * NUM
  BY WrapAssumption
<1>2. n * NUM >= NUM
  BY <1>1, NumAssumption
<1> QED
  BY <1>1, <1>2, NumAssumption, WrapAssumption DEF Descs, Nil

LEMMA PlaceInRing == \A a \in Nat : a % NUM \in Descs
  BY DivMod, Numbers DEF Descs

\* The distance of two counters, without %.
LEMMA DistIs ==
  ASSUME NEW a \in 0..(Wrap - 1), NEW b \in 0..(Wrap - 1)
  PROVE  /\ Dist(a, b) = IF a <= b THEN b - a ELSE b + Wrap - a
         /\ Dist(a, b) \in 0..(Wrap - 1)
         /\ Dist(a, b) = 0 <=> a = b
<1>1. Wrap \in Nat \ {0}
  BY Numbers
<1>2. Dist(a, b) = IF a <= b THEN b - a ELSE b + Wrap - a
  BY <1>1, WrapsDiff DEF Dist
<1> QED
  BY <1>1, <1>2

LEMMA NextIdxIs ==
  ASSUME NEW a \in 0..(Wrap - 1)
  PROVE  /\ NextIdx(a) = IF a + 1 < Wrap THEN a + 1 ELSE 0
         /\ NextIdx(a) \in 0..(Wrap - 1)
<1>1. Wrap \in Nat \ {0}
  BY Numbers
<1>2. NextIdx(a) = IF a + 1 < Wrap THEN a + 1 ELSE 0
  BY <1>1, WrapsInc DEF NextIdx
<1> QED
  BY <1>1, <1>2

\* One counter moves on, ahead of the other or behind it.
LEMMA DistNext ==
  ASSUME NEW a \in 0..(Wrap - 1), NEW b \in 0..(Wrap - 1)
  PROVE  /\ Dist(a, b) < Wrap - 1 => Dist(a, NextIdx(b)) = Dist(a, b) + 1
         /\ a # b => Dist(NextIdx(a), b) = Dist(a, b) - 1
<1>1. NextIdx(a) \in 0..(Wrap - 1) /\ NextIdx(b) \in 0..(Wrap - 1) /\ Wrap \in Nat \ {0}
  BY NextIdxIs, Numbers
<1>2. /\ Dist(a, b) = IF a <= b THEN b - a ELSE b + Wrap - a
      /\ NextIdx(a) = IF a + 1 < Wrap THEN a + 1 ELSE 0
      /\ NextIdx(b) = IF b + 1 < Wrap THEN b + 1 ELSE 0
  BY DistIs, NextIdxIs
<1>3. Dist(a, NextIdx(b)) = IF a <= NextIdx(b) THEN NextIdx(b) - a ELSE NextIdx(b) + Wrap - a
  BY <1>1, DistIs
<1>4. Dist(NextIdx(a), b) = IF NextIdx(a) <= b THEN b - NextIdx(a) ELSE b + Wrap - NextIdx(a)
  BY <1>1, DistIs
<1> QED
  BY <1>1, <1>2, <1>3, <1>4

\* Distances add up as long as they are less than a round.
LEMMA DistSum ==
  ASSUME NEW a \in 0..(Wrap - 1), NEW b \in 0..(Wrap - 1), NEW c \in 0..(Wrap - 1),
         Dist(a, b) + Dist(b, c) < Wrap
  PROVE  Dist(a, c) = Dist(a, b) + Dist(b, c)
<1>1. Wrap \in Nat \ {0}
  BY Numbers
<1>2. /\ Dist(a, b) = IF a <= b THEN b - a ELSE b + Wrap - a
      /\ Dist(b, c) = IF b <= c THEN c - b ELSE c + Wrap - b
      /\ Dist(a, c) = IF a <= c THEN c - a ELSE c + Wrap - a
  BY DistIs
<1> QED
  BY <1>1, <1>2

\* Places in a ring, counted from a counter.
LEMMA Places ==
  ASSUME NEW a \in 0..(Wrap - 1)
  PROVE  /\ PlaceAt(a, 0) = a % NUM
         /\ \A j \in Nat : PlaceAt(a, j) \in Descs
         /\ \A j \in Nat : PlaceAt(NextIdx(a), j) = PlaceAt(a, j + 1)
         /\ \A i, j \in 0..(NUM - 1) : i # j => PlaceAt(a, i) # PlaceAt(a, j)
<1>1. /\ a \in Nat /\ NUM \in Nat \ {0} /\ Wrap \in Nat \ {0}
  BY Numbers
<1>2. PlaceAt(a, 0) = a % NUM
  BY <1>1 DEF PlaceAt
<1>3. \A j \in Nat : PlaceAt(a, j) \in Descs
  BY <1>1, PlaceInRing DEF PlaceAt
<1>4. ASSUME NEW j \in Nat PROVE PlaceAt(NextIdx(a), j) = PlaceAt(a, j + 1)
  <2>1. CASE a + 1 < Wrap
    <3>1. NextIdx(a) + j = a + (j + 1)
      BY <1>1, <2>1, NextIdxIs
    <3> QED
      BY <3>1 DEF PlaceAt
  <2>2. CASE a + 1 >= Wrap
    <3>1. PICK n \in Nat : Wrap = n * NUM
      BY WrapAssumption, <1>1
    <3>2. NextIdx(a) + j = j /\ a + (j + 1) = j + n * NUM
      BY <1>1, <2>2, <3>1, NextIdxIs
    <3>3. (j + n * NUM) % NUM = j % NUM
      BY <1>1, Round
    <3> QED
      BY <3>2, <3>3 DEF PlaceAt
  <2> QED
    BY <1>1, <2>1, <2>2
<1>5. ASSUME NEW i \in 0..(NUM - 1), NEW j \in 0..(NUM - 1), i # j PROVE PlaceAt(a, i) # PlaceAt(a, j)
  <2>1. i \in Nat /\ j \in Nat /\ i < j + NUM /\ j < i + NUM
    BY <1>1
  <2>2. (a + i) % NUM # (a + j) % NUM
    BY <1>1, <1>5, <2>1, PlacesDiffer
  <2> QED
    BY <2>2 DEF PlaceAt
<1> QED
  BY <1>2, <1>3, <1>4, <1>5

LEMMA PlaceOf ==
  ASSUME NEW a \in 0..(Wrap - 1), NEW b \in 0..(Wrap - 1)
  PROVE  PlaceAt(a, Dist(a, b)) = b % NUM
<1>1. /\ a \in Nat /\ b \in Nat /\ NUM \in Nat \ {0} /\ Wrap \in Nat \ {0}
  BY Numbers
<1>2. CASE a <= b
  <2>1. a + Dist(a, b) = b
    BY <1>1, <1>2, DistIs
  <2> QED
    BY <2>1 DEF PlaceAt
<1>3. CASE a > b
  <2>1. PICK n \in Nat : Wrap = n * NUM
    BY WrapAssumption, <1>1
  <2>2. a + Dist(a, b) = b + n * NUM
    BY <1>1, <1>3, <2>1, DistIs
  <2>3. (b + n * NUM) % NUM = b % NUM
    BY <1>1, Round
  <2> QED
    BY <2>2, <2>3 DEF PlaceAt
<1> QED
  BY <1>1, <1>2, <1>3

\* The lowest descriptor of a set.
LEMMA MinIn == ASSUME NEW S \in SUBSET Descs, S # {} PROVE Min(S) \in S
<1> DEFINE Below(x) == {y \in Descs : y < x}
           T == {Below(x) : x \in S}
<1>1. IsWellFoundedOn(StrictSubsetOrdering(Descs), FiniteSubsetsOf(Descs))
  BY FS_StrictSubsetOrderingWellFounded
<1>2. IsFiniteSet(Descs)
  BY FS_Interval, Numbers DEF Descs
<1>3. T \subseteq FiniteSubsetsOf(Descs) /\ T # {}
  <2>1. \A x \in S : Below(x) \in SUBSET Descs /\ IsFiniteSet(Below(x))
    BY <1>2, FS_Subset
  <2> QED
    BY <2>1 DEF FiniteSubsetsOf
<1>4. \E t \in T : \A u \in T : ~(<<u, t>> \in StrictSubsetOrdering(Descs))
  BY <1>1, <1>3, WFMin
<1>5. PICK x \in S : \A y \in S : <<Below(y), Below(x)>> \notin StrictSubsetOrdering(Descs)
  BY <1>4
<1>6. \A y \in S : x =< y
  <2> SUFFICES ASSUME NEW y \in S, y < x PROVE FALSE
    BY Numbers
  <2>1. y \in Descs /\ y \in Nat /\ x \in Nat /\ \A z \in Descs : z \in Nat
    BY Numbers
  <2>2. Below(y) \subseteq Below(x)
    <3> SUFFICES ASSUME NEW z \in Descs, z < y PROVE z < x
      OBVIOUS
    <3>1. z \in Nat
      BY <2>1
    <3> QED
      BY <2>1, <3>1
  <2>3. y \in Below(x) /\ y \notin Below(y)
    BY <2>1
  <2>4. <<Below(y), Below(x)>> \in (SUBSET Descs) \X (SUBSET Descs)
    OBVIOUS
  <2> QED
    BY <1>5, <2>2, <2>3, <2>4 DEF StrictSubsetOrdering
<1> QED
  BY <1>6 DEF Min

\* Sets of descriptors and of buffers are finite.
LEMMA Finite == /\ \A S \in SUBSET Descs : IsFiniteSet(S) /\ Cardinality(S) \in Nat
                /\ \A S \in SUBSET Bufs : IsFiniteSet(S) /\ Cardinality(S) \in Nat
<1>1. IsFiniteSet(Descs)
  BY FS_Interval, Numbers DEF Descs
<1> QED
  BY <1>1, BufsAssumption, FS_Subset, FS_CardinalityType

LEMMA OneMore == ASSUME NEW S, IsFiniteSet(S), NEW x
                 PROVE  /\ Cardinality(S \cup {x}) = IF x \in S THEN Cardinality(S)
                                                     ELSE Cardinality(S) + 1
                        /\ Cardinality(S \ {x}) = IF x \in S THEN Cardinality(S) - 1
                                                  ELSE Cardinality(S)
  BY FS_AddElement, FS_RemoveElement

\* The rings are never full.
LEMMA Sizes ==
  ASSUME Types, Phases, Counts
  PROVE  /\ Queued \in Nat /\ Used \in Nat /\ Dist(usedIdx, takenIdx) \in Nat
         /\ Queued < NUM - 1 /\ Used < NUM - 1 /\ Dist(usedIdx, takenIdx) < NUM - 1
         /\ Queued + Dist(usedIdx, takenIdx) + Used <= Cardinality(Submitters)
         /\ 3 * Cardinality(Submitters) <= NUM
         /\ Cardinality(Submitters) \in Nat /\ Cardinality(free) \in Nat
         /\ Outstanding \subseteq Submitters
<1>1. Queued \in Nat /\ Used \in Nat /\ Dist(usedIdx, takenIdx) \in Nat
  <2>1. \A a, b \in 0..(Wrap - 1) : Dist(a, b) \in Nat
    BY DistIs, Numbers
  <2> QED
    BY <2>1 DEF Types, Queued, Used
<1>2. Outstanding \subseteq Submitters
  BY DEF Phases, Outstanding
<1>3. Submitters \in SUBSET Bufs
  BY DEF Submitters
<1>4. /\ Cardinality(Submitters) \in Nat /\ Cardinality(free) \in Nat
      /\ Cardinality(Outstanding) <= Cardinality(Submitters)
  BY <1>2, <1>3, Finite, FS_Subset DEF Types
<1>5. 3 * Cardinality(Submitters) <= NUM
  BY <1>4, Numbers DEF Counts
<1>6. Queued + Dist(usedIdx, takenIdx) + Used <= Cardinality(Submitters)
  BY <1>1, <1>4 DEF Counts
<1> QED
  BY <1>1, <1>2, <1>4, <1>5, <1>6, Numbers

\* The bound of TypeOK on how far the handler is behind the processes.
LEMMA HandlerBehind == ASSUME Types, Phases, Counts PROVE TypeOK
<1> DEFINE U == Dist(seenIdx, usedIdx)
           W == Dist(usedIdx, takenIdx)
           Q == Dist(takenIdx, idx)
<1>1. U \in Nat /\ W \in Nat /\ Q \in Nat /\ 3 * (U + W + Q) <= NUM /\ NUM \in Nat /\ Wrap >= NUM
  BY Sizes, Numbers DEF Queued, Used
<1>2. Dist(seenIdx, takenIdx) = U + W
  BY <1>1, DistSum, Numbers DEF Types
<1>3. Dist(seenIdx, idx) = U + W + Q
  BY <1>1, <1>2, DistSum, Numbers DEF Types
<1>4. U + W + Q <= NUM \div 3
  BY <1>1
<1> QED
  BY <1>3, <1>4 DEF Types, TypeOK, Dist

-----------------------------------------------------------------------------
(* The invariant is inductive: one lemma for each action                   *)

\* A step elsewhere leaves a chain alone.
LEMMA ChainStays ==
  ASSUME NEW b \in Bufs, Linked(b), head'[b] = head[b], rw'[b] = rw[b],
         infob'[head[b]] = b, \A i \in Chain(head[b]) : desc'[i] = desc[i]
  PROVE  Linked(b)' /\ Chain(head[b])' = Chain(head[b])
  BY DEF Linked, Chain

\* Who is the request of a head, and what is linked to it.
LEMMA PendingIs ==
  ASSUME IndInv, NEW h, PendingRequest(h)
  PROVE  \E b \in Outstanding :
           /\ b \in Bufs /\ b \in Submitters /\ b = infob[h] /\ head[b] = h /\ Linked(b)
           /\ busy[b] /\ pc[b] # "notify"
<1>1. infob[h] \in Outstanding /\ head[infob[h]] = h
  BY DEF PendingRequest
<1> QED
  BY <1>1 DEF IndInv, Requests, Phases, Outstanding

LEMMA HeadsDiffer ==
  ASSUME IndInv
  PROVE  /\ \A b \in Submitters : /\ b \in Bufs /\ head[b] \in Descs \ free
                                  /\ infob[head[b]] = b /\ head[b] \in Chain(head[b])
         /\ \A b, c \in Submitters : head[b] = head[c] => b = c
<1>1. \A b \in Submitters : b \in Bufs /\ Linked(b) /\ Chain(head[b]) \cap free = {}
  BY DEF IndInv, Requests, Submitters
<1>2. \A b \in Submitters : head[b] \in Descs /\ infob[head[b]] = b /\ head[b] \in Chain(head[b])
  BY <1>1 DEF Linked, Chain
<1> QED
  BY <1>1, <1>2

\* Steps that leave the requests, or the rings, alone.
LEMMA RequestsStay ==
  ASSUME Requests, UNCHANGED <<free, desc, infob, head>>, Submitters' = Submitters,
         \A b \in Submitters : rw'[b] = rw[b],
         \A b \in Bufs : pc'[b] # "idle" => rw'[b] \in {"read", "write"}
  PROVE  Requests'
<1>1. \A b : Chain(head[b])' = Chain(head[b])
  BY DEF Chain
<1>2. \A b \in Submitters : Linked(b)'
  BY DEF Requests, Linked
<1> QED
  BY <1>1, <1>2 DEF Requests

LEMMA RingsStay ==
  ASSUME UNCHANGED <<infob, head, status, ring, idx, takenIdx, working, usedRing,
                     usedIdx, seenIdx>>, Outstanding' = Outstanding
  PROVE  /\ DeviceQueue => DeviceQueue'
         /\ UsedQueue /\ (Used # 0 => intr' \/ lock' = Intr) => UsedQueue'
<1>1. \A j : Waiting(j)' = Waiting(j) /\ Answer(j)' = Answer(j)
  BY DEF Waiting, Answer, PlaceAt
<1>2. Queued' = Queued /\ Used' = Used
  BY DEF Queued, Used, Dist
<1>3. \A h : PendingRequest(h) => PendingRequest(h)'
  BY DEF PendingRequest
<1>4. DeviceQueue => DeviceQueue'
  BY <1>1, <1>2, <1>3 DEF DeviceQueue, PendingRequest
<1>5. UsedQueue /\ (Used # 0 => intr' \/ lock' = Intr) => UsedQueue'
  BY <1>1, <1>2, <1>3 DEF UsedQueue, PendingRequest
<1> QED
  BY <1>4, <1>5
LEMMA InitInv == Init => IndInv
<1> SUFFICES ASSUME Init PROVE IndInv
  OBVIOUS
<1>1. Types
  BY Numbers DEF Init, Types, NoDesc
<1>2. Submitters = {} /\ Outstanding = {} /\ Queued = 0 /\ Used = 0
  BY DistIs, Numbers DEF Init, Submitters, Submitted, Outstanding, Queued, Used
<1>3. Requests
  BY <1>2 DEF Init, Requests
<1>4. Phases
  BY <1>2, NameAssumption DEF Init, Phases
<1>5. DeviceQueue /\ UsedQueue
  BY <1>2 DEF Init, DeviceQueue, UsedQueue
<1>6. Counts
  <2>1. Dist(usedIdx, takenIdx) = 0
    BY DistIs, Numbers DEF Init
  <2>2. Cardinality(Descs) = NUM
    BY FS_Interval, Numbers DEF Descs
  <2> QED
    BY <1>2, <2>1, <2>2, FS_EmptySet, Numbers DEF Init, Counts
<1>7. NobodyStarves
  BY DEF Init, NobodyStarves
<1> QED
  BY <1>1, <1>3, <1>4, <1>5, <1>6, <1>7 DEF IndInv

LEMMA CallInv ==
  ASSUME IndInv, NEW b \in Bufs, NEW kind \in {"read", "write"}, NEW v \in Data, Call(b, kind, v)
  PROVE  IndInv'
<1>a. /\ Types /\ Requests /\ Phases /\ DeviceQueue /\ UsedQueue /\ Counts
      /\ Submitters' = Submitters /\ Outstanding' = Outstanding
      /\ UNCHANGED <<infob, head, status, ring, idx, takenIdx, working, usedRing,
                     usedIdx, seenIdx>>
  BY DEF IndInv, Call, driver, device, Types, Submitters, Submitted, Outstanding
<1>1. Types'
  BY Numbers DEF IndInv, Call, driver, device, Types
<1>2. Requests'
  <2>1. UNCHANGED <<free, desc, infob, head>>
    BY DEF Call, driver
  <2>2. \A c \in Submitters : rw'[c] = rw[c]
    BY <1>a DEF Call, Types, Submitters, Submitted
  <2>3. \A c \in Bufs : pc'[c] # "idle" => rw'[c] \in {"read", "write"}
    BY <1>a DEF Call, Types, Requests
  <2> QED
    BY <1>a, <2>1, <2>2, <2>3, RequestsStay
<1>3. Phases'
  BY Numbers DEF IndInv, Call, driver, device, Types, Requests, Phases, Submitters,
     Submitted
<1>4. DeviceQueue'
  BY <1>a, RingsStay
<1>5. UsedQueue'
  <2>1. Used # 0 => intr' \/ lock' = Intr
    BY <1>a DEF Call, UsedQueue
  <2> QED
    BY <1>a, <2>1, RingsStay
<1>6. Counts'
  <2>1. UNCHANGED <<free, working>>
    BY DEF Call, driver, device
  <2> QED
    BY <1>a, <2>1 DEF Counts, Queued, Used, Dist
<1>7. NobodyStarves'
  BY Numbers DEF IndInv, Call, driver, device, Types, NobodyStarves
<1> QED
  BY <1>1, <1>2, <1>3, <1>4, <1>5, <1>6, <1>7 DEF IndInv

LEMMA AllocFailsInv ==
  ASSUME IndInv, NEW b \in Bufs, AllocFails(b)
  PROVE  IndInv'
<1>a. /\ Types /\ Requests /\ Phases /\ DeviceQueue /\ UsedQueue /\ Counts
      /\ Submitters' = Submitters /\ Outstanding' = Outstanding
      /\ UNCHANGED <<infob, head, status, ring, idx, takenIdx, working, usedRing,
                     usedIdx, seenIdx>>
  BY DEF IndInv, AllocFails, WakeFree, driver, device, Types, Submitters, Submitted,
     Outstanding
<1>1. Types'
  BY Numbers DEF IndInv, AllocFails, WakeFree, NoDesc, driver, device, Types
<1>2. Requests'
  <2>1. Submitters' = Submitters
    BY DEF IndInv, AllocFails, WakeFree, Types, Submitters, Submitted
  <2>2. UNCHANGED <<free, infob, head, rw>> /\ \A i \in Descs \ free : desc'[i] = desc[i]
    BY DEF AllocFails
  <2>3. \A c \in Submitters : Linked(c)' /\ Chain(head[c])' = Chain(head[c])
    <3> SUFFICES ASSUME NEW c \in Submitters
                 PROVE  Linked(c)' /\ Chain(head[c])' = Chain(head[c])
      OBVIOUS
    <3>1. c \in Bufs /\ Linked(c) /\ Chain(head[c]) \cap free = {}
      BY DEF IndInv, Requests, Submitters
    <3>2. \A i \in Chain(head[c]) : desc'[i] = desc[i]
      BY <2>2, <3>1 DEF Linked, Chain
    <3>3. infob'[head[c]] = c
      BY <2>2, <3>1 DEF Linked
    <3> QED
      BY <2>2, <3>1, <3>2, <3>3, ChainStays
  <2>4. \A c \in Bufs : pc'[c] # "idle" => pc[c] # "idle"
    BY DEF IndInv, AllocFails, WakeFree, Types
  <2> QED
    BY <2>1, <2>2, <2>3, <2>4 DEF IndInv, Requests
<1>3. Phases'
  BY Numbers DEF IndInv, AllocFails, WakeFree, NoDesc, driver, device, Types, Requests,
     Phases, Submitters, Submitted
<1>4. DeviceQueue'
  BY <1>a, RingsStay
<1>5. UsedQueue'
  <2>1. Used # 0 => intr' \/ lock' = Intr
    BY <1>a DEF AllocFails, UsedQueue
  <2> QED
    BY <1>a, <2>1, RingsStay
<1>6. Counts'
  <2>1. UNCHANGED <<free, working>>
    BY DEF AllocFails, driver, device
  <2> QED
    BY <1>a, <2>1 DEF Counts, Queued, Used, Dist
<1>7. NobodyStarves'
  BY Numbers DEF IndInv, AllocFails, WakeFree, NoDesc, driver, device, Types, NobodyStarves
<1> QED
  BY <1>1, <1>2, <1>3, <1>4, <1>5, <1>6, <1>7 DEF IndInv

LEMMA FormatInv ==
  ASSUME IndInv, NEW b \in Bufs, Format(b)
  PROVE  /\ IndInv'
         /\ \A c \in Bufs : Submitted(c)' => status'[head'[c]] =
                              IF c = b THEN 255 ELSE status[head[c]]
         /\ status'[head'[b]] = 255
<1>a. Types /\ Requests /\ Phases /\ DeviceQueue /\ UsedQueue /\ Counts
  BY DEF IndInv
<1>b. PICK i0 \in free, i1 \in free, i2 \in free :
        /\ i0 # i1 /\ i0 # i2 /\ i1 # i2
        /\ free' = free \ {i0, i1, i2}
        /\ desc' = [desc EXCEPT ![i0] = [addr |-> <<rw[b], b>>, next |-> i1],
                                ![i1] = [addr |-> b, next |-> i2],
                                ![i2] = [addr |-> i0, next |-> Nil]]
        /\ status' = [status EXCEPT ![i0] = 255]
        /\ infob' = [infob EXCEPT ![i0] = b]
        /\ head' = [head EXCEPT ![b] = i0]
        /\ ring' = [ring EXCEPT ![idx % NUM] = i0]
  <2> DEFINE j0 == Min(free)
             j1 == Min(free \ {j0})
             j2 == Min(free \ {j0, j1})
  <2>1. free \in SUBSET Descs /\ IsFiniteSet(free) /\ Cardinality(free) >= 3
    BY <1>a, Finite DEF Format, Types
  <2>2. free # {}
    BY <2>1, FS_EmptySet
  <2>3. j0 \in free
    BY <2>1, <2>2, MinIn
  <2>4. /\ IsFiniteSet(free \ {j0}) /\ Cardinality(free \ {j0}) >= 2
        /\ free \ {j0} \in SUBSET Descs
    BY <2>1, <2>3, FS_RemoveElement, Finite
  <2>5. free \ {j0} # {}
    BY <2>4, FS_EmptySet
  <2>6. j1 \in free \ {j0}
    BY <2>4, <2>5, MinIn
  <2>7. /\ free \ {j0, j1} = (free \ {j0}) \ {j1}
        /\ Cardinality((free \ {j0}) \ {j1}) >= 1
    BY <2>4, <2>6, FS_RemoveElement, Finite
  <2>8. free \ {j0, j1} # {} /\ free \ {j0, j1} \in SUBSET Descs
    BY <2>1, <2>7, FS_EmptySet
  <2>9. j2 \in free \ {j0, j1}
    BY <2>8, MinIn
  <2> QED
    BY <2>3, <2>6, <2>9 DEF Format
<1>c. /\ pc[b] = "lock" /\ lock = None /\ lock' = b
      /\ busy' = [busy EXCEPT ![b] = TRUE] /\ pc' = [pc EXCEPT ![b] = "notify"]
      /\ UNCHANGED <<idx, takenIdx, usedIdx, seenIdx, usedRing, working, rw, intr, block, data>>
  BY DEF Format, device
<1>d. b \notin Submitters /\ Submitters' = Submitters \cup {b} /\ Outstanding' = Outstanding
  BY <1>a, <1>c DEF Types, Phases, Submitters, Submitted, Outstanding
<1>e. ASSUME NEW c \in Submitters
      PROVE  /\ c # b /\ c \in Bufs /\ head'[c] = head[c] /\ head[c] \in Descs /\ head[c] # i0
             /\ infob'[head[c]] = c /\ status'[head[c]] = status[head[c]]
  BY <1>a, <1>b, <1>d, <1>e, HeadsDiffer DEF Types
<1>f. Queued' = Queued /\ Used' = Used
  BY <1>c DEF Queued, Used, Dist
<1>g. ASSUME NEW h, PendingRequest(h)
      PROVE  /\ infob'[h] = infob[h] /\ infob[h] \in Outstanding' /\ head'[infob[h]] = h
             /\ status'[h] = status[h]
  <2>1. PICK c \in Submitters : c = infob[h] /\ head[c] = h /\ c \in Outstanding
    BY <1>g, PendingIs
  <2> QED
    BY <1>d, <1>e, <2>1 DEF PendingRequest
<1>h. i0 \in Descs /\ i1 \in Descs /\ i2 \in Descs
  BY <1>a DEF Types
<1>1. Types'
  BY <1>a, <1>b, <1>c, <1>h, Numbers DEF Types
<1>2. Requests'
  <2>1. \A c \in Bufs : pc'[c] # "idle" => rw'[c] \in {"read", "write"}
    BY <1>a, <1>c DEF Types, Requests
  <2>2. ASSUME NEW c \in Submitters
        PROVE  /\ Linked(c)' /\ Chain(head[c])' = Chain(head[c])
               /\ Chain(head[c]) \cap free = {}
    <3>1. Linked(c) /\ Chain(head[c]) \cap free = {}
      BY <1>a DEF Requests
    <3>2. \A i \in Chain(head[c]) : i \in Descs /\ i # i0 /\ i # i1 /\ i # i2
      BY <3>1 DEF Linked, Chain
    <3>3. \A i \in Descs : i # i0 /\ i # i1 /\ i # i2 => desc'[i] = desc[i]
      BY <1>a, <1>b DEF Types
    <3>4. \A i \in Chain(head[c]) : desc'[i] = desc[i]
      BY <3>2, <3>3
    <3> QED
      BY <1>c, <1>e, <3>1, <3>4, ChainStays
  <2>3. Linked(b)' /\ Chain(head[b])' = {i0, i1, i2}
    <3>1. /\ desc'[i0] = [addr |-> <<rw[b], b>>, next |-> i1]
          /\ desc'[i1] = [addr |-> b, next |-> i2] /\ desc'[i2].addr = i0
      BY <1>a, <1>b, <1>h DEF Types
    <3>2. head'[b] = i0 /\ infob'[i0] = b /\ rw' = rw
      BY <1>a, <1>b, <1>c, <1>h DEF Types
    <3>3. /\ desc'[i0].addr = <<rw'[b], b>> /\ desc'[i0].next = i1
          /\ desc'[i1].addr = b /\ desc'[i1].next = i2
      BY <3>1, <3>2
    <3>4. Linked(b)'
      BY <1>b, <1>h, <3>1, <3>2, <3>3 DEF Linked
    <3>5. Chain(head[b])' = {i0, i1, i2}
      BY <3>2, <3>3 DEF Chain
    <3> QED
      BY <3>4, <3>5
  <2>4. \A c \in Submitters' : Linked(c)' /\ Chain(head[c])' \cap free' = {}
    BY <1>b, <1>d, <2>2, <2>3
  <2>5. \A c, d \in Submitters' : c # d => Chain(head[c])' \cap Chain(head[d])' = {}
    BY <1>a, <1>d, <2>2, <2>3 DEF Requests
  <2>6. \A i \in Descs \ free' : \E c \in Submitters' : i \in Chain(head[c])'
    BY <1>a, <1>b, <1>d, <2>2, <2>3 DEF Requests
  <2> QED
    BY <2>1, <2>4, <2>5, <2>6 DEF Requests
<1>3. Phases'
  <2>1. status'[i0] = 255 /\ head'[b] = i0 /\ ring'[idx % NUM] = i0
    BY <1>a, <1>b, <1>h, PlaceInRing DEF Types
  <2>2. \A c \in Bufs : pc[c] # "notify"
    BY <1>a, <1>c, NameAssumption DEF Phases
  <2> QED
    BY <1>a, <1>c, <1>d, <1>e, <2>1, <2>2 DEF Types, Phases
<1>4. DeviceQueue'
  <2>1. ASSUME NEW j \in 0..(Queued - 1)
        PROVE  ring'[PlaceAt(takenIdx, j)] = ring[PlaceAt(takenIdx, j)]
    <3>1. /\ j \in 0..(NUM - 1) /\ Queued \in 0..(NUM - 1) /\ j # Queued /\ j \in Nat
          /\ takenIdx \in 0..(Wrap - 1) /\ idx \in 0..(Wrap - 1)
      BY <1>a, Sizes, Numbers DEF Types
    <3>2. PlaceAt(takenIdx, j) # PlaceAt(takenIdx, Queued) /\ PlaceAt(takenIdx, j) \in Descs
      BY <3>1, Places
    <3>3. PlaceAt(takenIdx, Queued) = idx % NUM
      BY <3>1, PlaceOf DEF Queued
    <3> QED
      BY <1>a, <1>b, <3>2, <3>3 DEF Types
  <2>2. \A j \in 0..(Queued - 1) : Waiting(j)' = Waiting(j)
    BY <1>c, <2>1 DEF Waiting, PlaceAt
  <2> QED
    BY <1>a, <1>c, <1>f, <1>g, <2>2 DEF DeviceQueue, PendingRequest
<1>5. UsedQueue'
  <2>1. \A j \in 0..(Used - 1) : Answer(j)' = Answer(j)
    BY <1>c DEF Answer, PlaceAt
  <2>2. Outstanding \subseteq Submitters
    BY <1>a, Sizes
  <2>3. \A c \in Outstanding' : head'[c] = head[c] /\ status'[head[c]] = status[head[c]]
    BY <1>d, <1>e, <2>2
  <2>4. intr' = intr /\ lock # Intr
    BY <1>c, NameAssumption
  <2> QED
    BY <1>a, <1>d, <1>f, <1>g, <2>1, <2>3, <2>4 DEF UsedQueue, PendingRequest
<1>6. Counts'
  <2>1. Cardinality(free') = Cardinality(free) - 3
    <3>1. free' = ((free \ {i0}) \ {i1}) \ {i2}
      BY <1>b
    <3>2. IsFiniteSet(free) /\ IsFiniteSet(free \ {i0}) /\ IsFiniteSet((free \ {i0}) \ {i1})
      BY <1>a, Finite DEF Types
    <3>3. /\ Cardinality(free \ {i0}) = Cardinality(free) - 1
          /\ Cardinality((free \ {i0}) \ {i1}) = Cardinality(free \ {i0}) - 1
          /\ Cardinality(((free \ {i0}) \ {i1}) \ {i2}) = Cardinality((free \ {i0}) \ {i1}) - 1
      BY <1>b, <3>2, FS_RemoveElement
    <3> QED
      BY <1>a, <3>1, <3>3, Sizes
  <2>2. Cardinality(Submitters') = Cardinality(Submitters) + 1
    <3>1. IsFiniteSet(Submitters)
      BY Finite DEF Submitters
    <3> QED
      BY <1>d, <3>1, FS_AddElement
  <2>3. Dist(usedIdx, takenIdx)' = Dist(usedIdx, takenIdx)
    BY <1>c DEF Dist
  <2> QED
    BY <1>a, <1>c, <1>d, <1>f, <2>1, <2>2, <2>3, Sizes DEF Counts
<1>7. NobodyStarves'
  <2>1. Cardinality(free') <= Cardinality(free)
    BY <1>a, <1>b, Finite, FS_Subset DEF Types
  <2>2. Cardinality(free) \in Nat /\ Cardinality(free') \in Nat
    BY <1>a, <1>b, Finite DEF Types
  <2>3. (\E c \in Bufs : pc'[c] = "asleepFree") => \E c \in Bufs : pc[c] = "asleepFree"
    BY <1>a, <1>c DEF Types
  <2> QED
    BY <2>1, <2>2, <2>3 DEF IndInv, NobodyStarves
<1>8. \A c \in Bufs : Submitted(c)' => status'[head'[c]] =
                            IF c = b THEN 255 ELSE status[head[c]]
  <2>1. \A c \in Bufs : Submitted(c)' /\ c # b => c \in Submitters
    BY <1>a, <1>c DEF Types, Submitters, Submitted
  <2> QED
    BY <1>a, <1>b, <1>e, <1>h, <2>1 DEF Types
<1>9. status'[head'[b]] = 255
  BY <1>a, <1>b, <1>h DEF Types
<1> QED
  BY <1>1, <1>2, <1>3, <1>4, <1>5, <1>6, <1>7, <1>8, <1>9 DEF IndInv

LEMMA NotifyInv ==
  ASSUME IndInv, NEW b \in Bufs, Notify(b)
  PROVE  IndInv'
<1>a. Types /\ Requests /\ Phases /\ DeviceQueue /\ UsedQueue /\ Counts
  BY DEF IndInv
<1>r. /\ idx \in 0..(Wrap - 1) /\ takenIdx \in 0..(Wrap - 1)
      /\ usedIdx \in 0..(Wrap - 1) /\ seenIdx \in 0..(Wrap - 1)
  BY <1>a DEF Types
<1>s. /\ Queued \in 0..(NUM - 2) /\ Used \in 0..(NUM - 2) /\ NUM \in Nat
      /\ Dist(usedIdx, takenIdx) \in 0..(NUM - 2) /\ Wrap \in Nat /\ NUM <= Wrap
  BY <1>a, Sizes, Numbers
<1>b. /\ pc[b] = "notify" /\ lock' = None
      /\ idx' = NextIdx(idx) /\ pc' = [pc EXCEPT ![b] = "asleep"]
      /\ UNCHANGED <<free, desc, infob, busy, ring, seenIdx, head, usedRing, usedIdx,
                     takenIdx, working, block, status, rw, intr, data>>
  BY DEF Notify, device
<1>c. /\ lock = b /\ busy[b] /\ b \in Submitters /\ b \notin Outstanding
      /\ status[head[b]] = 255 /\ ring[idx % NUM] = head[b]
      /\ head[b] \in Descs /\ infob[head[b]] = b
  BY <1>a, <1>b, HeadsDiffer DEF Phases, Outstanding
<1>d. Submitters' = Submitters /\ Outstanding' = Outstanding \cup {b}
  BY <1>a, <1>b, <1>c DEF Types, Submitters, Submitted, Outstanding
<1>e. /\ Queued' = Queued + 1 /\ Used' = Used
      /\ Dist(usedIdx, takenIdx)' = Dist(usedIdx, takenIdx)
  <2>1. Dist(takenIdx, NextIdx(idx)) = Dist(takenIdx, idx) + 1
    BY <1>r, <1>s, DistNext DEF Queued
  <2> QED
    BY <1>b, <2>1 DEF Queued, Used, Dist
<1>f. \A h : PendingRequest(h) => infob[h] \in Outstanding' /\ h # head[b]
  BY <1>c, <1>d DEF PendingRequest
<1>g. infob[head[b]] \in Outstanding' /\ head[infob[head[b]]] = head[b]
  BY <1>c, <1>d
<1>1. Types'
  BY <1>a, <1>b, <1>r, NextIdxIs DEF Types
<1>2. Requests'
  <2>1. \A c \in Bufs : pc'[c] # "idle" => rw'[c] \in {"read", "write"}
    BY <1>a, <1>b DEF Types, Requests
  <2> QED
    BY <1>a, <1>b, <1>d, <2>1, RequestsStay
<1>3. Phases'
  BY Numbers, NameAssumption DEF IndInv, Notify, driver, device, Types, Requests,
     Phases, Submitters, Submitted
<1>4. DeviceQueue'
  <2>1. \A j : Waiting(j)' = Waiting(j)
    BY <1>b DEF Waiting, PlaceAt
  <2>2. Waiting(Queued) = head[b]
    <3>1. PlaceAt(takenIdx, Queued) = idx % NUM
      BY <1>r, PlaceOf DEF Queued
    <3> QED
      BY <1>c, <3>1 DEF Waiting
  <2>3. head[b] \notin working
    BY <1>a, <1>f DEF DeviceQueue
  <2>4. \A j \in 0..(Queued' - 1) : j \in 0..(Queued - 1) \/ j = Queued
    BY <1>e, <1>s
  <2>5. ASSUME NEW j \in 0..(Queued' - 1)
        PROVE  /\ PendingRequest(Waiting(j))' /\ status'[Waiting(j)'] = 255
               /\ Waiting(j)' \notin working'
    <3>1. CASE j \in 0..(Queued - 1)
      BY <1>a, <1>b, <1>f, <2>1, <3>1 DEF DeviceQueue, PendingRequest
    <3>2. CASE j = Queued
      BY <1>b, <1>c, <1>g, <2>1, <2>2, <2>3, <3>2 DEF PendingRequest
    <3> QED
      BY <2>4, <3>1, <3>2
  <2>6. \A j \in 0..(Queued - 1) : Waiting(j) # head[b]
    BY <1>a, <1>f DEF DeviceQueue
  <2>7. ASSUME NEW i \in 0..(Queued' - 1), NEW j \in 0..(Queued' - 1), i # j
        PROVE  Waiting(i)' # Waiting(j)'
    BY <1>a, <2>1, <2>2, <2>4, <2>6, <2>7 DEF DeviceQueue
  <2>8. \A h \in working' : PendingRequest(h)' /\ status'[h] = 255
    BY <1>a, <1>b, <1>f DEF DeviceQueue, PendingRequest
  <2> QED
    BY <2>5, <2>7, <2>8 DEF DeviceQueue
<1>5. UsedQueue'
  <2>1. \A j : Answer(j)' = Answer(j)
    BY <1>b DEF Answer, PlaceAt
  <2>2. \A c \in Outstanding' : status'[head'[c]] = 0 => c \in Outstanding
    BY <1>b, <1>c, <1>d
  <2>3. intr' = intr /\ lock # Intr
    BY <1>b, <1>c, NameAssumption
  <2> QED
    BY <1>a, <1>b, <1>e, <1>f, <2>1, <2>2, <2>3 DEF UsedQueue, PendingRequest
<1>6. Counts'
  <2>1. Cardinality(Outstanding') = Cardinality(Outstanding) + 1
    <3>1. IsFiniteSet(Outstanding)
      BY Finite DEF Outstanding
    <3> QED
      BY <1>c, <1>d, <3>1, OneMore
  <2>2. Cardinality(working) \in Nat /\ Cardinality(Outstanding) \in Nat
    BY <1>a, Finite DEF Types, Outstanding
  <2> QED
    BY <1>a, <1>b, <1>d, <1>e, <1>s, <2>1, <2>2 DEF Counts
<1>7. NobodyStarves'
  BY Numbers DEF IndInv, Notify, driver, device, Types, NobodyStarves
<1> QED
  BY <1>1, <1>2, <1>3, <1>4, <1>5, <1>6, <1>7 DEF IndInv

LEMMA SleepAgainInv ==
  ASSUME IndInv, NEW b \in Bufs, SleepAgain(b)
  PROVE  IndInv'
<1>a. /\ Types /\ Requests /\ Phases /\ DeviceQueue /\ UsedQueue /\ Counts
      /\ Submitters' = Submitters /\ Outstanding' = Outstanding
      /\ UNCHANGED <<infob, head, status, ring, idx, takenIdx, working, usedRing,
                     usedIdx, seenIdx>>
  BY DEF IndInv, SleepAgain, driver, device, Types, Submitters, Submitted, Outstanding
<1>1. Types'
  BY Numbers DEF IndInv, SleepAgain, StillBusy, driver, device, Types
<1>2. Requests'
  <2>1. UNCHANGED <<free, desc, infob, head>>
    BY DEF SleepAgain, driver
  <2>2. \A c \in Submitters : rw'[c] = rw[c]
    BY <1>a DEF SleepAgain, Types, Submitters, Submitted
  <2>3. \A c \in Bufs : pc'[c] # "idle" => rw'[c] \in {"read", "write"}
    BY <1>a DEF SleepAgain, Types, Requests
  <2> QED
    BY <1>a, <2>1, <2>2, <2>3, RequestsStay
<1>3. Phases'
  BY Numbers DEF IndInv, SleepAgain, StillBusy, driver, device, Types, Requests, Phases,
     Submitters, Submitted
<1>4. DeviceQueue'
  BY <1>a, RingsStay
<1>5. UsedQueue'
  <2>1. Used # 0 => intr' \/ lock' = Intr
    BY <1>a DEF SleepAgain, UsedQueue
  <2> QED
    BY <1>a, <2>1, RingsStay
<1>6. Counts'
  <2>1. UNCHANGED <<free, working>>
    BY DEF SleepAgain, driver, device
  <2> QED
    BY <1>a, <2>1 DEF Counts, Queued, Used, Dist
<1>7. NobodyStarves'
  BY Numbers DEF IndInv, SleepAgain, StillBusy, driver, device, Types, NobodyStarves
<1> QED
  BY <1>1, <1>2, <1>3, <1>4, <1>5, <1>6, <1>7 DEF IndInv

LEMMA FinishInv ==
  ASSUME IndInv, NEW b \in Bufs, Finish(b)
  PROVE  IndInv'
<1>a. Types /\ Requests /\ Phases /\ DeviceQueue /\ UsedQueue /\ Counts
  BY DEF IndInv
<1>r. /\ idx \in 0..(Wrap - 1) /\ takenIdx \in 0..(Wrap - 1)
      /\ usedIdx \in 0..(Wrap - 1) /\ seenIdx \in 0..(Wrap - 1)
  BY <1>a DEF Types
<1>s. /\ Queued \in 0..(NUM - 2) /\ Used \in 0..(NUM - 2) /\ NUM \in Nat
      /\ Dist(usedIdx, takenIdx) \in 0..(NUM - 2) /\ Wrap \in Nat /\ NUM <= Wrap
  BY <1>a, Sizes, Numbers
<1>b. /\ pc[b] = "relock" /\ lock = None /\ ~busy[b]
      /\ infob' = [infob EXCEPT ![head[b]] = None]
      /\ free' = free \cup Chain(head[b])
      /\ desc' = [i \in Descs |-> IF i \in Chain(head[b]) THEN NoDesc ELSE desc[i]]
      /\ head' = [head EXCEPT ![b] = Nil]
      /\ rw' = [rw EXCEPT ![b] = None]
      /\ pc' = [q \in Bufs |-> IF q = b THEN "idle"
                               ELSE IF pc[q] = "asleepFree" THEN "lock" ELSE pc[q]]
      /\ UNCHANGED <<busy, ring, idx, seenIdx, usedRing, usedIdx, takenIdx, working,
                     block, status, lock, intr, data>>
  BY DEF Finish, StillBusy, WakeFree, device
<1>c. /\ b \in Submitters /\ head[b] \in Descs /\ infob[head[b]] = b /\ Linked(b)
      /\ Chain(head[b]) \subseteq Descs /\ Chain(head[b]) \cap free = {}
  <2>1. b \in Submitters
    BY <1>b DEF Submitters, Submitted
  <2>2. Linked(b) /\ Chain(head[b]) \cap free = {}
    BY <1>a, <2>1 DEF Requests
  <2>3. Chain(head[b]) \subseteq Descs
    BY <2>2 DEF Linked, Chain
  <2> QED
    BY <2>1, <2>2, <2>3, HeadsDiffer
<1>d. Submitters' = Submitters \ {b} /\ Outstanding' = Outstanding /\ b \notin Outstanding
  BY <1>a, <1>b DEF Types, Submitters, Submitted, Outstanding
<1>e. ASSUME NEW c \in Submitters, c # b
      PROVE  /\ c \in Bufs /\ head'[c] = head[c] /\ head[c] \in Descs /\ head[c] # head[b]
             /\ infob'[head[c]] = c /\ rw'[c] = rw[c]
             /\ Linked(c) /\ Chain(head[c]) \cap free = {}
             /\ Chain(head[c]) \cap Chain(head[b]) = {} /\ Chain(head[c]) \subseteq Descs
  <2>1. /\ c \in Bufs /\ head[c] \in Descs /\ head[c] # head[b] /\ infob[head[c]] = c
    BY <1>c, <1>e, HeadsDiffer
  <2>2. /\ Linked(c) /\ Chain(head[c]) \cap free = {}
        /\ Chain(head[c]) \cap Chain(head[b]) = {}
    BY <1>a, <1>c, <1>e DEF Requests
  <2>3. Chain(head[c]) \subseteq Descs
    BY <2>2 DEF Linked, Chain
  <2> QED
    BY <1>a, <1>b, <1>e, <2>1, <2>2, <2>3 DEF Types
<1>f. Queued' = Queued /\ Used' = Used /\ Dist(usedIdx, takenIdx)' = Dist(usedIdx, takenIdx)
  BY <1>b DEF Queued, Used, Dist
<1>g. ASSUME NEW h, PendingRequest(h)
      PROVE  /\ h \in Descs /\ infob'[h] = infob[h] /\ infob[h] \in Outstanding'
             /\ head'[infob[h]] = h
  <2>1. PICK c \in Submitters : c = infob[h] /\ head[c] = h /\ c \in Outstanding
    BY <1>g, PendingIs
  <2> QED
    BY <1>d, <1>e, <1>g, <2>1 DEF PendingRequest
<1>1. Types'
  <2>1. NoDesc.next \in 0..NUM /\ Nil \in 0..NUM
    BY Numbers DEF NoDesc
  <2>2. DOMAIN desc' = Descs /\ \A i \in Descs : desc'[i].next \in 0..NUM
    BY <1>a, <1>b, <2>1 DEF Types
  <2>3. pc' \in [Bufs -> {"idle", "lock", "asleepFree", "notify", "asleep", "relock"}]
    BY <1>a, <1>b DEF Types
  <2> QED
    BY <1>a, <1>b, <1>c, <2>1, <2>2, <2>3 DEF Types
<1>2. Requests'
  <2>1. \A c \in Bufs : pc'[c] # "idle" => rw'[c] \in {"read", "write"}
    BY <1>a, <1>b DEF Types, Requests
  <2>2. ASSUME NEW c \in Submitters, c # b
        PROVE  Linked(c)' /\ Chain(head[c])' = Chain(head[c])
    <3>1. \A i \in Chain(head[c]) : desc'[i] = desc[i]
      BY <1>b, <1>e, <2>2
    <3> QED
      BY <1>e, <2>2, <3>1, ChainStays
  <2>3. \A c \in Submitters' : Linked(c)' /\ Chain(head[c])' \cap free' = {}
    BY <1>b, <1>d, <1>e, <2>2
  <2>4. \A c, d \in Submitters' : c # d => Chain(head[c])' \cap Chain(head[d])' = {}
    BY <1>a, <1>d, <2>2 DEF Requests
  <2>5. \A i \in Descs \ free' : \E c \in Submitters' : i \in Chain(head[c])'
    BY <1>a, <1>b, <1>d, <2>2 DEF Requests
  <2> QED
    BY <2>1, <2>3, <2>4, <2>5 DEF Requests
<1>3. Phases'
  <2>1. \A c \in Bufs : pc'[c] # "notify"
    BY <1>a, <1>b, NameAssumption DEF Types, Phases
  <2>2. \A c \in Bufs : pc'[c] = "asleep" => pc[c] = "asleep"
    BY <1>a, <1>b DEF Types
  <2>3. \A c \in Bufs : busy'[c] => c \in Submitters'
    BY <1>a, <1>b, <1>d DEF Phases
  <2>4. \A c \in Submitters' : ~busy'[c] => status'[head'[c]] = 0
    BY <1>a, <1>b, <1>d, <1>e DEF Phases
  <2> QED
    BY <1>a, <1>b, <2>1, <2>2, <2>3, <2>4, NameAssumption DEF Phases
<1>4. DeviceQueue'
  <2>1. \A j : Waiting(j)' = Waiting(j)
    BY <1>b DEF Waiting, PlaceAt
  <2> QED
    BY <1>a, <1>b, <1>f, <1>g, <2>1 DEF DeviceQueue, PendingRequest
<1>5. UsedQueue'
  <2>1. \A j : Answer(j)' = Answer(j)
    BY <1>b DEF Answer, PlaceAt
  <2>2. \A c \in Outstanding' : head'[c] = head[c] /\ status'[head[c]] = status[head[c]]
    BY <1>a, <1>b, <1>d, <1>e, Sizes
  <2> QED
    BY <1>a, <1>b, <1>d, <1>f, <1>g, <2>1, <2>2 DEF UsedQueue, PendingRequest
<1>6. Counts'
  <2>1. Cardinality(free') = Cardinality(free) + 3
    <3>1. PICK i, j \in Descs : /\ Chain(head[b]) = {head[b], i, j}
                                /\ head[b] # i /\ head[b] # j /\ i # j
      BY <1>c DEF Linked, Chain
    <3>2. /\ head[b] \notin free /\ i \notin free \cup {head[b]}
          /\ j \notin (free \cup {head[b]}) \cup {i}
      BY <1>c, <3>1
    <3>3. free' = ((free \cup {head[b]}) \cup {i}) \cup {j}
      BY <1>b, <3>1
    <3>4. /\ IsFiniteSet(free) /\ IsFiniteSet(free \cup {head[b]})
          /\ IsFiniteSet((free \cup {head[b]}) \cup {i})
      BY <1>a, <1>c, <3>1, Finite DEF Types
    <3>5. /\ Cardinality(free \cup {head[b]}) = Cardinality(free) + 1
          /\ Cardinality((free \cup {head[b]}) \cup {i}) = Cardinality(free \cup {head[b]}) + 1
          /\ Cardinality(((free \cup {head[b]}) \cup {i}) \cup {j})
               = Cardinality((free \cup {head[b]}) \cup {i}) + 1
      BY <3>2, <3>4, FS_AddElement
    <3> QED
      BY <1>a, <3>3, <3>5, Sizes
  <2>2. Cardinality(Submitters') = Cardinality(Submitters) - 1
    <3>1. IsFiniteSet(Submitters)
      BY Finite DEF Submitters
    <3> QED
      BY <1>c, <1>d, <3>1, OneMore
  <2> QED
    BY <1>a, <1>b, <1>d, <1>f, <2>1, <2>2, Sizes DEF Counts
<1>7. NobodyStarves'
  BY Numbers DEF IndInv, Finish, StillBusy, WakeFree, NoDesc, driver, device, Types,
     NobodyStarves
<1> QED
  BY <1>1, <1>2, <1>3, <1>4, <1>5, <1>6, <1>7 DEF IndInv

LEMMA KillInv ==
  ASSUME IndInv, NEW b \in Bufs, Kill(b)
  PROVE  IndInv'
<1>a. /\ Types /\ Requests /\ Phases /\ DeviceQueue /\ UsedQueue /\ Counts
      /\ Submitters' = Submitters /\ Outstanding' = Outstanding
      /\ UNCHANGED <<infob, head, status, ring, idx, takenIdx, working, usedRing,
                     usedIdx, seenIdx>>
  BY DEF IndInv, Kill, driver, device, Types, Submitters, Submitted, Outstanding
<1>1. Types'
  BY Numbers DEF IndInv, Kill, driver, device, Types
<1>2. Requests'
  <2>1. UNCHANGED <<free, desc, infob, head>>
    BY DEF Kill, driver
  <2>2. \A c \in Submitters : rw'[c] = rw[c]
    BY <1>a DEF Kill, Types, Submitters, Submitted
  <2>3. \A c \in Bufs : pc'[c] # "idle" => rw'[c] \in {"read", "write"}
    BY <1>a DEF Kill, Types, Requests
  <2> QED
    BY <1>a, <2>1, <2>2, <2>3, RequestsStay
<1>3. Phases'
  BY Numbers DEF IndInv, Kill, driver, device, Types, Requests, Phases, Submitters,
     Submitted
<1>4. DeviceQueue'
  BY <1>a, RingsStay
<1>5. UsedQueue'
  <2>1. Used # 0 => intr' \/ lock' = Intr
    BY <1>a DEF Kill, UsedQueue
  <2> QED
    BY <1>a, <2>1, RingsStay
<1>6. Counts'
  <2>1. UNCHANGED <<free, working>>
    BY DEF Kill, driver, device
  <2> QED
    BY <1>a, <2>1 DEF Counts, Queued, Used, Dist
<1>7. NobodyStarves'
  BY Numbers DEF IndInv, Kill, driver, device, Types, NobodyStarves
<1> QED
  BY <1>1, <1>2, <1>3, <1>4, <1>5, <1>6, <1>7 DEF IndInv

LEMMA IntrStartInv ==
  ASSUME IndInv, IntrStart
  PROVE  IndInv'
<1>a. /\ Types /\ Requests /\ Phases /\ DeviceQueue /\ UsedQueue /\ Counts
      /\ Submitters' = Submitters /\ Outstanding' = Outstanding
      /\ UNCHANGED <<infob, head, status, ring, idx, takenIdx, working, usedRing,
                     usedIdx, seenIdx>>
  BY DEF IndInv, IntrStart, driver, device, Types, Submitters, Submitted, Outstanding
<1>1. Types'
  BY Numbers DEF IndInv, IntrStart, driver, device, Types
<1>2. Requests'
  <2>1. UNCHANGED <<free, desc, infob, head>>
    BY DEF IntrStart, driver
  <2>2. \A c \in Submitters : rw'[c] = rw[c]
    BY <1>a DEF IntrStart, Types, Submitters, Submitted
  <2>3. \A c \in Bufs : pc'[c] # "idle" => rw'[c] \in {"read", "write"}
    BY <1>a DEF IntrStart, Types, Requests
  <2> QED
    BY <1>a, <2>1, <2>2, <2>3, RequestsStay
<1>3. Phases'
  BY Numbers, NameAssumption DEF IndInv, IntrStart, driver, device, Types, Requests,
     Phases, Submitters, Submitted
<1>4. DeviceQueue'
  BY <1>a, RingsStay
<1>5. UsedQueue'
  <2>1. Used # 0 => intr' \/ lock' = Intr
    BY <1>a DEF IntrStart, UsedQueue
  <2> QED
    BY <1>a, <2>1, RingsStay
<1>6. Counts'
  <2>1. UNCHANGED <<free, working>>
    BY DEF IntrStart, driver, device
  <2> QED
    BY <1>a, <2>1 DEF Counts, Queued, Used, Dist
<1>7. NobodyStarves'
  BY Numbers DEF IndInv, IntrStart, driver, device, Types, NobodyStarves
<1> QED
  BY <1>1, <1>2, <1>3, <1>4, <1>5, <1>6, <1>7 DEF IndInv

LEMMA IntrEntryInv ==
  ASSUME IndInv, IntrEntry
  PROVE  IndInv'
<1>a. Types /\ Requests /\ Phases /\ DeviceQueue /\ UsedQueue /\ Counts
  BY DEF IndInv
<1>r. /\ idx \in 0..(Wrap - 1) /\ takenIdx \in 0..(Wrap - 1)
      /\ usedIdx \in 0..(Wrap - 1) /\ seenIdx \in 0..(Wrap - 1)
  BY <1>a DEF Types
<1>s. /\ Queued \in 0..(NUM - 2) /\ Used \in 0..(NUM - 2) /\ NUM \in Nat
      /\ Dist(usedIdx, takenIdx) \in 0..(NUM - 2) /\ Wrap \in Nat /\ NUM <= Wrap
  BY <1>a, Sizes, Numbers
<1>b. Used # 0 /\ PlaceAt(seenIdx, 0) = seenIdx % NUM /\ Used \in Nat /\ seenIdx % NUM \in Descs
  <2>1. Dist(seenIdx, usedIdx) # 0
    BY <1>r, DistIs DEF IntrEntry
  <2>2. PlaceAt(seenIdx, 0) = seenIdx % NUM
    BY <1>r, Places
  <2>3. seenIdx \in Nat
    BY <1>r, Numbers
  <2> QED
    BY <1>s, <2>1, <2>2, <2>3, PlaceInRing DEF Used
<1>c. PICK h \in Descs : h = usedRing[seenIdx % NUM] /\ h = Answer(0) /\ PendingRequest(h) /\ status[h] = 0
  BY <1>a, <1>b DEF UsedQueue, Answer, PendingRequest
<1>d. PICK b \in Outstanding : /\ b \in Bufs /\ b \in Submitters /\ b = infob[h] /\ head[b] = h
                               /\ busy[b] /\ pc[b] # "notify"
  BY <1>c, PendingIs
<1>e. /\ lock = Intr
      /\ busy' = [busy EXCEPT ![b] = FALSE]
      /\ pc' = [pc EXCEPT ![b] = IF @ = "asleep" THEN "relock" ELSE @]
      /\ usedRing' = [usedRing EXCEPT ![seenIdx % NUM] = Nil]
      /\ seenIdx' = NextIdx(seenIdx)
      /\ UNCHANGED <<free, desc, infob, ring, idx, head, usedIdx, takenIdx, working,
                     block, status, lock, rw, intr, data>>
  BY <1>c, <1>d DEF IntrEntry
<1>f. Submitters' = Submitters /\ Outstanding' = Outstanding \ {b}
  <2>1. pc[b] \in {"asleep", "relock"} /\ pc'[b] = "relock"
    BY <1>a, <1>d, <1>e DEF Types, Submitters, Submitted
  <2>2. \A c \in Bufs : c # b => pc'[c] = pc[c] /\ busy'[c] = busy[c]
    BY <1>a, <1>e DEF Types
  <2>3. busy'[b] = FALSE
    BY <1>a, <1>d, <1>e DEF Types
  <2> QED
    BY <1>d, <2>1, <2>2, <2>3 DEF Submitters, Submitted, Outstanding
<1>g. /\ Used' = Used - 1 /\ Queued' = Queued
      /\ Dist(usedIdx, takenIdx)' = Dist(usedIdx, takenIdx)
  <2>1. Dist(NextIdx(seenIdx), usedIdx) = Dist(seenIdx, usedIdx) - 1
    BY <1>r, DistNext DEF IntrEntry
  <2> QED
    BY <1>e, <2>1 DEF Queued, Used, Dist
<1>h. \A k : PendingRequest(k) /\ k # h => infob[k] \in Outstanding' /\ head[infob[k]] = k
  BY <1>d, <1>f DEF PendingRequest
<1>1. Types'
  BY <1>a, <1>b, <1>d, <1>e, <1>r, NextIdxIs, Numbers DEF Types
<1>2. Requests'
  <2>1. \A c \in Bufs : pc'[c] # "idle" => rw'[c] \in {"read", "write"}
    BY <1>a, <1>e DEF Types, Requests
  <2> QED
    BY <1>a, <1>e, <1>f, <2>1, RequestsStay
<1>3. Phases'
  <2>1. \A c \in Bufs : pc'[c] = "notify" => pc[c] = "notify"
    BY <1>a, <1>e DEF Types
  <2>2. FALSE \in BOOLEAN /\ \A c \in Bufs : pc[c] # "notify"
    BY <1>a, <1>e, NameAssumption DEF Phases
  <2>3. \A c \in Bufs : pc'[c] = "asleep" => pc[c] = "asleep" /\ c # b
    BY <1>a, <1>d, <1>e DEF Types
  <2>4. \A c \in Bufs : busy'[c] => busy[c]
    BY <1>a, <1>e DEF Types
  <2>5. \A c \in Bufs : c # b => busy'[c] = busy[c]
    BY <1>a, <1>e DEF Types
  <2>6. \A c \in Submitters' : ~busy'[c] => status'[head'[c]] = 0
    BY <1>a, <1>c, <1>d, <1>e, <1>f, <2>5 DEF Phases, Submitters
  <2> QED
    BY <1>a, <1>e, <1>f, <2>1, <2>2, <2>3, <2>4, <2>5, <2>6, NameAssumption DEF Phases
<1>4. DeviceQueue'
  <2>1. \A j : Waiting(j)' = Waiting(j)
    BY <1>e DEF Waiting, PlaceAt
  <2>2. \A k : status[k] = 255 => k # h
    BY <1>c
  <2> QED
    BY <1>a, <1>e, <1>g, <1>h, <2>1, <2>2 DEF DeviceQueue, PendingRequest
<1>5. UsedQueue'
  <2>1. ASSUME NEW j \in 0..(Used' - 1)
        PROVE  j + 1 \in 0..(Used - 1) /\ Answer(j)' = Answer(j + 1) /\ Answer(j + 1) # h
    <3>1. /\ j + 1 \in 0..(Used - 1) /\ j + 1 # 0 /\ 0 \in 0..(Used - 1) /\ j \in Nat
          /\ 0 \in 0..(NUM - 1) /\ j + 1 \in 0..(NUM - 1) /\ j + 1 \in Nat
      BY <1>b, <1>g, <1>s
    <3>2. /\ PlaceAt(seenIdx, j + 1) # PlaceAt(seenIdx, 0)
          /\ PlaceAt(seenIdx, j + 1) \in Descs
          /\ PlaceAt(NextIdx(seenIdx), j) = PlaceAt(seenIdx, j + 1)
      BY <1>r, <3>1, Places
    <3>3. usedRing'[PlaceAt(seenIdx, j + 1)] = usedRing[PlaceAt(seenIdx, j + 1)]
      BY <1>a, <1>b, <1>e, <3>2 DEF Types
    <3>4. PlaceAt(seenIdx, j)' = PlaceAt(NextIdx(seenIdx), j)
      BY <1>e DEF PlaceAt
    <3>5. Answer(j)' = usedRing'[PlaceAt(seenIdx, j)']
      BY DEF Answer
    <3>6. Answer(j)' = Answer(j + 1)
      BY <3>2, <3>3, <3>4, <3>5 DEF Answer
    <3>7. Answer(j + 1) # Answer(0)
      BY <1>a, <3>1 DEF UsedQueue
    <3> QED
      BY <1>c, <3>1, <3>6, <3>7
  <2>2. ASSUME NEW j \in 0..(Used' - 1) PROVE PendingRequest(Answer(j))' /\ status'[Answer(j)'] = 0
    <3>1. PendingRequest(Answer(j + 1)) /\ status[Answer(j + 1)] = 0
      BY <1>a, <2>1 DEF UsedQueue
    <3> QED
      BY <1>e, <1>h, <2>1, <3>1 DEF PendingRequest
  <2>3. ASSUME NEW i \in 0..(Used' - 1), NEW j \in 0..(Used' - 1), i # j
        PROVE  Answer(i)' # Answer(j)'
    <3>1. i + 1 # j + 1 /\ i + 1 \in 0..(Used - 1) /\ j + 1 \in 0..(Used - 1)
      BY <2>1, <2>3, <1>g, <1>s
    <3>2. Answer(i + 1) # Answer(j + 1)
      BY <1>a, <3>1 DEF UsedQueue
    <3> QED
      BY <2>1, <3>2
  <2>4. ASSUME NEW c \in Outstanding', status'[head'[c]] = 0
        PROVE  \E j \in 0..(Used' - 1) : Answer(j)' = head'[c]
    <3>1. c \in Outstanding /\ c # b /\ head'[c] = head[c] /\ status[head[c]] = 0
      BY <1>e, <1>f, <2>4
    <3>2. head[c] # h
      <4>1. c \in Submitters
        BY <1>a, <3>1, Sizes
      <4> QED
        BY <1>d, <3>1, <4>1, HeadsDiffer
    <3>3. PICK k \in 0..(Used - 1) : Answer(k) = head[c]
      BY <1>a, <3>1 DEF UsedQueue
    <3>4. k # 0
      BY <1>c, <3>2, <3>3
    <3>5. PICK j \in 0..(Used' - 1) : k = j + 1
      BY <1>g, <1>s, <3>3, <3>4
    <3>6. Answer(j)' = Answer(j + 1)
      BY <2>1
    <3> QED
      BY <3>1, <3>3, <3>5, <3>6
  <2>5. Used' # 0 => intr' \/ lock' = Intr
    BY <1>e
  <2> QED
    BY <2>2, <2>3, <2>4, <2>5 DEF UsedQueue
<1>6. Counts'
  <2>1. Cardinality(Outstanding') = Cardinality(Outstanding) - 1
    <3>1. IsFiniteSet(Outstanding)
      BY Finite DEF Outstanding
    <3> QED
      BY <1>d, <1>f, <3>1, OneMore
  <2>2. Cardinality(working) \in Nat /\ Cardinality(Outstanding) \in Nat
    BY <1>a, Finite DEF Types, Outstanding
  <2> QED
    BY <1>a, <1>e, <1>f, <1>g, <1>s, <2>1, <2>2 DEF Counts
<1>7. NobodyStarves'
  BY Numbers DEF IndInv, IntrEntry, driver, device, Types, NobodyStarves
<1> QED
  BY <1>1, <1>2, <1>3, <1>4, <1>5, <1>6, <1>7 DEF IndInv

LEMMA IntrEndInv ==
  ASSUME IndInv, IntrEnd
  PROVE  IndInv'
<1>a. /\ Types /\ Requests /\ Phases /\ DeviceQueue /\ UsedQueue /\ Counts
      /\ Submitters' = Submitters /\ Outstanding' = Outstanding
      /\ UNCHANGED <<infob, head, status, ring, idx, takenIdx, working, usedRing,
                     usedIdx, seenIdx>>
  BY DEF IndInv, IntrEnd, RingEmpty, driver, device, Types, Submitters, Submitted,
     Outstanding
<1>1. Types'
  BY Numbers DEF IndInv, IntrEnd, RingEmpty, driver, device, Types
<1>2. Requests'
  <2>1. UNCHANGED <<free, desc, infob, head>>
    BY DEF IntrEnd, driver
  <2>2. \A c \in Submitters : rw'[c] = rw[c]
    BY <1>a DEF IntrEnd, Types, Submitters, Submitted
  <2>3. \A c \in Bufs : pc'[c] # "idle" => rw'[c] \in {"read", "write"}
    BY <1>a DEF IntrEnd, Types, Requests
  <2> QED
    BY <1>a, <2>1, <2>2, <2>3, RequestsStay
<1>3. Phases'
  BY Numbers, NameAssumption DEF IndInv, IntrEnd, RingEmpty, driver, device, Types,
     Requests, Phases, Submitters, Submitted
<1>4. DeviceQueue'
  BY <1>a, RingsStay
<1>5. UsedQueue'
  <2>1. Used = 0
    BY <1>a, DistIs DEF Types, IntrEnd, RingEmpty, Used
  <2> QED
    BY <1>a, <2>1, RingsStay
<1>6. Counts'
  <2>1. UNCHANGED <<free, working>>
    BY DEF IntrEnd, driver, device
  <2> QED
    BY <1>a, <2>1 DEF Counts, Queued, Used, Dist
<1>7. NobodyStarves'
  BY Numbers DEF IndInv, IntrEnd, RingEmpty, driver, device, Types, NobodyStarves
<1> QED
  BY <1>1, <1>2, <1>3, <1>4, <1>5, <1>6, <1>7 DEF IndInv

LEMMA TakeInv ==
  ASSUME IndInv, Take
  PROVE  IndInv'
<1>a. Types /\ Requests /\ Phases /\ DeviceQueue /\ UsedQueue /\ Counts
  BY DEF IndInv
<1>r. /\ idx \in 0..(Wrap - 1) /\ takenIdx \in 0..(Wrap - 1)
      /\ usedIdx \in 0..(Wrap - 1) /\ seenIdx \in 0..(Wrap - 1)
  BY <1>a DEF Types
<1>s. /\ Queued \in 0..(NUM - 2) /\ Used \in 0..(NUM - 2) /\ NUM \in Nat
      /\ Dist(usedIdx, takenIdx) \in 0..(NUM - 2) /\ Wrap \in Nat /\ NUM <= Wrap
  BY <1>a, Sizes, Numbers
<1>b. Queued # 0 /\ PlaceAt(takenIdx, 0) = takenIdx % NUM /\ Queued \in Nat /\ takenIdx % NUM \in Descs
  <2>1. Dist(takenIdx, idx) # 0
    BY <1>r, DistIs DEF Take
  <2>2. PlaceAt(takenIdx, 0) = takenIdx % NUM
    BY <1>r, Places
  <2>3. takenIdx \in Nat
    BY <1>r, Numbers
  <2> QED
    BY <1>s, <2>1, <2>2, <2>3, PlaceInRing DEF Queued
<1>c. PICK h \in Descs : /\ h = ring[takenIdx % NUM] /\ h = Waiting(0) /\ PendingRequest(h)
                         /\ status[h] = 255 /\ h \notin working
  BY <1>a, <1>b DEF DeviceQueue, Waiting, PendingRequest
<1>d. /\ working' = working \cup {h}
      /\ ring' = [ring EXCEPT ![takenIdx % NUM] = Nil]
      /\ takenIdx' = NextIdx(takenIdx)
      /\ UNCHANGED <<free, desc, infob, busy, idx, seenIdx, head, usedRing, usedIdx,
                     block, status, lock, pc, rw, intr, data>>
  BY <1>c DEF Take
<1>e. Submitters' = Submitters /\ Outstanding' = Outstanding
  BY <1>d DEF Submitters, Submitted, Outstanding
<1>f. /\ Used' = Used /\ Queued' = Queued - 1
      /\ Dist(usedIdx, takenIdx)' = Dist(usedIdx, takenIdx) + 1
  <2>1. Dist(NextIdx(takenIdx), idx) = Dist(takenIdx, idx) - 1
    BY <1>r, DistNext DEF Take
  <2>2. Dist(usedIdx, NextIdx(takenIdx)) = Dist(usedIdx, takenIdx) + 1
    BY <1>r, <1>s, DistNext
  <2> QED
    BY <1>d, <2>1, <2>2 DEF Queued, Used, Dist
<1>g. \A k : PendingRequest(k)' <=> PendingRequest(k)
  BY <1>d, <1>e DEF PendingRequest
<1>h. ASSUME NEW j \in 1..Queued PROVE ring'[PlaceAt(takenIdx, j)] = ring[PlaceAt(takenIdx, j)]
  <2>1. j \in 0..(NUM - 1) /\ 0 \in 0..(NUM - 1) /\ j # 0 /\ j \in Nat
    BY <1>s
  <2>2. PlaceAt(takenIdx, j) # PlaceAt(takenIdx, 0) /\ PlaceAt(takenIdx, j) \in Descs
    BY <1>r, <2>1, Places
  <2> QED
    BY <1>a, <1>b, <1>d, <2>2 DEF Types
<1>1. Types'
  <2>1. takenIdx' \in 0..(Wrap - 1)
    BY <1>d, <1>r, NextIdxIs
  <2>2. working' \subseteq Descs
    BY <1>a, <1>d DEF Types
  <2>3. ring' \in [Descs -> 0..NUM]
    BY <1>a, <1>d, Numbers DEF Types
  <2> QED
    BY <1>a, <1>d, <2>1, <2>2, <2>3 DEF Types
<1>2. Requests'
  <2>1. \A c \in Bufs : pc'[c] # "idle" => rw'[c] \in {"read", "write"}
    BY <1>a, <1>d DEF Types, Requests
  <2> QED
    BY <1>a, <1>d, <1>e, <2>1, RequestsStay
<1>3. Phases'
  <2>1. ring'[idx % NUM] = ring[idx % NUM]
    <3>1. PlaceAt(takenIdx, Queued) = idx % NUM
      BY <1>r, PlaceOf DEF Queued
    <3>2. Queued \in 1..Queued
      BY <1>b
    <3> QED
      BY <1>h, <3>1, <3>2
  <2> QED
    BY <1>a, <1>d, <1>e, <2>1 DEF Phases
<1>4. DeviceQueue'
  <2>1. ASSUME NEW j \in 0..(Queued' - 1)
        PROVE  j + 1 \in 0..(Queued - 1) /\ Waiting(j)' = Waiting(j + 1) /\ Waiting(j + 1) # h
    <3>1. /\ j + 1 \in 0..(Queued - 1) /\ j + 1 # 0 /\ 0 \in 0..(Queued - 1) /\ j \in Nat
          /\ j + 1 \in 1..Queued
      BY <1>b, <1>f, <1>s
    <3>2. PlaceAt(NextIdx(takenIdx), j) = PlaceAt(takenIdx, j + 1)
      BY <1>r, <3>1, Places
    <3>3. ring'[PlaceAt(takenIdx, j + 1)] = ring[PlaceAt(takenIdx, j + 1)]
      BY <1>h, <3>1
    <3>4. PlaceAt(takenIdx, j)' = PlaceAt(NextIdx(takenIdx), j)
      BY <1>d DEF PlaceAt
    <3>5. Waiting(j)' = ring'[PlaceAt(takenIdx, j)']
      BY DEF Waiting
    <3>6. Waiting(j)' = Waiting(j + 1)
      BY <3>2, <3>3, <3>4, <3>5 DEF Waiting
    <3>7. Waiting(j + 1) # Waiting(0)
      BY <1>a, <3>1 DEF DeviceQueue
    <3> QED
      BY <1>c, <3>1, <3>6, <3>7
  <2>2. ASSUME NEW j \in 0..(Queued' - 1)
        PROVE  /\ PendingRequest(Waiting(j))' /\ status'[Waiting(j)'] = 255
               /\ Waiting(j)' \notin working'
    <3>1. /\ PendingRequest(Waiting(j + 1)) /\ status[Waiting(j + 1)] = 255
          /\ Waiting(j + 1) \notin working
      BY <1>a, <2>1 DEF DeviceQueue
    <3> QED
      BY <1>d, <1>e, <2>1, <3>1 DEF PendingRequest
  <2>3. ASSUME NEW i \in 0..(Queued' - 1), NEW j \in 0..(Queued' - 1), i # j
        PROVE  Waiting(i)' # Waiting(j)'
    <3>1. i + 1 # j + 1 /\ i + 1 \in 0..(Queued - 1) /\ j + 1 \in 0..(Queued - 1)
      BY <2>1, <2>3, <1>f, <1>s
    <3>2. Waiting(i + 1) # Waiting(j + 1)
      BY <1>a, <3>1 DEF DeviceQueue
    <3> QED
      BY <2>1, <3>2
  <2>4. \A k \in working' : PendingRequest(k)' /\ status'[k] = 255
    BY <1>a, <1>c, <1>d, <1>g DEF DeviceQueue
  <2> QED
    BY <2>2, <2>3, <2>4 DEF DeviceQueue
<1>5. UsedQueue'
  <2>1. \A j : Answer(j)' = Answer(j)
    BY <1>d DEF Answer, PlaceAt
  <2> QED
    BY <1>a, <1>d, <1>e, <1>f, <2>1 DEF UsedQueue, PendingRequest
<1>6. Counts'
  <2>1. Cardinality(working') = Cardinality(working) + 1
    BY <1>a, <1>c, <1>d, Finite, OneMore DEF Types
  <2>2. Cardinality(working) \in Nat /\ Cardinality(Outstanding) \in Nat
    BY <1>a, Finite DEF Types, Outstanding
  <2> QED
    BY <1>a, <1>d, <1>e, <1>f, <1>s, <2>1, <2>2 DEF Counts
<1>7. NobodyStarves'
  BY Numbers DEF IndInv, Take, driver, device, Types, NobodyStarves
<1> QED
  BY <1>1, <1>2, <1>3, <1>4, <1>5, <1>6, <1>7 DEF IndInv

LEMMA CompleteInv ==
  ASSUME IndInv, NEW h \in Descs, h \in working, Complete(h)
  PROVE  /\ IndInv'
         /\ \E b \in Bufs :
              /\ Submitted(b) /\ status[head[b]] = 255
              /\ IF rw[b] = "read"
                 THEN data' = [data EXCEPT ![b] = block[b]] /\ block' = block
                 ELSE block' = [block EXCEPT ![b] = data[b]] /\ data' = data
              /\ \A c \in Bufs : Submitted(c) =>
                   status'[head[c]] = IF c = b THEN 0 ELSE status[head[c]]
<1>a. Types /\ Requests /\ Phases /\ DeviceQueue /\ UsedQueue /\ Counts
  BY DEF IndInv
<1>r. /\ idx \in 0..(Wrap - 1) /\ takenIdx \in 0..(Wrap - 1)
      /\ usedIdx \in 0..(Wrap - 1) /\ seenIdx \in 0..(Wrap - 1)
  BY <1>a DEF Types
<1>s. /\ Queued \in 0..(NUM - 2) /\ Used \in 0..(NUM - 2) /\ NUM \in Nat
      /\ Dist(usedIdx, takenIdx) \in 0..(NUM - 2) /\ Wrap \in Nat /\ NUM <= Wrap
  BY <1>a, Sizes, Numbers
<1>b. /\ PendingRequest(h) /\ status[h] = 255 /\ h \in Descs
      /\ PlaceAt(seenIdx, Used) = usedIdx % NUM /\ usedIdx % NUM \in Descs
  <2>1. PendingRequest(h) /\ status[h] = 255
    BY <1>a DEF DeviceQueue
  <2>2. PlaceAt(seenIdx, Used) = usedIdx % NUM
    BY <1>r, PlaceOf DEF Used
  <2>3. usedIdx \in Nat
    BY <1>r, Numbers
  <2> QED
    BY <2>1, <2>2, <2>3, PlaceInRing
<1>c. PICK b \in Outstanding : /\ b \in Bufs /\ b \in Submitters /\ b = infob[h] /\ head[b] = h
                               /\ Linked(b) /\ busy[b] /\ pc[b] # "notify"
  BY <1>b, PendingIs
<1>d. /\ desc[h].addr = <<rw[b], b>> /\ desc[desc[h].next].addr = b
      /\ desc[desc[desc[h].next].next].addr = h
  BY <1>c DEF Linked
<1>e. /\ working' = working \ {h}
      /\ IF rw[b] = "read" THEN data' = [data EXCEPT ![b] = block[b]] /\ block' = block
                           ELSE block' = [block EXCEPT ![b] = data[b]] /\ data' = data
      /\ status' = [status EXCEPT ![h] = 0]
      /\ usedRing' = [usedRing EXCEPT ![usedIdx % NUM] = h]
      /\ usedIdx' = NextIdx(usedIdx)
      /\ intr' = TRUE
      /\ UNCHANGED <<free, desc, infob, busy, ring, idx, seenIdx, head, takenIdx,
                     lock, pc, rw>>
  BY <1>d DEF Complete, driver
<1>f. Submitters' = Submitters /\ Outstanding' = Outstanding
  BY <1>e DEF Submitters, Submitted, Outstanding
<1>g. /\ Used' = Used + 1 /\ Queued' = Queued
      /\ Dist(usedIdx, takenIdx)' = Dist(usedIdx, takenIdx) - 1
  <2>1. Dist(usedIdx, takenIdx) # 0
    <3>1. IsFiniteSet(working) /\ working # {}
      BY <1>a, Finite DEF Types
    <3> QED
      BY <1>a, <3>1, FS_EmptySet DEF Counts
  <2>2. usedIdx # takenIdx
    BY <1>r, <2>1, DistIs
  <2>3. Dist(NextIdx(usedIdx), takenIdx) = Dist(usedIdx, takenIdx) - 1
    BY <1>r, <2>2, DistNext
  <2>4. Dist(seenIdx, NextIdx(usedIdx)) = Dist(seenIdx, usedIdx) + 1
    BY <1>r, <1>s, DistNext DEF Used
  <2> QED
    BY <1>e, <2>3, <2>4 DEF Queued, Used, Dist
<1>h. /\ \A k : PendingRequest(k) => k \in Descs /\ infob[k] \in Outstanding /\ head[infob[k]] = k
      /\ \A k \in Descs : k # h => status'[k] = status[k]
      /\ status'[h] = 0
  BY <1>a, <1>b, <1>e DEF Types, PendingRequest
<1>1. Types'
  <2>1. block' \in [Bufs -> Data] /\ data' \in [Bufs -> Data]
    BY <1>a, <1>c, <1>e DEF Types
  <2>2. usedRing' \in [Descs -> 0..NUM] /\ status' \in [Descs -> {0, 255}]
    BY <1>a, <1>b, <1>e, Numbers DEF Types
  <2> QED
    BY <1>a, <1>e, <1>r, <2>1, <2>2, NextIdxIs DEF Types
<1>2. Requests'
  <2>1. \A c \in Bufs : pc'[c] # "idle" => rw'[c] \in {"read", "write"}
    BY <1>a, <1>e DEF Types, Requests
  <2> QED
    BY <1>a, <1>e, <1>f, <2>1, RequestsStay
<1>3. Phases'
  <2>1. \A c \in Submitters : c # b => status'[head[c]] = status[head[c]]
    BY <1>c, <1>h, HeadsDiffer
  <2>2. \A c \in Bufs : pc[c] = "notify" => c \in Submitters /\ c # b
    BY <1>c DEF Submitters, Submitted
  <2>3. ASSUME NEW c \in Submitters', ~busy'[c] PROVE status'[head'[c]] = 0
    BY <1>a, <1>c, <1>e, <1>f, <2>1, <2>3 DEF Phases
  <2>4. ASSUME NEW c \in Bufs, pc'[c] = "notify"
        PROVE  lock' = c /\ status'[head'[c]] = 255 /\ ring'[idx' % NUM] = head'[c]
    BY <1>a, <1>e, <2>1, <2>2, <2>4 DEF Phases
  <2> QED
    BY <1>a, <1>e, <1>f, <2>3, <2>4 DEF Phases
<1>4. DeviceQueue'
  <2>1. \A j : Waiting(j)' = Waiting(j)
    BY <1>e DEF Waiting, PlaceAt
  <2>2. ASSUME NEW j \in 0..(Queued' - 1)
        PROVE  /\ PendingRequest(Waiting(j))' /\ status'[Waiting(j)'] = 255
               /\ Waiting(j)' \notin working'
    <3>1. /\ PendingRequest(Waiting(j)) /\ status[Waiting(j)] = 255 /\ Waiting(j) \notin working
      BY <1>a, <1>g, <2>2 DEF DeviceQueue
    <3>2. Waiting(j) # h
      BY <3>1
    <3> QED
      BY <1>e, <1>f, <1>h, <2>1, <3>1, <3>2 DEF PendingRequest
  <2>3. \A i, j \in 0..(Queued' - 1) : i # j => Waiting(i)' # Waiting(j)'
    BY <1>a, <1>g, <2>1 DEF DeviceQueue
  <2>4. \A k \in working' : PendingRequest(k)' /\ status'[k] = 255
    BY <1>a, <1>e, <1>f, <1>h DEF DeviceQueue, PendingRequest
  <2> QED
    BY <2>2, <2>3, <2>4 DEF DeviceQueue
<1>5. UsedQueue'
  <2>1. ASSUME NEW j \in 0..(Used - 1)
        PROVE  /\ Answer(j)' = Answer(j) /\ PendingRequest(Answer(j)) /\ status[Answer(j)] = 0
               /\ Answer(j) # h
    <3>1. /\ j \in 0..(NUM - 1) /\ Used \in 0..(NUM - 1) /\ j # Used /\ j \in Nat
      BY <1>s
    <3>2. PlaceAt(seenIdx, j) # PlaceAt(seenIdx, Used) /\ PlaceAt(seenIdx, j) \in Descs
      BY <1>r, <3>1, Places
    <3>3. usedRing'[PlaceAt(seenIdx, j)] = usedRing[PlaceAt(seenIdx, j)]
      BY <1>a, <1>b, <1>e, <3>2 DEF Types
    <3>4. Answer(j)' = Answer(j)
      BY <1>e, <3>3 DEF Answer, PlaceAt
    <3>5. PendingRequest(Answer(j)) /\ status[Answer(j)] = 0
      BY <1>a DEF UsedQueue
    <3> QED
      BY <1>b, <3>4, <3>5
  <2>2. PICK n \in Nat : n = Used
    BY <1>s
  <2>3. Answer(n)' = h
    <3>1. usedRing'[PlaceAt(seenIdx, n)] = h
      BY <1>a, <1>b, <1>e, <2>2 DEF Types
    <3> QED
      BY <1>e, <3>1 DEF Answer, PlaceAt
  <2>4. \A j \in 0..(Used' - 1) : j \in 0..(Used - 1) \/ j = n
    BY <1>g, <1>s, <2>2
  <2>5. n \in 0..(Used' - 1) /\ \A j \in 0..(Used - 1) : j \in 0..(Used' - 1)
    BY <1>g, <1>s, <2>2
  <2>6. ASSUME NEW j \in 0..(Used' - 1) PROVE PendingRequest(Answer(j))' /\ status'[Answer(j)'] = 0
    <3>1. CASE j \in 0..(Used - 1)
      BY <1>e, <1>f, <1>h, <2>1, <3>1 DEF PendingRequest
    <3>2. CASE j = n
      BY <1>b, <1>e, <1>f, <1>h, <2>3, <3>2 DEF PendingRequest
    <3> QED
      BY <2>4, <3>1, <3>2
  <2>7. ASSUME NEW i \in 0..(Used' - 1), NEW j \in 0..(Used' - 1), i # j
        PROVE  Answer(i)' # Answer(j)'
    <3>1. \A k, l \in 0..(Used - 1) : k # l => Answer(k) # Answer(l)
      BY <1>a DEF UsedQueue
    <3> QED
      BY <2>1, <2>3, <2>4, <2>7, <3>1
  <2>8. ASSUME NEW c \in Outstanding', status'[head'[c]] = 0
        PROVE  \E j \in 0..(Used' - 1) : Answer(j)' = head'[c]
    <3>1. CASE c = b
      BY <1>c, <1>e, <2>3, <2>5, <3>1
    <3>2. CASE c # b
      <4>1. c \in Submitters /\ c \in Outstanding /\ head'[c] = head[c]
        BY <1>a, <1>e, <1>f, Sizes
      <4>2. head[c] \in Descs /\ head[c] # h
        BY <1>c, <3>2, <4>1, HeadsDiffer
      <4>3. status[head[c]] = 0
        BY <1>h, <2>8, <4>1, <4>2
      <4>4. PICK j \in 0..(Used - 1) : Answer(j) = head[c]
        BY <1>a, <4>1, <4>3 DEF UsedQueue
      <4> QED
        BY <2>1, <2>5, <4>1, <4>4
    <3> QED
      BY <3>1, <3>2
  <2>9. Used' # 0 => intr' \/ lock' = Intr
    BY <1>e
  <2> QED
    BY <2>6, <2>7, <2>8, <2>9 DEF UsedQueue
<1>6. Counts'
  <2>1. Cardinality(working') = Cardinality(working) - 1
    BY <1>a, <1>e, Finite, OneMore DEF Types
  <2>2. Cardinality(working) \in Nat /\ Cardinality(Outstanding) \in Nat
    BY <1>a, Finite DEF Types, Outstanding
  <2> QED
    BY <1>a, <1>e, <1>f, <1>g, <1>s, <2>1, <2>2 DEF Counts
<1>7. NobodyStarves'
  BY Numbers DEF IndInv, Complete, driver, device, Types, NobodyStarves
<1>8. \A c \in Bufs : Submitted(c) =>
        status'[head[c]] = IF c = b THEN 0 ELSE status[head[c]]
  <2>1. \A c \in Bufs : Submitted(c) => c \in Submitters
    BY DEF Submitters
  <2> QED
    BY <1>c, <1>h, <2>1, HeadsDiffer
<1>9. Submitted(b) /\ status[head[b]] = 255
  BY <1>b, <1>c DEF Submitters
<1> QED
  BY <1>1, <1>2, <1>3, <1>4, <1>5, <1>6, <1>7, <1>8, <1>9, <1>c, <1>e DEF IndInv

LEMMA NextInv == IndInv /\ [Next]_vars => IndInv'
<1> SUFFICES ASSUME IndInv, [Next]_vars PROVE IndInv'
  OBVIOUS
<1>1. ASSUME NEW b \in Bufs, NEW kind \in {"read", "write"}, NEW v \in Data, Call(b, kind, v)
      PROVE  IndInv'
  BY <1>1, CallInv
<1>2. ASSUME NEW b \in Bufs, AllocFails(b) \/ Format(b) \/ Notify(b) PROVE IndInv'
  BY <1>2, AllocFailsInv, FormatInv, NotifyInv
<1>3. ASSUME NEW b \in Bufs, Wake(b) \/ Kill(b) PROVE IndInv'
  BY <1>3, SleepAgainInv, FinishInv, KillInv DEF Wake
<1>4. CASE IntrStart \/ Handler
  BY <1>4, IntrStartInv, IntrEntryInv, IntrEndInv DEF Handler
<1>5. CASE Device
  <2>1. CASE Take
    BY <2>1, TakeInv
  <2>2. ASSUME NEW h \in working, Complete(h) PROVE IndInv'
    <3>1. h \in Descs
      BY DEF IndInv, Types
    <3> QED
      BY <2>2, <3>1, CompleteInv
  <2> QED
    BY <1>5, <2>1, <2>2 DEF Device
<1>6. CASE UNCHANGED vars
  <2>1. UNCHANGED <<free, desc, infob, busy, ring, idx, seenIdx, head, usedRing, usedIdx,
                    takenIdx, working, block, status, lock, pc, rw, intr, data>>
    BY <1>6 DEF vars, driver, device
  <2>2. Types' /\ NobodyStarves'
    BY <2>1 DEF IndInv, Types, NobodyStarves
  <2>3. /\ Submitters' = Submitters /\ Outstanding' = Outstanding
        /\ Queued' = Queued /\ Used' = Used
        /\ Dist(usedIdx, takenIdx)' = Dist(usedIdx, takenIdx)
    BY <2>1 DEF Submitters, Submitted, Outstanding, Queued, Used, Dist
  <2>4. Requests'
    BY <2>1, <2>3, RequestsStay DEF IndInv, Requests
  <2>5. Phases' /\ Counts'
    BY <2>1, <2>3 DEF IndInv, Phases, Counts
  <2>6. DeviceQueue' /\ UsedQueue'
    BY <2>1, <2>3, RingsStay DEF IndInv, UsedQueue
  <2> QED
    BY <2>2, <2>4, <2>5, <2>6 DEF IndInv
<1> QED
  BY <1>1, <1>2, <1>3, <1>4, <1>5, <1>6 DEF Next

\* The driver and the device agree on every request at every moment: each one is
\* in just one of the two rings or in the device's hands.
THEOREM Invariance == Spec => []IndInv
  BY InitInv, NextInv, PTL DEF Spec

-----------------------------------------------------------------------------
(* What follows from it                                                    *)

LEMMA Sound == IndInv => DriverSound
<1> SUFFICES ASSUME IndInv PROVE DriverSound
  OBVIOUS
<1>1. Types /\ Requests /\ Phases /\ DeviceQueue /\ UsedQueue /\ Counts /\ NobodyStarves
  BY DEF IndInv
<1>2. TypeOK
  BY <1>1, HandlerBehind
<1>3. ASSUME NEW b \in Submitters
      PROVE  Cardinality(Chain(head[b])) = 3 /\ Chain(head[b]) \subseteq Descs \ free
  <2>1. PICK i \in Descs, j \in Descs, k \in Descs :
          i # j /\ i # k /\ j # k /\ Chain(head[b]) = {i, j, k}
    BY <1>1 DEF Requests, Linked, Chain
  <2>2. IsFiniteSet({i}) /\ Cardinality({i}) = 1
    BY FS_Singleton
  <2>3. IsFiniteSet({i} \cup {j}) /\ Cardinality({i} \cup {j}) = 2
    BY <2>1, <2>2, FS_AddElement
  <2>4. k \notin {i} \cup {j}
    BY <2>1
  <2>5. Cardinality(({i} \cup {j}) \cup {k}) = 3
    <3>1. Cardinality(({i} \cup {j}) \cup {k}) = Cardinality({i} \cup {j}) + 1
      BY <2>3, <2>4, FS_AddElement
    <3> QED
      BY <2>3, <3>1
  <2>6. Chain(head[b]) = ({i} \cup {j}) \cup {k}
    BY <2>1
  <2>7. Chain(head[b]) \cap free = {}
    BY <1>1 DEF Requests
  <2> QED
    BY <2>1, <2>5, <2>6, <2>7
<1>4. DescriptorsOwned
  <2>1. Submitters = {b \in Bufs : Submitted(b)}
    BY DEF Submitters
  <2>2. \A b, c \in Submitters : b # c => Chain(head[b]) \cap Chain(head[c]) = {}
    BY <1>1 DEF Requests
  <2>3. Descs \ free = UNION {Chain(head[b]) : b \in Submitters}
    BY <1>1, <1>3 DEF Requests
  <2> QED
    BY <1>2, <1>3, <2>1, <2>2, <2>3 DEF DescriptorsOwned
<1>5. CompletionNoticed
  <2>1. ASSUME NEW b \in Bufs, pc[b] = "asleep", status[head[b]] = 0 PROVE intr \/ lock = Intr
    <3>1. b \in Outstanding
      BY <1>1, <2>1 DEF Phases, Outstanding
    <3>2. \E j \in 0..(Used - 1) : Answer(j) = head[b]
      BY <1>1, <2>1, <3>1 DEF UsedQueue
    <3>3. Used # 0
      BY <3>2
    <3> QED
      BY <1>1, <3>3 DEF UsedQueue
  <2> QED
    BY <1>1, <2>1 DEF CompletionNoticed, NobodyStarves
<1> QED
  BY <1>4, <1>5 DEF DriverSound

\* However the processes, the handler and the device interleave, and wherever
\* the counters wrap: no descriptor is lost or given to two requests, the rings
\* never overflow, and whoever sleeps for what has happened will be woken.
THEOREM DriverIsSound == Spec => []DriverSound
  BY Invariance, Sound, PTL

-----------------------------------------------------------------------------
(* Requests move the right block                                           *)

\* The stage of a request is that of its status byte.
LEMMA StageIs ==
  ASSUME NEW b \in Bufs
  PROVE  Stage[b] = IF pc[b] = "idle" THEN "none"
                    ELSE IF Submitted(b) /\ status[head[b]] = 0 THEN "done" ELSE rw[b]
  BY DEF Stage

LEMMA InitMaps == Init => Promise!Init
<1> SUFFICES ASSUME Init PROVE Promise!Init
  OBVIOUS
<1>1. Stage = [b \in Bufs |-> "none"]
  BY DEF Init, Stage
<1> QED
  BY <1>1 DEF Init, Promise!Init

\* Steps that the caller cannot see.
LEMMA Stutters ==
  ASSUME IndInv, [Next]_vars,
         UNCHANGED <<block, data>>, \A b \in Bufs : Stage'[b] = Stage[b]
  PROVE  UNCHANGED Promise!vars
<1>1. Stage' = Stage
  BY DEF Stage
<1> QED
  BY <1>1 DEF Promise!vars

LEMMA StepMaps == IndInv /\ [Next]_vars => [Promise!Next]_(Promise!vars)
<1> SUFFICES ASSUME IndInv, [Next]_vars PROVE Promise!Next \/ UNCHANGED Promise!vars
  OBVIOUS
<1>0. Types /\ Requests /\ Phases
  BY DEF IndInv
<1>s. \A b \in Bufs : Stage'[b] = IF pc'[b] = "idle" THEN "none"
                      ELSE IF Submitted(b)' /\ status'[head'[b]] = 0 THEN "done" ELSE rw'[b]
  BY DEF Stage
<1>d. /\ Stage = [b \in Bufs |-> Stage[b]]
      /\ Stage' = [b \in Bufs |-> Stage'[b]]
  BY DEF Stage
<1>1. ASSUME NEW b \in Bufs, NEW kind \in {"read", "write"}, NEW v \in Data, Call(b, kind, v)
      PROVE  Promise!Next
  <2>1. Stage[b] = "none" /\ Stage'[b] = kind
    BY <1>0, <1>1, <1>s, StageIs DEF Types, Call, Submitted
  <2>2. \A c \in Bufs : c # b => Stage'[c] = Stage[c]
    BY <1>0, <1>1, <1>s, StageIs DEF Types, Call, Submitted, driver
  <2>3. Stage' = [Stage EXCEPT ![b] = kind]
    BY <1>d, <2>1, <2>2
  <2>4. Promise!Call(b, kind, v)
    BY <1>1, <2>1, <2>3 DEF Call, device, Promise!Call
  <2> QED
    BY <2>4 DEF Promise!Next
<1>2. ASSUME NEW b \in Bufs, AllocFails(b) PROVE UNCHANGED Promise!vars
  <2>1. \A c \in Bufs : Stage'[c] = Stage[c]
    BY <1>0, <1>2, <1>s, StageIs DEF Types, AllocFails, WakeFree, Submitted
  <2> QED
    BY <1>2, <2>1, Stutters DEF AllocFails, device
<1>3. ASSUME NEW b \in Bufs, Format(b) PROVE UNCHANGED Promise!vars
  <2>1. /\ \A c \in Bufs : Submitted(c)' => status'[head'[c]] =
                             IF c = b THEN 255 ELSE status[head[c]]
        /\ status'[head'[b]] = 255
    BY <1>3, FormatInv
  <2>2. \A c \in Bufs : c # b => pc'[c] = pc[c]
    BY <1>0, <1>3 DEF Types, Format
  <2>3. pc[b] = "lock" /\ pc'[b] = "notify" /\ rw' = rw
    BY <1>0, <1>3 DEF Types, Format
  <2>4. \A c \in Bufs : Stage'[c] = Stage[c]
    BY <1>s, <2>1, <2>2, <2>3, StageIs DEF Submitted
  <2> QED
    BY <1>3, <2>4, Stutters DEF Format, device
<1>4. ASSUME NEW b \in Bufs, Notify(b) \/ SleepAgain(b) \/ Kill(b) PROVE UNCHANGED Promise!vars
  <2>1. /\ UNCHANGED <<status, head, rw, block, data>>
        /\ \A c \in Bufs : (Submitted(c)' <=> Submitted(c)) /\ (pc'[c] = "idle" <=> pc[c] = "idle")
    BY <1>0, <1>4 DEF Types, Notify, SleepAgain, Kill, driver, device, Submitted
  <2>2. \A c \in Bufs : Stage'[c] = Stage[c]
    BY <1>s, <2>1, StageIs
  <2> QED
    BY <2>1, <2>2, Stutters
<1>5. ASSUME NEW b \in Bufs, Finish(b) PROVE Promise!Next
  <2>1. Stage[b] = "done"
    <3>1. b \in Submitters /\ ~busy[b] /\ pc[b] = "relock"
      BY <1>5 DEF Finish, StillBusy, Submitters, Submitted
    <3> QED
      BY <1>0, <3>1, StageIs DEF Phases, Submitted
  <2>2. Stage'[b] = "none"
    BY <1>5, <1>s DEF Finish, WakeFree
  <2>3. ASSUME NEW c \in Bufs, c # b PROVE Stage'[c] = Stage[c]
    <3>1. head'[c] = head[c] /\ rw'[c] = rw[c] /\ status' = status
      BY <1>0, <1>5, <2>3 DEF Types, Finish
    <3>2. (Submitted(c)' <=> Submitted(c)) /\ (pc'[c] = "idle" <=> pc[c] = "idle")
      BY <1>0, <1>5, <2>3 DEF Types, Finish, WakeFree, Submitted
    <3> QED
      BY <1>s, <3>1, <3>2, StageIs
  <2>4. Stage' = [Stage EXCEPT ![b] = "none"]
    BY <1>d, <2>2, <2>3
  <2>5. Promise!Return(b)
    BY <1>5, <2>1, <2>4 DEF Finish, device, Promise!Return
  <2> QED
    BY <2>5 DEF Promise!Next
<1>6. CASE IntrStart \/ IntrEnd \/ Take
  <2>1. UNCHANGED <<status, head, rw, pc, block, data>>
    BY <1>6 DEF IntrStart, IntrEnd, Take, driver, device
  <2>2. \A c \in Bufs : Stage'[c] = Stage[c]
    BY <1>s, <2>1, StageIs DEF Submitted
  <2> QED
    BY <2>1, <2>2, Stutters
<1>7. CASE IntrEntry
  <2>1. UNCHANGED <<status, head, rw, block, data>>
    BY <1>7 DEF IntrEntry
  <2>2. \A c \in Bufs : pc'[c] = pc[c] \/ (pc[c] = "asleep" /\ pc'[c] = "relock")
    <3>1. PICK b : pc' = [pc EXCEPT ![b] = IF @ = "asleep" THEN "relock" ELSE @]
      BY <1>7 DEF IntrEntry
    <3>2. \A c \in Bufs : pc'[c] = IF c = b /\ pc[c] = "asleep" THEN "relock" ELSE pc[c]
      BY <1>0, <3>1 DEF Types
    <3> QED
      BY <3>2
  <2>3. \A c \in Bufs : Stage'[c] = Stage[c]
    BY <1>s, <2>1, <2>2, StageIs DEF Submitted
  <2> QED
    BY <2>1, <2>3, Stutters
<1>8. ASSUME NEW h \in working, Complete(h) PROVE Promise!Next
  <2>1. h \in Descs
    BY <1>0 DEF Types
  <2>2. PICK b \in Bufs :
          /\ Submitted(b) /\ status[head[b]] = 255
          /\ IF rw[b] = "read"
             THEN data' = [data EXCEPT ![b] = block[b]] /\ block' = block
             ELSE block' = [block EXCEPT ![b] = data[b]] /\ data' = data
          /\ \A c \in Bufs : Submitted(c) =>
               status'[head[c]] = IF c = b THEN 0 ELSE status[head[c]]
    BY <1>8, <2>1, CompleteInv
  <2>3. UNCHANGED <<pc, rw, head>>
    BY <1>8 DEF Complete, driver
  <2>4. Stage[b] = rw[b] /\ rw[b] \in {"read", "write"} /\ Stage'[b] = "done"
    BY <1>0, <1>s, <2>2, <2>3, StageIs DEF Requests, Submitted
  <2>5. \A c \in Bufs : c # b => Stage'[c] = Stage[c]
    BY <1>s, <2>2, <2>3, StageIs DEF Submitted
  <2>6. Stage' = [Stage EXCEPT ![b] = "done"]
    BY <1>d, <2>4, <2>5
  <2>7. Promise!Transfer(b)
    BY <2>2, <2>4, <2>6 DEF Promise!Transfer
  <2> QED
    BY <2>7 DEF Promise!Next
<1>9. CASE UNCHANGED vars
  <2>1. UNCHANGED <<status, head, rw, pc, block, data>>
    BY <1>9 DEF vars, driver, device
  <2>2. \A c \in Bufs : Stage'[c] = Stage[c]
    BY <1>s, <2>1, StageIs DEF Submitted
  <2> QED
    BY <2>1, <2>2, Stutters
<1> QED
  BY <1>1, <1>2, <1>3, <1>4, <1>5, <1>6, <1>7, <1>8, <1>9 DEF Next, Wake, Handler, Device

\* A request takes effect once, between call and return, on the block it names,
\* although the device takes and completes requests in any order.
THEOREM Refinement == Spec => ImplementsBlockDevice
<1>1. Init => Promise!Init
  BY InitMaps
<1>2. IndInv /\ [Next]_vars => [Promise!Next]_(Promise!vars)
  BY StepMaps
<1> QED
  BY <1>1, <1>2, Invariance, PTL DEF Spec, ImplementsBlockDevice, Promise!Spec

-----------------------------------------------------------------------------
(***************************************************************************)
(* mini-riscv-os                                                           *)
(***************************************************************************)

(* What the proofs need beside the properties of MiniKernel.               *)

Handlers == {"isr", "used", "getc", "getc2", "complete", "panic"}
TaskPcs == {"delay", "task4", "gethid", "ecall", "ret", "result"}
TaskRas == {"delay", "task4", "result"}
OsPcs == {"disk_read", "notify", "spin", "task_go", "back"}
Descriptors == 0 .. Queue - 1
Indices == 0 .. Uint16 - 1

Registers == [pc : TaskPcs \cup OsPcs \cup Handlers, a0 : {"any", "context", "&hid", "0", "-1"},
              ra : TaskRas \cup {"os_main", "back", "trap_vector"}]

\* The registers of what runs, or of what the handlers have interrupted.
Base == IF Interruptible THEN cpu ELSE scratch

CpuTypes ==
  /\ cpu \in Registers /\ scratch \in Registers
  /\ ctx \in [{0, 1, 2} -> [ra : TaskRas \cup {"back"}, a0 : {"any", "context"}]]
  /\ ctx_now \in {0, 1, 2} /\ current_task \in TaskIds
DiskTypes ==
  /\ DOMAIN disk = {"free", "next", "head", "status", "write", "busy", "data", "vdisk_lock",
                    "avail", "idx", "used", "usedIdx", "used_idx", "tests"}
  /\ disk.free \subseteq Descriptors /\ disk.next \in [Descriptors -> 0 .. Queue]
  /\ disk.head \in Descriptors /\ disk.status \in DeviceStatus
  /\ disk.write \in BOOLEAN /\ disk.busy \in BOOLEAN /\ disk.vdisk_lock \in BOOLEAN
  /\ disk.avail \in [Descriptors -> Descriptors] /\ disk.used \in [Descriptors -> Descriptors]
  /\ disk.idx \in Indices /\ disk.usedIdx \in Indices /\ disk.used_idx \in Indices
  /\ disk.data \in Sectors
  /\ DOMAIN dev = {"taken", "interrupt", "block"}
  /\ dev.taken \in Indices /\ dev.interrupt \in BOOLEAN /\ dev.block \in Sectors
KeyTypes ==
  /\ DOMAIN uart = {"typed", "ready", "echo"}
  /\ uart.typed \in Seq({"key", "\r"}) /\ uart.echo \in Seq(Nat) /\ uart.ready \in BOOLEAN

KernelTypes == CpuTypes /\ DiskTypes /\ KeyTypes

\* The OS and the tasks are each where their context says.
KernelPlaces ==
  /\ Base.pc \notin Handlers
  /\ ctx_now \in TaskIds => Base.pc \in TaskPcs /\ Base.ra \in TaskRas /\ ctx[ctx_os].ra = "back"
  /\ ctx_now = ctx_os => Base.pc \in OsPcs
  /\ \A t \in TaskIds : ctx[t].ra \in TaskRas

\* A request has three descriptors while it is under way; it is with the OS,
\* with the device or on its way back.
Quiet == /\ dev.taken = disk.idx /\ disk.usedIdx = disk.idx /\ disk.used_idx = disk.idx
Asked == /\ disk.busy /\ disk.idx = Plus1(dev.taken)
         /\ disk.usedIdx = dev.taken /\ disk.used_idx = dev.taken
Answered == /\ disk.busy /\ disk.idx = Plus1(disk.used_idx)
            /\ disk.usedIdx = disk.idx /\ dev.taken = disk.idx
            /\ dev.interrupt \/ cpu.pc \in {"isr", "used", "panic"}
Request ==
  /\ disk.vdisk_lock <=> Base.pc \in {"notify", "spin"}
  /\ ~disk.vdisk_lock => disk.free = Descriptors /\ Quiet /\ ~disk.busy
  /\ disk.vdisk_lock => /\ free_chain(disk.head) \subseteq Descriptors
                        /\ disk.free = Descriptors \ free_chain(disk.head)
  /\ Base.pc = "notify" => disk.busy /\ Quiet
  /\ Base.pc = "spin" => Asked \/ Answered \/ (~disk.busy /\ Quiet)

\* gethid's success is in a register only when hid is set.
Answers == "0" \in {cpu.a0, scratch.a0, ret} => hid = "mhartid"

\* A key that waits, or whose first read is done, has not been echoed.
Keys ==
  /\ \A i \in 1 .. Len(uart.echo) :
       /\ uart.echo[i] <= Len(uart.typed)
       /\ uart.ready \/ cpu.pc = "getc2" => uart.echo[i] < Len(uart.typed)
  /\ EchoInOrder

KernelIndInv == KernelTypes /\ KernelPlaces /\ Request /\ Answers /\ Keys
-----------------------------------------------------------------------------
(* KernelNumbers                                                                 *)

LEMMA KernelNumbers == /\ Queue \in Nat /\ Queue >= 3 /\ Uint16 \in Nat /\ Uint16 >= 3
                 /\ 0 \in Descriptors /\ 0 \in Indices
<1>1. \A n \in 1 .. 2 : n % Queue = n
  BY QueueAssumption
<1>2. Uint16 >= 3
  BY <1>1, QueueAssumption
<1> QED
  BY <1>2, QueueAssumption DEF Descriptors, Indices

LEMMA Plus1Is == ASSUME NEW i \in Indices
                 PROVE  Plus1(i) \in Indices /\ Plus1(i) # i
<1>1. CASE i + 1 < Uint16
  BY <1>1, KernelNumbers DEF Indices, Plus1
<1>2. CASE i + 1 = Uint16
  BY <1>2, KernelNumbers DEF Indices, Plus1
<1> QED
  BY <1>1, <1>2, KernelNumbers DEF Indices

LEMMA KernelPlaceInRing == \A i \in Indices : i % Queue \in Descriptors
  BY KernelNumbers DEF Indices, Descriptors

LEMMA LowestThree == /\ Min(Descriptors) = 0 /\ Min(Descriptors \ {0}) = 1
                     /\ Min(Descriptors \ {0, 1}) = 2
                     /\ {0, 1, 2} \subseteq Descriptors
<1>1. ASSUME NEW S \in SUBSET Nat, NEW n \in S, \A m \in S : n <= m
      PROVE  Min(S) = n
  <2>1. PICK x \in S : x = Min(S) /\ \A m \in S : x <= m
    BY <1>1 DEF Min
  <2> QED
    BY <1>1, <2>1
<1>2. /\ 0 \in Descriptors /\ 1 \in Descriptors /\ 2 \in Descriptors
      /\ Descriptors \in SUBSET Nat
  BY KernelNumbers DEF Descriptors
<1>3. /\ \A m \in Descriptors : 0 <= m
      /\ \A m \in Descriptors \ {0} : 1 <= m
      /\ \A m \in Descriptors \ {0, 1} : 2 <= m
  BY KernelNumbers DEF Descriptors
<1> QED
  BY <1>1, <1>2, <1>3

LEMMA TwoTasks == Cardinality(TaskIds) = 2
<1>1. TaskIds = {0} \cup {1}
  BY DEF TaskIds, user_task0, user_task4
<1>2. IsFiniteSet({0}) /\ Cardinality({0}) = 1
  BY FS_Singleton
<1>3. Cardinality({0} \cup {1}) = Cardinality({0}) + 1
  BY <1>2, FS_AddElement
<1> QED
  BY <1>1, <1>2, <1>3

-----------------------------------------------------------------------------
(* The invariant is inductive                                              *)

LEMMA KernelInitInv == KernelInit => KernelIndInv
<1> SUFFICES ASSUME KernelInit PROVE KernelIndInv
  OBVIOUS
<1>1. Base = cpu /\ scratch = cpu /\ cpu = [pc |-> "disk_read", ra |-> "os_main", a0 |-> "any"]
  BY DEF KernelInit, Base
<1>2. KernelTypes
  BY <1>1, KernelNumbers DEF KernelInit, KernelTypes, CpuTypes, DiskTypes, KeyTypes, Registers,
     OsPcs, TaskRas, TaskIds, user_task0, user_task4,
     ctx_os, Descriptors, Indices, DeviceStatus
<1>3. KernelPlaces
  BY <1>1 DEF KernelInit, KernelPlaces, Handlers, OsPcs, TaskRas, TaskIds, user_task0,
     user_task4, ctx_os
<1>4. Request
  BY <1>1 DEF KernelInit, Request, Quiet, Descriptors
<1>5. Answers /\ Keys
  BY <1>1 DEF KernelInit, Answers, Keys, EchoInOrder
<1> QED
  BY <1>2, <1>3, <1>4, <1>5 DEF KernelIndInv

\* Steps that do not concern the disk.
LEMMA RequestStays ==
  ASSUME Request, UNCHANGED <<disk, dev.taken>>,
         Base'.pc \in {"notify", "spin"} \/ Base.pc \in {"notify", "spin"}
           => Base'.pc = Base.pc,
         Answered => Answered'
  PROVE  Request'
  BY DEF Request, Quiet, Asked, free_chain

LEMMA KeysStay == ASSUME Keys, UNCHANGED uart, cpu'.pc = "getc2" => cpu.pc = "getc2" PROVE Keys'
  BY DEF Keys, EchoInOrder

\* A key is read out, later than all those that are echoed.
LEMMA KeyEchoed ==
  ASSUME KeyTypes, Keys, uart.ready \/ cpu.pc = "getc2", cpu'.pc = "getc",
         uart' = [uart EXCEPT !.ready = FALSE, !.echo = Append(@, Len(uart.typed))]
  PROVE  KeyTypes' /\ Keys'
<1>1. PICK n \in Nat, e \in Seq(Nat) : n = Len(uart.typed) /\ e = uart.echo
  BY LenProperties DEF KeyTypes
<1>a. /\ uart.ready \/ cpu.pc = "getc2"
      /\ \A i \in 1 .. Len(e) : uart.ready \/ cpu.pc = "getc2" => e[i] < n
      /\ \A i \in 2 .. Len(e) : e[i - 1] < e[i]
  BY <1>1 DEF Keys, EchoInOrder
<1>2. /\ uart'.typed = uart.typed /\ uart'.ready = FALSE /\ DOMAIN uart' = DOMAIN uart
      /\ uart'.echo = Append(e, n)
  BY <1>1 DEF KeyTypes
<1>3. /\ Append(e, n) \in Seq(Nat) /\ Len(Append(e, n)) = Len(e) + 1
      /\ \A i \in 1 .. Len(e) : Append(e, n)[i] = e[i]
      /\ Append(e, n)[Len(e) + 1] = n /\ Len(e) \in Nat
  BY <1>1, AppendProperties, LenProperties
<1>4. KeyTypes'
  BY <1>2, <1>3 DEF KeyTypes
<1>5. \A i \in 1 .. Len(e) : e[i] < n /\ e[i] \in Nat
  BY <1>1, <1>a, ElementOfSeq
<1>6. ASSUME NEW i \in 1 .. Len(uart'.echo)
      PROVE  uart'.echo[i] <= n
  <2>1. CASE i \in 1 .. Len(e)
    BY <1>2, <1>3, <1>5, <2>1
  <2>2. CASE i = Len(e) + 1
    BY <1>2, <1>3, <2>2
  <2> QED
    BY <1>2, <1>3, <2>1, <2>2
<1>7. ASSUME NEW i \in 2 .. Len(uart'.echo)
      PROVE  uart'.echo[i - 1] < uart'.echo[i]
  <2>1. /\ i \in 2 .. Len(e) + 1 /\ i - 1 \in 1 .. Len(e)
        /\ i \in 2 .. Len(e) \/ i = Len(e) + 1
    BY <1>2, <1>3
  <2>2. uart'.echo[i - 1] = e[i - 1]
    BY <1>2, <1>3, <2>1
  <2>3. CASE i \in 2 .. Len(e)
    <3>1. i \in 1 .. Len(e) /\ e[i - 1] < e[i]
      BY <1>a, <1>3, <2>3
    <3>2. uart'.echo[i] = e[i]
      BY <1>2, <1>3, <3>1
    <3> QED
      BY <2>2, <3>1, <3>2
  <2>4. CASE i = Len(e) + 1
    BY <1>2, <1>3, <1>5, <2>1, <2>2, <2>4
  <2> QED
    BY <2>1, <2>3, <2>4
<1> QED
  BY <1>1, <1>2, <1>4, <1>6, <1>7 DEF Keys, EchoInOrder

LEMMA RwInv == ASSUME KernelIndInv, NEW write \in BOOLEAN, NEW v \in Sectors, virtio_disk_rw(write, v)
               PROVE KernelIndInv'
<1>0. CpuTypes /\ DiskTypes /\ KeyTypes /\ KernelPlaces /\ Request /\ Answers /\ Keys
  BY DEF KernelIndInv, KernelTypes
<1>a. /\ cpu.pc = "disk_read" /\ Base = cpu /\ Base'.pc = "notify" /\ cpu'.pc = "notify"
      /\ ~disk.vdisk_lock /\ UNCHANGED dev
  BY <1>0 DEF virtio_disk_rw, At, Go, Base, Interruptible, CpuTypes, Registers
<1>b. disk.free = Descriptors /\ Quiet /\ ~disk.busy
  BY <1>0, <1>a DEF Request
<1>c. disk' = [disk EXCEPT !.free = @ \ {0, 1, 2}, !.vdisk_lock = TRUE, !.tests = @ + 1,
                           !.next = [@ EXCEPT ![0] = 1, ![1] = 2, ![2] = EndOfChain],
                           !.head = 0, !.status = 0, !.write = write, !.busy = TRUE, !.data = v,
                           !.avail = [@ EXCEPT ![disk.idx % Queue] = 0]]
  <2>1. /\ Min(disk.free) = 0 /\ Min(disk.free \ {0}) = 1 /\ Min(disk.free \ {0, 1}) = 2
    BY <1>b, LowestThree
  <2> QED
    BY <2>1 DEF virtio_disk_rw
<1>d. /\ DOMAIN disk' = DOMAIN disk
      /\ disk'.free = disk.free \ {0, 1, 2} /\ disk'.vdisk_lock = TRUE
      /\ disk'.next = [disk.next EXCEPT ![0] = 1, ![1] = 2, ![2] = EndOfChain]
      /\ disk'.head = 0 /\ disk'.status = 0 /\ disk'.write = write /\ disk'.busy = TRUE
      /\ disk'.data = v /\ disk'.avail = [disk.avail EXCEPT ![disk.idx % Queue] = 0]
      /\ disk'.idx = disk.idx /\ disk'.used = disk.used /\ disk'.usedIdx = disk.usedIdx
      /\ disk'.used_idx = disk.used_idx
  BY <1>0, <1>c DEF DiskTypes
<1>e. /\ 0 \in Descriptors /\ 1 \in Descriptors /\ 2 \in Descriptors
      /\ \A i \in Descriptors : i \in 0 .. Queue
      /\ Queue \in 0 .. Queue /\ 0 \in DeviceStatus
  BY LowestThree, KernelNumbers DEF Descriptors, DeviceStatus
<1>1. CpuTypes'
  BY <1>0 DEF virtio_disk_rw, osvars, At, Go, CpuTypes, KernelPlaces, Base, Interruptible,
     Registers, TaskPcs, OsPcs, TaskRas, Handlers, TaskIds, user_task0, user_task4,
     ctx_os
<1>2. DiskTypes'
  <2>1. disk'.next \in [Descriptors -> 0 .. Queue]
    BY <1>0, <1>d, <1>e DEF DiskTypes, EndOfChain
  <2>2. disk'.avail \in [Descriptors -> Descriptors]
    <3>1. disk.avail \in [Descriptors -> Descriptors]
      BY <1>0 DEF DiskTypes
    <3> QED
      BY <1>d, <1>e, <3>1
  <2> QED
    BY <1>0, <1>a, <1>d, <1>e, <2>1, <2>2 DEF DiskTypes
<1>3. KeyTypes'
  BY <1>0 DEF virtio_disk_rw, osvars, At, Go, KeyTypes
<1>4. KernelPlaces'
  BY <1>0 DEF virtio_disk_rw, osvars, At, Go, CpuTypes, KernelPlaces, Base, Interruptible,
     Registers, TaskPcs, OsPcs, TaskRas, Handlers, TaskIds, user_task0, user_task4,
     ctx_os
<1>5. Request'
  <2>1. disk'.next[0] = 1 /\ disk'.next[1] = 2
    BY <1>0, <1>d, <1>e DEF DiskTypes
  <2>2. free_chain(disk.head)' = {0, 1, 2}
    BY <1>d, <2>1 DEF free_chain
  <2>3. Quiet'
    BY <1>a, <1>b, <1>d DEF Quiet
  <2> QED
    BY <1>a, <1>b, <1>d, <1>e, <2>2, <2>3 DEF Request
<1>6. Answers'
  BY <1>0 DEF virtio_disk_rw, osvars, At, Go, CpuTypes, Answers, Registers
<1>7. Keys'
  <2>1. UNCHANGED uart /\ (cpu'.pc = "getc2" => cpu.pc = "getc2")
    BY <1>0 DEF virtio_disk_rw, osvars, At, Go, CpuTypes, KernelPlaces, Base, Interruptible,
       Registers, TaskPcs, OsPcs, TaskRas, Handlers
  <2> QED
    BY <1>0, <2>1, KeysStay
<1> QED
  BY <1>1, <1>2, <1>3, <1>4, <1>5, <1>6, <1>7 DEF KernelIndInv, KernelTypes

LEMMA KernelNotifyInv == ASSUME KernelIndInv, notify PROVE KernelIndInv'
<1>0. CpuTypes /\ DiskTypes /\ KeyTypes /\ KernelPlaces /\ Request /\ Answers /\ Keys
  BY DEF KernelIndInv, KernelTypes
<1>a. /\ cpu.pc = "notify" /\ Base = cpu /\ Base'.pc = "spin" /\ UNCHANGED dev
  BY <1>0 DEF notify, At, Go, Base, Interruptible, CpuTypes, Registers
<1>b. disk.vdisk_lock /\ Quiet /\ disk.busy
  BY <1>0, <1>a DEF Request
<1>c. /\ disk' = [disk EXCEPT !.idx = Plus1(disk.idx)] /\ disk'.idx = Plus1(disk.idx)
      /\ disk'.vdisk_lock /\ disk'.busy /\ disk'.next = disk.next /\ disk'.head = disk.head
      /\ disk'.free = disk.free /\ disk'.usedIdx = disk.usedIdx /\ disk'.used_idx = disk.used_idx
  BY <1>0, <1>b DEF notify, DiskTypes
<1>1. CpuTypes'
  BY <1>0 DEF notify, osvars, At, Go, CpuTypes, KernelPlaces, Base, Interruptible, Registers,
     TaskPcs, OsPcs, TaskRas, Handlers, TaskIds, user_task0, user_task4, ctx_os
<1>2. DiskTypes'
  BY <1>0, <1>a, <1>c, Plus1Is DEF DiskTypes
<1>3. KeyTypes'
  BY <1>0 DEF notify, osvars, At, Go, KeyTypes
<1>4. KernelPlaces'
  BY <1>0 DEF notify, osvars, At, Go, CpuTypes, KernelPlaces, Base, Interruptible, Registers,
     TaskPcs, OsPcs, TaskRas, Handlers, TaskIds, user_task0, user_task4, ctx_os
<1>5. Request'
  <2>1. Asked'
    BY <1>a, <1>b, <1>c DEF Asked, Quiet, Plus1
  <2> QED
    BY <1>0, <1>a, <1>b, <1>c, <2>1 DEF Request, free_chain
<1>6. Answers'
  BY <1>0 DEF notify, osvars, At, Go, CpuTypes, Answers, Registers
<1>7. Keys'
  <2>1. UNCHANGED uart /\ (cpu'.pc = "getc2" => cpu.pc = "getc2")
    BY <1>0 DEF notify, osvars, At, Go, CpuTypes, KernelPlaces, Base, Interruptible,
       Registers, TaskPcs, OsPcs, TaskRas, Handlers
  <2> QED
    BY <1>0, <2>1, KeysStay
<1> QED
  BY <1>1, <1>2, <1>3, <1>4, <1>5, <1>6, <1>7 DEF KernelIndInv, KernelTypes

LEMMA SpinEndInv == ASSUME KernelIndInv, spin_end PROVE KernelIndInv'
<1>0. CpuTypes /\ DiskTypes /\ KeyTypes /\ KernelPlaces /\ Request /\ Answers /\ Keys
  BY DEF KernelIndInv, KernelTypes
<1>a. /\ cpu.pc = "spin" /\ Base = cpu /\ Base'.pc = "disk_read" /\ UNCHANGED dev
  BY <1>0 DEF spin_end, At, Go, Base, Interruptible, CpuTypes, Registers
<1>b. /\ disk.vdisk_lock /\ Quiet /\ ~disk.busy
      /\ free_chain(disk.head) \subseteq Descriptors
      /\ disk.free = Descriptors \ free_chain(disk.head)
  BY <1>0, <1>a DEF Request, spin_end, Asked, Answered
<1>c. disk' = [disk EXCEPT !.free = @ \cup free_chain(disk.head), !.vdisk_lock = FALSE,
                           !.next = [i \in Descriptors |->
                                       IF i \in free_chain(disk.head) THEN 0 ELSE @[i]]]
  BY <1>0 DEF spin_end, DiskTypes
<1>d. /\ DOMAIN disk' = DOMAIN disk /\ disk'.free = Descriptors /\ ~disk'.vdisk_lock
      /\ disk'.next = [i \in Descriptors |->
                         IF i \in free_chain(disk.head) THEN 0 ELSE disk.next[i]]
      /\ disk'.head = disk.head /\ disk'.status = disk.status /\ disk'.write = disk.write
      /\ disk'.busy = disk.busy /\ disk'.data = disk.data /\ disk'.avail = disk.avail
      /\ disk'.idx = disk.idx /\ disk'.used = disk.used /\ disk'.usedIdx = disk.usedIdx
      /\ disk'.used_idx = disk.used_idx /\ disk'.vdisk_lock = FALSE
  BY <1>0, <1>b, <1>c DEF DiskTypes
<1>1. CpuTypes'
  BY <1>0 DEF spin_end, osvars, At, Go, CpuTypes, KernelPlaces, Base, Interruptible,
     Registers, TaskPcs, OsPcs, TaskRas, Handlers, TaskIds, user_task0, user_task4,
     ctx_os
<1>2. DiskTypes'
  <2>1. disk'.next \in [Descriptors -> 0 .. Queue]
    BY <1>0, <1>d, KernelNumbers DEF DiskTypes
  <2> QED
    BY <1>0, <1>a, <1>d, <2>1 DEF DiskTypes
<1>3. KeyTypes'
  BY <1>0 DEF spin_end, osvars, At, Go, KeyTypes
<1>4. KernelPlaces'
  BY <1>0 DEF spin_end, osvars, At, Go, CpuTypes, KernelPlaces, Base, Interruptible,
     Registers, TaskPcs, OsPcs, TaskRas, Handlers, TaskIds, user_task0, user_task4,
     ctx_os
<1>5. Request'
  BY <1>0, <1>a, <1>b, <1>d DEF Request, Quiet
<1>6. Answers'
  BY <1>0 DEF spin_end, osvars, At, Go, CpuTypes, Answers, Registers
<1>7. Keys'
  <2>1. UNCHANGED uart /\ (cpu'.pc = "getc2" => cpu.pc = "getc2")
    BY <1>0 DEF spin_end, osvars, At, Go, CpuTypes, KernelPlaces, Base, Interruptible,
       Registers, TaskPcs, OsPcs, TaskRas, Handlers
  <2> QED
    BY <1>0, <2>1, KeysStay
<1> QED
  BY <1>1, <1>2, <1>3, <1>4, <1>5, <1>6, <1>7 DEF KernelIndInv, KernelTypes

LEMMA MainInv == ASSUME KernelIndInv, os_main PROVE KernelIndInv'
<1>0. CpuTypes /\ DiskTypes /\ KeyTypes /\ KernelPlaces /\ Request /\ Answers /\ Keys
  BY DEF KernelIndInv, KernelTypes
<1>1. CpuTypes'
  <2>1. current_task' \in TaskIds
    BY <1>0, TwoTasks DEF os_main, CpuTypes, TaskIds, user_task0, user_task4
  <2> QED
    BY <1>0, <2>1 DEF os_main, At, Go, CpuTypes, Registers, OsPcs
<1>2. DiskTypes'
  BY <1>0 DEF os_main, At, Go, DiskTypes
<1>3. KeyTypes'
  BY <1>0 DEF os_main, At, Go, KeyTypes
<1>4. KernelPlaces'
  BY <1>0 DEF os_main, At, Go, CpuTypes, KernelPlaces, Base, Interruptible, Registers,
     TaskPcs, OsPcs, TaskRas, Handlers, TaskIds, user_task0, user_task4, ctx_os
<1>5. Request'
  <2>1. UNCHANGED <<disk, dev.taken>>
    BY DEF os_main, At, Go
  <2>2. Base'.pc \in {"notify", "spin"} \/ Base.pc \in {"notify", "spin"} => Base'.pc = Base.pc
    BY <1>0 DEF os_main, At, Go, CpuTypes, KernelPlaces, Base, Interruptible, Registers,
       TaskPcs, OsPcs, TaskRas, Handlers, TaskIds, user_task0, user_task4, ctx_os
  <2>3. Answered => Answered'
    BY <1>0 DEF os_main, At, Go, CpuTypes, Answered, Interruptible, Registers, TaskPcs,
       OsPcs, TaskRas, Handlers
  <2> QED
    BY <1>0, <2>1, <2>2, <2>3, RequestStays
<1>6. Answers'
  BY <1>0 DEF os_main, At, Go, CpuTypes, Answers, Registers
<1>7. Keys'
  <2>1. UNCHANGED uart /\ (cpu'.pc = "getc2" => cpu.pc = "getc2")
    BY <1>0 DEF os_main, At, Go, CpuTypes, KernelPlaces, Base, Interruptible, Registers,
       TaskPcs, OsPcs, TaskRas, Handlers
  <2> QED
    BY <1>0, <2>1, KeysStay
<1> QED
  BY <1>1, <1>2, <1>3, <1>4, <1>5, <1>6, <1>7 DEF KernelIndInv, KernelTypes

LEMMA TaskGoInv == ASSUME KernelIndInv, task_go PROVE KernelIndInv'
<1>0. CpuTypes /\ DiskTypes /\ KeyTypes /\ KernelPlaces /\ Request /\ Answers /\ Keys
  BY DEF KernelIndInv, KernelTypes
<1>a. /\ cpu.pc = "task_go" /\ cpu'.pc \in TaskRas /\ cpu'.a0 \in {"any", "context"}
      /\ UNCHANGED <<scratch, uart, hid, ret>>
  BY <1>0 DEF task_go, sys_switch, ctx_load, At, CpuTypes, KernelPlaces, TaskIds, user_task0,
     user_task4
<1>1. CpuTypes'
  BY <1>0 DEF task_go, sys_switch, ctx_save, ctx_load, At, CpuTypes, KernelPlaces, Base,
     Interruptible, Registers, TaskPcs, OsPcs, TaskRas, Handlers, TaskIds, user_task0,
     user_task4, ctx_os
<1>2. DiskTypes'
  BY <1>0 DEF task_go, sys_switch, ctx_save, ctx_load, At, DiskTypes
<1>3. KeyTypes'
  BY <1>0 DEF task_go, sys_switch, ctx_save, ctx_load, At, KeyTypes
<1>4. KernelPlaces'
  BY <1>0 DEF task_go, sys_switch, ctx_save, ctx_load, At, CpuTypes, KernelPlaces, Base,
     Interruptible, Registers, TaskPcs, OsPcs, TaskRas, Handlers, TaskIds, user_task0,
     user_task4, ctx_os
<1>5. Request'
  <2>1. UNCHANGED <<disk, dev.taken>>
    BY DEF task_go, sys_switch, ctx_save, ctx_load, At
  <2>2. Base'.pc \in {"notify", "spin"} \/ Base.pc \in {"notify", "spin"} => Base'.pc = Base.pc
    BY <1>0 DEF task_go, sys_switch, ctx_save, ctx_load, At, CpuTypes, KernelPlaces, Base,
       Interruptible, Registers, TaskPcs, OsPcs, TaskRas, Handlers, TaskIds, user_task0,
       user_task4, ctx_os
  <2>3. Answered => Answered'
    BY <1>0 DEF task_go, sys_switch, ctx_save, ctx_load, At, CpuTypes, Answered,
       Interruptible, Registers, TaskPcs, OsPcs, TaskRas, Handlers
  <2> QED
    BY <1>0, <2>1, <2>2, <2>3, RequestStays
<1>6. Answers'
  BY <1>0, <1>a DEF Answers
<1>7. Keys'
  BY <1>0, <1>a, KeysStay DEF TaskRas
<1> QED
  BY <1>1, <1>2, <1>3, <1>4, <1>5, <1>6, <1>7 DEF KernelIndInv, KernelTypes

LEMMA TaskInv == ASSUME KernelIndInv, user_task PROVE KernelIndInv'
<1>0. CpuTypes /\ DiskTypes /\ KeyTypes /\ KernelPlaces /\ Request /\ Answers /\ Keys
  BY DEF KernelIndInv, KernelTypes
<1>a. /\ Base = cpu /\ cpu.pc \in TaskPcs /\ cpu.ra \in TaskRas /\ ctx_now = user_task4
      /\ cpu \in Registers
  BY <1>0 DEF user_task, KernelPlaces, Base, Interruptible, task4, At, TaskIds, CpuTypes
<1>b. /\ cpu' \in Registers /\ cpu'.pc \in TaskPcs /\ cpu'.ra \in TaskRas
      /\ cpu'.a0 = "0" => cpu.a0 = "0"
      /\ ret' = "0" => ret = "0" \/ cpu.a0 = "0"
  <2>1. CASE cpu.pc = "task4"
    BY <1>a, <2>1 DEF user_task, task4, At, Go, Registers, TaskPcs, TaskRas
  <2>2. CASE cpu.pc = "gethid"
    BY <1>a, <2>2 DEF user_task, task4, At, Go, Registers, TaskPcs, TaskRas
  <2>3. CASE cpu.pc = "ret"
    BY <1>a, <2>3 DEF user_task, task4, At, Go, Registers, TaskPcs, TaskRas
  <2>4. CASE cpu.pc = "result"
    BY <1>a, <2>4 DEF user_task, task4, At, Go, Registers, TaskPcs, TaskRas
  <2> QED
    BY <2>1, <2>2, <2>3, <2>4 DEF user_task, task4, At
<1>c. Base' = cpu'
  BY <1>b DEF Base, Interruptible, TaskPcs
<1>d. UNCHANGED <<scratch, ctx, ctx_now, current_task, irq, disk, dev, uart, hid>>
  BY DEF user_task, osvars
<1>1. CpuTypes'
  BY <1>0, <1>b, <1>d DEF CpuTypes
<1>2. DiskTypes'
  BY <1>0 DEF user_task, task4, osvars, At, Go, DiskTypes
<1>3. KeyTypes'
  BY <1>0 DEF user_task, task4, osvars, At, Go, KeyTypes
<1>4. KernelPlaces'
  BY <1>0, <1>a, <1>b, <1>c, <1>d DEF KernelPlaces, TaskPcs, Handlers, TaskIds, user_task4, ctx_os
<1>5. Request'
  <2>1. Base'.pc \notin {"notify", "spin"} /\ Base.pc \notin {"notify", "spin"}
    BY <1>a, <1>b, <1>c DEF TaskPcs
  <2>2. Answered => Answered'
    BY <1>a, <1>d DEF Answered, TaskPcs
  <2> QED
    BY <1>0, <1>d, <2>1, <2>2, RequestStays
<1>6. Answers'
  BY <1>0, <1>b, <1>d DEF Answers
<1>7. Keys'
  BY <1>0, <1>b, <1>d, KeysStay DEF TaskPcs
<1> QED
  BY <1>1, <1>2, <1>3, <1>4, <1>5, <1>6, <1>7 DEF KernelIndInv, KernelTypes

LEMMA SyscallInv == ASSUME KernelIndInv, do_syscall PROVE KernelIndInv'
<1>0. CpuTypes /\ DiskTypes /\ KeyTypes /\ KernelPlaces /\ Request /\ Answers /\ Keys
  BY DEF KernelIndInv, KernelTypes
<1>a. /\ cpu.pc = "ecall" /\ Base = cpu /\ cpu \in Registers
      /\ scratch' = [cpu EXCEPT !.a0 = sys_gethid(cpu.a0).a0]
      /\ cpu' = [scratch' EXCEPT !.pc = "ret"]
      /\ sys_gethid(cpu.a0).a0 \in {"0", "-1"}
      /\ UNCHANGED <<ctx, ctx_now, current_task, disk, dev, uart>>
  BY <1>0 DEF do_syscall, sys_gethid, osvars, At, Base, Interruptible, CpuTypes
<1>b. scratch' \in Registers /\ cpu' \in Registers
  BY <1>a DEF Registers, TaskPcs
<1>1. CpuTypes'
  BY <1>0, <1>a, <1>b DEF CpuTypes
<1>2. DiskTypes'
  BY <1>0 DEF do_syscall, sys_gethid, osvars, At, DiskTypes
<1>3. KeyTypes'
  BY <1>0 DEF do_syscall, sys_gethid, osvars, At, KeyTypes
<1>4. KernelPlaces'
  BY <1>0 DEF do_syscall, sys_gethid, osvars, At, CpuTypes, KernelPlaces, Base, Interruptible,
     Registers, TaskPcs, OsPcs, TaskRas, Handlers, TaskIds, user_task0, user_task4,
     ctx_os
<1>5. Request'
  <2>1. UNCHANGED <<disk, dev.taken>>
    BY DEF do_syscall, sys_gethid, osvars, At
  <2>2. Base'.pc \in {"notify", "spin"} \/ Base.pc \in {"notify", "spin"} => Base'.pc = Base.pc
    BY <1>0 DEF do_syscall, sys_gethid, osvars, At, CpuTypes, KernelPlaces, Base,
       Interruptible, Registers, TaskPcs, OsPcs, TaskRas, Handlers, TaskIds, user_task0,
       user_task4, ctx_os
  <2>3. Answered => Answered'
    BY <1>0 DEF do_syscall, sys_gethid, osvars, At, CpuTypes, Answered, Interruptible,
       Registers, TaskPcs, OsPcs, TaskRas, Handlers
  <2> QED
    BY <1>0, <2>1, <2>2, <2>3, RequestStays
<1>6. Answers'
  BY <1>0 DEF do_syscall, sys_gethid, osvars, At, CpuTypes, Answers, Registers
<1>7. Keys'
  <2>1. UNCHANGED uart /\ (cpu'.pc = "getc2" => cpu.pc = "getc2")
    BY <1>0 DEF do_syscall, sys_gethid, osvars, At, CpuTypes, KernelPlaces, Base,
       Interruptible, Registers, TaskPcs, OsPcs, TaskRas, Handlers
  <2> QED
    BY <1>0, <2>1, KeysStay
<1> QED
  BY <1>1, <1>2, <1>3, <1>4, <1>5, <1>6, <1>7 DEF KernelIndInv, KernelTypes

LEMMA TimerInv == ASSUME KernelIndInv, timer_interrupt PROVE KernelIndInv'
<1>0. CpuTypes /\ DiskTypes /\ KeyTypes /\ KernelPlaces /\ Request /\ Answers /\ Keys
  BY DEF KernelIndInv, KernelTypes
<1>a. /\ cpu'.pc = "back" /\ cpu'.a0 \in {"any", "context"} /\ scratch' = cpu
      /\ UNCHANGED <<uart, hid, ret>>
  BY <1>0 DEF timer_interrupt, task_os, sys_switch, ctx_load, reg_save, CpuTypes,
     KernelPlaces, TaskIds,
     user_task0, user_task4, ctx_os, ctx_save
<1>1. CpuTypes'
  BY <1>0 DEF timer_interrupt, task_os, sys_switch, ctx_save, ctx_load, reg_save,
     CpuTypes, KernelPlaces, Base, Interruptible, Registers, TaskPcs, OsPcs, TaskRas,
     Handlers, TaskIds, user_task0, user_task4, ctx_os
<1>2. DiskTypes'
  BY <1>0 DEF timer_interrupt, task_os, sys_switch, ctx_save, ctx_load, reg_save, DiskTypes
<1>3. KeyTypes'
  BY <1>0 DEF timer_interrupt, task_os, sys_switch, ctx_save, ctx_load, reg_save, KeyTypes
<1>4. KernelPlaces'
  BY <1>0 DEF timer_interrupt, task_os, sys_switch, ctx_save, ctx_load, reg_save,
     CpuTypes, KernelPlaces, Base, Interruptible, Registers, TaskPcs, OsPcs, TaskRas,
     Handlers, TaskIds, user_task0, user_task4, ctx_os
<1>5. Request'
  <2>1. UNCHANGED <<disk, dev.taken>>
    BY DEF timer_interrupt, task_os, sys_switch, ctx_save, ctx_load, reg_save
  <2>2. Base'.pc \in {"notify", "spin"} \/ Base.pc \in {"notify", "spin"} => Base'.pc = Base.pc
    BY <1>0 DEF timer_interrupt, task_os, sys_switch, ctx_save, ctx_load, reg_save,
       CpuTypes, KernelPlaces, Base, Interruptible, Registers, TaskPcs, OsPcs, TaskRas,
       Handlers, TaskIds, user_task0, user_task4, ctx_os
  <2>3. Answered => Answered'
    BY <1>0 DEF timer_interrupt, task_os, sys_switch, ctx_save, ctx_load, reg_save,
       CpuTypes, Answered, Interruptible, Registers, TaskPcs, OsPcs, TaskRas, Handlers
  <2> QED
    BY <1>0, <2>1, <2>2, <2>3, RequestStays
<1>6. Answers'
  BY <1>0, <1>a DEF Answers
<1>7. Keys'
  BY <1>0, <1>a, KeysStay
<1> QED
  BY <1>1, <1>2, <1>3, <1>4, <1>5, <1>6, <1>7 DEF KernelIndInv, KernelTypes

LEMMA ExternalInv == ASSUME KernelIndInv, external_handler PROVE KernelIndInv'
<1>0. CpuTypes /\ DiskTypes /\ KeyTypes /\ KernelPlaces /\ Request /\ Answers /\ Keys
  BY DEF KernelIndInv, KernelTypes
<1>1. CpuTypes'
  BY <1>0 DEF external_handler, trap_vector, reg_save, osvars, CpuTypes, KernelPlaces, Base,
     Interruptible, Registers, TaskPcs, OsPcs, TaskRas, Handlers, TaskIds, user_task0,
     user_task4, ctx_os
<1>2. DiskTypes'
  BY <1>0 DEF external_handler, trap_vector, reg_save, osvars, DiskTypes
<1>3. KeyTypes'
  BY <1>0 DEF external_handler, trap_vector, reg_save, osvars, KeyTypes
<1>4. KernelPlaces'
  BY <1>0 DEF external_handler, trap_vector, reg_save, osvars, CpuTypes, KernelPlaces, Base,
     Interruptible, Registers, TaskPcs, OsPcs, TaskRas, Handlers, TaskIds, user_task0,
     user_task4, ctx_os
<1>5. Request'
  <2>1. UNCHANGED <<disk, dev.taken>>
    BY DEF external_handler, trap_vector, reg_save, osvars
  <2>2. Base'.pc \in {"notify", "spin"} \/ Base.pc \in {"notify", "spin"} => Base'.pc = Base.pc
    BY <1>0 DEF external_handler, trap_vector, reg_save, osvars, CpuTypes, KernelPlaces, Base,
       Interruptible, Registers, TaskPcs, OsPcs, TaskRas, Handlers, TaskIds, user_task0,
       user_task4, ctx_os
  <2>3. Answered => Answered'
    BY <1>0 DEF external_handler, trap_vector, reg_save, osvars, CpuTypes, Answered,
       Interruptible, Registers, TaskPcs, OsPcs, TaskRas, Handlers
  <2> QED
    BY <1>0, <2>1, <2>2, <2>3, RequestStays
<1>6. Answers'
  BY <1>0 DEF external_handler, trap_vector, reg_save, osvars, CpuTypes, Answers, Registers
<1>7. Keys'
  <2>1. UNCHANGED uart /\ (cpu'.pc = "getc2" => cpu.pc = "getc2")
    BY <1>0 DEF external_handler, trap_vector, reg_save, osvars, CpuTypes, KernelPlaces, Base,
       Interruptible, Registers, TaskPcs, OsPcs, TaskRas, Handlers
  <2> QED
    BY <1>0, <2>1, KeysStay
<1> QED
  BY <1>1, <1>2, <1>3, <1>4, <1>5, <1>6, <1>7 DEF KernelIndInv, KernelTypes

LEMMA KernelCompleteInv == ASSUME KernelIndInv, plic_complete PROVE KernelIndInv'
<1>0. CpuTypes /\ DiskTypes /\ KeyTypes /\ KernelPlaces /\ Request /\ Answers /\ Keys
  BY DEF KernelIndInv, KernelTypes
<1>1. CpuTypes'
  BY <1>0 DEF plic_complete, reg_load, osvars, At, CpuTypes, KernelPlaces, Base,
     Interruptible, Registers, TaskPcs, OsPcs, TaskRas, Handlers, TaskIds, user_task0,
     user_task4, ctx_os
<1>2. DiskTypes'
  BY <1>0 DEF plic_complete, reg_load, osvars, At, DiskTypes
<1>3. KeyTypes'
  BY <1>0 DEF plic_complete, reg_load, osvars, At, KeyTypes
<1>4. KernelPlaces'
  BY <1>0 DEF plic_complete, reg_load, osvars, At, CpuTypes, KernelPlaces, Base,
     Interruptible, Registers, TaskPcs, OsPcs, TaskRas, Handlers, TaskIds, user_task0,
     user_task4, ctx_os
<1>5. Request'
  <2>1. UNCHANGED <<disk, dev.taken>>
    BY DEF plic_complete, reg_load, osvars, At
  <2>2. Base'.pc \in {"notify", "spin"} \/ Base.pc \in {"notify", "spin"} => Base'.pc = Base.pc
    BY <1>0 DEF plic_complete, reg_load, osvars, At, CpuTypes, KernelPlaces, Base,
       Interruptible, Registers, TaskPcs, OsPcs, TaskRas, Handlers, TaskIds, user_task0,
       user_task4, ctx_os
  <2>3. Answered => Answered'
    BY <1>0 DEF plic_complete, reg_load, osvars, At, CpuTypes, Answered, Interruptible,
       Registers, TaskPcs, OsPcs, TaskRas, Handlers
  <2> QED
    BY <1>0, <2>1, <2>2, <2>3, RequestStays
<1>6. Answers'
  BY <1>0 DEF plic_complete, reg_load, osvars, At, CpuTypes, Answers, Registers
<1>7. Keys'
  <2>1. UNCHANGED uart /\ (cpu'.pc = "getc2" => cpu.pc = "getc2")
    BY <1>0 DEF plic_complete, reg_load, osvars, At, CpuTypes, KernelPlaces, Base,
       Interruptible, Registers, TaskPcs, OsPcs, TaskRas, Handlers
  <2> QED
    BY <1>0, <2>1, KeysStay
<1> QED
  BY <1>1, <1>2, <1>3, <1>4, <1>5, <1>6, <1>7 DEF KernelIndInv, KernelTypes

LEMMA IsrInv == ASSUME KernelIndInv, virtio_disk_isr PROVE KernelIndInv'
<1>0. CpuTypes /\ DiskTypes /\ KeyTypes /\ KernelPlaces /\ Request /\ Answers /\ Keys
  BY DEF KernelIndInv, KernelTypes
<1>a. /\ cpu.pc \in {"isr", "used"} /\ cpu' = [cpu EXCEPT !.pc = cpu'.pc]
      /\ cpu'.pc \in {"used", "complete", "panic"}
      /\ Base' = Base /\ UNCHANGED <<scratch, uart>>
  BY <1>0 DEF virtio_disk_isr, isr_ack, isr_used, At, Go, Base, Interruptible, CpuTypes,
     Registers
<1>b. \/ /\ UNCHANGED disk /\ cpu'.pc = "used" /\ dev' = [dev EXCEPT !.interrupt = FALSE]
      \/ /\ UNCHANGED <<disk, dev>> /\ disk.used_idx = disk.usedIdx /\ cpu'.pc = "complete"
      \/ /\ UNCHANGED <<disk, dev>> /\ disk.used_idx # disk.usedIdx /\ cpu'.pc = "panic"
      \/ /\ disk.used_idx # disk.usedIdx /\ cpu'.pc = "used" /\ UNCHANGED dev
         /\ disk' = [disk EXCEPT !.busy = FALSE, !.used_idx = Plus1(@)]
  BY <1>0 DEF virtio_disk_isr, isr_ack, isr_used, At, Go, CpuTypes, Registers
<1>1. CpuTypes'
  BY <1>0 DEF virtio_disk_isr, isr_ack, isr_used, osvars, At, Go, CpuTypes, KernelPlaces,
     Base, Interruptible, Registers, TaskPcs, OsPcs, TaskRas, Handlers, TaskIds,
     user_task0, user_task4, ctx_os
<1>2. DiskTypes'
  <2>1. Plus1(disk.used_idx) \in Indices
    BY <1>0, Plus1Is DEF DiskTypes
  <2>2. /\ DOMAIN disk' = DOMAIN disk /\ disk'.busy \in BOOLEAN
        /\ disk'.used_idx \in {disk.used_idx, Plus1(disk.used_idx)}
        /\ disk'.free = disk.free /\ disk'.next = disk.next /\ disk'.head = disk.head
        /\ disk'.status = disk.status /\ disk'.write = disk.write /\ disk'.data = disk.data
        /\ disk'.vdisk_lock = disk.vdisk_lock /\ disk'.avail = disk.avail
        /\ disk'.idx = disk.idx /\ disk'.used = disk.used /\ disk'.usedIdx = disk.usedIdx
    <3>1. CASE UNCHANGED disk
      BY <1>0, <3>1 DEF DiskTypes
    <3>2. CASE disk' = [disk EXCEPT !.busy = FALSE, !.used_idx = Plus1(@)]
      BY <1>0, <3>2 DEF DiskTypes
    <3> QED
      BY <1>b, <3>1, <3>2
  <2>3. /\ DOMAIN dev' = DOMAIN dev /\ dev'.interrupt \in BOOLEAN
        /\ dev'.taken = dev.taken /\ dev'.block = dev.block
    BY <1>0, <1>b DEF DiskTypes
  <2> QED
    BY <1>0, <2>1, <2>2, <2>3 DEF DiskTypes
<1>3. KeyTypes'
  BY <1>0 DEF virtio_disk_isr, isr_ack, isr_used, osvars, At, Go, KeyTypes
<1>4. KernelPlaces'
  BY <1>0 DEF virtio_disk_isr, isr_ack, isr_used, osvars, At, Go, CpuTypes, KernelPlaces,
     Base, Interruptible, Registers, TaskPcs, OsPcs, TaskRas, Handlers, TaskIds,
     user_task0, user_task4, ctx_os
<1>5. Request'
  <2>1. CASE UNCHANGED disk /\ cpu'.pc = "used" /\ dev' = [dev EXCEPT !.interrupt = FALSE]
    <3>1. dev'.taken = dev.taken
      BY <1>0, <2>1 DEF DiskTypes
    <3>2. Answered => Answered'
      BY <2>1, <3>1 DEF Answered
    <3> QED
      BY <1>0, <1>a, <2>1, <3>1, <3>2, RequestStays
  <2>2. CASE UNCHANGED <<disk, dev>> /\ disk.used_idx = disk.usedIdx
    <3>1. ~Answered
      BY <1>0, <2>2, Plus1Is DEF Answered, DiskTypes
    <3> QED
      BY <1>0, <1>a, <2>2, <3>1, RequestStays
  <2>3. CASE UNCHANGED <<disk, dev>> /\ cpu'.pc = "panic"
    <3>1. Answered => Answered'
      BY <2>3 DEF Answered
    <3> QED
      BY <1>0, <1>a, <2>3, <3>1, RequestStays
  <2>4. CASE /\ disk.used_idx # disk.usedIdx /\ cpu'.pc = "used" /\ UNCHANGED dev
             /\ disk' = [disk EXCEPT !.busy = FALSE, !.used_idx = Plus1(@)]
    <3>1. Base.pc = "spin" /\ Answered
      BY <1>0, <2>4 DEF Request, Quiet, Asked
    <3>2. /\ disk'.used_idx = Plus1(disk.used_idx) /\ ~disk'.busy /\ disk'.head = disk.head
          /\ disk'.next = disk.next /\ disk'.free = disk.free /\ disk'.idx = disk.idx
          /\ disk'.usedIdx = disk.usedIdx /\ disk'.vdisk_lock = disk.vdisk_lock
      BY <1>0, <2>4 DEF DiskTypes
    <3>3. Quiet'
      BY <2>4, <3>1, <3>2 DEF Quiet, Answered
    <3> QED
      BY <1>0, <1>a, <3>1, <3>2, <3>3 DEF Request, free_chain
  <2> QED
    BY <1>b, <2>1, <2>2, <2>3, <2>4
<1>6. Answers'
  BY <1>0 DEF virtio_disk_isr, isr_ack, isr_used, osvars, At, Go, CpuTypes, Answers,
     Registers
<1>7. Keys'
  <2>1. UNCHANGED uart /\ (cpu'.pc = "getc2" => cpu.pc = "getc2")
    BY <1>0 DEF virtio_disk_isr, isr_ack, isr_used, osvars, At, Go, CpuTypes, KernelPlaces,
       Base, Interruptible, Registers, TaskPcs, OsPcs, TaskRas, Handlers
  <2> QED
    BY <1>0, <2>1, KeysStay
<1> QED
  BY <1>1, <1>2, <1>3, <1>4, <1>5, <1>6, <1>7 DEF KernelIndInv, KernelTypes

LEMMA LibIsrInv == ASSUME KernelIndInv, lib_isr PROVE KernelIndInv'
<1>0. CpuTypes /\ DiskTypes /\ KeyTypes /\ KernelPlaces /\ Request /\ Answers /\ Keys
  BY DEF KernelIndInv, KernelTypes
<1>a. \/ cpu.pc = "getc" /\ cpu'.pc = "complete" /\ UNCHANGED uart
      \/ /\ cpu.pc = "getc" /\ uart.ready /\ cpu'.pc = "getc2"
         /\ uart' = [uart EXCEPT !.ready = FALSE]
      \/ /\ uart.ready \/ cpu.pc = "getc2"
         /\ cpu'.pc = "getc"
         /\ uart' = [uart EXCEPT !.ready = FALSE, !.echo = Append(@, Len(uart.typed))]
  BY <1>0 DEF lib_isr, lib_getc, At, Go, CpuTypes, Registers
<1>b. ASSUME UNCHANGED uart, cpu'.pc = "complete" PROVE KeyTypes' /\ Keys'
  BY <1>0, <1>b, KeysStay DEF KeyTypes
<1>c. ASSUME uart.ready, uart' = [uart EXCEPT !.ready = FALSE] PROVE KeyTypes' /\ Keys'
  <2>1. /\ DOMAIN uart' = DOMAIN uart /\ uart'.typed = uart.typed /\ uart'.echo = uart.echo
        /\ uart'.ready = FALSE
    BY <1>0, <1>c DEF KeyTypes
  <2> QED
    BY <1>0, <1>c, <2>1 DEF KeyTypes, Keys, EchoInOrder
<1>1. CpuTypes'
  BY <1>0 DEF lib_isr, lib_getc, osvars, At, Go, CpuTypes, KernelPlaces, Base, Interruptible,
     Registers, TaskPcs, OsPcs, TaskRas, Handlers, TaskIds, user_task0, user_task4,
     ctx_os
<1>2. DiskTypes'
  BY <1>0 DEF lib_isr, lib_getc, osvars, At, Go, DiskTypes
<1>3. KeyTypes'
  BY <1>0, <1>a, <1>b, <1>c, KeyEchoed
<1>4. KernelPlaces'
  BY <1>0 DEF lib_isr, lib_getc, osvars, At, Go, CpuTypes, KernelPlaces, Base, Interruptible,
     Registers, TaskPcs, OsPcs, TaskRas, Handlers, TaskIds, user_task0, user_task4,
     ctx_os
<1>5. Request'
  <2>1. UNCHANGED <<disk, dev.taken>>
    BY DEF lib_isr, lib_getc, osvars, At, Go
  <2>2. Base'.pc \in {"notify", "spin"} \/ Base.pc \in {"notify", "spin"} => Base'.pc = Base.pc
    BY <1>0 DEF lib_isr, lib_getc, osvars, At, Go, CpuTypes, KernelPlaces, Base,
       Interruptible, Registers, TaskPcs, OsPcs, TaskRas, Handlers, TaskIds, user_task0,
       user_task4, ctx_os
  <2>3. Answered => Answered'
    BY <1>0 DEF lib_isr, lib_getc, osvars, At, Go, CpuTypes, Answered, Interruptible,
       Registers, TaskPcs, OsPcs, TaskRas, Handlers
  <2> QED
    BY <1>0, <2>1, <2>2, <2>3, RequestStays
<1>6. Answers'
  BY <1>0 DEF lib_isr, lib_getc, osvars, At, Go, CpuTypes, Answers, Registers
<1>7. Keys'
  BY <1>0, <1>a, <1>b, <1>c, KeyEchoed
<1> QED
  BY <1>1, <1>2, <1>3, <1>4, <1>5, <1>6, <1>7 DEF KernelIndInv, KernelTypes

LEMMA PanicInv == ASSUME KernelIndInv, panic PROVE KernelIndInv'
<1>0. CpuTypes /\ DiskTypes /\ KeyTypes /\ KernelPlaces /\ Request /\ Answers /\ Keys
  BY DEF KernelIndInv, KernelTypes
<1>1. CpuTypes'
  BY <1>0 DEF panic, kernelvars, osvars, At, CpuTypes, KernelPlaces, Base, Interruptible,
     Registers, TaskPcs, OsPcs, TaskRas, Handlers, TaskIds, user_task0, user_task4,
     ctx_os
<1>2. DiskTypes'
  BY <1>0 DEF panic, kernelvars, osvars, At, DiskTypes
<1>3. KeyTypes'
  BY <1>0 DEF panic, kernelvars, osvars, At, KeyTypes
<1>4. KernelPlaces'
  BY <1>0 DEF panic, kernelvars, osvars, At, CpuTypes, KernelPlaces, Base, Interruptible,
     Registers, TaskPcs, OsPcs, TaskRas, Handlers, TaskIds, user_task0, user_task4,
     ctx_os
<1>5. Request'
  <2>1. UNCHANGED <<disk, dev.taken>>
    BY DEF panic, kernelvars, osvars, At
  <2>2. Base'.pc \in {"notify", "spin"} \/ Base.pc \in {"notify", "spin"} => Base'.pc = Base.pc
    BY <1>0 DEF panic, kernelvars, osvars, At, CpuTypes, KernelPlaces, Base, Interruptible,
       Registers, TaskPcs, OsPcs, TaskRas, Handlers, TaskIds, user_task0, user_task4,
       ctx_os
  <2>3. Answered => Answered'
    BY <1>0 DEF panic, kernelvars, osvars, At, CpuTypes, Answered, Interruptible,
       Registers, TaskPcs, OsPcs, TaskRas, Handlers
  <2> QED
    BY <1>0, <2>1, <2>2, <2>3, RequestStays
<1>6. Answers'
  BY <1>0 DEF panic, kernelvars, osvars, At, CpuTypes, Answers, Registers
<1>7. Keys'
  BY <1>0 DEF panic, kernelvars, osvars, At, KeyTypes, CpuTypes, Registers, Keys,
     EchoInOrder
<1> QED
  BY <1>1, <1>2, <1>3, <1>4, <1>5, <1>6, <1>7 DEF KernelIndInv, KernelTypes

LEMMA QemuInv == ASSUME KernelIndInv, NEW answer \in DeviceStatus, qemu(answer)
                 PROVE KernelIndInv'
<1>0. CpuTypes /\ DiskTypes /\ KeyTypes /\ KernelPlaces /\ Request /\ Answers /\ Keys
  BY DEF KernelIndInv, KernelTypes
<1>a. Asked /\ Base.pc = "spin" /\ Base' = Base /\ UNCHANGED cpu
  BY <1>0 DEF qemu, Request, Quiet, Answered, Base, Interruptible
<1>b. /\ DOMAIN disk' = DOMAIN disk /\ disk'.status = answer /\ disk'.usedIdx = Plus1(disk.usedIdx)
      /\ disk'.data \in {dev.block, disk.data}
      /\ disk'.used = [disk.used EXCEPT ![disk.usedIdx % Queue] = disk.avail[dev.taken % Queue]]
      /\ disk'.free = disk.free /\ disk'.next = disk.next /\ disk'.head = disk.head
      /\ disk'.write = disk.write /\ disk'.busy = disk.busy /\ disk'.avail = disk.avail
      /\ disk'.idx = disk.idx /\ disk'.used_idx = disk.used_idx
      /\ disk'.vdisk_lock = disk.vdisk_lock
  BY <1>0 DEF qemu, DiskTypes
<1>c. /\ DOMAIN dev' = DOMAIN dev /\ dev'.taken = Plus1(dev.taken) /\ dev'.interrupt = TRUE
      /\ dev'.block \in {dev.block, disk.data}
  BY <1>0 DEF qemu, DiskTypes
<1>1. CpuTypes'
  BY <1>0 DEF qemu, osvars, CpuTypes, KernelPlaces, Base, Interruptible, Registers, TaskPcs,
     OsPcs, TaskRas, Handlers, TaskIds, user_task0, user_task4, ctx_os
<1>2. DiskTypes'
  <2>1. disk'.used \in [Descriptors -> Descriptors]
    BY <1>0, <1>b, KernelPlaceInRing DEF DiskTypes
  <2>2. Plus1(disk.usedIdx) \in Indices /\ Plus1(dev.taken) \in Indices
    BY <1>0, Plus1Is DEF DiskTypes
  <2> QED
    BY <1>0, <1>b, <1>c, <2>1, <2>2 DEF DiskTypes
<1>3. KeyTypes'
  BY <1>0 DEF qemu, osvars, KeyTypes
<1>4. KernelPlaces'
  BY <1>0 DEF qemu, osvars, CpuTypes, KernelPlaces, Base, Interruptible, Registers, TaskPcs,
     OsPcs, TaskRas, Handlers, TaskIds, user_task0, user_task4, ctx_os
<1>5. Request'
  <2>1. Answered'
    BY <1>a, <1>b, <1>c DEF Asked, Answered, Plus1
  <2> QED
    BY <1>0, <1>a, <1>b, <2>1 DEF Request, free_chain
<1>6. Answers'
  BY <1>0 DEF qemu, osvars, CpuTypes, Answers, Registers
<1>7. Keys'
  <2>1. UNCHANGED uart /\ (cpu'.pc = "getc2" => cpu.pc = "getc2")
    BY <1>0 DEF qemu, osvars, CpuTypes, KernelPlaces, Base, Interruptible, Registers, TaskPcs,
       OsPcs, TaskRas, Handlers
  <2> QED
    BY <1>0, <2>1, KeysStay
<1> QED
  BY <1>1, <1>2, <1>3, <1>4, <1>5, <1>6, <1>7 DEF KernelIndInv, KernelTypes

LEMMA TypeInv == ASSUME KernelIndInv, NEW c \in {"key", "\r"}, type(c) PROVE KernelIndInv'
<1>0. CpuTypes /\ DiskTypes /\ KeyTypes /\ KernelPlaces /\ Request /\ Answers /\ Keys
  BY DEF KernelIndInv, KernelTypes
<1>1. CpuTypes'
  BY <1>0 DEF type, osvars, CpuTypes, KernelPlaces, Base, Interruptible, Registers, TaskPcs,
     OsPcs, TaskRas, Handlers, TaskIds, user_task0, user_task4, ctx_os
<1>2. DiskTypes'
  BY <1>0 DEF type, osvars, DiskTypes
<1>3. KeyTypes'
  BY <1>0 DEF type, osvars, KeyTypes
<1>4. KernelPlaces'
  BY <1>0 DEF type, osvars, CpuTypes, KernelPlaces, Base, Interruptible, Registers, TaskPcs,
     OsPcs, TaskRas, Handlers, TaskIds, user_task0, user_task4, ctx_os
<1>5. Request'
  <2>1. UNCHANGED <<disk, dev.taken>>
    BY DEF type, osvars
  <2>2. Base'.pc \in {"notify", "spin"} \/ Base.pc \in {"notify", "spin"} => Base'.pc = Base.pc
    BY <1>0 DEF type, osvars, CpuTypes, KernelPlaces, Base, Interruptible, Registers, TaskPcs,
       OsPcs, TaskRas, Handlers, TaskIds, user_task0, user_task4, ctx_os
  <2>3. Answered => Answered'
    BY <1>0 DEF type, osvars, CpuTypes, Answered, Interruptible, Registers, TaskPcs,
       OsPcs, TaskRas, Handlers
  <2> QED
    BY <1>0, <2>1, <2>2, <2>3, RequestStays
<1>6. Answers'
  BY <1>0 DEF type, osvars, CpuTypes, Answers, Registers
<1>7. Keys'
  BY <1>0 DEF type, osvars, KeyTypes, CpuTypes, Registers, Keys, EchoInOrder
<1> QED
  BY <1>1, <1>2, <1>3, <1>4, <1>5, <1>6, <1>7 DEF KernelIndInv, KernelTypes

LEMMA KernelNextInv == KernelIndInv /\ [KernelNext]_kernelvars => KernelIndInv'
<1> SUFFICES ASSUME KernelIndInv, [KernelNext]_kernelvars PROVE KernelIndInv'
  OBVIOUS
<1>1. CASE UNCHANGED kernelvars
  <2>1. /\ UNCHANGED <<cpu, scratch, ctx, ctx_now, current_task, disk, dev, uart, hid, ret>>
        /\ Base' = Base
    BY <1>1 DEF kernelvars, osvars, Base, Interruptible
  <2>2. CpuTypes' /\ DiskTypes' /\ KeyTypes' /\ KernelPlaces' /\ Answers' /\ Keys'
    BY <2>1 DEF KernelIndInv, KernelTypes, CpuTypes, DiskTypes, KeyTypes, KernelPlaces, Answers, Keys,
       EchoInOrder
  <2>3. Request'
    BY <2>1, RequestStays DEF KernelIndInv, Answered
  <2> QED
    BY <2>2, <2>3 DEF KernelIndInv, KernelTypes
<1> QED
  BY <1>1, RwInv, KernelNotifyInv, SpinEndInv, MainInv, TaskGoInv, TaskInv, SyscallInv, TimerInv,
     ExternalInv, KernelCompleteInv, IsrInv, LibIsrInv, PanicInv, QemuInv, TypeInv DEF KernelNext

\* Whatever is interrupted where: a request is with the OS, with the device or
\* on its way back, and the OS and its tasks find their registers again.
THEOREM KernelInvariance == KernelSpec => []KernelIndInv
  BY KernelInitInv, KernelNextInv, PTL DEF KernelSpec

LEMMA KernelStaysSound == KernelIndInv => KernelSound
<1> SUFFICES ASSUME KernelIndInv PROVE KernelSound
  OBVIOUS
<1>1. SpinEnds
  BY DEF KernelIndInv, Request, Quiet, Asked, Answered, SpinEnds
<1>2. ChainsFreed
  BY DEF KernelIndInv, Request, ChainsFreed, Descriptors
<1>3. AnswerTrue /\ EchoInOrder
  BY DEF KernelIndInv, Answers, AnswerTrue, Keys
<1> QED
  BY <1>1, <1>2, <1>3 DEF KernelSound

\* virtio_disk_rw neither spins on what is done nor runs out of descriptors,
\* gethid does not report what it has not done, and no key is echoed twice.
THEOREM KernelIsSound == KernelSpec => []KernelSound
  BY KernelInvariance, KernelStaysSound, PTL

-----------------------------------------------------------------------------
(* A request moves its sector                                              *)

\* Steps that the caller of virtio_disk_rw cannot see.
LEMMA KernelStutters ==
  ASSUME disk'.data = disk.data, dev'.block = dev.block, disk'.write = disk.write,
         disk'.vdisk_lock = disk.vdisk_lock, Done' <=> Done
  PROVE  UNCHANGED OneBlock!vars
  BY DEF OneBlock!vars, SectorOnDisk, SectorInMemory, RequestStage

LEMMA KernelStepMaps == KernelIndInv /\ [KernelNext]_kernelvars => [OneBlock!Next]_(OneBlock!vars)
<1> SUFFICES ASSUME KernelIndInv, [KernelNext]_kernelvars
             PROVE  OneBlock!Next \/ UNCHANGED OneBlock!vars
  OBVIOUS
<1>0. CpuTypes /\ DiskTypes /\ Request
  BY DEF KernelIndInv, KernelTypes
<1>1. ASSUME NEW write \in BOOLEAN, NEW v \in Sectors, virtio_disk_rw(write, v)
      PROVE  OneBlock!Next
  <2>1. /\ ~disk.vdisk_lock /\ disk.used_idx = disk.usedIdx /\ UNCHANGED dev
        /\ disk'.vdisk_lock /\ disk'.busy /\ disk'.write = write /\ disk'.data = v
        /\ disk'.used_idx = disk.used_idx /\ disk'.usedIdx = disk.usedIdx
    BY <1>0, <1>1 DEF virtio_disk_rw, DiskTypes, Request, Quiet
  <2>2. RequestStage = [b \in {0} |-> "none"]
    BY <2>1 DEF RequestStage
  <2>3. RequestStage' = [b \in {0} |-> IF write THEN "write" ELSE "read"]
    BY <2>1 DEF RequestStage, Done
  <2>4. OneBlock!Call(0, IF write THEN "write" ELSE "read", v)
    BY <2>1, <2>2, <2>3 DEF OneBlock!Call, SectorOnDisk, SectorInMemory
  <2> QED
    BY <2>4 DEF OneBlock!Next
<1>2. CASE notify
  <2>1. /\ disk'.data = disk.data /\ UNCHANGED dev /\ disk'.write = disk.write
        /\ disk'.vdisk_lock = disk.vdisk_lock /\ disk'.busy = disk.busy
        /\ disk'.status = disk.status /\ disk'.used_idx = disk.used_idx
        /\ disk'.usedIdx = disk.usedIdx
    BY <1>0, <1>2 DEF notify, DiskTypes
  <2> QED
    BY <2>1, KernelStutters DEF Done
<1>3. CASE spin_end
  <2>1. /\ disk.vdisk_lock /\ Done /\ ~disk'.vdisk_lock
        /\ disk'.data = disk.data /\ UNCHANGED dev
    <3>1. cpu.pc = "spin" /\ Base.pc = "spin" /\ ~disk.busy
      BY <1>3 DEF spin_end, At, Base, Interruptible
    <3> QED
      BY <1>0, <1>3, <3>1 DEF spin_end, DiskTypes, Request, Done
  <2>2. RequestStage = [b \in {0} |-> "done"] /\ RequestStage' = [b \in {0} |-> "none"]
    BY <2>1 DEF RequestStage
  <2>3. OneBlock!Return(0)
    BY <2>1, <2>2 DEF OneBlock!Return, SectorOnDisk, SectorInMemory
  <2> QED
    BY <2>3 DEF OneBlock!Next
<1>4. CASE \/ os_main \/ task_go \/ user_task \/ do_syscall \/ timer_interrupt
           \/ external_handler \/ plic_complete \/ lib_isr \/ panic
           \/ \E c \in {"key", "\r"} : type(c)
           \/ UNCHANGED kernelvars
  <2>1. UNCHANGED <<disk, dev>>
    BY <1>4 DEF os_main, task_go, user_task, do_syscall, timer_interrupt, external_handler,
       plic_complete, lib_isr, panic, type, kernelvars
  <2> QED
    BY <2>1, KernelStutters DEF Done
<1>5. CASE virtio_disk_isr
  <2>1. CASE UNCHANGED disk /\ dev'.block = dev.block
    BY <2>1, KernelStutters DEF Done
  <2>2. CASE /\ disk.used_idx # disk.usedIdx /\ disk.status = 0 /\ UNCHANGED dev
             /\ disk' = [disk EXCEPT !.busy = FALSE, !.used_idx = Plus1(@)]
    <3>1. /\ disk'.data = disk.data /\ disk'.write = disk.write
          /\ disk'.vdisk_lock = disk.vdisk_lock /\ ~disk'.busy
      BY <1>0, <2>2 DEF DiskTypes
    <3> QED
      BY <2>2, <3>1, KernelStutters DEF Done
  <2>3. isr_ack /\ UNCHANGED disk => dev'.block = dev.block
    BY <1>0 DEF isr_ack, DiskTypes
  <2> QED
    BY <1>0, <1>5, <2>1, <2>2, <2>3 DEF virtio_disk_isr, isr_used, DiskTypes, DeviceStatus
<1>6. ASSUME NEW answer \in DeviceStatus, qemu(answer)
      PROVE  OneBlock!Next \/ UNCHANGED OneBlock!vars
  <2>1. /\ disk.vdisk_lock /\ disk.busy /\ disk.used_idx = disk.usedIdx
        /\ Plus1(disk.usedIdx) # disk.used_idx
    <3>1. Asked /\ Base.pc = "spin"
      BY <1>0, <1>6 DEF qemu, Request, Quiet, Answered
    <3> QED
      BY <1>0, <3>1, Plus1Is DEF Request, Asked, DiskTypes
  <2>2. /\ disk'.status = answer /\ disk'.usedIdx = Plus1(disk.usedIdx)
        /\ disk'.used_idx = disk.used_idx /\ disk'.write = disk.write /\ disk'.busy = disk.busy
        /\ disk'.vdisk_lock = disk.vdisk_lock
        /\ disk'.data = IF answer = 0 /\ ~disk.write THEN dev.block ELSE disk.data
        /\ dev'.block = IF answer = 0 /\ disk.write THEN disk.data ELSE dev.block
    BY <1>0, <1>6 DEF qemu, DiskTypes
  <2>3. ~Done /\ (Done' <=> answer = 0)
    BY <2>1, <2>2 DEF Done
  <2>4. CASE answer = 0
    <3>1. RequestStage = [b \in {0} |-> IF disk.write THEN "write" ELSE "read"]
      BY <2>1, <2>3 DEF RequestStage
    <3>2. RequestStage' = [b \in {0} |-> "done"]
      BY <2>1, <2>2, <2>3, <2>4 DEF RequestStage
    <3>3. OneBlock!Transfer(0)
      BY <2>2, <2>4, <3>1, <3>2 DEF OneBlock!Transfer, SectorOnDisk, SectorInMemory
    <3> QED
      BY <3>3 DEF OneBlock!Next
  <2>5. CASE answer # 0
    BY <2>2, <2>3, <2>5, KernelStutters
  <2> QED
    BY <2>4, <2>5
<1> QED
  BY <1>1, <1>2, <1>3, <1>4, <1>5, <1>6 DEF KernelNext

LEMMA KernelInitMaps == KernelInit => OneBlock!Init
  BY DEF KernelInit, OneBlock!Init, SectorOnDisk, SectorInMemory, RequestStage

\* However interrupts and the device fall into it, virtio_disk_rw moves its
\* sector once between its call and its return, or never returns.
THEOREM KernelRefinement == KernelSpec => ImplementsOneBlock
<1>1. KernelInit => OneBlock!Init
  BY KernelInitMaps
<1>2. KernelIndInv /\ [KernelNext]_kernelvars => [OneBlock!Next]_(OneBlock!vars)
  BY KernelStepMaps
<1> QED
  BY <1>1, <1>2, KernelInvariance, PTL DEF KernelSpec, ImplementsOneBlock, OneBlock!Spec
=============================================================================
