-------------------------- MODULE BufferCache_proof -------------------------
(***************************************************************************)
(* Proofs about BufferCache: IndInv is an inductive invariant, and through *)
(* the buffers every block behaves as the register of BlockStore.          *)
(***************************************************************************)
EXTENDS BufferCache, FiniteSetTheorems, TLAPS

USE NoneAssumption, FiniteAssumption

Working == {"acquire", "asleep", "read", "held", "drop"}
Users(b) == {p \in Procs : buf[p] = b}

\* A process has a buffer while it works on one, and knows its block.
HasBuffer == \A p \in Procs :
  /\ buf[p] # Nobody <=> at[p] \in Working
  /\ at[p] \in Working \cup {"bget"} => want[p] # Nobody

\* The sleep locks and the program counters agree on who owns what.
OwnersAgree ==
  /\ \A b \in Buffers : locked[b] # Nobody => /\ buf[locked[b]] = b
                                              /\ at[locked[b]] \in {"read", "held"}
  /\ \A p \in Procs : at[p] \in {"read", "held"} => locked[buf[p]] = p
  /\ \A p \in Procs : at[p] = "asleep" => locked[buf[p]] # Nobody

\* bread() returns buffers that have been read.
HeldValid == \A p \in Procs : at[p] = "held" => valid[buf[p]]

IndInv == /\ CacheTypeOK
          /\ OneBufferPerBlock
          /\ BufferStays
          /\ RefcntExact
          /\ HasBuffer
          /\ OwnersAgree
          /\ HeldValid
-----------------------------------------------------------------------------
(* Counting references                                                     *)

Pins(b) == IF pinned[b] THEN 1 ELSE 0

LEMMA UsersFinite ==
  \A b \in Buffers : IsFiniteSet(Users(b)) /\ Cardinality(Users(b)) \in Nat
<1>1. \A b \in Buffers : Users(b) \subseteq Procs
  BY DEF Users
<1> QED
  BY <1>1, FS_Subset, FS_CardinalityType

LEMMA RefcntOf ==
  ASSUME IndInv, NEW b \in Buffers
  PROVE  refcnt[b] = Cardinality(Users(b)) + Pins(b) /\ Pins(b) \in {0, 1}
<1>1. refcnt[b] = Cardinality(Users(b)) + (IF pinned[b] THEN 1 ELSE 0)
  BY DEF IndInv, RefcntExact, Users
<1> QED
  BY <1>1 DEF Pins

\* A buffer whose count is 0 has no user, no pin and no owner.
LEMMA Unreferenced ==
  ASSUME IndInv, NEW b \in Buffers, refcnt[b] = 0
  PROVE  /\ \A p \in Procs : buf[p] # b
         /\ ~pinned[b]
         /\ locked[b] = Nobody
<1>1. Cardinality(Users(b)) = 0 /\ Pins(b) = 0
  BY RefcntOf, UsersFinite
<1>2. Users(b) = {}
  BY <1>1, UsersFinite, FS_EmptySet
<1>3. \A p \in Procs : buf[p] # b
  BY <1>2 DEF Users
<1>4. ~pinned[b]
  BY <1>1 DEF Pins
<1>5. locked[b] = Nobody
  BY <1>3 DEF IndInv, OwnersAgree, CacheTypeOK
<1> QED
  BY <1>3, <1>4, <1>5

\* A buffer in use has a count of at least 1.
LEMMA Referenced ==
  ASSUME IndInv, NEW p \in Procs, buf[p] \in Buffers
  PROVE  refcnt[buf[p]] >= 1
<1>1. Users(buf[p]) # {}
  BY DEF Users
<1>2. Cardinality(Users(buf[p])) # 0
  BY <1>1, UsersFinite, FS_EmptySet
<1> QED
  BY <1>2, RefcntOf, UsersFinite

LEMMA NewUser ==
  ASSUME CacheTypeOK, NEW p \in Procs, buf[p] = Nobody, NEW b \in Buffers,
         buf' = [buf EXCEPT ![p] = b]
  PROVE  /\ Cardinality(Users(b)') = Cardinality(Users(b)) + 1
         /\ \A c \in Buffers \ {b} : Users(c)' = Users(c)
<1>1. Users(b)' = Users(b) \cup {p} /\ p \notin Users(b)
  BY DEF Users, CacheTypeOK
<1>2. \A c \in Buffers \ {b} : Users(c)' = Users(c)
  BY DEF Users, CacheTypeOK
<1> QED
  BY <1>1, <1>2, UsersFinite, FS_AddElement

LEMMA LostUser ==
  ASSUME CacheTypeOK, NEW p \in Procs, NEW b \in Buffers, buf[p] = b,
         buf' = [buf EXCEPT ![p] = Nobody]
  PROVE  /\ Cardinality(Users(b)') = Cardinality(Users(b)) - 1
         /\ \A c \in Buffers \ {b} : Users(c)' = Users(c)
<1>1. Users(b)' = Users(b) \ {p} /\ p \in Users(b)
  BY DEF Users, CacheTypeOK
<1>2. \A c \in Buffers \ {b} : Users(c)' = Users(c)
  BY DEF Users, CacheTypeOK
<1> QED
  BY <1>1, <1>2, UsersFinite, FS_RemoveElement
-----------------------------------------------------------------------------
(* Every action preserves IndInv                                           *)

LEMMA InitInv == BioInit => IndInv
<1> SUFFICES ASSUME BioInit PROVE IndInv
  OBVIOUS
<1>1. CacheTypeOK
  <2>1. Cardinality(Buffers) \in Nat
    BY FS_CardinalityType
  <2>2. {lru[i] : i \in DOMAIN lru} = Buffers
    <3>1. PICK n \in Nat : n = Cardinality(Buffers)
      BY <2>1
    <3>2. Cardinality(1..n) = n
      BY FS_Interval
    <3>3. lru \in Injection(1..n, Buffers)
      BY <3>1 DEF BioInit, Injection, IsInjective
    <3>4. lru \in Surjection(1..n, Buffers)
      BY <3>1, <3>2, <3>3, FS_Injection
    <3> QED
      BY <3>4 DEF Surjection
  <2>3. valid \in [Buffers -> BOOLEAN] /\ pinned \in [Buffers -> BOOLEAN]
    BY Zenon DEF BioInit
  <2> QED
    BY <2>1, <2>2, <2>3 DEF BioInit, CacheTypeOK, PCs
<1>2. RefcntExact
  <2>1. \A b \in Buffers : {p \in Procs : buf[p] = b} = {}
    BY DEF BioInit
  <2>2. \A b \in Buffers : refcnt[b] = 0 /\ ~pinned[b]
    BY DEF BioInit
  <2>3. Cardinality({}) = 0
    BY FS_EmptySet
  <2> QED
    BY <2>1, <2>2, <2>3 DEF RefcntExact
<1>3. OneBufferPerBlock /\ BufferStays
  BY DEF BioInit, OneBufferPerBlock, BufferStays
<1>4. HasBuffer /\ OwnersAgree /\ HeldValid
  BY DEF BioInit, HasBuffer, OwnersAgree, HeldValid, Working
<1> QED
  BY <1>1, <1>2, <1>3, <1>4 DEF IndInv

\* What a step that leaves buf and the counts alone leaves alone.
LEMMA SameCounts ==
  ASSUME IndInv, UNCHANGED <<buf, refcnt, pinned>> PROVE RefcntExact'
  BY DEF IndInv, RefcntExact

LEMMA CallInv ==
  ASSUME NEW p \in Procs, NEW n \in Blocks, IndInv, CallBread(p, n) PROVE IndInv'
<1> USE DEF IndInv, CallBread, Goto, cacheVars
<1>1. CacheTypeOK'
  BY DEF CacheTypeOK, PCs
<1>2. OneBufferPerBlock' /\ RefcntExact'
  BY SameCounts DEF OneBufferPerBlock
<1>3. buf[p] = Nobody
  BY DEF HasBuffer, Working
<1>4. BufferStays'
  BY <1>3 DEF BufferStays, CacheTypeOK
<1>5. HasBuffer'
  BY <1>3 DEF HasBuffer, CacheTypeOK, Working
<1>6. OwnersAgree' /\ HeldValid'
  BY DEF OwnersAgree, HeldValid, CacheTypeOK
<1> QED
  BY <1>1, <1>2, <1>4, <1>5, <1>6

LEMMA BgetHitInv == ASSUME NEW p \in Procs, IndInv, BgetHit(p) PROVE IndInv'
<1> USE DEF IndInv
<1>1. PICK b \in Buffers : /\ blockno[b] = want[p]
                           /\ refcnt' = [refcnt EXCEPT ![b] = @ + 1]
                           /\ buf' = [buf EXCEPT ![p] = b]
  BY DEF BgetHit, Cached
<1>2. /\ at[p] = "bget" /\ at' = [at EXCEPT ![p] = "acquire"]
      /\ UNCHANGED <<bdisk, lru, blockno, valid, bdata, pinned, locked, want>>
      /\ buf[p] = Nobody /\ want[p] # Nobody
  BY DEF BgetHit, Goto, HasBuffer, Working
<1>3. CacheTypeOK'
  BY <1>1, <1>2 DEF CacheTypeOK, PCs
<1>4. RefcntExact'
  <2>1. Cardinality(Users(b)') = Cardinality(Users(b)) + 1
    BY <1>1, <1>2, NewUser
  <2>2. \A c \in Buffers \ {b} : Users(c)' = Users(c)
    BY <1>1, <1>2, NewUser
  <2>3. ASSUME NEW c \in Buffers PROVE refcnt'[c] = Cardinality(Users(c)') + Pins(c)
    <3>1. CASE c = b
      <4>1. refcnt'[b] = refcnt[b] + 1
        BY <1>1 DEF CacheTypeOK
      <4> QED
        BY <2>1, <3>1, <4>1, RefcntOf, UsersFinite
    <3>2. CASE c # b
      <4>1. refcnt'[c] = refcnt[c] /\ Users(c)' = Users(c)
        BY <1>1, <2>2, <3>2 DEF CacheTypeOK
      <4> QED
        BY <4>1, RefcntOf
    <3> QED
      BY <3>1, <3>2
  <2> QED
    BY <1>2, <2>3 DEF RefcntExact, Users, Pins
<1>5. OneBufferPerBlock' /\ HeldValid'
  BY <1>1, <1>2 DEF OneBufferPerBlock, HeldValid, CacheTypeOK
<1>6. BufferStays'
  BY <1>1, <1>2 DEF BufferStays, CacheTypeOK
<1>7. HasBuffer'
  BY <1>1, <1>2 DEF HasBuffer, CacheTypeOK, Working
<1>8. OwnersAgree'
  BY <1>1, <1>2 DEF OwnersAgree, CacheTypeOK
<1> QED
  BY <1>3, <1>4, <1>5, <1>6, <1>7, <1>8

\* A free buffer changes its block: nobody uses it, and no other has the block.
LEMMA BgetMissInv == ASSUME NEW p \in Procs, IndInv, BgetMiss(p) PROVE IndInv'
<1> USE DEF IndInv
<1>1. PICK b \in Buffers : /\ refcnt[b] = 0
                           /\ blockno' = [blockno EXCEPT ![b] = want[p]]
                           /\ valid' = [valid EXCEPT ![b] = FALSE]
                           /\ refcnt' = [refcnt EXCEPT ![b] = 1]
                           /\ buf' = [buf EXCEPT ![p] = b]
  BY DEF BgetMiss, Victim, FreeAt, Invalidate
<1>2. /\ at[p] = "bget" /\ at' = [at EXCEPT ![p] = "acquire"]
      /\ \A c \in Buffers : blockno[c] # want[p]
      /\ UNCHANGED <<bdisk, lru, bdata, pinned, locked, want>>
      /\ buf[p] = Nobody /\ want[p] # Nobody
  BY DEF BgetMiss, Goto, Cached, HasBuffer, Working
<1>3. /\ \A q \in Procs : buf[q] # b
      /\ ~pinned[b] /\ locked[b] = Nobody
  BY <1>1, Unreferenced
<1>4. CacheTypeOK'
  <2>1. valid' \in [Buffers -> BOOLEAN] /\ pinned' \in [Buffers -> BOOLEAN]
    BY <1>1, <1>2 DEF CacheTypeOK
  <2> QED
    BY <1>1, <1>2, <2>1 DEF CacheTypeOK, PCs
<1>5. RefcntExact'
  <2>1. Cardinality(Users(b)') = Cardinality(Users(b)) + 1
    BY <1>1, <1>2, NewUser
  <2>2. \A c \in Buffers \ {b} : Users(c)' = Users(c)
    BY <1>1, <1>2, NewUser
  <2>3. ASSUME NEW c \in Buffers PROVE refcnt'[c] = Cardinality(Users(c)') + Pins(c)
    BY <1>1, <2>1, <2>2, RefcntOf, UsersFinite DEF CacheTypeOK
  <2> QED
    BY <1>2, <2>3 DEF RefcntExact, Users, Pins
<1>6. OneBufferPerBlock'
  BY <1>1, <1>2 DEF OneBufferPerBlock, CacheTypeOK
<1>7. BufferStays'
  BY <1>1, <1>2, <1>3 DEF BufferStays, CacheTypeOK
<1>8. HasBuffer'
  BY <1>1, <1>2 DEF HasBuffer, CacheTypeOK, Working
<1>9. OwnersAgree'
  BY <1>1, <1>2, <1>3 DEF OwnersAgree, CacheTypeOK
<1>10. HeldValid'
  <2>1. \A q \in Procs : at'[q] = "held" => buf'[q] = buf[q] /\ buf[q] # b /\ at[q] = "held"
    BY <1>1, <1>2, <1>3 DEF CacheTypeOK
  <2>2. \A q \in Procs : at[q] = "held" => buf[q] \in Buffers
    BY DEF HasBuffer, Working, CacheTypeOK
  <2> QED
    BY <1>1, <2>1, <2>2 DEF HeldValid, CacheTypeOK
<1> QED
  BY <1>4, <1>5, <1>6, <1>7, <1>8, <1>9, <1>10

LEMMA BgetPanicInv == ASSUME NEW p \in Procs, IndInv, BgetPanic(p) PROVE IndInv'
<1> USE DEF IndInv, BgetPanic, Goto, cacheVars
<1>1. CacheTypeOK'
  BY DEF CacheTypeOK, PCs
<1>2. OneBufferPerBlock' /\ RefcntExact' /\ BufferStays'
  BY SameCounts DEF OneBufferPerBlock, BufferStays
<1>3. HasBuffer'
  BY DEF HasBuffer, CacheTypeOK, Working
<1>4. OwnersAgree' /\ HeldValid'
  BY DEF OwnersAgree, HeldValid, CacheTypeOK
<1> QED
  BY <1>1, <1>2, <1>3, <1>4

LEMMA AcquireSleepInv ==
  ASSUME NEW p \in Procs, IndInv, AcquireSleep(p) PROVE IndInv'
<1> USE DEF IndInv
<1>1. /\ buf[p] \in Buffers /\ at[p] = "acquire"
      /\ UNCHANGED <<bdisk, lru, blockno, valid, bdata, refcnt, pinned, buf, want>>
  BY DEF AcquireSleep, cacheVars, HasBuffer, Working, CacheTypeOK
<1>2. \/ /\ locked[buf[p]] # Nobody /\ locked' = locked
         /\ at' = [at EXCEPT ![p] = "asleep"]
      \/ /\ locked[buf[p]] = Nobody /\ locked' = [locked EXCEPT ![buf[p]] = p]
         /\ at' = [at EXCEPT ![p] = "read"]
  BY DEF AcquireSleep, Goto
<1>3. CacheTypeOK'
  <2>1. valid' \in [Buffers -> BOOLEAN] /\ pinned' \in [Buffers -> BOOLEAN]
    BY <1>1 DEF CacheTypeOK
  <2>2. locked' \in [Buffers -> Procs \cup {Nobody}] /\ at' \in [Procs -> PCs]
    BY <1>1, <1>2 DEF CacheTypeOK, PCs
  <2> QED
    BY <1>1, <2>1, <2>2 DEF CacheTypeOK
<1>4. OneBufferPerBlock' /\ RefcntExact' /\ BufferStays'
  BY <1>1, SameCounts DEF OneBufferPerBlock, BufferStays
<1>5. HasBuffer'
  BY <1>1, <1>2 DEF HasBuffer, CacheTypeOK, Working
<1>6. OwnersAgree'
  <2>1. ASSUME NEW c \in Buffers, locked'[c] # Nobody
        PROVE  buf[locked'[c]] = c /\ at'[locked'[c]] \in {"read", "held"}
    <3>1. CASE locked'[c] = locked[c]
      <4>1. buf[locked[c]] = c /\ at[locked[c]] \in {"read", "held"} /\ locked[c] \in Procs
        BY <2>1, <3>1 DEF OwnersAgree, CacheTypeOK
      <4> QED
        BY <1>1, <1>2, <3>1, <4>1 DEF CacheTypeOK
    <3>2. CASE locked'[c] # locked[c]
      BY <1>1, <1>2, <3>2 DEF CacheTypeOK
    <3> QED
      BY <3>1, <3>2
  <2>2. ASSUME NEW q \in Procs, at'[q] \in {"read", "held"}
        PROVE  locked'[buf[q]] = q
    <3>1. CASE q = p
      BY <1>1, <1>2, <2>2, <3>1 DEF CacheTypeOK
    <3>2. CASE q # p
      <4>1. locked[buf[q]] = q /\ buf[q] \in Buffers
        BY <1>2, <2>2, <3>2 DEF OwnersAgree, HasBuffer, Working, CacheTypeOK
      <4> QED
        BY <1>1, <1>2, <4>1 DEF CacheTypeOK
    <3> QED
      BY <3>1, <3>2
  <2>3. ASSUME NEW q \in Procs, at'[q] = "asleep" PROVE locked'[buf[q]] # Nobody
    <3>1. CASE q = p
      BY <1>1, <1>2, <2>3, <3>1 DEF CacheTypeOK
    <3>2. CASE q # p
      <4>1. locked[buf[q]] # Nobody /\ buf[q] \in Buffers
        BY <1>2, <2>3, <3>2 DEF OwnersAgree, HasBuffer, Working, CacheTypeOK
      <4> QED
        BY <1>1, <1>2, <4>1 DEF CacheTypeOK
    <3> QED
      BY <3>1, <3>2
  <2> QED
    BY <1>1, <2>1, <2>2, <2>3 DEF OwnersAgree
<1>7. HeldValid'
  <2>1. \A q \in Procs : at'[q] = "held" => at[q] = "held"
    BY <1>2 DEF CacheTypeOK
  <2> QED
    BY <1>1, <2>1 DEF HeldValid
<1> QED
  BY <1>3, <1>4, <1>5, <1>6, <1>7

\* Between the sleep lock and its return bread() reads the block, if need be.
LEMMA FillBufferInv ==
  ASSUME NEW p \in Procs, IndInv, FillBuffer(p) PROVE IndInv'
<1> USE DEF IndInv
<1>1. /\ at[p] = "read" /\ at' = [at EXCEPT ![p] = "held"]
      /\ UNCHANGED <<bdisk, lru, blockno, refcnt, pinned, locked, buf, want>>
  BY DEF FillBuffer, Goto
<1>2. /\ buf[p] \in Buffers /\ locked[buf[p]] = p
      /\ blockno[buf[p]] = want[p] /\ want[p] \in Blocks
  BY <1>1 DEF HasBuffer, Working, OwnersAgree, BufferStays, CacheTypeOK
<1>3. /\ valid' = [valid EXCEPT ![buf[p]] = TRUE]
      /\ bdata' \in [Buffers -> Contents]
      /\ \A c \in Buffers \ {buf[p]} : bdata'[c] = bdata[c]
  <2>1. CASE valid[buf[p]]
    BY <1>2, <2>1 DEF FillBuffer, CacheTypeOK
  <2>2. CASE ~valid[buf[p]]
    <3>1. bdisk[blockno[buf[p]]] \in Contents
      BY <1>2 DEF CacheTypeOK
    <3>2. /\ bdata' = [bdata EXCEPT ![buf[p]] = bdisk[blockno[buf[p]]]]
          /\ valid' = [valid EXCEPT ![buf[p]] = TRUE]
      BY <2>2 DEF FillBuffer
    <3> QED
      BY <1>2, <3>1, <3>2 DEF CacheTypeOK
  <2> QED
    BY <2>1, <2>2
<1>4. CacheTypeOK'
  <2>1. valid' \in [Buffers -> BOOLEAN] /\ pinned' \in [Buffers -> BOOLEAN]
    BY <1>1, <1>3 DEF CacheTypeOK
  <2> QED
    BY <1>1, <1>3, <2>1 DEF CacheTypeOK, PCs
<1>5. OneBufferPerBlock' /\ RefcntExact' /\ BufferStays'
  BY <1>1, SameCounts DEF OneBufferPerBlock, BufferStays
<1>6. HasBuffer'
  BY <1>1 DEF HasBuffer, CacheTypeOK, Working
<1>7. OwnersAgree'
  BY <1>1 DEF OwnersAgree, CacheTypeOK
<1>8. HeldValid'
  <2>1. \A q \in Procs : at'[q] = "held" => buf[q] \in Buffers /\ (q = p \/ at[q] = "held")
    BY <1>1, <1>2 DEF HasBuffer, Working, CacheTypeOK
  <2> QED
    BY <1>1, <1>2, <1>3, <2>1 DEF HeldValid, CacheTypeOK
<1> QED
  BY <1>4, <1>5, <1>6, <1>7, <1>8

\* The owner of a buffer, as the actions that need holdingsleep() see it.
LEMMA HolderHas ==
  ASSUME IndInv, NEW p \in Procs, HoldingSleep(p)
  PROVE  /\ buf[p] \in Buffers /\ locked[buf[p]] = p /\ valid[buf[p]]
         /\ blockno[buf[p]] = want[p] /\ want[p] \in Blocks
  BY DEF HoldingSleep, IndInv, HasBuffer, Working, BufferStays, HeldValid, CacheTypeOK

LEMMA ModifyInv ==
  ASSUME NEW p \in Procs, NEW v \in Contents, IndInv, Modify(p, v) PROVE IndInv'
<1> USE DEF IndInv, Modify
<1>1. CacheTypeOK'
  <2>1. bdata' \in [Buffers -> Contents]
    BY HolderHas DEF CacheTypeOK
  <2>2. valid' \in [Buffers -> BOOLEAN] /\ pinned' \in [Buffers -> BOOLEAN]
    BY Zenon DEF CacheTypeOK
  <2> QED
    BY <2>1, <2>2 DEF CacheTypeOK
<1>2. OneBufferPerBlock' /\ RefcntExact' /\ BufferStays'
  BY SameCounts DEF OneBufferPerBlock, BufferStays
<1>3. HasBuffer' /\ OwnersAgree'
  BY DEF HasBuffer, OwnersAgree
<1>4. HeldValid'
  BY HolderHas DEF HeldValid, CacheTypeOK
<1> QED
  BY <1>1, <1>2, <1>3, <1>4

LEMMA BwriteInv == ASSUME NEW p \in Procs, IndInv, Bwrite(p) PROVE IndInv'
<1> USE DEF IndInv, Bwrite, cacheVars
<1>1. CacheTypeOK'
  BY HolderHas DEF CacheTypeOK
<1>2. OneBufferPerBlock' /\ RefcntExact' /\ BufferStays'
  BY SameCounts DEF OneBufferPerBlock, BufferStays
<1>3. HasBuffer' /\ OwnersAgree'
  BY DEF HasBuffer, OwnersAgree
<1>4. HeldValid'
  BY DEF HeldValid
<1> QED
  BY <1>1, <1>2, <1>3, <1>4

LEMMA BpinInv == ASSUME NEW p \in Procs, IndInv, Bpin(p) PROVE IndInv'
<1> USE DEF IndInv, Bpin
<1>1. CacheTypeOK'
  <2>1. pinned' \in [Buffers -> BOOLEAN] /\ valid' \in [Buffers -> BOOLEAN]
    BY DEF CacheTypeOK
  <2> QED
    BY <2>1 DEF CacheTypeOK
<1>2. RefcntExact'
  <2>1. buf[p] \in Buffers /\ ~pinned[buf[p]]
    BY HolderHas
  <2>2. ASSUME NEW c \in Buffers PROVE refcnt'[c] = Cardinality(Users(c)) + Pins(c)'
    <3>1. CASE c = buf[p]
      <4>1. Pins(c) = 0 /\ Pins(c)' = 1
        BY <2>1, <3>1 DEF Pins, CacheTypeOK
      <4> QED
        BY <2>1, <3>1, <4>1, RefcntOf, UsersFinite DEF CacheTypeOK
    <3>2. CASE c # buf[p]
      <4>1. Pins(c)' = Pins(c)
        BY <3>2 DEF Pins, CacheTypeOK
      <4> QED
        BY <3>2, <4>1, RefcntOf DEF CacheTypeOK
    <3> QED
      BY <3>1, <3>2
  <2> QED
    BY <2>2 DEF RefcntExact, Users, Pins
<1>3. OneBufferPerBlock' /\ BufferStays' /\ HasBuffer' /\ OwnersAgree'
  BY DEF OneBufferPerBlock, BufferStays, HasBuffer, OwnersAgree
<1>4. HeldValid'
  BY DEF HeldValid, CacheTypeOK
<1> QED
  BY <1>1, <1>2, <1>3, <1>4

LEMMA BunpinInv == ASSUME NEW p \in Procs, IndInv, Bunpin(p) PROVE IndInv'
<1> USE DEF IndInv, Bunpin
<1>1. buf[p] \in Buffers /\ pinned[buf[p]] /\ locked[buf[p]] = p
  BY HolderHas
<1>2. ASSUME NEW c \in Buffers
      PROVE  refcnt'[c] = Cardinality(Users(c)) + Pins(c)' /\ Pins(c)' \in {0, 1}
  <2>1. CASE c = buf[p]
    <3>1. Pins(c) = 1 /\ Pins(c)' = 0
      BY <1>1, <2>1 DEF Pins, CacheTypeOK
    <3> QED
      BY <1>1, <2>1, <3>1, RefcntOf, UsersFinite DEF CacheTypeOK
  <2>2. CASE c # buf[p]
    <3>1. Pins(c)' = Pins(c)
      BY <2>2 DEF Pins, CacheTypeOK
    <3> QED
      BY <2>2, <3>1, RefcntOf DEF CacheTypeOK
  <2> QED
    BY <2>1, <2>2
<1>3. CacheTypeOK'
  <2>1. pinned' \in [Buffers -> BOOLEAN] /\ valid' \in [Buffers -> BOOLEAN]
    BY DEF CacheTypeOK
  <2>2. \A c \in Buffers : refcnt'[c] \in Nat
    BY <1>2, UsersFinite
  <2>3. refcnt' \in [Buffers -> Nat]
    BY <2>2 DEF CacheTypeOK
  <2> QED
    BY <2>1, <2>3 DEF CacheTypeOK
<1>4. RefcntExact'
  BY <1>2 DEF RefcntExact, Users, Pins
<1>5. OneBufferPerBlock' /\ BufferStays' /\ HasBuffer' /\ OwnersAgree'
  BY DEF OneBufferPerBlock, BufferStays, HasBuffer, OwnersAgree
<1>6. HeldValid'
  BY <1>1 DEF HeldValid, CacheTypeOK
<1> QED
  BY <1>3, <1>4, <1>5, <1>6

LEMMA BrelseUnlockInv ==
  ASSUME NEW p \in Procs, IndInv, BrelseUnlock(p) PROVE IndInv'
<1> USE DEF IndInv
<1>1. /\ buf[p] \in Buffers /\ at[p] = "held" /\ locked[buf[p]] = p
      /\ locked' = [locked EXCEPT ![buf[p]] = Nobody]
      /\ UNCHANGED <<bdisk, lru, blockno, valid, bdata, refcnt, pinned, buf, want>>
  BY HolderHas DEF BrelseUnlock, HoldingSleep, cacheVars
<1>2. /\ at' \in [Procs -> PCs]
      /\ at'[p] = "drop"
      /\ \A q \in Procs \ {p} :
           IF at[q] = "asleep" /\ buf[q] = buf[p] THEN at'[q] = "acquire"
                                                  ELSE at'[q] = at[q]
  BY DEF BrelseUnlock, Waken, Woken, CacheTypeOK, PCs
<1>3. CacheTypeOK'
  BY <1>1, <1>2 DEF CacheTypeOK
<1>4. OneBufferPerBlock' /\ RefcntExact' /\ BufferStays'
  BY <1>1, SameCounts DEF OneBufferPerBlock, BufferStays
<1>5. HasBuffer'
  BY <1>1, <1>2 DEF HasBuffer, Working
<1>6. OwnersAgree'
  <2>1. ASSUME NEW c \in Buffers, locked'[c] # Nobody
        PROVE  buf'[locked'[c]] = c /\ at'[locked'[c]] \in {"read", "held"}
    <3>1. c # buf[p] /\ locked'[c] = locked[c] /\ locked[c] \in Procs
      BY <1>1, <2>1 DEF CacheTypeOK
    <3>2. buf[locked[c]] = c /\ at[locked[c]] \in {"read", "held"}
      BY <3>1 DEF OwnersAgree, CacheTypeOK
    <3>3. locked[c] # p /\ at'[locked[c]] = at[locked[c]]
      BY <1>2, <3>1, <3>2
    <3> QED
      BY <1>1, <3>1, <3>2, <3>3
  <2>2. ASSUME NEW q \in Procs, at'[q] \in {"read", "held"}
        PROVE  locked'[buf'[q]] = q
    <3>1. q # p /\ at'[q] = at[q]
      BY <1>2, <2>2
    <3>2. locked[buf[q]] = q /\ buf[q] \in Buffers
      BY <2>2, <3>1 DEF OwnersAgree, HasBuffer, Working, CacheTypeOK
    <3> QED
      BY <1>1, <3>1, <3>2 DEF CacheTypeOK
  <2>3. ASSUME NEW q \in Procs, at'[q] = "asleep" PROVE locked'[buf'[q]] # Nobody
    <3>1. q # p /\ at[q] = "asleep" /\ buf[q] # buf[p]
      BY <1>2, <2>3
    <3>2. locked[buf[q]] # Nobody /\ buf[q] \in Buffers
      BY <3>1 DEF OwnersAgree, HasBuffer, Working, CacheTypeOK
    <3> QED
      BY <1>1, <3>1, <3>2 DEF CacheTypeOK
  <2> QED
    BY <2>1, <2>2, <2>3 DEF OwnersAgree
<1>7. HeldValid'
  BY <1>1, <1>2 DEF HeldValid, CacheTypeOK
<1> QED
  BY <1>3, <1>4, <1>5, <1>6, <1>7

\* Moving a buffer to the front keeps every buffer in the list.
LEMMA ToFrontKeeps ==
  ASSUME CacheTypeOK, NEW b \in Buffers, ToFront(b)
  PROVE  /\ lru' \in [1..Cardinality(Buffers) -> Buffers]
         /\ {lru'[i] : i \in DOMAIN lru'} = Buffers
<1>1. PICK n \in Nat : n = Cardinality(Buffers)
  BY FS_CardinalityType
<1>2. lru \in [1..n -> Buffers] /\ {lru[i] : i \in 1..n} = Buffers
  BY <1>1 DEF CacheTypeOK
<1>3. Place(b) \in 1..n /\ lru[Place(b)] = b
  BY <1>2 DEF Place
<1>4. lru' = [i \in 1..n |-> IF i = 1 THEN b
                             ELSE IF i <= Place(b) THEN lru[i - 1] ELSE lru[i]]
  BY <1>2 DEF ToFront
<1>5. lru' \in [1..n -> Buffers]
  BY <1>2, <1>3, <1>4
<1>6. ASSUME NEW c \in Buffers PROVE \E i \in 1..n : lru'[i] = c
  <2>1. PICK j \in 1..n : lru[j] = c
    BY <1>2
  <2>2. CASE j < Place(b)
    <3>1. j + 1 \in 1..n /\ j + 1 # 1 /\ j + 1 <= Place(b) /\ (j + 1) - 1 = j
      BY <1>3, <2>2
    <3> QED
      BY <1>4, <2>1, <3>1
  <2>3. CASE j = Place(b)
    BY <1>3, <1>4, <2>1, <2>3
  <2>4. CASE j > Place(b)
    BY <1>3, <1>4, <2>1, <2>4
  <2> QED
    BY <1>3, <2>2, <2>3, <2>4
<1> QED
  BY <1>1, <1>5, <1>6

LEMMA BrelseDropInv ==
  ASSUME NEW p \in Procs, IndInv, BrelseDrop(p) PROVE IndInv'
<1> USE DEF IndInv
<1>1. /\ at[p] = "drop" /\ at' = [at EXCEPT ![p] = "idle"]
      /\ refcnt' = [refcnt EXCEPT ![buf[p]] = @ - 1]
      /\ buf' = [buf EXCEPT ![p] = Nobody] /\ want' = [want EXCEPT ![p] = Nobody]
      /\ UNCHANGED <<bdisk, blockno, valid, bdata, pinned, locked>>
  BY DEF BrelseDrop, Goto
<1>2. PICK b \in Buffers : buf[p] = b
  BY <1>1 DEF HasBuffer, Working, CacheTypeOK
<1>3. /\ lru' \in [1..Cardinality(Buffers) -> Buffers]
      /\ {lru'[i] : i \in DOMAIN lru'} = Buffers
  <2>1. CASE ToFront(b)
    BY <2>1, ToFrontKeeps
  <2>2. CASE lru' = lru
    BY <2>2 DEF CacheTypeOK
  <2> QED
    BY <1>2, <2>1, <2>2 DEF BrelseDrop
<1>4. RefcntExact' /\ refcnt' \in [Buffers -> Nat]
  <2>1. Cardinality(Users(b)') = Cardinality(Users(b)) - 1
    BY <1>1, <1>2, LostUser
  <2>2. \A c \in Buffers \ {b} : Users(c)' = Users(c)
    BY <1>1, <1>2, LostUser
  <2>3. ASSUME NEW c \in Buffers PROVE refcnt'[c] = Cardinality(Users(c)') + Pins(c)
    <3>1. CASE c = b
      <4>1. refcnt'[b] = refcnt[b] - 1
        BY <1>1, <1>2 DEF CacheTypeOK
      <4> QED
        BY <2>1, <3>1, <4>1, RefcntOf, UsersFinite
    <3>2. CASE c # b
      <4>1. refcnt'[c] = refcnt[c] /\ Users(c)' = Users(c)
        BY <1>1, <1>2, <2>2, <3>2 DEF CacheTypeOK
      <4> QED
        BY <4>1, RefcntOf
    <3> QED
      BY <3>1, <3>2
  <2>4. refcnt[b] >= 1
    BY <1>2, Referenced
  <2>5. refcnt' \in [Buffers -> Nat]
    BY <1>1, <1>2, <2>4 DEF CacheTypeOK
  <2> QED
    BY <1>1, <2>3, <2>5 DEF RefcntExact, Users, Pins
<1>5. CacheTypeOK'
  BY <1>1, <1>3, <1>4 DEF CacheTypeOK, PCs
<1>6. OneBufferPerBlock' /\ HeldValid'
  BY <1>1 DEF OneBufferPerBlock, HeldValid, CacheTypeOK
<1>7. BufferStays'
  BY <1>1 DEF BufferStays, CacheTypeOK
<1>8. HasBuffer'
  BY <1>1 DEF HasBuffer, CacheTypeOK, Working
<1>9. OwnersAgree'
  BY <1>1 DEF OwnersAgree, CacheTypeOK
<1> QED
  BY <1>4, <1>5, <1>6, <1>7, <1>8, <1>9

LEMMA StutterInv == ASSUME IndInv, UNCHANGED bioVars PROVE IndInv'
<1> USE DEF IndInv, bioVars
<1>1. CacheTypeOK'
  BY DEF CacheTypeOK
<1>2. OneBufferPerBlock' /\ BufferStays' /\ RefcntExact'
  BY DEF OneBufferPerBlock, BufferStays, RefcntExact
<1>3. HasBuffer' /\ OwnersAgree' /\ HeldValid'
  BY DEF HasBuffer, OwnersAgree, HeldValid
<1> QED
  BY <1>1, <1>2, <1>3

LEMMA NextInv == IndInv /\ [BioNext]_bioVars => IndInv'
<1> SUFFICES ASSUME IndInv, [BioNext]_bioVars PROVE IndInv'
  OBVIOUS
<1>1. ASSUME NEW p \in Procs, NEW n \in Blocks, CallBread(p, n) PROVE IndInv'
  BY <1>1, CallInv
<1>2. ASSUME NEW p \in Procs, Bread(p) PROVE IndInv'
  BY <1>2, BgetHitInv, BgetMissInv, BgetPanicInv, AcquireSleepInv, FillBufferInv
     DEF Bread
<1>3. ASSUME NEW p \in Procs, Use(p) PROVE IndInv'
  BY <1>3, ModifyInv, BwriteInv, BpinInv, BunpinInv DEF Use
<1>4. ASSUME NEW p \in Procs, Brelse(p) PROVE IndInv'
  BY <1>4, BrelseUnlockInv, BrelseDropInv DEF Brelse
<1> QED
  BY <1>1, <1>2, <1>3, <1>4, StutterInv DEF BioNext

\* The invariant the other theorems rest on: bcache.lock, the reference counts
\* and the sleep locks together keep a buffer, its block and its user in step.
THEOREM Invariance == BioSpec => []IndInv
<1> QED
  BY InitInv, NextInv, PTL DEF BioSpec

\* The list of buffers loses none of them, and no count becomes negative.
THEOREM TypeCorrect == BioSpec => []CacheTypeOK
<1>1. IndInv => CacheTypeOK
  BY DEF IndInv
<1> QED
  BY <1>1, Invariance, PTL

\* bget() never makes two buffers for one block.
THEOREM NoTwoBuffers == BioSpec => []OneBufferPerBlock
<1>1. IndInv => OneBufferPerBlock
  BY DEF IndInv
<1> QED
  BY <1>1, Invariance, PTL

\* From bget() to brelse() a process's buffer is not recycled.
THEOREM NotRecycled == BioSpec => []BufferStays
<1>1. IndInv => BufferStays
  BY DEF IndInv
<1> QED
  BY <1>1, Invariance, PTL

\* refcnt is the number of processes that use the buffer, and the log's pin.
THEOREM CountsExact == BioSpec => []RefcntExact
<1>1. IndInv => RefcntExact
  BY DEF IndInv
<1> QED
  BY <1>1, Invariance, PTL

\* A sleeper's lock has an owner that will release it.
THEOREM NoSleeperLeft == BioSpec => []SleeperHasOwner
<1>1. IndInv => SleeperHasOwner
  <2> SUFFICES ASSUME IndInv, NEW p \in Procs, at[p] = "asleep"
               PROVE  /\ locked[buf[p]] \in Procs \ {p}
                      /\ at[locked[buf[p]]] \in {"read", "held"}
    BY DEF SleeperHasOwner
  <2>1. buf[p] \in Buffers /\ locked[buf[p]] # Nobody
    BY DEF IndInv, HasBuffer, Working, OwnersAgree, CacheTypeOK
  <2>2. at[locked[buf[p]]] \in {"read", "held"} /\ locked[buf[p]] \in Procs
    BY <2>1 DEF IndInv, OwnersAgree, CacheTypeOK
  <2> QED
    BY <2>2
<1> QED
  BY <1>1, Invariance, PTL

\* The five facts together.
THEOREM CacheIsSound == BioSpec => []CacheSound
<1>1. CacheTypeOK /\ OneBufferPerBlock /\ BufferStays /\ RefcntExact /\ SleeperHasOwner
        => CacheSound
  BY DEF CacheSound
<1> QED
  BY <1>1, TypeCorrect, NoTwoBuffers, NotRecycled, CountsExact, NoSleeperLeft, PTL
-----------------------------------------------------------------------------
(* BufferCache implements BlockStore                                       *)

\* What the abstract store sees of a block with a buffer, before a step ...
LEMMA ViewNow ==
  ASSUME OneBufferPerBlock, CacheTypeOK, NEW b \in Buffers, NEW n \in Blocks, blockno[b] = n
  PROVE  /\ Owner(n) = locked[b]
         /\ Value(n) = IF valid[b] THEN bdata[b] ELSE bdisk[n]
         /\ n \in Pinned <=> pinned[b]
<1>1. InCache(n) /\ BufferOf(n) = b
  BY DEF InCache, BufferOf, OneBufferPerBlock
<1> QED
  BY <1>1 DEF Owner, Value, Pinned

\* ... and after it.
LEMMA ViewNext ==
  ASSUME OneBufferPerBlock', NEW b \in Buffers, NEW n \in Blocks, blockno'[b] = n
  PROVE  /\ Owner(n)' = locked'[b]
         /\ Value(n)' = IF valid'[b] THEN bdata'[b] ELSE bdisk'[n]
         /\ n \in Pinned' <=> pinned'[b]
<1>1. InCache(n)' /\ BufferOf(n)' = b
  BY DEF InCache, BufferOf, OneBufferPerBlock
<1> QED
  BY <1>1 DEF Owner, Value, Pinned

LEMMA ViewSame ==
  ASSUME \A n \in Blocks : Owner(n)' = Owner(n) /\ Value(n)' = Value(n),
         bdisk' = bdisk, Pinned' = Pinned
  PROVE  UNCHANGED Store!vars
  BY DEF Store!vars

LEMMA PinnedSame == ASSUME UNCHANGED <<blockno, pinned>> PROVE Pinned' = Pinned
  BY DEF Pinned, InCache, BufferOf

LEMMA InitRefines == BioInit => Store!Init
<1> SUFFICES ASSUME BioInit PROVE Store!Init
  OBVIOUS
<1>1. \A n \in Blocks : ~InCache(n)
  BY DEF BioInit, InCache
<1>2. \A n \in Blocks : Owner(n) = Nobody /\ Value(n) = bdisk[n]
  BY <1>1 DEF Owner, Value
<1>3. Pinned = {}
  BY <1>1 DEF Pinned
<1> QED
  BY <1>2, <1>3 DEF Store!Init, BioInit

LEMMA SilentRefines ==
  ASSUME UNCHANGED <<bdisk, blockno, valid, bdata, locked, pinned>> PROVE UNCHANGED Store!vars
  BY DEF Store!vars, Owner, Value, Pinned, InCache, BufferOf

\* Recycling a buffer shows nothing of the new block, which is still to be read; of
\* the old one a change that was not written is forgotten.
LEMMA BgetMissRefines ==
  ASSUME NEW p \in Procs, IndInv, BgetMiss(p) PROVE [Store!Next]_Store!vars
<1>0. OneBufferPerBlock /\ OneBufferPerBlock' /\ CacheTypeOK
  BY BgetMissInv DEF IndInv
<1>1. PICK b \in Buffers : /\ refcnt[b] = 0
                           /\ blockno' = [blockno EXCEPT ![b] = want[p]]
                           /\ valid' = [valid EXCEPT ![b] = FALSE]
  BY DEF BgetMiss, Victim, FreeAt, Invalidate
<1>2. /\ \A c \in Buffers : blockno[c] # want[p]
      /\ UNCHANGED <<bdisk, bdata, locked, pinned>>
      /\ want[p] # Nobody
  BY DEF BgetMiss, Cached, IndInv, HasBuffer, Working
<1>3. locked[b] = Nobody /\ ~pinned[b]
  BY <1>1, Unreferenced
<1>4. blockno'[b] = want[p] /\ ~valid'[b]
  BY <1>0, <1>1 DEF CacheTypeOK
<1>5. \A c \in Buffers \ {b} : blockno'[c] = blockno[c] /\ valid'[c] = valid[c]
  BY <1>0, <1>1 DEF CacheTypeOK
<1>6. ASSUME NEW n \in Blocks
      PROVE  /\ Owner(n)' = Owner(n) /\ (n \in Pinned' <=> n \in Pinned)
             /\ IF n = blockno[b] THEN /\ Owner(n) = Nobody /\ n \notin Pinned
                                       /\ Value(n)' = bdisk[n]
                                  ELSE Value(n)' = Value(n)
  <2>1. CASE n = want[p]
    <3>1. Owner(n) = Nobody /\ Value(n) = bdisk[n] /\ n \notin Pinned /\ n # blockno[b]
      BY <1>2, <2>1 DEF Owner, Value, InCache, Pinned
    <3>2. Owner(n)' = Nobody /\ Value(n)' = bdisk[n] /\ n \notin Pinned'
      BY <1>0, <1>2, <1>3, <1>4, <2>1, ViewNext
    <3> QED
      BY <3>1, <3>2
  <2>2. CASE n = blockno[b]
    <3>1. Owner(n) = Nobody /\ n \notin Pinned
      BY <1>0, <1>3, <2>2, ViewNow
    <3>2. ~InCache(n)'
      BY <1>0, <1>2, <1>4, <1>5, <2>2 DEF InCache, OneBufferPerBlock
    <3> QED
      BY <1>2, <2>2, <3>1, <3>2 DEF Owner, Value, Pinned
  <2>3. CASE n # want[p] /\ n # blockno[b] /\ InCache(n)
    <3>1. PICK c \in Buffers : blockno[c] = n
      BY <2>3 DEF InCache
    <3>2. c # b /\ blockno'[c] = n
      BY <1>5, <2>3, <3>1
    <3>3. /\ Owner(n) = locked[c] /\ (n \in Pinned <=> pinned[c])
          /\ Value(n) = IF valid[c] THEN bdata[c] ELSE bdisk[n]
      BY <1>0, <3>1, ViewNow
    <3>4. /\ Owner(n)' = locked'[c] /\ (n \in Pinned' <=> pinned'[c])
          /\ Value(n)' = IF valid'[c] THEN bdata'[c] ELSE bdisk'[n]
      BY <1>0, <3>2, ViewNext
    <3> QED
      BY <1>2, <1>5, <2>3, <3>2, <3>3, <3>4
  <2>4. CASE n # want[p] /\ n # blockno[b] /\ ~InCache(n)
    <3>1. ~InCache(n)'
      BY <1>4, <1>5, <2>4 DEF InCache
    <3> QED
      BY <1>2, <2>4, <3>1 DEF Owner, Value, Pinned
  <2> QED
    BY <2>1, <2>2, <2>3, <2>4
<1>7. Pinned' = Pinned
  BY <1>6 DEF Pinned
<1>8. CASE blockno[b] \in Blocks
  <2>1. PICK m \in Blocks : m = blockno[b]
    BY <1>8
  <2>2. Store!Forget(m)
    BY <1>2, <1>6, <1>7, <2>1 DEF Store!Forget
  <2> QED
    BY <2>2 DEF Store!Next
<1>9. CASE blockno[b] \notin Blocks
  BY <1>2, <1>6, <1>7, <1>9, ViewSame
<1> QED
  BY <1>8, <1>9

\* A step on the buffer b of block m, which keeps the blocks of all buffers, is
\* seen at m only.
LEMMA StepAt ==
  ASSUME IndInv, IndInv', NEW b \in Buffers, NEW m \in Blocks, blockno[b] = m,
         blockno' = blockno,
         \A n \in Blocks \ {m} : bdisk'[n] = bdisk[n],
         \A c \in Buffers \ {b} : /\ valid'[c] = valid[c] /\ bdata'[c] = bdata[c]
                                  /\ locked'[c] = locked[c]
  PROVE  /\ \A n \in Blocks \ {m} : Owner(n)' = Owner(n) /\ Value(n)' = Value(n)
         /\ Owner(m) = locked[b] /\ Owner(m)' = locked'[b]
         /\ Value(m) = IF valid[b] THEN bdata[b] ELSE bdisk[m]
         /\ Value(m)' = IF valid'[b] THEN bdata'[b] ELSE bdisk'[m]
<1>0. OneBufferPerBlock /\ OneBufferPerBlock' /\ CacheTypeOK
  BY DEF IndInv
<1>1. ASSUME NEW n \in Blocks \ {m}
      PROVE  Owner(n)' = Owner(n) /\ Value(n)' = Value(n)
  <2>1. CASE InCache(n)
    <3>1. PICK c \in Buffers : blockno[c] = n
      BY <2>1 DEF InCache
    <3>2. /\ Owner(n) = locked[c]
          /\ Value(n) = IF valid[c] THEN bdata[c] ELSE bdisk[n]
      BY <1>0, <3>1, ViewNow
    <3>3. /\ Owner(n)' = locked'[c]
          /\ Value(n)' = IF valid'[c] THEN bdata'[c] ELSE bdisk'[n]
      BY <1>0, <3>1, ViewNext
    <3>4. c # b
      BY <3>1
    <3> QED
      BY <3>2, <3>3, <3>4
  <2>2. CASE ~InCache(n)
    <3>1. ~InCache(n)'
      BY <2>2 DEF InCache
    <3> QED
      BY <2>2, <3>1 DEF Owner, Value
  <2> QED
    BY <2>1, <2>2
<1>2. /\ Owner(m) = locked[b]
      /\ Value(m) = IF valid[b] THEN bdata[b] ELSE bdisk[m]
  BY <1>0, ViewNow
<1>3. /\ Owner(m)' = locked'[b]
      /\ Value(m)' = IF valid'[b] THEN bdata'[b] ELSE bdisk'[m]
  BY <1>0, ViewNext
<1> QED
  BY <1>1, <1>2, <1>3

LEMMA PinnedAt ==
  ASSUME IndInv, IndInv', NEW b \in Buffers, NEW m \in Blocks, blockno[b] = m,
         blockno' = blockno, \A c \in Buffers \ {b} : pinned'[c] = pinned[c]
  PROVE  Pinned' = IF pinned'[b] THEN Pinned \cup {m} ELSE Pinned \ {m}
<1>0. OneBufferPerBlock /\ OneBufferPerBlock' /\ CacheTypeOK
  BY DEF IndInv
<1>1. m \in Pinned' <=> pinned'[b]
  BY <1>0, ViewNext
<1>2. ASSUME NEW n \in Blocks \ {m} PROVE n \in Pinned' <=> n \in Pinned
  <2>1. CASE InCache(n)
    <3>1. PICK c \in Buffers : blockno[c] = n
      BY <2>1 DEF InCache
    <3>2. /\ n \in Pinned <=> pinned[c]
          /\ n \in Pinned' <=> pinned'[c]
      BY <1>0, <3>1, ViewNow, ViewNext
    <3>3. c # b
      BY <3>1
    <3> QED
      BY <3>2, <3>3
  <2>2. CASE ~InCache(n)
    BY <2>2 DEF InCache, Pinned
  <2> QED
    BY <2>1, <2>2
<1>3. Pinned \subseteq Blocks /\ Pinned' \subseteq Blocks
  BY DEF Pinned
<1> QED
  BY <1>1, <1>2, <1>3

\* The sleep lock is where a process becomes the owner of a block.
LEMMA AcquireSleepRefines ==
  ASSUME NEW p \in Procs, IndInv, AcquireSleep(p) PROVE [Store!Next]_Store!vars
<1>1. /\ IndInv' /\ UNCHANGED <<bdisk, blockno, valid, bdata, pinned>>
      /\ Pinned' = Pinned
  BY AcquireSleepInv, PinnedSame DEF AcquireSleep, cacheVars
<1>2. CASE locked' = locked
  BY <1>1, <1>2, SilentRefines
<1>3. CASE locked[buf[p]] = Nobody /\ locked' = [locked EXCEPT ![buf[p]] = p]
  <2>1. PICK b \in Buffers : b = buf[p]
    BY DEF AcquireSleep, IndInv, HasBuffer, Working, CacheTypeOK
  <2>2. PICK m \in Blocks : m = blockno[b]
    BY <2>1 DEF AcquireSleep, IndInv, HasBuffer, Working, BufferStays, CacheTypeOK
  <2>3. locked'[b] = p /\ \A c \in Buffers \ {b} : locked'[c] = locked[c]
    BY <1>3, <2>1 DEF IndInv, CacheTypeOK
  <2>4. /\ \A n \in Blocks \ {m} : Owner(n)' = Owner(n) /\ Value(n)' = Value(n)
        /\ Owner(m) = Nobody /\ Owner(m)' = p /\ Value(m)' = Value(m)
    BY <1>1, <1>3, <2>1, <2>2, <2>3, StepAt
  <2>5. Store!Acquire(p, m)
    BY <1>1, <2>4 DEF Store!Acquire
  <2> QED
    BY <2>5 DEF Store!Next
<1> QED
  BY <1>2, <1>3 DEF AcquireSleep

LEMMA FillBufferRefines ==
  ASSUME NEW p \in Procs, IndInv, FillBuffer(p) PROVE UNCHANGED Store!vars
<1>1. IndInv' /\ UNCHANGED <<bdisk, blockno, locked, pinned>> /\ Pinned' = Pinned
  BY FillBufferInv, PinnedSame DEF FillBuffer
<1>2. CASE valid[buf[p]]
  BY <1>1, <1>2, SilentRefines DEF FillBuffer
<1>3. CASE ~valid[buf[p]]
  <2>1. PICK b \in Buffers : b = buf[p]
    BY DEF FillBuffer, IndInv, HasBuffer, Working, CacheTypeOK
  <2>2. PICK m \in Blocks : m = blockno[b]
    BY <2>1 DEF FillBuffer, IndInv, HasBuffer, Working, BufferStays, CacheTypeOK
  <2>3. /\ bdata' = [bdata EXCEPT ![b] = bdisk[m]]
        /\ valid' = [valid EXCEPT ![b] = TRUE]
    BY <1>3, <2>1, <2>2 DEF FillBuffer
  <2>4. /\ bdata'[b] = bdisk[m] /\ valid'[b]
        /\ \A c \in Buffers \ {b} : bdata'[c] = bdata[c] /\ valid'[c] = valid[c]
    BY <2>3 DEF IndInv, CacheTypeOK
  <2>5. \A n \in Blocks : Owner(n)' = Owner(n) /\ Value(n)' = Value(n)
    BY <1>1, <1>3, <2>1, <2>2, <2>4, StepAt
  <2> QED
    BY <1>1, <2>5, ViewSame
<1> QED
  BY <1>2, <1>3

LEMMA ModifyRefines ==
  ASSUME NEW p \in Procs, NEW v \in Contents, IndInv, Modify(p, v) PROVE Store!Next
<1>1. IndInv' /\ UNCHANGED <<bdisk, blockno, valid, locked, pinned>> /\ Pinned' = Pinned
  BY ModifyInv, PinnedSame DEF Modify
<1>2. PICK b \in Buffers : b = buf[p] /\ locked[b] = p /\ valid[b]
  BY HolderHas DEF Modify
<1>3. PICK m \in Blocks : m = blockno[b]
  BY <1>2, HolderHas DEF Modify
<1>4. bdata'[b] = v /\ \A c \in Buffers \ {b} : bdata'[c] = bdata[c]
  BY <1>2 DEF Modify, IndInv, CacheTypeOK
<1>5. /\ \A n \in Blocks \ {m} : Owner(n)' = Owner(n) /\ Value(n)' = Value(n)
      /\ Owner(m) = p /\ Owner(m)' = p /\ Value(m)' = v
  BY <1>1, <1>2, <1>3, <1>4, StepAt
<1>6. Store!Modify(p, m, v)
  BY <1>1, <1>5 DEF Store!Modify
<1> QED
  BY <1>6 DEF Store!Next

\* bwrite() saves what the owner sees.
LEMMA BwriteRefines ==
  ASSUME NEW p \in Procs, IndInv, Bwrite(p) PROVE Store!Next
<1>1. /\ IndInv' /\ UNCHANGED <<bdata, blockno, valid, locked, pinned>>
      /\ Pinned' = Pinned
  BY BwriteInv, PinnedSame DEF Bwrite, cacheVars
<1>2. PICK b \in Buffers : b = buf[p] /\ locked[b] = p /\ valid[b]
  BY HolderHas DEF Bwrite
<1>3. PICK m \in Blocks : m = blockno[b]
  BY <1>2, HolderHas DEF Bwrite
<1>4. bdisk' = [bdisk EXCEPT ![m] = bdata[b]] /\ \A n \in Blocks \ {m} : bdisk'[n] = bdisk[n]
  BY <1>2, <1>3 DEF Bwrite, IndInv, CacheTypeOK
<1>a. bdisk'[m] = bdata[b]
  BY <1>4 DEF IndInv, CacheTypeOK
<1>5. /\ \A n \in Blocks : Owner(n)' = Owner(n) /\ Value(n)' = Value(n)
      /\ Owner(m) = p /\ Value(m) = bdata[b]
  BY <1>1, <1>2, <1>3, <1>4, <1>a, StepAt
<1>6. Store!Save(p, m)
  BY <1>1, <1>4, <1>5 DEF Store!Save
<1> QED
  BY <1>6 DEF Store!Next

\* A buffer is unpinned only when its contents have been saved.
LEMMA PinRefines ==
  ASSUME NEW p \in Procs, IndInv, Bpin(p) \/ Bunpin(p) PROVE Store!Next
<1>1. IndInv' /\ UNCHANGED <<bdisk, bdata, blockno, valid, locked>>
  BY BpinInv, BunpinInv DEF Bpin, Bunpin
<1>2. PICK b \in Buffers : b = buf[p] /\ locked[b] = p /\ valid[b]
  BY HolderHas DEF Bpin, Bunpin
<1>3. PICK m \in Blocks : m = blockno[b]
  BY <1>2, HolderHas DEF Bpin, Bunpin
<1>4. \A c \in Buffers \ {b} : pinned'[c] = pinned[c]
  BY <1>2 DEF Bpin, Bunpin, IndInv, CacheTypeOK
<1>5. /\ \A n \in Blocks : Owner(n)' = Owner(n) /\ Value(n)' = Value(n)
      /\ Owner(m) = p /\ Value(m) = bdata[b]
  BY <1>1, <1>2, <1>3, StepAt
<1>6. Pinned' = IF pinned'[b] THEN Pinned \cup {m} ELSE Pinned \ {m}
  BY <1>1, <1>3, <1>4, PinnedAt
<1>7. CASE Bpin(p)
  <2>1. pinned'[b]
    BY <1>2, <1>7 DEF Bpin, IndInv, CacheTypeOK
  <2>2. Pinned' = Pinned \cup {m}
    BY <1>6, <2>1
  <2>3. Store!Pin(p, m)
    BY <1>1, <1>5, <2>2 DEF Store!Pin
  <2> QED
    BY <2>3 DEF Store!Next
<1>8. CASE Bunpin(p)
  <2>1. ~pinned'[b] /\ bdata[b] = bdisk[m]
    BY <1>2, <1>3, <1>8 DEF Bunpin, Dirty, IndInv, CacheTypeOK
  <2>2. Pinned' = Pinned \ {m}
    BY <1>6, <2>1
  <2>3. Store!Unpin(p, m)
    BY <1>1, <1>5, <2>1, <2>2 DEF Store!Unpin
  <2> QED
    BY <2>3 DEF Store!Next
<1> QED
  BY <1>7, <1>8

LEMMA BrelseUnlockRefines ==
  ASSUME NEW p \in Procs, IndInv, BrelseUnlock(p) PROVE Store!Next
<1>1. IndInv' /\ UNCHANGED <<bdisk, bdata, blockno, valid, pinned>> /\ Pinned' = Pinned
  BY BrelseUnlockInv, PinnedSame DEF BrelseUnlock, cacheVars
<1>2. PICK b \in Buffers : b = buf[p] /\ locked[b] = p
  BY HolderHas DEF BrelseUnlock
<1>3. PICK m \in Blocks : m = blockno[b]
  BY <1>2, HolderHas DEF BrelseUnlock
<1>4. locked'[b] = Nobody /\ \A c \in Buffers \ {b} : locked'[c] = locked[c]
  BY <1>2 DEF BrelseUnlock, IndInv, CacheTypeOK
<1>5. /\ \A n \in Blocks \ {m} : Owner(n)' = Owner(n) /\ Value(n)' = Value(n)
      /\ Owner(m) = p /\ Owner(m)' = Nobody /\ Value(m)' = Value(m)
  BY <1>1, <1>2, <1>3, <1>4, StepAt
<1>6. Store!Release(p, m)
  BY <1>1, <1>5 DEF Store!Release
<1> QED
  BY <1>6 DEF Store!Next

LEMMA StepRefines == IndInv /\ [BioNext]_bioVars => [Store!Next]_Store!vars
<1> SUFFICES ASSUME IndInv, [BioNext]_bioVars PROVE [Store!Next]_Store!vars
  OBVIOUS
<1>1. CASE \/ \E p \in Procs : \/ \E n \in Blocks : CallBread(p, n)
                               \/ BgetHit(p) \/ BgetPanic(p)
                               \/ BrelseDrop(p)
           \/ UNCHANGED bioVars
  BY <1>1, SilentRefines
     DEF CallBread, BgetHit, BgetPanic, BrelseDrop, cacheVars, bioVars
<1>2. ASSUME NEW p \in Procs, BgetMiss(p) \/ AcquireSleep(p) \/ FillBuffer(p)
      PROVE  [Store!Next]_Store!vars
  BY <1>2, BgetMissRefines, AcquireSleepRefines, FillBufferRefines
<1>3. ASSUME NEW p \in Procs,
             Bwrite(p) \/ Bpin(p) \/ Bunpin(p) \/ BrelseUnlock(p) \/ \E v \in Contents : Modify(p, v)
      PROVE  [Store!Next]_Store!vars
  BY <1>3, BwriteRefines, PinRefines, BrelseUnlockRefines, ModifyRefines
<1> QED
  BY <1>1, <1>2, <1>3 DEF BioNext, Bread, Use, Brelse

\* Every block behaves as one locked register, however many buffers there are
\* and however they are recycled: what was written or is pinned stays, and a change
\* that a process has released unwritten and unpinned stays whole or goes whole.
THEOREM Refinement == BioSpec => ImplementsBlockStore
<1> QED
  BY InitRefines, StepRefines, Invariance, PTL
     DEF BioSpec, ImplementsBlockStore, Store!Spec
=============================================================================
