----------------------------- MODULE Log_proof -----------------------------
(***************************************************************************)
(* Proofs about Log: IndInv is an inductive invariant, the sizes of TypeOK *)
(* and the write-ahead rule follow from it; what begin_op reserves is      *)
(* enough; and the log with its recovery implements AtomicDisk.            *)
(***************************************************************************)
EXTENDS Log, FiniteSetTheorems, TLAPS

USE DataAssumption, ProcsAssumption, SizeAssumption, HeaderAssumption

LEMMA ActiveFinite == Active \subseteq Procs /\ IsFiniteSet(Active)
  BY FS_Subset DEF Active

LEMMA InitInv == Init => IndInv
<1> SUFFICES ASSUME Init PROVE IndInv
  OBVIOUS
<1>1. TypeOK
  <2>1. home \in [Blocks -> Data] /\ dlog \in [1..(NLog - 1) -> Data]
    BY DEF Init
  <2>2. dhead \in Seq(Blocks) /\ Len(dhead) <= NLog - 1
    BY DEF Init
  <2>3. lh \in Seq(Blocks) /\ Len(lh) <= NLog - 1
    BY DEF Init
  <2>4. cache \in [Blocks -> Data \cup {None}] /\ pin \in [Blocks -> Nat]
    BY DEF Init
  <2>7. outstanding \in Nat /\ tail \in 1..NLog
    BY DEF Init
  <2>8. committing \in BOOLEAN
    BY Zenon DEF Init
  <2>5. boot \in Boots /\ pc \in [Procs -> PCs] /\ blk \in [Procs -> Blocks \cup {None}]
    BY DEF Init, Boots, PCs
  <2>6. wrote \in [Procs -> SUBSET Blocks]
    BY DEF Init
  <2> QED
    BY <2>1, <2>2, <2>3, <2>4, <2>5, <2>6, <2>7, <2>8 DEF TypeOK
<1>2. OneCommitter
  <2>1. Active = {}
    BY DEF Init, Active
  <2> QED
    BY <2>1, FS_EmptySet DEF Init, OneCommitter, Committing
<1>3. LockedCached /\ PinnedWhileDirty /\ HeaderOK /\ CopiesOK /\ BootOK
  BY DEF Init, LockedCached, PinnedWhileDirty, HeaderOK, Distinct, CopiesOK,
         BootOK, Installing
<1> QED
  BY <1>1, <1>2, <1>3 DEF IndInv

\* begin_op takes log.lock, so nobody has panicked, and nobody commits.
LEMMA BeginOpInv == ASSUME NEW p \in Procs, IndInv, BeginOp(p) PROVE IndInv'
<1> USE DEF IndInv, BeginOp, Goto, diskVars
<1>1. TypeOK'
  BY DEF TypeOK, PCs
<1>2. OneCommitter'
  <2>1. p \notin Active /\ Active' = Active \cup {p}
    BY DEF Active, TypeOK
  <2>2. outstanding' = Cardinality(Active')
    BY <2>1, ActiveFinite, FS_AddElement DEF OneCommitter, LogLockFree, NoPanic
  <2>3. ~committing'
    BY DEF MustWait
  <2> QED
    BY <2>2, <2>3 DEF OneCommitter, TypeOK, MustWait, Committing
<1>3. Installing' = Installing
  BY DEF Installing, TypeOK
<1>4. LockedCached' /\ BootOK'
  BY DEF LockedCached, BootOK, TypeOK
<1>5. PinnedWhileDirty'
  BY <1>3 DEF PinnedWhileDirty, Dirty, Logged, Installed
<1>6. HeaderOK' /\ CopiesOK'
  BY <1>3 DEF HeaderOK, CopiesOK, Distinct, TypeOK
<1> QED
  BY <1>1, <1>2, <1>4, <1>5, <1>6

LEMMA BeginOpSleepInv ==
  ASSUME NEW p \in Procs, IndInv, BeginOpSleep(p) PROVE IndInv'
<1> USE DEF IndInv, BeginOpSleep, Goto, diskVars, logVars
<1>1. TypeOK'
  BY DEF TypeOK, PCs
<1>2. Active' = Active /\ Installing' = Installing
  BY DEF Active, Installing, TypeOK
<1>3. OneCommitter'
  BY <1>2 DEF OneCommitter, TypeOK, Committing, NoPanic
<1>4. LockedCached' /\ BootOK'
  BY DEF LockedCached, BootOK, TypeOK
<1>5. PinnedWhileDirty' /\ HeaderOK' /\ CopiesOK'
  BY <1>2 DEF PinnedWhileDirty, Dirty, Logged, Installed, HeaderOK, CopiesOK,
              Distinct, TypeOK
<1> QED
  BY <1>1, <1>3, <1>4, <1>5

\* Filling a buffer from the disk makes it equal to its home block.
LEMMA ReadBlockInv ==
  ASSUME NEW p \in Procs, NEW b \in Blocks, IndInv, ReadBlock(p, b)
  PROVE  IndInv'
<1> USE DEF IndInv, ReadBlock, Bread, diskVars, logVars
<1>0. /\ cache' = [cache EXCEPT ![b] = Contents(b)]
      /\ Contents(b) \in Data
      /\ \A c \in Blocks : cache[c] # None => cache'[c] = cache[c]
      /\ \A c \in Blocks : cache[c] = None => cache'[c] \in {None, home[c]}
  BY DEF Contents, TypeOK
<1>1. TypeOK'
  BY <1>0 DEF TypeOK, PCs
<1>2. Active' = Active /\ Installing' = Installing
  BY DEF Active, Installing, TypeOK
<1>3. OneCommitter'
  BY <1>2 DEF OneCommitter, NoPanic
<1>4. LockedCached'
  BY <1>0 DEF LockedCached, TypeOK
<1>5. PinnedWhileDirty'
  BY <1>0, <1>2 DEF PinnedWhileDirty, Dirty, Logged, Installed
<1>6. HeaderOK' /\ BootOK'
  BY <1>2 DEF HeaderOK, Distinct, BootOK
<1>7. CopiesOK'
  <2>1. \A i \in 1..Len(lh) : lh[i] \in Blocks
    BY DEF TypeOK
  <2>2. dlog \in [1..(NLog - 1) -> Data] /\ Len(lh) <= NLog - 1 /\ Len(lh) \in Nat
    BY DEF TypeOK
  <2> QED
    BY <1>0, <1>2, <2>1, <2>2 DEF CopiesOK
<1> QED
  BY <1>1, <1>3, <1>4, <1>5, <1>6, <1>7

LEMMA BrelseInv == ASSUME NEW p \in Procs, IndInv, Brelse(p) PROVE IndInv'
<1> USE DEF IndInv, Brelse, diskVars, logVars
<1>1. TypeOK'
  BY DEF TypeOK
<1>2. Active' = Active /\ Installing' = Installing
  BY DEF Active, Installing
<1>3. OneCommitter'
  BY <1>2 DEF OneCommitter, NoPanic
<1>4. LockedCached' /\ BootOK'
  BY DEF LockedCached, BootOK, TypeOK
<1>5. PinnedWhileDirty' /\ HeaderOK' /\ CopiesOK'
  BY <1>2 DEF PinnedWhileDirty, Dirty, Logged, Installed, HeaderOK, CopiesOK,
              Distinct
<1> QED
  BY <1>1, <1>3, <1>4, <1>5

LEMMA LogWritePanicInv ==
  ASSUME NEW p \in Procs, IndInv, LogWritePanic(p) PROVE IndInv'
<1> USE DEF IndInv, LogWritePanic, Goto, diskVars, logVars
<1>1. TypeOK'
  BY DEF TypeOK, PCs
<1>2. Installing' = Installing /\ ~NoPanic'
  BY DEF Installing, NoPanic, TypeOK
<1>3. OneCommitter'
  BY <1>2 DEF OneCommitter, Committing, TypeOK
<1>4. LockedCached' /\ BootOK'
  BY DEF LockedCached, BootOK, TypeOK
<1>5. PinnedWhileDirty' /\ HeaderOK' /\ CopiesOK'
  BY <1>2 DEF PinnedWhileDirty, Dirty, Logged, Installed, HeaderOK, CopiesOK,
              Distinct, TypeOK
<1> QED
  BY <1>1, <1>3, <1>4, <1>5

\* While an operation is under way nothing is being committed or recovered.
LEMMA QuietDuringOp ==
  ASSUME NEW p \in Procs, IndInv, pc[p] = "op"
  PROVE  /\ boot = "run" /\ ~committing /\ ~Installing
         /\ \A q \in Procs : pc[q] \notin Committing
  BY DEF IndInv, BootOK, OneCommitter, Installing, Committing, TypeOK, Boots

\* The buffer becomes dirty, and its block is in the log and pinned.
LEMMA LogWriteInv ==
  ASSUME NEW p \in Procs, NEW v \in Data, IndInv, LogWrite(p, v)
  PROVE  IndInv'
<1> USE DEF IndInv
<1> DEFINE b == blk[p]
<1>0. /\ boot = "run" /\ ~committing /\ ~Installing /\ dhead = <<>>
      /\ \A q \in Procs : pc[q] \notin Committing
      /\ b \in Blocks
  BY QuietDuringOp DEF LogWrite, HeaderOK, TypeOK
<1>1. /\ cache' = [cache EXCEPT ![b] = v]
      /\ wrote' = [wrote EXCEPT ![p] = @ \cup {b}]
      /\ UNCHANGED <<home, dlog, dhead, outstanding, committing, tail, boot, pc, blk>>
      /\ Len(lh) < NLog - 1
  BY DEF LogWrite, diskVars, TooBig, TypeOK
<1>2. \/ Logged(b) /\ lh' = lh /\ pin' = pin
      \/ ~Logged(b) /\ lh' = Append(lh, b) /\ pin' = [pin EXCEPT ![b] = @ + 1]
  BY DEF LogWrite, Bpin
<1>a. \A i \in 1..Len(Append(lh, b)) : IF i = Len(lh) + 1 THEN Append(lh, b)[i] = b
                                       ELSE i \in 1..Len(lh) /\ Append(lh, b)[i] = lh[i]
  BY <1>0 DEF TypeOK
<1>b. /\ Append(lh, b) \in Seq(Blocks) /\ Len(Append(lh, b)) = Len(lh) + 1
      /\ Len(lh) \in Nat
  BY <1>0 DEF TypeOK
<1>3. TypeOK'
  <2>1. lh' \in Seq(Blocks) /\ Len(lh') <= NLog - 1
    <3>1. CASE lh' = Append(lh, b)
      <4>1. Len(lh) + 1 <= NLog - 1
        BY <1>1, <1>b
      <4> QED
        BY <3>1, <1>b, <4>1
    <3>2. CASE lh' = lh
      BY <3>2 DEF TypeOK
    <3> QED
      BY <1>2, <3>1, <3>2
  <2>2. pin' \in [Blocks -> Nat]
    BY <1>2 DEF TypeOK
  <2> QED
    BY <1>0, <1>1, <2>1, <2>2 DEF TypeOK
<1>4. ~Installing' /\ Active' = Active
  BY <1>0, <1>1 DEF Installing, Active
<1>5. OneCommitter' /\ LockedCached' /\ BootOK'
  BY <1>0, <1>1, <1>4 DEF OneCommitter, LockedCached, BootOK, NoPanic, TypeOK
<1>6. \A c \in Blocks : Logged(c)' <=> Logged(c) \/ c = b
  <2>1. CASE lh' = Append(lh, b)
    BY <2>1, <1>a, <1>b DEF Logged
  <2>2. CASE Logged(b) /\ lh' = lh
    BY <2>2 DEF Logged
  <2> QED
    BY <1>2, <2>1, <2>2
<1>7. PinnedWhileDirty'
  <2>1. \A c \in Blocks : Dirty(c)' <=> Dirty(c) \/ c = b
    BY <1>0, <1>4, <1>6 DEF Dirty, Installed
  <2>2. ASSUME NEW c \in Blocks, c # b
        PROVE  pin'[c] = pin[c] /\ cache'[c] = cache[c]
    BY <1>1, <1>2, <2>2 DEF TypeOK
  <2>3. pin'[b] = 1 /\ cache'[b] = v
    BY <1>0, <1>1, <1>2 DEF TypeOK, PinnedWhileDirty, Dirty, Installed
  <2> QED
    BY <1>0, <1>1, <2>1, <2>2, <2>3 DEF PinnedWhileDirty
<1>8. HeaderOK'
  <2>1. Distinct(lh')
    <3>1. CASE ~Logged(b) /\ lh' = Append(lh, b)
      BY <3>1, <1>a, <1>b DEF HeaderOK, Distinct, Logged
    <3>2. CASE lh' = lh
      BY <3>2 DEF HeaderOK, Distinct
    <3> QED
      BY <1>2, <3>1, <3>2
  <2> QED
    BY <1>0, <1>1, <1>4, <2>1 DEF HeaderOK, Committing
<1>9. CopiesOK'
  BY <1>0, <1>1, <1>4 DEF CopiesOK, Committing
<1> QED
  BY <1>3, <1>5, <1>7, <1>8, <1>9

LEMMA EndOpInv == ASSUME NEW p \in Procs, IndInv, EndOp(p) PROVE IndInv'
<1> USE DEF IndInv
<1>0. /\ boot = "run" /\ ~committing /\ ~Installing
      /\ \A q \in Procs : pc[q] \notin Committing
      /\ pc[p] = "op" /\ blk[p] = None
      /\ UNCHANGED <<home, dlog, dhead, cache, pin, lh, boot, blk>>
  BY QuietDuringOp DEF EndOp, diskVars
<1>1. /\ outstanding = Cardinality(Active) /\ NoPanic
      /\ outstanding' = outstanding - 1
  BY DEF EndOp, OneCommitter, LogLockFree, NoPanic
<1>2. Cardinality(Active \ {p}) = outstanding - 1 /\ outstanding >= 1
  <2>1. Cardinality(Active \ {p}) = Cardinality(Active) - 1
    BY <1>0, ActiveFinite, FS_RemoveElement DEF Active
  <2>2. Cardinality(Active \ {p}) \in Nat
    BY ActiveFinite, FS_RemoveElement, FS_CardinalityType
  <2> QED
    BY <1>1, <2>1, <2>2 DEF TypeOK
<1>3. CASE outstanding' = 0
  <2>1. /\ committing' = TRUE /\ tail' = 1
        /\ pc' = [pc EXCEPT ![p] = IF lh = <<>> THEN "done" ELSE "wlog"]
    BY <1>0, <1>3 DEF EndOp, Goto, CommitEntry
  <2>2. Active = {p}
    <3>1. IsFiniteSet(Active \ {p})
      BY ActiveFinite, FS_RemoveElement
    <3>2. Active \ {p} = {}
      BY <1>1, <1>2, <1>3, <3>1, FS_EmptySet
    <3> QED
      BY <1>0, <3>2 DEF Active
  <2>3. Active' = {}
    BY <1>0, <2>1, <2>2 DEF Active, TypeOK
  <2>4. TypeOK'
    BY <1>0, <1>3, <2>1 DEF TypeOK, PCs, Committing, EndOp, CommitEntry
  <2>5. OneCommitter'
    <3>1. \A q \in Procs : pc'[q] \in Committing => q = p
      BY <1>0, <2>1 DEF TypeOK
    <3>2. \A q \in Procs : pc'[q] # "op"
      BY <2>3 DEF Active
    <3> QED
      BY <1>3, <2>1, <2>3, <3>1, <3>2, FS_EmptySet DEF OneCommitter
  <2>6. ~Installing'
    BY <1>0, <2>1 DEF Installing, TypeOK
  <2>7. LockedCached' /\ BootOK'
    BY <1>0, <2>1 DEF LockedCached, BootOK, TypeOK
  <2>8. PinnedWhileDirty'
    BY <1>0, <2>6 DEF PinnedWhileDirty, Dirty, Logged, Installed
  <2>9. HeaderOK'
    BY <1>0, <2>1, <2>6 DEF HeaderOK, Distinct, TypeOK, Committing
  <2>10. CopiesOK'
    BY <1>0, <2>1, <2>6 DEF CopiesOK, TypeOK
  <2> QED
    BY <2>4, <2>5, <2>7, <2>8, <2>9, <2>10
<1>4. CASE outstanding' # 0
  <2>1. committing' = committing /\ tail' = tail /\ Wakeup(p, "idle")
    BY <1>0, <1>4 DEF EndOp
  <2>2. Active' = Active \ {p} /\ NoPanic'
    BY <1>0, <1>1, <2>1 DEF Active, Wakeup, NoPanic
  <2>3. \A q \in Procs : pc'[q] \notin Committing
    BY <1>0, <2>1 DEF Wakeup, Committing
  <2>4. TypeOK'
    BY <1>0, <1>1, <1>2, <2>1 DEF TypeOK, PCs, EndOp, Wakeup
  <2>5. OneCommitter'
    BY <1>0, <1>1, <1>2, <2>1, <2>2, <2>3 DEF OneCommitter
  <2>6. ~Installing'
    BY <1>0, <2>3 DEF Installing, Committing
  <2>7. LockedCached' /\ BootOK'
    BY <1>0, <2>1 DEF LockedCached, BootOK, TypeOK, Wakeup
  <2>8. PinnedWhileDirty'
    BY <1>0, <2>6 DEF PinnedWhileDirty, Dirty, Logged, Installed
  <2>9. HeaderOK'
    BY <1>0, <2>3, <2>6 DEF HeaderOK, Distinct, Committing
  <2>10. CopiesOK'
    BY <1>0, <2>3, <2>6 DEF CopiesOK, Committing
  <2> QED
    BY <2>4, <2>5, <2>7, <2>8, <2>9, <2>10
<1> QED
  BY <1>3, <1>4

\* The committer is alone, and end_op has closed the log to operations.
LEMMA CommitterAlone ==
  ASSUME NEW p \in Procs, IndInv, pc[p] \in Committing
  PROVE  /\ boot = "run" /\ committing
         /\ \A q \in Procs : q # p => pc[q] \notin Committing
         /\ \A q \in Procs : pc[q] # "op"
         /\ Installing <=> pc[p] = "install"
         /\ pc[p] # "install" => dhead = <<>>
  BY DEF IndInv, BootOK, OneCommitter, HeaderOK, Installing, Committing, TypeOK, Boots

\* The log and its blocks, as the steps below use them.
LEMMA LogTypes ==
  ASSUME IndInv
  PROVE  /\ Len(lh) \in Nat /\ Len(lh) <= NLog - 1 /\ tail \in Nat /\ tail >= 1
         /\ \A i \in 1..Len(lh) : i \in 1..(NLog - 1) /\ lh[i] \in Blocks
         /\ \A i, j \in 1..Len(lh) : lh[i] = lh[j] => i = j
         /\ tail <= Len(lh) => /\ tail \in 1..Len(lh) /\ tail + 1 \in 1..NLog
                               /\ lh[tail] \in Blocks /\ dlog[tail] \in Data
<1>1. /\ Len(lh) \in Nat /\ Len(lh) <= NLog - 1 /\ tail \in 1..NLog
      /\ lh \in Seq(Blocks) /\ dlog \in [1..(NLog - 1) -> Data]
  BY DEF IndInv, TypeOK
<1>2. \A i, j \in 1..Len(lh) : lh[i] = lh[j] => i = j
  BY DEF IndInv, HeaderOK, Distinct
<1> QED
  BY <1>1, <1>2

\* A logged block not yet home is pinned, so bread() finds it in the cache.
LEMMA WriteLogInv == ASSUME NEW p \in Procs, IndInv, WriteLog(p) PROVE IndInv'
<1> USE DEF IndInv
<1> DEFINE b == lh[tail]
<1>0. /\ pc[p] = "wlog" /\ tail \in 1..Len(lh) /\ b \in Blocks
      /\ boot = "run" /\ ~Installing /\ tail + 1 \in 1..NLog
      /\ \A q \in Procs : pc[q] # "install" /\ pc[q] # "op"
  BY CommitterAlone, LogTypes DEF WriteLog, Committing
<1>1. cache[b] # None /\ Contents(b) = cache[b] /\ cache[b] \in Data
  BY <1>0 DEF PinnedWhileDirty, Dirty, Logged, Installed, Contents, TypeOK
<1>2. /\ cache' = cache /\ tail' = tail + 1
      /\ dlog' = [dlog EXCEPT ![tail] = cache[b]]
      /\ UNCHANGED <<home, dhead, pin, lh, outstanding, committing, boot, pc, blk, wrote>>
  BY <1>1 DEF WriteLog, Bread, procVars, TypeOK
<1>3. TypeOK'
  BY <1>0, <1>1, <1>2 DEF TypeOK
<1>4. ~Installing' /\ Active' = Active
  BY <1>0, <1>2 DEF Installing, Active
<1>5. OneCommitter' /\ LockedCached' /\ BootOK'
  BY <1>0, <1>2, <1>4 DEF OneCommitter, LockedCached, BootOK, NoPanic
<1>6. PinnedWhileDirty' /\ HeaderOK'
  BY <1>0, <1>2, <1>4 DEF PinnedWhileDirty, Dirty, Logged, Installed, HeaderOK, Distinct
<1>7. CopiesOK'
  <2>1. ASSUME NEW i \in 1..Len(lh), i < tail + 1 PROVE dlog'[i] = cache[lh[i]]
    <3>1. i \in 1..(NLog - 1) /\ dlog \in [1..(NLog - 1) -> Data]
      BY LogTypes DEF TypeOK
    <3>2. CASE i = tail
      BY <1>2, <3>1, <3>2
    <3>3. CASE i # tail
      BY <1>0, <1>2, <2>1, <3>1, <3>3, LogTypes DEF CopiesOK
    <3> QED
      BY <3>2, <3>3
  <2> QED
    BY <1>2, <1>4, <2>1 DEF CopiesOK
<1> QED
  BY <1>3, <1>5, <1>6, <1>7

\* Every logged block has been copied to the log when the header commits it.
LEMMA WriteHeadInv == ASSUME NEW p \in Procs, IndInv, WriteHead(p) PROVE IndInv'
<1> USE DEF IndInv
<1>0. /\ pc[p] = "wlog" /\ boot = "run" /\ ~Installing /\ committing
      /\ \A q \in Procs : pc[q] # "install" /\ pc[q] # "op"
      /\ \A q \in Procs : q # p => pc[q] \notin Committing
      /\ tail > Len(lh)
  BY CommitterAlone DEF WriteHead, Committing
<1>1. /\ dhead' = lh /\ tail' = 1 /\ pc' = [pc EXCEPT ![p] = "install"]
      /\ UNCHANGED <<home, dlog, cache, pin, lh, outstanding, committing, boot, blk, wrote>>
  BY DEF WriteHead, Goto
<1>2. TypeOK'
  BY <1>1 DEF TypeOK, PCs, Committing
<1>3. Installing' /\ Active' = Active
  BY <1>0, <1>1 DEF Installing, Active, TypeOK
<1>4. OneCommitter'
  <2>1. \A q \in Procs : pc'[q] \in Committing => q = p
    BY <1>0, <1>1 DEF TypeOK
  <2> QED
    BY <1>0, <1>1, <1>3, <2>1 DEF OneCommitter, NoPanic, TypeOK
<1>5. LockedCached' /\ BootOK'
  BY <1>0, <1>1 DEF LockedCached, BootOK, TypeOK
<1>6. PinnedWhileDirty'
  <2>1. \A c \in Blocks : Dirty(c)' <=> Dirty(c)
    BY <1>0, <1>1, LogTypes DEF Dirty, Logged, Installed
  <2> QED
    BY <1>1, <2>1 DEF PinnedWhileDirty
<1>7. HeaderOK'
  BY <1>0, <1>1, <1>3 DEF HeaderOK, Distinct, TypeOK, Committing
<1>8. CopiesOK'
  BY <1>0, <1>1, <1>3, LogTypes DEF CopiesOK, TypeOK
<1> QED
  BY <1>2, <1>4, <1>5, <1>6, <1>7, <1>8

\* The buffer already holds the logged copy, so only its home changes.
LEMMA InstallTransInv ==
  ASSUME NEW p \in Procs, IndInv, InstallTrans(p) PROVE IndInv'
<1> USE DEF IndInv
<1>a. lh[tail] \in Blocks
  BY LogTypes DEF InstallTrans, Install
<1>b. PICK b \in Blocks : b = lh[tail]
  BY <1>a
<1>0. /\ pc[p] = "install" /\ tail \in 1..Len(lh) /\ b = lh[tail]
      /\ boot = "run" /\ Installing /\ tail + 1 \in 1..NLog
      /\ \A q \in Procs : pc[q] # "wlog"
      /\ dlog[tail] \in Data
  BY <1>b, CommitterAlone, LogTypes DEF InstallTrans, Install, Committing
<1>1. cache[b] = dlog[tail] /\ pin[b] = 1
  <2>1. ~Installed(b) /\ Logged(b)
    BY <1>0, LogTypes DEF Installed, Logged
  <2>2. ~(tail < tail)
    BY LogTypes
  <2> QED
    BY <1>0, <2>1, <2>2 DEF PinnedWhileDirty, Dirty, CopiesOK
<1>2. /\ home' = [home EXCEPT ![b] = dlog[tail]] /\ tail' = tail + 1
      /\ cache' = cache /\ pin' = [pin EXCEPT ![b] = 0]
      /\ UNCHANGED <<dlog, dhead, lh, outstanding, committing, boot, pc, blk, wrote>>
  BY <1>b, <1>1 DEF InstallTrans, Install, Bunpin, procVars, TypeOK
<1>3. TypeOK'
  BY <1>0, <1>2 DEF TypeOK
<1>4. Installing' /\ Active' = Active
  BY <1>0, <1>2 DEF Installing, Active
<1>5. OneCommitter' /\ LockedCached' /\ BootOK'
  BY <1>0, <1>2, <1>4 DEF OneCommitter, LockedCached, BootOK, NoPanic
<1>6. PinnedWhileDirty'
  <2>0. tail \in Nat /\ \A i \in 1..Len(lh) : i \in Nat /\ (lh[i] = b => i = tail)
    BY <1>0, LogTypes
  <2>1. ASSUME NEW c \in Blocks, c # b PROVE Dirty(c)' <=> Dirty(c)
    <3>0. \A i \in Nat : i # tail => (i < tail + 1 <=> i < tail)
      BY <2>0
    <3>1. \A i \in 1..Len(lh) : lh[i] = c => (i < tail + 1 <=> i < tail)
      BY <1>0, <2>0, <2>1, <3>0
    <3>2. Installed(c)' <=> Installed(c)
      BY <1>0, <1>2, <1>4, <3>1 DEF Installed
    <3> QED
      BY <1>2, <3>2 DEF Dirty, Logged
  <2>2. ~Dirty(b)'
    <3>1. tail < tail + 1
      BY <2>0
    <3> QED
      BY <1>0, <1>2, <1>4, <3>1 DEF Dirty, Installed
  <2>3. pin'[b] = 0 /\ cache'[b] = home'[b]
    BY <1>0, <1>1, <1>2 DEF TypeOK
  <2>4. \A c \in Blocks : c # b => pin'[c] = pin[c] /\ home'[c] = home[c]
    BY <1>2 DEF TypeOK
  <2> QED
    BY <1>0, <1>2, <2>1, <2>2, <2>3, <2>4 DEF PinnedWhileDirty
<1>7. HeaderOK'
  BY <1>0, <1>2, <1>4 DEF HeaderOK, Distinct
<1>8. CopiesOK'
  <2>1. ASSUME NEW i \in 1..Len(lh), i < tail + 1 PROVE home'[lh[i]] = dlog[i]
    <3>1. CASE i = tail
      BY <1>0, <1>2, <3>1 DEF TypeOK
    <3>2. CASE i # tail
      <4>1. lh[i] # b /\ lh[i] \in Blocks /\ i < tail
        BY <1>0, <2>1, <3>2, LogTypes
      <4> QED
        BY <1>0, <1>2, <4>1 DEF TypeOK, CopiesOK
    <3> QED
      BY <3>1, <3>2
  <2>2. ASSUME NEW i \in 1..Len(lh), ~(i < tail + 1) PROVE cache[lh[i]] = dlog[i]
    BY <1>0, <2>2, LogTypes DEF CopiesOK
  <2> QED
    BY <1>0, <1>2, <2>1, <2>2 DEF CopiesOK
<1> QED
  BY <1>3, <1>5, <1>6, <1>7, <1>8

LEMMA EraseTransInv == ASSUME NEW p \in Procs, IndInv, EraseTrans(p) PROVE IndInv'
<1> USE DEF IndInv
<1>0. /\ pc[p] = "install" /\ tail > Len(lh) /\ boot = "run" /\ Installing
      /\ committing
      /\ \A q \in Procs : q # p => pc[q] \notin Committing
      /\ \A q \in Procs : pc[q] # "op"
  BY CommitterAlone DEF EraseTrans, ClearHead, Committing
<1>1. /\ lh' = <<>> /\ dhead' = <<>> /\ pc' = [pc EXCEPT ![p] = "done"]
      /\ UNCHANGED <<home, dlog, cache, pin, outstanding, committing, tail, boot,
                     blk, wrote>>
  BY DEF EraseTrans, ClearHead, Goto
<1>2. <<>> \in Seq(Blocks) /\ Len(<<>>) = 0
  OBVIOUS
<1>3. TypeOK'
  BY <1>1, <1>2 DEF TypeOK, PCs, Committing
<1>4. ~Installing' /\ Active' = Active
  BY <1>0, <1>1 DEF Installing, Active, TypeOK, Committing
<1>5. OneCommitter'
  <2>1. \A q \in Procs : pc'[q] \in Committing => q = p
    BY <1>0, <1>1 DEF TypeOK
  <2> QED
    BY <1>0, <1>1, <1>4, <2>1 DEF OneCommitter, NoPanic, TypeOK
<1>6. LockedCached' /\ BootOK'
  BY <1>0, <1>1 DEF LockedCached, BootOK, TypeOK
<1>7. PinnedWhileDirty'
  <2>1. \A c \in Blocks : ~Dirty(c) /\ ~Dirty(c)'
    BY <1>0, <1>1, <1>2, LogTypes DEF Dirty, Logged, Installed
  <2> QED
    BY <1>0, <1>1, <2>1 DEF PinnedWhileDirty
<1>8. HeaderOK' /\ CopiesOK'
  BY <1>0, <1>1, <1>2, <1>4 DEF HeaderOK, CopiesOK, Distinct, TypeOK
<1> QED
  BY <1>3, <1>5, <1>6, <1>7, <1>8

LEMMA EndOpDoneInv == ASSUME NEW p \in Procs, IndInv, EndOpDone(p) PROVE IndInv'
<1> USE DEF IndInv
<1>0. /\ pc[p] = "done" /\ boot = "run" /\ ~Installing /\ lh = <<>> /\ dhead = <<>>
      /\ \A q \in Procs : q # p => pc[q] \notin Committing
      /\ \A q \in Procs : pc[q] # "op"
  BY CommitterAlone DEF EndOpDone, Committing, HeaderOK
<1>1. /\ committing' = FALSE /\ Wakeup(p, "idle")
      /\ UNCHANGED <<home, dlog, dhead, cache, pin, lh, outstanding, tail, boot,
                     blk, wrote>>
  BY DEF EndOpDone, diskVars
<1>2. \A q \in Procs : pc'[q] \notin Committing
  BY <1>0, <1>1 DEF Wakeup, Committing
<1>3. TypeOK'
  BY <1>1 DEF TypeOK, PCs, Wakeup
<1>4. ~Installing' /\ Active' = Active
  BY <1>0, <1>1 DEF Installing, Active, Wakeup, Committing
<1>5. OneCommitter'
  BY <1>1, <1>2, <1>4 DEF OneCommitter, NoPanic, EndOpDone, LogLockFree
<1>6. LockedCached' /\ BootOK'
  BY <1>0, <1>1 DEF LockedCached, BootOK, Wakeup
<1>7. PinnedWhileDirty'
  BY <1>0, <1>1, <1>4 DEF PinnedWhileDirty, Dirty, Logged, Installed
<1>8. HeaderOK' /\ CopiesOK'
  BY <1>0, <1>1, <1>2, <1>4 DEF HeaderOK, CopiesOK, Distinct, Committing
<1> QED
  BY <1>3, <1>5, <1>6, <1>7, <1>8

LEMMA EvictInv == ASSUME NEW b \in Blocks, IndInv, Evict(b) PROVE IndInv'
<1> USE DEF IndInv
<1>0. /\ cache' = [cache EXCEPT ![b] = None] /\ pin[b] = 0
      /\ \A p \in Procs : blk[p] # b
      /\ UNCHANGED <<home, dlog, dhead, pin, lh, outstanding, committing, tail,
                     boot, pc, blk, wrote>>
  BY DEF Evict, Locked, diskVars, logVars, procVars
<1>1. TypeOK'
  BY <1>0 DEF TypeOK
<1>2. Installing' = Installing /\ Active' = Active
  BY <1>0 DEF Installing, Active
<1>3. OneCommitter' /\ HeaderOK'
  BY <1>0, <1>2 DEF OneCommitter, NoPanic, HeaderOK, Distinct
<1>4. LockedCached'
  BY <1>0 DEF LockedCached, TypeOK
<1>5. PinnedWhileDirty'
  <2>1. \A c \in Blocks : cache'[c] = IF c = b THEN None ELSE cache[c]
    BY <1>0 DEF TypeOK
  <2>2. \A c \in Blocks : Dirty(c)' <=> Dirty(c)
    BY <1>0, <1>2 DEF Dirty, Logged, Installed
  <2> QED
    BY <1>0, <2>1, <2>2 DEF PinnedWhileDirty
<1>7. BootOK'
  BY <1>0 DEF BootOK, TypeOK
<1>6. CopiesOK'
  <2>1. ASSUME NEW i \in 1..Len(lh), boot = "run", ~Installing \/ ~(i < tail)
        PROVE  lh[i] # b /\ cache'[lh[i]] = cache[lh[i]]
    <3>1. Dirty(lh[i]) /\ lh[i] \in Blocks
      BY <2>1, LogTypes DEF Dirty, Logged, Installed
    <3>2. pin[lh[i]] = 1
      BY <2>1, <3>1 DEF PinnedWhileDirty
    <3> QED
      BY <1>0, <3>1, <3>2 DEF TypeOK
  <2>2. (\E p \in Procs : pc[p] = "wlog") => boot = "run" /\ ~Installing
    BY CommitterAlone DEF Committing
  <2> QED
    BY <1>0, <1>2, <2>1, <2>2 DEF CopiesOK
<1> QED
  BY <1>1, <1>3, <1>4, <1>5, <1>6, <1>7

\* A torn write only hits a block that recovery does not read, or rewrites.
LEMMA CrashInv == ASSUME IndInv, Crash PROVE IndInv'
<1> USE DEF IndInv
<1>1. /\ cache' = [b \in Blocks |-> None] /\ pin' = [b \in Blocks |-> 0]
      /\ lh' = <<>> /\ outstanding' = 0 /\ tail' = 1
      /\ boot' = "read_head" /\ pc' = [p \in Procs |-> "idle"]
      /\ blk' = [p \in Procs |-> None] /\ wrote' = [p \in Procs |-> {}]
      /\ dhead' = dhead
  BY DEF Crash
<1>2. committing' = FALSE
  BY Zenon DEF Crash
<1>3. home' \in [Blocks -> Data] /\ dlog' \in [1..(NLog - 1) -> Data]
  <2>1. CASE home' = home /\ dlog' = dlog
    BY <2>1 DEF TypeOK
  <2>2. CASE TornLogBlock
    BY <2>2 DEF TornLogBlock, TypeOK
  <2>3. CASE TornHomeBlock
    BY <2>3 DEF TornHomeBlock, TypeOK
  <2> QED
    BY <2>1, <2>2, <2>3 DEF Crash
<1>4. <<>> \in Seq(Blocks) /\ Len(<<>>) = 0
  OBVIOUS
<1>5. TypeOK'
  <2>1. committing' \in BOOLEAN
    BY Zenon, <1>2
  <2>2. cache' \in [Blocks -> Data \cup {None}] /\ pin' \in [Blocks -> Nat]
    BY <1>1
  <2>3. lh' \in Seq(Blocks) /\ Len(lh') <= NLog - 1 /\ tail' \in 1..NLog
    BY <1>1, <1>4
  <2>4. /\ boot' \in Boots /\ pc' \in [Procs -> PCs] /\ outstanding' \in Nat
        /\ blk' \in [Procs -> Blocks \cup {None}]
    BY <1>1 DEF Boots, PCs
  <2>5. wrote' \in [Procs -> SUBSET Blocks]
    BY <1>1
  <2>6. dhead' \in Seq(Blocks) /\ Len(dhead') <= NLog - 1
    BY <1>1 DEF TypeOK
  <2> QED
    BY <1>3, <2>1, <2>2, <2>3, <2>4, <2>5, <2>6 DEF TypeOK
<1>6. ~Installing' /\ Active' = {}
  BY <1>1 DEF Installing, Active
<1>7. OneCommitter'
  BY <1>1, <1>2, <1>6, FS_EmptySet DEF OneCommitter, Committing
<1>8. LockedCached' /\ PinnedWhileDirty' /\ BootOK'
  BY <1>1, <1>2 DEF LockedCached, PinnedWhileDirty, BootOK
<1>9. HeaderOK' /\ CopiesOK'
  BY <1>1, <1>4, <1>6 DEF HeaderOK, CopiesOK, Distinct
<1> QED
  BY <1>5, <1>7, <1>8, <1>9

LEMMA ReadHeadInv == ASSUME IndInv, ReadHead PROVE IndInv'
<1> USE DEF IndInv
<1>1. /\ boot = "read_head" /\ boot' = "install" /\ lh' = dhead /\ tail' = 1
      /\ UNCHANGED <<home, dlog, dhead, cache, pin, outstanding, committing,
                     pc, blk, wrote>>
  BY DEF ReadHead, diskVars, procVars
<1>2. TypeOK'
  BY <1>1 DEF TypeOK, Boots
<1>3. Active' = Active /\ Installing' /\ \A p \in Procs : pc[p] = "idle"
  BY <1>1 DEF Installing, Active, BootOK
<1>4. OneCommitter' /\ LockedCached' /\ BootOK' /\ PinnedWhileDirty'
  BY <1>1, <1>3 DEF OneCommitter, LockedCached, BootOK, PinnedWhileDirty, NoPanic
<1>5. HeaderOK'
  BY <1>1, <1>3 DEF HeaderOK, Distinct
<1>6. CopiesOK'
  <2>1. Len(dhead) \in Nat
    BY DEF TypeOK
  <2> QED
    BY <1>1, <1>3, <2>1 DEF CopiesOK
<1> QED
  BY <1>2, <1>4, <1>5, <1>6

LEMMA RecoverTransInv == ASSUME IndInv, RecoverTrans PROVE IndInv'
<1> USE DEF IndInv
<1>a. lh[tail] \in Blocks
  BY LogTypes DEF RecoverTrans, Install
<1>b. PICK b \in Blocks : b = lh[tail]
  BY <1>a
<1>0. /\ boot = "install" /\ tail \in 1..Len(lh) /\ Installing
      /\ tail + 1 \in 1..NLog /\ dlog[tail] \in Data
      /\ \A q \in Procs : pc[q] = "idle"
  BY LogTypes DEF RecoverTrans, Install, Installing, BootOK
<1>1. /\ home' = [home EXCEPT ![b] = dlog[tail]] /\ tail' = tail + 1
      /\ cache' = [cache EXCEPT ![b] = dlog[tail]]
      /\ UNCHANGED <<dlog, dhead, pin, lh, outstanding, committing, boot, pc, blk, wrote>>
  BY <1>b DEF RecoverTrans, Install, procVars
<1>2. TypeOK'
  BY <1>0, <1>1 DEF TypeOK
<1>3. Installing' /\ Active' = Active
  BY <1>0, <1>1 DEF Installing, Active
<1>4. OneCommitter' /\ LockedCached' /\ HeaderOK'
  BY <1>0, <1>1, <1>3 DEF OneCommitter, LockedCached, HeaderOK, Distinct, NoPanic, BootOK
<1>5. PinnedWhileDirty' /\ BootOK'
  BY <1>0, <1>1 DEF PinnedWhileDirty, BootOK, TypeOK
<1>6. CopiesOK'
  <2>1. ASSUME NEW i \in 1..Len(lh), i < tail + 1 PROVE home'[lh[i]] = dlog[i]
    <3>1. CASE i = tail
      BY <1>b, <1>0, <1>1, <3>1 DEF TypeOK
    <3>2. CASE i # tail
      <4>1. lh[i] # b /\ lh[i] \in Blocks /\ i < tail
        BY <1>b, <1>0, <2>1, <3>2, LogTypes
      <4> QED
        BY <1>0, <1>1, <4>1 DEF TypeOK, CopiesOK
    <3> QED
      BY <3>1, <3>2
  <2> QED
    BY <1>0, <1>1, <2>1 DEF CopiesOK
<1> QED
  BY <1>2, <1>4, <1>5, <1>6

LEMMA RecoverDoneInv == ASSUME IndInv, RecoverDone PROVE IndInv'
<1> USE DEF IndInv
<1>1. /\ boot = "install" /\ boot' = "run" /\ lh' = <<>> /\ dhead' = <<>>
      /\ UNCHANGED <<home, dlog, cache, pin, outstanding, committing, tail,
                     pc, blk, wrote>>
      /\ \A p \in Procs : pc[p] = "idle"
  BY DEF RecoverDone, ClearHead, procVars, BootOK
<1>2. <<>> \in Seq(Blocks) /\ Len(<<>>) = 0
  OBVIOUS
<1>3. TypeOK'
  BY <1>1, <1>2 DEF TypeOK, Boots
<1>4. Active' = Active /\ ~Installing'
  BY <1>1 DEF Installing, Active
<1>5. OneCommitter' /\ LockedCached' /\ BootOK'
  BY <1>1, <1>4 DEF OneCommitter, LockedCached, BootOK, NoPanic
<1>6. PinnedWhileDirty'
  BY <1>1, <1>2, <1>4 DEF PinnedWhileDirty, BootOK, Dirty, Logged
<1>7. HeaderOK' /\ CopiesOK'
  BY <1>1, <1>2, <1>4 DEF HeaderOK, Distinct, CopiesOK
<1> QED
  BY <1>3, <1>5, <1>6, <1>7

LEMMA StutterInv == ASSUME IndInv, UNCHANGED vars PROVE IndInv'
<1>1. Active' = Active /\ Installing' = Installing
  BY DEF vars, Active, Installing
<1> QED
  BY <1>1 DEF vars, IndInv, TypeOK, OneCommitter, LockedCached, PinnedWhileDirty,
              Dirty, Logged, Installed, HeaderOK, Distinct, CopiesOK, BootOK, NoPanic

LEMMA NextInv == IndInv /\ [Next]_vars => IndInv'
<1> SUFFICES ASSUME IndInv, [Next]_vars PROVE IndInv'
  OBVIOUS
<1>1. ASSUME NEW p \in Procs, BeginOp(p) \/ BeginOpSleep(p) \/ Brelse(p) PROVE IndInv'
  BY <1>1, BeginOpInv, BeginOpSleepInv, BrelseInv
<1>2. ASSUME NEW p \in Procs, NEW b \in Blocks, ReadBlock(p, b) PROVE IndInv'
  BY <1>2, ReadBlockInv
<1>3. ASSUME NEW p \in Procs, NEW v \in Data, LogWrite(p, v) PROVE IndInv'
  BY <1>3, LogWriteInv
<1>4. ASSUME NEW p \in Procs, LogWritePanic(p) \/ EndOp(p) \/ EndOpDone(p) PROVE IndInv'
  BY <1>4, LogWritePanicInv, EndOpInv, EndOpDoneInv
<1>5. ASSUME NEW p \in Procs, CommitStep(p) PROVE IndInv'
  BY <1>5, WriteLogInv, WriteHeadInv, InstallTransInv, EraseTransInv DEF CommitStep
<1>6. ASSUME NEW b \in Blocks, Evict(b) PROVE IndInv'
  BY <1>6, EvictInv
<1>7. CASE Crash
  BY <1>7, CrashInv
<1>8. CASE Recovery
  BY <1>8, ReadHeadInv, RecoverTransInv, RecoverDoneInv DEF Recovery
<1>9. CASE UNCHANGED vars
  BY <1>9, StutterInv
<1> QED
  BY <1>1, <1>2, <1>3, <1>4, <1>5, <1>6, <1>7, <1>8, <1>9 DEF Next

\* IndInv, and with it TypeOK, holds in every state of the log, whatever the
\* sizes: no index leaves lh.block[] or the log area, a dirty buffer is pinned,
\* and there is one committer, with no operation under way.
THEOREM Invariance == Spec => []IndInv
<1> QED
  BY InitInv, NextInv, PTL DEF Spec

\* The indices and sizes of the log stay in their ranges.
THEOREM TypeCorrect == Spec => []TypeOK
<1>1. IndInv => TypeOK
  BY DEF IndInv
<1> QED
  BY <1>1, Invariance, PTL
-----------------------------------------------------------------------------
(* The write-ahead rule.                                                   *)

\* Only install_trans, and a crash during it, write a home block.
LEMMA StepWriteAhead ==
  ASSUME IndInv, [Next]_vars, NEW b \in Blocks, home'[b] # home[b]
  PROVE  \E i \in 1..Len(dhead) : dhead[i] = b
<1>1. ASSUME Installing, tail <= Len(lh), NEW v \in Data,
             home' = [home EXCEPT ![lh[tail]] = v]
      PROVE  \E i \in 1..Len(dhead) : dhead[i] = b
  <2>1. tail \in 1..Len(lh) /\ b = lh[tail]
    BY <1>1, LogTypes DEF IndInv, TypeOK
  <2> QED
    BY <1>1, <2>1 DEF IndInv, HeaderOK
<1>2. CASE Install /\ Installing
  BY <1>1, <1>2, LogTypes DEF Install
<1>3. CASE TornHomeBlock
  BY <1>1, <1>3 DEF TornHomeBlock, Installing
<1>4. \/ home' = home
      \/ Install /\ Installing
      \/ TornHomeBlock
  BY DEF Next, vars, BeginOp, BeginOpSleep, ReadBlock, Brelse, LogWrite,
         LogWritePanic, EndOp, CommitStep, EndOpDone, Evict, Crash, Recovery,
         WriteLog, WriteHead, InstallTrans, EraseTrans, ReadHead, RecoverTrans,
         RecoverDone, TornLogBlock, Installing, diskVars
<1> QED
  BY <1>2, <1>3, <1>4

\* No home block is written before the header that lists it is on disk.
THEOREM WriteAheadHolds == Spec => WriteAhead
<1>1. IndInv /\ [Next]_vars =>
        [\A b \in Blocks : home'[b] # home[b] => \E i \in 1..Len(dhead) : dhead[i] = b]_vars
  BY StepWriteAhead
<1> QED
  BY <1>1, Invariance, PTL DEF Spec, WriteAhead
-----------------------------------------------------------------------------
(* What begin_op reserves, and what log_write does with it.                *)

\* What an operation has written is in the log, and counts from nothing.
Written == \A p \in Procs :
  /\ pc[p] = "op" => \A b \in wrote[p] : Logged(b)
  /\ pc[p] \notin {"op", "panic"} => wrote[p] = {}

\* Nobody commits once a process has panicked.
Halted == ~NoPanic => \A p \in Procs : pc[p] \notin Committing

Room == Written /\ Halted /\ SpaceReserved

LEMMA UnusedFinite == IsFiniteSet(Procs \X (1..MaxOpBlocks)) /\ IsFiniteSet(Unused)
<1>1. IsFiniteSet(1..MaxOpBlocks)
  BY FS_Interval
<1>2. IsFiniteSet(Procs \X (1..MaxOpBlocks))
  BY <1>1, FS_Product
<1> QED
  BY <1>2, FS_Subset DEF Unused

\* Fewer reservations leave more room.
LEMMA UnusedShrinks ==
  ASSUME SpaceReserved, IndInv, Unused' \subseteq Unused, Len(lh') <= Len(lh), Len(lh') \in Nat
  PROVE  Len(lh') + Cardinality(Unused)' <= LogSize
<1>1. IsFiniteSet(Unused)' /\ Cardinality(Unused)' <= Cardinality(Unused)
  BY UnusedFinite, FS_Subset
<1>2. Cardinality(Unused)' \in Nat /\ Cardinality(Unused) \in Nat /\ Len(lh) \in Nat
  BY <1>1, UnusedFinite, FS_CardinalityType DEF IndInv, TypeOK
<1> QED
  BY <1>1, <1>2 DEF SpaceReserved

LEMMA InitRoom == Init => Room
<1> SUFFICES ASSUME Init PROVE Room
  OBVIOUS
<1>1. Unused = {}
  BY DEF Init, Unused
<1>2. Cardinality(Unused) = 0
  BY <1>1, FS_EmptySet
<1> QED
  BY <1>2 DEF Init, Room, Written, Halted, SpaceReserved, NoPanic, Committing

\* begin_op reserves MAXOPBLOCKS blocks for each operation under way.
LEMMA BeginOpRoom ==
  ASSUME NEW p \in Procs, IndInv, Room, BeginOp(p)
  PROVE  Room'
<1>1. /\ pc[p] \in {"idle", "begin"} /\ pc' = [pc EXCEPT ![p] = "op"] /\ NoPanic
      /\ Len(lh) + (outstanding + 1) * MaxOpBlocks <= LogSize
      /\ lh' = lh /\ wrote' = wrote
  BY LogTypes DEF BeginOp, Goto, LogLockFree, NoPanic, MustWait, NoSpace, IndInv, TypeOK
<1>2. Written' /\ NoPanic'
  BY <1>1 DEF Room, Written, Logged, NoPanic, IndInv, TypeOK
<1>3. Cardinality(Unused)' <= (outstanding + 1) * MaxOpBlocks /\ Cardinality(Unused)' \in Nat
  <2> DEFINE Shares == (Active \cup {p}) \X (1..MaxOpBlocks)
  <2>1. IsFiniteSet(Active \cup {p}) /\ Cardinality(Active \cup {p}) = outstanding + 1
    <3>1. p \notin Active
      BY <1>1 DEF Active
    <3>2. Cardinality(Active) = outstanding
      BY <1>1 DEF IndInv, OneCommitter
    <3> QED
      BY <3>1, <3>2, ActiveFinite, FS_AddElement
  <2>2. IsFiniteSet(1..MaxOpBlocks) /\ Cardinality(1..MaxOpBlocks) = MaxOpBlocks
    BY FS_Interval
  <2>3. IsFiniteSet(Shares) /\ Cardinality(Shares) = (outstanding + 1) * MaxOpBlocks
    <3>1. /\ IsFiniteSet(Shares)
          /\ Cardinality(Shares) = Cardinality(Active \cup {p}) * Cardinality(1..MaxOpBlocks)
      BY <2>1, <2>2, FS_Product
    <3> QED
      BY <2>1, <2>2, <3>1
  <2>4. Unused' \subseteq Shares
    BY <1>1 DEF Unused, Active, IndInv, TypeOK
  <2>5. /\ IsFiniteSet(Unused') /\ Cardinality(Unused') <= Cardinality(Shares)
        /\ Cardinality(Unused') \in Nat
    BY <2>3, <2>4, FS_Subset, FS_CardinalityType
  <2> QED
    BY <2>3, <2>5
<1>4. (outstanding + 1) * MaxOpBlocks \in Nat /\ Len(lh) \in Nat
  BY LogTypes DEF IndInv, TypeOK
<1>5. Len(lh) + Cardinality(Unused)' <= LogSize
  BY <1>1, <1>3, <1>4
<1> QED
  BY <1>1, <1>2, <1>5 DEF Room, Halted, SpaceReserved

\* What an operation has written is in the log, so there is not more of it.
LEMMA WroteFinite ==
  ASSUME NEW p \in Procs, IndInv, Room, pc[p] = "op"
  PROVE  IsFiniteSet(wrote[p]) /\ wrote[p] \subseteq Blocks
<1> DEFINE F == [i \in 1..Len(lh) |-> lh[i]]
           R == {lh[i] : i \in 1..Len(lh)}
<1>1. IsFiniteSet(1..Len(lh))
  BY LogTypes, FS_Interval
<1>2. IsFiniteSet(R)
  <2>1. F \in Surjection(1..Len(lh), R)
    BY DEF Surjection
  <2> HIDE DEF F, R
  <2> QED
    BY <1>1, <2>1, FS_Surjection
<1>3. wrote[p] \subseteq R
  BY DEF Room, Written, Logged
<1> QED
  BY <1>2, <1>3, FS_Subset DEF IndInv, TypeOK

\* A block that is new in the log uses up one of the reserved ones.
LEMMA LogWriteRoom ==
  ASSUME NEW p \in Procs, NEW v \in Data, IndInv, Room, LogWrite(p, v)
  PROVE  Room'
<1> USE ReservationAssumption
<1> DEFINE b == blk[p]
           n == Cardinality(wrote[p])
           m == Cardinality(wrote[p] \cup {b})
<1>1. /\ pc[p] = "op" /\ b \in Blocks /\ pc' = pc /\ NoPanic /\ m <= OpBlocks
      /\ wrote' = [wrote EXCEPT ![p] = @ \cup {b}]
  BY DEF LogWrite, LogLockFree, NoPanic, Allowed, IndInv, TypeOK
<1>2. IsFiniteSet(wrote[p]) /\ n \in Nat
  BY <1>1, WroteFinite, FS_CardinalityType
<1>3. m = IF b \in wrote[p] THEN n ELSE n + 1
  BY <1>2, FS_AddElement
<1>4. \A q \in Procs : Cardinality(wrote'[q]) = IF q = p THEN m ELSE Cardinality(wrote[q])
  BY <1>1 DEF IndInv, TypeOK
<1>5. Len(lh) \in Nat /\ \A i \in 1..Len(lh) : lh[i] \in Blocks
  BY LogTypes
<1>6. /\ NoPanic' /\ \A q \in Procs : pc[q] # "op" => wrote'[q] = wrote[q]
      /\ \A q \in Procs : wrote'[q] \subseteq wrote[q] \cup {b}
  BY <1>1 DEF NoPanic, IndInv, TypeOK
<1>7. CASE Logged(b)
  <2>1. lh' = lh
    BY <1>7 DEF LogWrite
  <2>2. Written'
    BY <1>1, <1>6, <1>7, <2>1 DEF Room, Written, Logged
  <2>3. Unused' \subseteq Unused
    <3>1. ASSUME NEW r \in Procs \X (1..MaxOpBlocks), pc'[r[1]] = "op",
                 r[2] > Cardinality(wrote'[r[1]])
          PROVE  r \in Unused
      <4>1. r[1] \in Procs /\ r[2] \in Nat
        OBVIOUS
      <4>2. CASE r[1] = p
        BY <1>1, <1>2, <1>3, <1>4, <3>1, <4>1, <4>2 DEF Unused
      <4>3. CASE r[1] # p
        BY <1>1, <1>4, <3>1, <4>1, <4>3 DEF Unused
      <4> QED
        BY <4>2, <4>3
    <3> QED
      BY <3>1 DEF Unused
  <2>4. Len(lh') + Cardinality(Unused)' <= LogSize
    BY <1>5, <2>1, <2>3, UnusedShrinks DEF Room
  <2> QED
    BY <1>6, <2>2, <2>4 DEF Room, Halted, SpaceReserved
<1>8. CASE ~Logged(b)
  <2>1. lh' = Append(lh, b) /\ b \notin wrote[p] /\ m = n + 1
    BY <1>1, <1>3, <1>8 DEF LogWrite, Room, Written
  <2>2. /\ Len(lh') = Len(lh) + 1 /\ lh'[Len(lh) + 1] = b
        /\ \A i \in 1..Len(lh) : lh'[i] = lh[i]
    BY <1>1, <2>1 DEF IndInv, TypeOK
  <2>3. \A c \in Blocks : Logged(c) \/ c = b => \E i \in 1..Len(lh') : lh'[i] = c
    BY <1>5, <2>2 DEF Logged
  <2>4. Written'
    <3>1. \A q \in Procs : wrote[q] \subseteq Blocks
      BY DEF IndInv, TypeOK
    <3>2. \A q \in Procs : pc'[q] = "op" =>
            \A c \in wrote'[q] : \E i \in 1..Len(lh') : lh'[i] = c
      BY <1>1, <1>6, <2>3, <3>1 DEF Room, Written
    <3> QED
      BY <1>1, <1>6, <3>2 DEF Room, Written, Logged
  <2>5. <<p, m>> \in Unused
    <3>1. m \in 1..MaxOpBlocks /\ m > n
      BY <1>1, <1>2, <2>1
    <3> QED
      BY <1>1, <3>1 DEF Unused
  <2>6. Unused' \subseteq Unused \ {<<p, m>>}
    <3>1. ASSUME NEW r \in Procs \X (1..MaxOpBlocks), pc'[r[1]] = "op",
                 r[2] > Cardinality(wrote'[r[1]])
          PROVE  r \in Unused \ {<<p, m>>}
      <4>1. r[1] \in Procs /\ r[2] \in Nat
        OBVIOUS
      <4>2. CASE r[1] = p
        <5>1. r[2] > m /\ m = n + 1
          BY <1>4, <2>1, <3>1, <4>2
        <5>2. r # <<p, m>> /\ r[2] > n
          BY <1>2, <4>1, <5>1
        <5> QED
          BY <1>1, <3>1, <4>2, <5>1, <5>2 DEF Unused
      <4>3. CASE r[1] # p
        BY <1>1, <1>4, <3>1, <4>1, <4>3 DEF Unused
      <4> QED
        BY <4>2, <4>3
    <3> QED
      BY <3>1 DEF Unused
  <2>7. Cardinality(Unused') <= Cardinality(Unused) - 1 /\ Cardinality(Unused') \in Nat
    <3>1. /\ IsFiniteSet(Unused \ {<<p, m>>})
          /\ Cardinality(Unused \ {<<p, m>>}) = Cardinality(Unused) - 1
      BY <2>5, UnusedFinite, FS_RemoveElement
    <3>2. /\ IsFiniteSet(Unused')
          /\ Cardinality(Unused') <= Cardinality(Unused \ {<<p, m>>})
      BY <2>6, <3>1, FS_Subset
    <3>3. Cardinality(Unused') \in Nat
      BY <3>2, FS_CardinalityType
    <3> QED
      BY <3>1, <3>2, <3>3
  <2>8. Cardinality(Unused) \in Nat
    BY UnusedFinite, FS_CardinalityType
  <2>9. Len(lh') + Cardinality(Unused)' <= LogSize
    <3>1. Len(lh) + Cardinality(Unused) <= LogSize
      BY DEF Room, SpaceReserved
    <3> QED
      BY <1>5, <2>2, <2>7, <2>8, <3>1
  <2> QED
    BY <1>6, <2>4, <2>9 DEF Room, Halted, SpaceReserved
<1> QED
  BY <1>7, <1>8

\* A process that panics keeps what it has reserved to itself.
LEMMA LogWritePanicRoom ==
  ASSUME NEW p \in Procs, IndInv, Room, LogWritePanic(p)
  PROVE  Room'
<1>1. /\ pc[p] = "op" /\ pc' = [pc EXCEPT ![p] = "panic"]
      /\ lh' = lh /\ wrote' = wrote
  BY DEF LogWritePanic, Goto, logVars
<1>4. \A q \in Procs : pc'[q] = IF q = p THEN "panic" ELSE pc[q]
  BY <1>1 DEF IndInv, TypeOK
<1>a. Written'
  BY <1>1, <1>4 DEF Room, Written, Logged
<1>b. Halted'
  BY <1>1, <1>4, QuietDuringOp DEF Halted, Committing
<1>5. Unused' \subseteq Unused
  BY <1>1, <1>4 DEF Unused
<1>6. Len(lh') + Cardinality(Unused)' <= LogSize
  BY <1>1, <1>5, LogTypes, UnusedShrinks DEF Room
<1> QED
  BY <1>1, <1>a, <1>b, <1>6 DEF Room, SpaceReserved

\* An operation that ends gives back what it has not used.
LEMMA EndOpRoom ==
  ASSUME NEW p \in Procs, IndInv, Room, EndOp(p)
  PROVE  Room'
<1>1. /\ pc[p] = "op" /\ NoPanic /\ ~committing /\ lh' = lh
      /\ wrote' = [wrote EXCEPT ![p] = {}]
  BY QuietDuringOp DEF EndOp, LogLockFree, NoPanic
<1>2. /\ \A q \in Procs : pc'[q] # "panic"
      /\ \A q \in Procs : q # p => pc'[q] = pc[q] \/ (pc[q] = "asleep" /\ pc'[q] = "begin")
      /\ pc'[p] # "op"
  <2>1. \/ pc' = [pc EXCEPT ![p] = CommitEntry]
        \/ Wakeup(p, "idle")
    BY <1>1 DEF EndOp, Goto
  <2>2. pc \in [Procs -> PCs] /\ CommitEntry \in {"done", "wlog"}
    BY DEF CommitEntry, IndInv, TypeOK
  <2> QED
    BY <1>1, <2>1, <2>2 DEF Wakeup, NoPanic
<1>3. Written' /\ NoPanic'
  BY <1>1, <1>2 DEF Room, Written, Logged, NoPanic, IndInv, TypeOK
<1>4. Unused' \subseteq Unused
  BY <1>1, <1>2 DEF Unused, IndInv, TypeOK
<1>5. Len(lh') + Cardinality(Unused)' <= LogSize
  BY <1>1, <1>4, LogTypes, UnusedShrinks DEF Room
<1> QED
  BY <1>3, <1>5 DEF Room, Halted, SpaceReserved

\* The log is emptied, or read back, while no operation is under way.
LEMMA ClearedRoom ==
  ASSUME IndInv, Room,
         (\E p \in Procs : EraseTrans(p)) \/ Crash \/ ReadHead \/ RecoverDone
  PROVE  Room'
<1> USE ReservationAssumption
<1> DEFINE Cleared == /\ NoPanic' /\ \A p \in Procs : pc'[p] # "op" /\ wrote'[p] = {}
                      /\ Len(lh') <= LogSize /\ Len(lh') \in Nat
<1>1. Cleared
  <2>1. ASSUME NEW p \in Procs, EraseTrans(p) PROVE Cleared
    <3>1. /\ pc[p] \in Committing /\ pc' = [pc EXCEPT ![p] = "done"] /\ lh' = <<>>
          /\ wrote' = wrote
      BY <2>1 DEF EraseTrans, ClearHead, Goto, Committing
    <3>2. NoPanic /\ \A q \in Procs : pc[q] # "op"
      BY <3>1, CommitterAlone DEF Room, Halted
    <3>3. Len(lh') = 0
      BY <3>1
    <3> QED
      BY <3>1, <3>2, <3>3 DEF Room, Written, NoPanic, IndInv, TypeOK
  <2>2. CASE Crash
    BY <2>2 DEF Crash, NoPanic
  <2>3. CASE ReadHead \/ RecoverDone
    <3>1. pc' = pc /\ wrote' = wrote /\ boot # "run" /\ (lh' = dhead \/ lh' = <<>>)
      BY <2>3 DEF ReadHead, RecoverDone, ClearHead, procVars
    <3>2. \A q \in Procs : pc[q] = "idle"
      BY <3>1 DEF IndInv, BootOK
    <3>3. Len(lh') <= LogSize /\ Len(lh') \in Nat
      BY <3>1 DEF IndInv, TypeOK
    <3> QED
      BY <3>1, <3>2, <3>3 DEF Room, Written, NoPanic
  <2> QED
    BY <2>1, <2>2, <2>3
<1>2. Unused' = {}
  BY <1>1 DEF Unused
<1>3. Cardinality(Unused)' = 0
  BY <1>2, FS_EmptySet
<1> QED
  BY <1>1, <1>3 DEF Room, Written, Halted, SpaceReserved

\* All other steps leave the operations under way and the length of the log.
LEMMA OtherRoom ==
  ASSUME IndInv, Room,
         \/ \E p \in Procs : \/ BeginOpSleep(p) \/ Brelse(p) \/ EndOpDone(p)
                             \/ WriteLog(p) \/ WriteHead(p) \/ InstallTrans(p)
         \/ \E p \in Procs, b \in Blocks : ReadBlock(p, b)
         \/ \E b \in Blocks : Evict(b)
         \/ RecoverTrans
         \/ UNCHANGED vars
  PROVE  Room'
<1>1. lh' = lh /\ wrote' = wrote
  BY DEF BeginOpSleep, Brelse, EndOpDone, WriteLog, WriteHead, InstallTrans, ReadBlock,
         Evict, RecoverTrans, logVars, procVars, vars
<1> DEFINE Apart == \A q \in Procs :
             \/ pc'[q] = pc[q]
             \/ pc[q] \notin {"op", "panic"} /\ pc'[q] \notin {"op", "panic"} \cup Committing
             \/ pc[q] \in Committing /\ pc'[q] \in Committing
<1>2. Apart
  <2>0. pc \in [Procs -> PCs]
    BY DEF IndInv, TypeOK
  <2>1. ASSUME NEW p \in Procs, BeginOpSleep(p) \/ WriteHead(p) PROVE Apart
    BY <2>0, <2>1 DEF BeginOpSleep, WriteHead, Goto, Committing
  <2>2. ASSUME NEW p \in Procs, EndOpDone(p) PROVE Apart
    BY <2>0, <2>2 DEF EndOpDone, Wakeup, Committing
  <2>3. ASSUME pc' = pc PROVE Apart
    BY <2>3
  <2> QED
    BY <2>1, <2>2, <2>3 DEF Brelse, WriteLog, InstallTrans, ReadBlock, Evict, RecoverTrans,
                            procVars, vars
<1>3. NoPanic' = NoPanic
  BY <1>2 DEF NoPanic, Committing
<1>4. Written' /\ Halted'
  BY <1>1, <1>2, <1>3 DEF Room, Written, Halted, Logged, Committing
<1>5. Unused' = Unused
  BY <1>1, <1>2 DEF Unused, Committing
<1> QED
  BY <1>1, <1>3, <1>4, <1>5 DEF Room, SpaceReserved

LEMMA StepRoom == IndInv /\ Room /\ [Next]_vars => Room'
<1> SUFFICES ASSUME IndInv, Room, [Next]_vars PROVE Room'
  OBVIOUS
<1>1. ASSUME NEW p \in Procs, BeginOp(p) \/ LogWritePanic(p) \/ EndOp(p) PROVE Room'
  BY <1>1, BeginOpRoom, LogWritePanicRoom, EndOpRoom
<1>2. ASSUME NEW p \in Procs, NEW v \in Data, LogWrite(p, v) PROVE Room'
  BY <1>2, LogWriteRoom
<1>3. CASE (\E p \in Procs : EraseTrans(p)) \/ Crash \/ ReadHead \/ RecoverDone
  BY <1>3, ClearedRoom
<1>4. CASE \/ \E p \in Procs : \/ BeginOpSleep(p) \/ Brelse(p) \/ EndOpDone(p)
                               \/ WriteLog(p) \/ WriteHead(p) \/ InstallTrans(p)
           \/ \E p \in Procs, b \in Blocks : ReadBlock(p, b)
           \/ \E b \in Blocks : Evict(b)
           \/ RecoverTrans
           \/ UNCHANGED vars
  BY <1>4, OtherRoom
<1> QED
  BY <1>1, <1>2, <1>3, <1>4 DEF Next, CommitStep, Recovery

\* begin_op never promises more blocks than lh.block[] has room for, for any number
\* of operations and blocks (log.c:134).
THEOREM SpaceIsReserved == Spec => []SpaceReserved
<1>1. Room => SpaceReserved
  BY DEF Room
<1> QED
  BY <1>1, InitRoom, StepRoom, Invariance, PTL DEF Spec

\* A process inside an operation has not used MaxOpBlocks - OpBlocks of its blocks.
LEMMA UnusedInside ==
  ASSUME NEW p \in Procs, IndInv, Room, pc[p] = "op", Allowed(p), blk[p] # None
  PROVE  Cardinality(Unused) >= MaxOpBlocks - OpBlocks
<1> USE ReservationAssumption, SizeAssumption
<1> DEFINE n == Cardinality(wrote[p])
           Left == (OpBlocks + 1)..MaxOpBlocks
           Mine == {p} \X Left
<1>1. n \in Nat /\ n <= OpBlocks
  <2>1. IsFiniteSet(wrote[p]) /\ n \in Nat
    BY WroteFinite, FS_CardinalityType
  <2>2. Cardinality(wrote[p] \cup {blk[p]}) = IF blk[p] \in wrote[p] THEN n ELSE n + 1
    BY <2>1, FS_AddElement
  <2> QED
    BY <2>1, <2>2 DEF Allowed
<1>2. Mine \subseteq Unused
  BY <1>1 DEF Unused
<1>3. Cardinality(Mine) = MaxOpBlocks - OpBlocks
  <2>1. /\ IsFiniteSet(Left)
        /\ Cardinality(Left) = MaxOpBlocks - OpBlocks
    <3>1. /\ IsFiniteSet(Left)
          /\ Cardinality(Left) = IF OpBlocks + 1 > MaxOpBlocks
                                 THEN 0 ELSE MaxOpBlocks - (OpBlocks + 1) + 1
      BY FS_Interval
    <3> QED
      BY <3>1
  <2>2. IsFiniteSet({p}) /\ Cardinality({p}) = 1
    BY FS_Singleton
  <2>3. Cardinality(Mine) = Cardinality({p}) * Cardinality(Left)
    BY <2>1, <2>2, FS_Product
  <2> HIDE DEF Left
  <2> QED
    BY <2>1, <2>2, <2>3
<1>4. Cardinality(Mine) <= Cardinality(Unused) /\ Cardinality(Unused) \in Nat
  BY <1>2, UnusedFinite, FS_Subset, FS_CardinalityType
<1> HIDE DEF Mine
<1> QED
  BY <1>3, <1>4

\* Inside an operation outstanding is not 0, and in a roomy log the header is not full.
LEMMA StepNoPanic ==
  ASSUME Roomy, IndInv, Room, NoPanic, [Next]_vars
  PROVE  NoPanic'
<1> USE ReservationAssumption, SizeAssumption
<1>1. ASSUME NEW p \in Procs, LogWritePanic(p) PROVE FALSE
  <2>1. pc[p] = "op" /\ blk[p] # None /\ Allowed(p) /\ (TooBig \/ OutsideTrans)
    BY <1>1 DEF LogWritePanic
  <2>2. ~OutsideTrans
    <3>1. outstanding = Cardinality(Active) /\ outstanding \in Nat
      BY DEF IndInv, OneCommitter, TypeOK
    <3>2. Active # {}
      BY <2>1 DEF Active
    <3>3. outstanding # 0
      BY <3>1, <3>2, ActiveFinite, FS_EmptySet
    <3> QED
      BY <3>1, <3>3 DEF OutsideTrans
  <2>3. Cardinality(Unused) >= MaxOpBlocks - OpBlocks /\ Cardinality(Unused) \in Nat
    BY <2>1, UnusedInside, UnusedFinite, FS_CardinalityType
  <2>4. Len(lh) < LogSize /\ Len(lh) < NLog - 1
    BY <2>3, LogTypes DEF Room, SpaceReserved, Roomy
  <2> QED
    BY <2>1, <2>2, <2>4, LogTypes DEF TooBig
<1>2. ASSUME NEW p \in Procs, EndOp(p) PROVE NoPanic'
  <2>1. ~committing /\ CommitEntry # "panic"
    BY <1>2, QuietDuringOp DEF EndOp, CommitEntry
  <2> QED
    BY <1>2, <2>1 DEF EndOp, Goto, Wakeup, NoPanic, IndInv, TypeOK
<1>3. ASSUME NEW p \in Procs, BeginOp(p) \/ BeginOpSleep(p) \/ Brelse(p) \/ EndOpDone(p)
                                \/ CommitStep(p)
      PROVE  NoPanic'
  BY <1>3 DEF BeginOp, BeginOpSleep, Brelse, EndOpDone, CommitStep, WriteLog, WriteHead,
              InstallTrans, EraseTrans, Goto, Wakeup, procVars, NoPanic, IndInv, TypeOK
<1>4. ASSUME NEW p \in Procs, (\E b \in Blocks : ReadBlock(p, b))
                                \/ (\E v \in Data : LogWrite(p, v))
      PROVE  NoPanic'
  BY <1>4 DEF ReadBlock, LogWrite, NoPanic
<1>5. CASE (\E b \in Blocks : Evict(b)) \/ Recovery \/ Crash \/ UNCHANGED vars
  BY <1>5 DEF Evict, Recovery, ReadHead, RecoverTrans, RecoverDone, Crash, procVars, vars,
              NoPanic
<1> QED
  BY <1>1, <1>2, <1>3, <1>4, <1>5 DEF Next

\* If every operation leaves OpBlocks + 2 <= MaxOpBlocks of its blocks unused (or one, with
\* a log area of LOGSIZE blocks behind the header), no process ever panics in log.c:
\* the two blocks are what log.c:221 falls short of log.c:134.
THEOREM NoneTooBig == ASSUME Roomy PROVE Spec => []NoPanic
<1>1. Init => NoPanic
  BY DEF Init, NoPanic
<1>2. IndInv /\ Room /\ NoPanic /\ [Next]_vars => NoPanic'
  BY StepNoPanic
<1> QED
  BY <1>1, <1>2, InitRoom, StepRoom, Invariance, PTL DEF Spec
-----------------------------------------------------------------------------
(* The log implements the atomic disk.                                     *)

\* A block in the header is restored from its slot of the log, any other is
\* as its home location has it.
LEMMA DurableCases ==
  ASSUME IndInv
  PROVE  /\ \A i \in 1..Len(dhead) : DurableOf(dhead[i]) = dlog[i]
         /\ \A b \in Blocks : (\A i \in 1..Len(dhead) : dhead[i] # b)
                                 => DurableOf(b) = home[b]
         /\ dhead = <<>> => Durable = home
<1>1. ASSUME NEW i \in 1..Len(dhead) PROVE DurableOf(dhead[i]) = dlog[i]
  <2>1. \A j \in 1..Len(dhead) : dhead[j] = dhead[i] => j = i
    BY DEF IndInv, HeaderOK, Distinct
  <2>2. (CHOOSE j \in 1..Len(dhead) : dhead[j] = dhead[i]) = i
    BY <2>1
  <2> QED
    BY <2>2 DEF DurableOf
<1>2. \A b \in Blocks : (\A i \in 1..Len(dhead) : dhead[i] # b)
                           => DurableOf(b) = home[b]
  BY DEF DurableOf
<1>3. ASSUME dhead = <<>> PROVE Durable = home
  <2>1. \A b \in Blocks : DurableOf(b) = home[b]
    BY <1>3 DEF DurableOf
  <2> QED
    BY <2>1 DEF Durable, IndInv, TypeOK
<1> QED
  BY <1>1, <1>2, <1>3

LEMMA InitRefines == Init => Disk!Init
<1> SUFFICES ASSUME Init PROVE Disk!Init
  OBVIOUS
<1>1. Durable = home
  BY InitInv, DurableCases DEF Init
<1>2. Current = Durable /\ Active = {}
  BY DEF Init, Current, Active
<1> QED
  BY <1>1, <1>2 DEF Disk!Init, Init

\* Steps of operations and of the cache write no disk block.
LEMMA DiskUnchanged == UNCHANGED diskVars => Durable' = Durable
  BY DEF diskVars, Durable, DurableOf

LEMMA BeginOpRefines ==
  ASSUME NEW p \in Procs, IndInv, BeginOp(p) PROVE Disk!Begin(p)
<1>0. UNCHANGED diskVars /\ UNCHANGED <<home, cache, boot>>
  BY DEF BeginOp, diskVars
<1>1. Durable' = Durable
  BY <1>0, DiskUnchanged
<1>3. Current' = Current
  BY <1>0, <1>1 DEF Current, Contents
<1>2. p \notin Active /\ Active' = Active \cup {p}
  BY DEF BeginOp, Goto, Active, IndInv, TypeOK
<1> QED
  BY <1>1, <1>2, <1>3 DEF Disk!Begin

\* Reading, releasing, waiting and evicting change nothing a process can see.
LEMMA InvisibleRefines ==
  ASSUME IndInv,
         \/ \E p \in Procs : BeginOpSleep(p) \/ Brelse(p) \/ EndOpDone(p)
         \/ \E p \in Procs, b \in Blocks : ReadBlock(p, b)
         \/ \E b \in Blocks : Evict(b)
         \/ ReadHead
         \/ UNCHANGED vars
  PROVE  UNCHANGED Disk!vars
<1>1. Durable' = Durable
  BY DiskUnchanged DEF BeginOpSleep, Brelse, EndOpDone, ReadBlock, Evict, ReadHead,
                       vars, diskVars
<1>2. Active' = Active
  BY DEF BeginOpSleep, Brelse, EndOpDone, ReadBlock, Evict, ReadHead, Active, vars,
         Goto, Wakeup, procVars, IndInv, TypeOK
<1>3. Current' = Current
  <2>1. ASSUME NEW p \in Procs, BeginOpSleep(p) \/ Brelse(p) \/ EndOpDone(p)
        PROVE  Current' = Current
    BY <1>1, <2>1 DEF BeginOpSleep, Brelse, EndOpDone, Current, Contents, diskVars
  <2>2. ASSUME NEW p \in Procs, NEW b \in Blocks, ReadBlock(p, b)
        PROVE  Current' = Current
    <3>1. \A c \in Blocks : Contents(c)' = Contents(c)
      BY <2>2 DEF ReadBlock, Bread, Contents, diskVars, IndInv, TypeOK
    <3> QED
      BY <1>1, <2>2, <3>1 DEF ReadBlock, Current
  <2>3. ASSUME NEW b \in Blocks, Evict(b) PROVE Current' = Current
    <3>1. boot = "run" => cache[b] = home[b]
      BY <2>3 DEF Evict, IndInv, PinnedWhileDirty, Dirty
    <3>2. boot = "run" => \A c \in Blocks : Contents(c)' = Contents(c)
      BY <2>3, <3>1 DEF Evict, Contents, diskVars, IndInv, TypeOK
    <3> QED
      BY <1>1, <2>3, <3>2 DEF Evict, Current
  <2>4. CASE ReadHead
    BY <1>1, <2>4 DEF ReadHead, Current
  <2>5. CASE UNCHANGED vars
    BY <1>1, <2>5 DEF vars, Current, Contents
  <2> QED
    BY <2>1, <2>2, <2>3, <2>4, <2>5
<1> QED
  BY <1>1, <1>2, <1>3 DEF Disk!vars

LEMMA LogWriteRefines ==
  ASSUME NEW p \in Procs, NEW v \in Data, IndInv, LogWrite(p, v)
  PROVE  Disk!Write(p, blk[p], v) /\ blk[p] \in Blocks
<1>1. /\ boot = "run" /\ blk[p] \in Blocks /\ p \in Active
      /\ cache' = [cache EXCEPT ![blk[p]] = v] /\ UNCHANGED <<home, boot, pc>>
  BY QuietDuringOp DEF LogWrite, diskVars, Active, IndInv, TypeOK
<1>2. Durable' = Durable /\ Active' = Active
  BY DiskUnchanged DEF LogWrite, Active
<1>3. Current' = [Current EXCEPT ![blk[p]] = v]
  <2>1. \A c \in Blocks : Contents(c)' = IF c = blk[p] THEN v ELSE Contents(c)
    BY <1>1 DEF Contents, IndInv, TypeOK
  <2> QED
    BY <1>1, <2>1 DEF Current
<1> QED
  BY <1>1, <1>2, <1>3 DEF Disk!Write

\* A process that panics leaves its operation, as one that ends it does.
LEMMA EndOpRefines ==
  ASSUME NEW p \in Procs, IndInv, EndOp(p) \/ LogWritePanic(p) PROVE Disk!End(p)
<1>0. UNCHANGED diskVars /\ UNCHANGED <<home, cache, boot>>
  BY DEF EndOp, LogWritePanic, diskVars
<1>1. Durable' = Durable
  BY <1>0, DiskUnchanged
<1>3. Current' = Current
  BY <1>0, <1>1 DEF Current, Contents
<1>2. p \in Active /\ Active' = Active \ {p}
  BY DEF EndOp, LogWritePanic, Active, Goto, Wakeup, CommitEntry, IndInv, TypeOK
<1> QED
  BY <1>1, <1>2, <1>3 DEF Disk!End
LEMMA WriteLogRefines ==
  ASSUME NEW p \in Procs, IndInv, WriteLog(p) PROVE UNCHANGED Disk!vars
<1>1. /\ boot = "run" /\ dhead = <<>> /\ lh[tail] \in Blocks
      /\ UNCHANGED <<home, dhead, boot, pc>>
      /\ cache' = [cache EXCEPT ![lh[tail]] = Contents(lh[tail])]
  BY CommitterAlone, LogTypes DEF WriteLog, Bread, procVars, Committing
<1>2. Durable' = home /\ Durable = home
  <2>1. \A b \in Blocks : DurableOf(b) = home[b] /\ DurableOf(b)' = home[b]
    BY <1>1 DEF DurableOf
  <2> QED
    BY <2>1 DEF Durable, IndInv, TypeOK
<1>3. \A b \in Blocks : Contents(b)' = Contents(b)
  BY <1>1 DEF Contents, IndInv, TypeOK
<1> QED
  BY <1>1, <1>2, <1>3 DEF Disk!vars, Current, Active

\* The header takes the disk from the old contents to the new in one step.
LEMMA WriteHeadRefines ==
  ASSUME NEW p \in Procs, IndInv, WriteHead(p) PROVE Disk!Commit
<1>1. /\ boot = "run" /\ ~Installing /\ tail > Len(lh) /\ pc[p] = "wlog"
      /\ \A q \in Procs : pc[q] # "op"
      /\ dhead' = lh /\ pc' = [pc EXCEPT ![p] = "install"]
      /\ UNCHANGED <<home, dlog, cache, lh, boot>>
  BY CommitterAlone DEF WriteHead, Goto, Committing
<1>2. Active = {} /\ Active' = {} /\ Current' = Current
  BY <1>1 DEF Active, IndInv, TypeOK, Current, Contents
<1>3. ASSUME NEW b \in Blocks PROVE DurableOf(b)' = Contents(b)
  <2>1. CASE Logged(b)
    <3>1. PICK i \in 1..Len(lh) : lh[i] = b
      BY <2>1 DEF Logged
    <3>2. \A j \in 1..Len(lh) : lh[j] = b => j = i
      BY <3>1, LogTypes
    <3>3. (CHOOSE j \in 1..Len(lh) : lh[j] = b) = i
      BY <3>1, <3>2
    <3>4. DurableOf(b)' = dlog[i]
      BY <1>1, <3>1, <3>3 DEF DurableOf
    <3>5. i < tail
      BY <1>1, <3>1, LogTypes
    <3>6. dlog[i] = cache[b]
      BY <1>1, <3>1, <3>5 DEF IndInv, CopiesOK
    <3>7. cache[b] # None
      BY <1>1, <2>1 DEF IndInv, PinnedWhileDirty, Dirty, Installed
    <3> QED
      BY <3>4, <3>6, <3>7 DEF Contents
  <2>2. CASE ~Logged(b)
    <3>1. DurableOf(b)' = home[b]
      BY <1>1, <2>2 DEF DurableOf, Logged
    <3>2. cache[b] \in {None, home[b]}
      BY <1>1, <2>2 DEF IndInv, PinnedWhileDirty, Dirty
    <3> QED
      BY <3>1, <3>2 DEF Contents
  <2> QED
    BY <2>1, <2>2
<1>4. Durable' = [b \in Blocks |-> Contents(b)]
  BY <1>3 DEF Durable
<1> QED
  BY <1>1, <1>2, <1>4 DEF Disk!Commit, Current

\* Writing home a block of the header changes nothing a boot would restore.
LEMMA InstallDurable ==
  ASSUME IndInv, Installing, tail \in 1..Len(lh), NEW v \in Data,
         home' = [home EXCEPT ![lh[tail]] = v], dlog' = dlog, dhead' = dhead
  PROVE  Durable' = Durable
<1>1. dhead = lh /\ lh[tail] \in Blocks
  BY LogTypes DEF IndInv, HeaderOK
<1>2. ASSUME NEW b \in Blocks PROVE DurableOf(b)' = DurableOf(b)
  <2>1. CASE \E i \in 1..Len(dhead) : dhead[i] = b
    BY <2>1 DEF DurableOf
  <2>2. CASE ~\E i \in 1..Len(dhead) : dhead[i] = b
    <3>1. home'[b] = home[b]
      BY <1>1, <2>2 DEF IndInv, TypeOK
    <3> QED
      BY <2>2, <3>1 DEF DurableOf
  <2> QED
    BY <2>1, <2>2
<1> QED
  BY <1>2 DEF Durable

LEMMA InstallTransRefines ==
  ASSUME NEW p \in Procs, IndInv, InstallTrans(p) PROVE UNCHANGED Disk!vars
<1>1. /\ boot = "run" /\ Installing /\ tail \in 1..Len(lh) /\ lh[tail] \in Blocks
      /\ dlog[tail] \in Data /\ pc[p] = "install"
      /\ UNCHANGED <<dlog, dhead, boot, pc>>
      /\ home' = [home EXCEPT ![lh[tail]] = dlog[tail]]
      /\ cache' = [cache EXCEPT ![lh[tail]] = dlog[tail]]
  BY CommitterAlone, LogTypes DEF InstallTrans, Install, procVars, Committing
<1>2. Durable' = Durable
  BY <1>1, InstallDurable
<1>3. cache[lh[tail]] = dlog[tail] /\ dlog[tail] # None
  <2>1. ~(tail < tail)
    BY LogTypes
  <2> QED
    BY <1>1, <2>1 DEF IndInv, CopiesOK
<1>4. \A b \in Blocks : Contents(b)' = Contents(b)
  BY <1>1, <1>3 DEF Contents, IndInv, TypeOK
<1> QED
  BY <1>1, <1>2, <1>4 DEF Disk!vars, Current, Active

\* Once every logged block is home the header may go.
LEMMA ClearDurable ==
  ASSUME IndInv, Installing, tail > Len(lh), dhead' = <<>>, home' = home
  PROVE  Durable' = Durable
<1>1. dhead = lh
  BY DEF IndInv, HeaderOK
<1>2. ASSUME NEW b \in Blocks PROVE DurableOf(b)' = DurableOf(b)
  <2>1. DurableOf(b)' = home[b]
    BY DEF DurableOf
  <2>2. CASE Logged(b)
    <3>1. PICK i \in 1..Len(lh) : lh[i] = b
      BY <2>2 DEF Logged
    <3>2. i < tail
      BY <3>1, LogTypes
    <3>3. home[b] = dlog[i]
      BY <3>1, <3>2 DEF IndInv, CopiesOK
    <3>4. DurableOf(b) = dlog[i]
      BY <1>1, <3>1, DurableCases
    <3> QED
      BY <2>1, <3>3, <3>4
  <2>3. CASE ~Logged(b)
    BY <1>1, <2>1, <2>3 DEF DurableOf, Logged
  <2> QED
    BY <2>2, <2>3
<1> QED
  BY <1>2 DEF Durable

LEMMA EraseTransRefines ==
  ASSUME NEW p \in Procs, IndInv, EraseTrans(p) PROVE UNCHANGED Disk!vars
<1>1. /\ Installing /\ tail > Len(lh) /\ dhead' = <<>> /\ pc[p] = "install"
      /\ pc' = [pc EXCEPT ![p] = "done"] /\ UNCHANGED <<home, cache, boot>>
      /\ boot = "run"
  BY CommitterAlone DEF EraseTrans, ClearHead, Goto, Committing
<1>2. Durable' = Durable
  BY <1>1, ClearDurable
<1>3. Active' = Active
  BY <1>1 DEF Active, IndInv, TypeOK
<1> QED
  BY <1>1, <1>2, <1>3 DEF Disk!vars, Current, Contents

LEMMA CrashRefines == ASSUME IndInv, Crash PROVE Disk!Crash
<1>1. /\ dhead' = dhead /\ boot' = "read_head" /\ pc' = [p \in Procs |-> "idle"]
  BY DEF Crash
<1>2. Durable' = Durable
  <2>1. CASE home' = home /\ dlog' = dlog
    BY <1>1, <2>1, DiskUnchanged DEF diskVars
  <2>2. CASE TornLogBlock
    <3>1. dhead = <<>>
      BY <2>2, CommitterAlone DEF TornLogBlock, Committing
    <3>2. \A b \in Blocks : DurableOf(b) = home[b] /\ DurableOf(b)' = home[b]
      BY <1>1, <2>2, <3>1 DEF DurableOf, TornLogBlock
    <3> QED
      BY <3>2 DEF Durable
  <2>3. CASE TornHomeBlock
    <3>1. Installing /\ tail \in 1..Len(lh)
      BY <2>3, LogTypes DEF TornHomeBlock, Installing
    <3> QED
      BY <1>1, <2>3, <3>1, InstallDurable DEF TornHomeBlock
  <2> QED
    BY <2>1, <2>2, <2>3 DEF Crash
<1>3. Current' = Durable' /\ Active' = {}
  BY <1>1 DEF Current, Active
<1> QED
  BY <1>2, <1>3 DEF Disk!Crash

LEMMA RecoverRefines ==
  ASSUME IndInv, RecoverTrans \/ RecoverDone PROVE UNCHANGED Disk!vars
<1>1. CASE RecoverTrans
  <2>1. /\ boot = "install" /\ Installing /\ tail \in 1..Len(lh)
        /\ dlog[tail] \in Data /\ UNCHANGED <<dlog, dhead, boot, pc>>
        /\ home' = [home EXCEPT ![lh[tail]] = dlog[tail]]
    BY <1>1, LogTypes DEF RecoverTrans, Install, Installing, procVars
  <2>2. Durable' = Durable
    BY <2>1, InstallDurable
  <2> QED
    BY <2>1, <2>2 DEF Disk!vars, Current, Active
<1>2. CASE RecoverDone
  <2>1. /\ Installing /\ tail > Len(lh) /\ dhead' = <<>> /\ boot = "install"
        /\ boot' = "run" /\ UNCHANGED <<home, cache, pc>>
    BY <1>2 DEF RecoverDone, ClearHead, Installing, procVars
  <2>2. Durable' = Durable
    BY <2>1, ClearDurable
  <2>3. \A b \in Blocks : Contents(b)' = home[b] /\ DurableOf(b)' = home[b]
    BY <2>1 DEF Contents, DurableOf, IndInv, BootOK
  <2>4. Current' = Durable'
    BY <2>1, <2>3 DEF Current, Durable
  <2> QED
    BY <2>1, <2>2, <2>4 DEF Disk!vars, Current, Active
<1> QED
  BY <1>1, <1>2

LEMMA StepRefines == IndInv /\ [Next]_vars => [Disk!Next]_Disk!vars
<1> SUFFICES ASSUME IndInv, [Next]_vars PROVE [Disk!Next]_Disk!vars
  OBVIOUS
<1>1. ASSUME NEW p \in Procs, BeginOp(p) PROVE Disk!Next
  BY <1>1, BeginOpRefines DEF Disk!Next
<1>2. ASSUME NEW p \in Procs, EndOp(p) \/ LogWritePanic(p) PROVE Disk!Next
  BY <1>2, EndOpRefines DEF Disk!Next
<1>3. ASSUME NEW p \in Procs, NEW v \in Data, LogWrite(p, v) PROVE Disk!Next
  BY <1>3, LogWriteRefines DEF Disk!Next
<1>4. ASSUME NEW p \in Procs, CommitStep(p) PROVE [Disk!Next]_Disk!vars
  BY <1>4, WriteLogRefines, WriteHeadRefines, InstallTransRefines, EraseTransRefines
     DEF Disk!Next, CommitStep
<1>5. CASE Crash
  BY <1>5, CrashRefines DEF Disk!Next
<1>6. CASE RecoverTrans \/ RecoverDone
  BY <1>6, RecoverRefines
<1>7. CASE \/ \E p \in Procs : BeginOpSleep(p) \/ Brelse(p) \/ EndOpDone(p)
           \/ \E p \in Procs, b \in Blocks : ReadBlock(p, b)
           \/ \E b \in Blocks : Evict(b)
           \/ ReadHead
           \/ UNCHANGED vars
  BY <1>7, InvisibleRefines
<1> QED
  BY <1>1, <1>2, <1>3, <1>4, <1>5, <1>6, <1>7 DEF Next, Recovery

\* Operations committed together become durable in one step, with none of them
\* under way, and a crash undoes just what has not: for every number of
\* processes, blocks and log slots, and wherever the crashes fall.
THEOREM Refinement == Spec => ImplementsAtomicDisk
<1> QED
  BY InitRefines, StepRefines, Invariance, PTL
     DEF Spec, ImplementsAtomicDisk, Disk!Spec
=============================================================================
