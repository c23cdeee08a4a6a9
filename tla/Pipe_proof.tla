----------------------------- MODULE Pipe_proof -----------------------------
(***************************************************************************)
(* Proofs about Pipe, for any number of writers and readers, any size of   *)
(* the pipe and any counters that its size divides.                        *)
(***************************************************************************)
EXTENDS Pipe, SequenceTheorems, TLAPS

(* What the proofs need beside the properties of Pipe.                     *)

Working == {"write", "read", "copy", "copied", "sleep"}

\* Whoever is between acquire() and release() or sleep() has the lock.
LockHeld == \A p \in Procs : pc[p] \in Working <=> lock = p

\* Only writers write, only readers read.
Roles == \A p \in Procs : /\ pc[p] = "write" => p \in Writers
                          /\ pc[p] \in {"read", "copy", "copied"} => p \in Readers

\* An end is open as long as somebody has a descriptor or is about to close
\* the last one; who works has one; the last one to close is alone.
EndsOpen ==
  /\ \A p \in Writers : open[p] \/ pc[p] = "close" => writeopen
  /\ \A p \in Readers : open[p] \/ pc[p] = "close" => readopen
  /\ \A p \in Procs : open[p] \/ pc[p] \in {"idle", "close", "free"}
  /\ \A p \in Procs : pc[p] = "close" =>
       \A q \in SideOf(p) : ~open[q] /\ (pc[q] = "close" => q = p)

\* The memory is there until both ends are closed, and only one process is
\* about to free it.
FreedOnce ==
  /\ \A p \in Procs : pc[p] = "free" =>
       /\ ~readopen /\ ~writeopen /\ frees = 0
       /\ \A q \in Procs : pc[q] = "free" => q = p
  /\ frees = 1 => ~readopen /\ ~writeopen /\ \A p \in Procs : pc[p] # "free"

\* Whoever sleeps, or is about to, has nothing to see, or the one that has the
\* lock is going to wake him.
Notified ==
  /\ \A p \in Readers : pc[p] = "sleep" => Empty /\ writeopen
  /\ \A p \in Readers : pc[p] = "asleep" =>
       /\ writeopen
       /\ Empty \/ WriterKilled \/ \E q \in Writers : lock = q /\ pc[q] = "write"
  /\ \A p \in Writers : pc[p] = "sleep" => Full /\ readopen
  /\ \A p \in Writers : pc[p] = "asleep" =>
       /\ readopen
       /\ Full \/ \E q \in Readers : lock = q /\ pc[q] \in {"copy", "copied"}

\* A reader whose loop has ended before it got a byte has seen one, or the end.
StartSeen == \A p \in Readers : pc[p] = "copy" /\ i[p] = 0 => ~Empty \/ ~writeopen

IndInv == TypeOK /\ LockHeld /\ Roles /\ EndsOpen /\ FreedOnce /\ Notified /\ StartSeen
-----------------------------------------------------------------------------
(* Counters that wrap                                                      *)

LEMMA DivMod == ASSUME NEW a \in Nat, NEW P \in Nat \ {0}
                PROVE  /\ a % P \in 0..(P - 1) /\ a \div P \in Nat
                       /\ a = P * (a \div P) + (a % P)
  OBVIOUS

\* A counter modulo a bound it has passed once, or not at all.
LEMMA Wraps == ASSUME NEW a \in Nat, NEW P \in Nat \ {0}, a < 2 * P
               PROVE  a % P = IF a < P THEN a ELSE a - P
  OBVIOUS

\* The next value of a counter, and how far one counter is behind another.
LEMMA WrapsInc == ASSUME NEW P \in Nat \ {0}, NEW a \in 0..(P - 1)
                  PROVE  (a + 1) % P = IF a + 1 < P THEN a + 1 ELSE 0
  OBVIOUS

LEMMA WrapsSum == ASSUME NEW P \in Nat \ {0}, NEW a \in 0..(P - 1), NEW b \in 0..(P - 1)
                  PROVE  (a + b) % P = IF a + b < P THEN a + b ELSE a + b - P
  OBVIOUS

LEMMA WrapsDiff == ASSUME NEW P \in Nat \ {0}, NEW a \in 0..(P - 1), NEW b \in 0..(P - 1)
                   PROVE  (a + P - b) % P = IF b <= a THEN a - b ELSE a + P - b
  OBVIOUS

LEMMA Quotient == ASSUME NEW P \in Nat \ {0}, NEW q \in Nat, NEW r \in 0..(P - 1)
                  PROVE  (q * P + r) % P = r
  OBVIOUS

LEMMA Distribute == ASSUME NEW P \in Nat, NEW q \in Nat, NEW k \in Nat
                    PROVE  (q + k) * P = q * P + k * P /\ q * P = P * q /\ q * P \in Nat
  OBVIOUS

\* Full rounds do not change a place in the array.
LEMMA Round == ASSUME NEW a \in Nat, NEW k \in Nat, NEW P \in Nat \ {0}
               PROVE  (a + k * P) % P = a % P
<1>1. PICK q \in Nat, r \in 0..(P - 1) : r = a % P /\ a = P * q + r
  BY DivMod
<1>2. PICK s \in Nat : s = q + k
  OBVIOUS
<1>3. a + k * P = s * P + r
  BY <1>1, <1>2, Distribute
<1>4. (s * P + r) % P = r
  BY Quotient
<1> QED
  BY <1>1, <1>3, <1>4

\* Less than a round does.
LEMMA Apart == ASSUME NEW a \in Nat, NEW P \in Nat \ {0}, NEW d \in 1..(P - 1)
               PROVE  (a + d) % P # a % P
<1>1. PICK q \in Nat, r \in 0..(P - 1) : r = a % P /\ a = P * q + r
  BY DivMod
<1>2. CASE r + d < P
  <2>1. PICK s \in 0..(P - 1) : s = r + d
    BY <1>2
  <2>2. a + d = q * P + s
    BY <1>1, <2>1, Distribute
  <2>3. (q * P + s) % P = s
    BY Quotient
  <2>4. (a + d) % P = s
    BY <2>2, <2>3
  <2> QED
    BY <1>1, <2>1, <2>4
<1>3. CASE r + d >= P
  <2>1. PICK s \in 0..(P - 1) : s = r + d - P
    BY <1>3
  <2>2. PICK t \in Nat : t = q + 1
    OBVIOUS
  <2>3. t * P = q * P + P
    BY <2>2, Distribute
  <2>4. a + d = t * P + s
    BY <1>1, <2>1, <2>3, Distribute
  <2>5. (t * P + s) % P = s
    BY Quotient
  <2>6. (a + d) % P = s
    BY <2>4, <2>5
  <2>7. s # r
    BY <2>1
  <2> QED
    BY <1>1, <2>6, <2>7
<1> QED
  BY <1>1, <1>2, <1>3

\* How many bytes there are, without %.
LEMMA UsedIs == ASSUME TypeOK
                PROVE  /\ Used = IF nread <= nwrite THEN nwrite - nread
                                 ELSE nwrite + Wrap - nread
                       /\ Used \in 0..PipeSize
                       /\ Empty <=> Used = 0
                       /\ Full <=> Used = PipeSize
<1>1. nread \in 0..(Wrap - 1) /\ nwrite \in 0..(Wrap - 1) /\ Used <= PipeSize
      /\ Wrap \in Nat /\ PipeSize \in Nat \ {0} /\ PipeSize < Wrap
  BY SizeAssumption, WrapAssumption DEF TypeOK
<1>2. (nwrite + Wrap - nread) % Wrap = IF nread <= nwrite THEN nwrite - nread
                                       ELSE nwrite + Wrap - nread
  BY <1>1, WrapsDiff
<1>3. (nread + PipeSize) % Wrap = IF nread + PipeSize < Wrap THEN nread + PipeSize
                                  ELSE nread + PipeSize - Wrap
  <2>1. PipeSize \in 0..(Wrap - 1) /\ Wrap \in Nat \ {0} /\ nread \in 0..(Wrap - 1)
    BY <1>1
  <2> HIDE <1>1
  <2> QED
    BY <2>1, WrapsSum
<1>4. Used = IF nread <= nwrite THEN nwrite - nread ELSE nwrite + Wrap - nread
  BY <1>1, <1>2 DEF Used
<1>5. Empty <=> Used = 0
  BY <1>1, <1>4 DEF Empty
<1>6. Full <=> Used = PipeSize
  BY <1>1, <1>3, <1>4 DEF Full
<1> QED
  BY <1>1, <1>4, <1>5, <1>6

\* A byte goes in.
LEMMA PutByte == ASSUME TypeOK, ~Full, nwrite' = (nwrite + 1) % Wrap, nread' = nread
                 PROVE  /\ nwrite' \in 0..(Wrap - 1)
                        /\ Used' = Used + 1 /\ Used' <= PipeSize /\ ~Empty'
<1>1. nread \in 0..(Wrap - 1) /\ nwrite \in 0..(Wrap - 1)
      /\ Wrap \in Nat /\ PipeSize \in Nat \ {0} /\ PipeSize < Wrap
  BY SizeAssumption, WrapAssumption DEF TypeOK
<1>2. nwrite' = IF nwrite + 1 < Wrap THEN nwrite + 1 ELSE 0
  BY <1>1, WrapsInc
<1>3. nwrite' \in 0..(Wrap - 1)
  BY <1>1, <1>2
<1>4. Used' = (nwrite' + Wrap - nread) % Wrap
  BY DEF Used
<1>5. Used' = IF nread <= nwrite' THEN nwrite' - nread ELSE nwrite' + Wrap - nread
  <2>1. Wrap \in Nat \ {0} /\ nwrite' \in 0..(Wrap - 1) /\ nread \in 0..(Wrap - 1)
    BY <1>1, <1>3
  <2> QED
    BY <2>1, <1>4, WrapsDiff
<1>6. Used' = Used + 1 /\ Used' <= PipeSize
  BY <1>1, <1>2, <1>5, UsedIs
<1>7. ~Empty'
  BY <1>1, <1>2, <1>5, <1>6, UsedIs DEF Empty
<1> QED
  BY <1>3, <1>6, <1>7

\* A byte comes out.
LEMMA GetByte == ASSUME TypeOK, ~Empty, nread' = (nread + 1) % Wrap, nwrite' = nwrite
                 PROVE  nread' \in 0..(Wrap - 1) /\ Used' = Used - 1 /\ Used' <= PipeSize
<1>1. nread \in 0..(Wrap - 1) /\ nwrite \in 0..(Wrap - 1)
      /\ Wrap \in Nat /\ PipeSize \in Nat \ {0} /\ PipeSize < Wrap
  BY SizeAssumption, WrapAssumption DEF TypeOK
<1>2. nread' = IF nread + 1 < Wrap THEN nread + 1 ELSE 0
  BY <1>1, WrapsInc
<1>3. nread' \in 0..(Wrap - 1)
  BY <1>1, <1>2
<1>4. Used' = (nwrite + Wrap - nread') % Wrap
  BY DEF Used
<1>5. Used' = IF nread' <= nwrite THEN nwrite - nread' ELSE nwrite + Wrap - nread'
  <2>1. Wrap \in Nat \ {0} /\ nwrite \in 0..(Wrap - 1) /\ nread' \in 0..(Wrap - 1)
    BY <1>1, <1>3
  <2> QED
    BY <2>1, <1>4, WrapsDiff
<1>6. Used' = Used - 1 /\ Used' <= PipeSize
  BY <1>1, <1>2, <1>5, UsedIs
<1> QED
  BY <1>3, <1>6
-----------------------------------------------------------------------------
(* The invariant is inductive: one lemma for each action                   *)

LEMMA InitInv == Init => IndInv
<1> SUFFICES ASSUME Init PROVE IndInv
  OBVIOUS
<1>0. Used = 0
  BY WrapAssumption, Wraps DEF Init, Used
<1>1. TypeOK
  BY <1>0, EndsAssumption, SizeAssumption, WrapAssumption DEF Init, Procs, TypeOK, Used, PCs
<1>2. LockHeld
  BY <1>0, EndsAssumption, SizeAssumption, WrapAssumption DEF Init, Procs, LockHeld,
     TypeOK, Working
<1>3. Roles
  BY <1>0, EndsAssumption, SizeAssumption, WrapAssumption DEF Init, Procs, Roles, TypeOK
<1>4. EndsOpen
  BY <1>0, EndsAssumption, SizeAssumption, WrapAssumption DEF Init, Procs, EndsOpen,
     TypeOK, SideOf
<1>5. FreedOnce
  BY <1>0, EndsAssumption, SizeAssumption, WrapAssumption DEF Init, Procs, FreedOnce,
     TypeOK, EndsOpen, SideOf
<1>6. Notified
  BY <1>0, EndsAssumption, SizeAssumption, WrapAssumption DEF Init, Procs, Notified,
     TypeOK, LockHeld, Roles, Working, EndsOpen, Empty, Full, WriterKilled
<1>7. StartSeen
  BY <1>0, EndsAssumption, SizeAssumption, WrapAssumption DEF Init, Procs, StartSeen,
     TypeOK, Roles, LockHeld, Working, Empty
<1> QED
  BY <1>1, <1>2, <1>3, <1>4, <1>5, <1>6, <1>7 DEF IndInv

LEMMA CallInv == ASSUME IndInv, NEW p \in Procs, NEW k \in Lengths, Call(p, k)
  PROVE  IndInv'
<1>1. TypeOK'
  BY EndsAssumption, SizeAssumption DEF Procs, IndInv, Call, Goto, pipeVars, TypeOK,
     Used, PCs
<1>2. LockHeld'
  BY EndsAssumption, SizeAssumption DEF Procs, IndInv, Call, Goto, pipeVars, LockHeld,
     TypeOK, Working
<1>3. Roles'
  BY EndsAssumption, SizeAssumption DEF Procs, IndInv, Call, Goto, pipeVars, Roles, TypeOK
<1>4. EndsOpen'
  BY EndsAssumption, SizeAssumption DEF Procs, IndInv, Call, Goto, pipeVars, EndsOpen,
     TypeOK, SideOf
<1>5. FreedOnce'
  BY EndsAssumption, SizeAssumption DEF Procs, IndInv, Call, Goto, pipeVars, FreedOnce,
     TypeOK, EndsOpen, SideOf
<1>6. Notified'
  BY EndsAssumption, SizeAssumption DEF Procs, IndInv, Call, Goto, pipeVars, Notified,
     TypeOK, LockHeld, Roles, Working, EndsOpen, Empty, Full, WriterKilled
<1>7. StartSeen'
  BY SizeAssumption DEF Procs, IndInv, Call, Goto, pipeVars, StartSeen, TypeOK, Roles,
     LockHeld, Working, Empty
<1> QED
  BY <1>1, <1>2, <1>3, <1>4, <1>5, <1>6, <1>7 DEF IndInv

LEMMA AcquireInv == ASSUME IndInv, NEW p \in Procs, Acquire(p)
  PROVE  IndInv'
<1>1. TypeOK'
  BY EndsAssumption, SizeAssumption DEF Procs, IndInv, Acquire, Goto, LoopOf, pipeVars,
     TypeOK, Used, PCs
<1>2. LockHeld'
  BY EndsAssumption, SizeAssumption DEF Procs, IndInv, Acquire, Goto, LoopOf, pipeVars,
     LockHeld, TypeOK, Working
<1>3. Roles'
  BY EndsAssumption, SizeAssumption DEF Procs, IndInv, Acquire, Goto, LoopOf, pipeVars,
     Roles, TypeOK
<1>4. EndsOpen'
  BY EndsAssumption, SizeAssumption DEF Procs, IndInv, Acquire, Goto, LoopOf, pipeVars,
     EndsOpen, TypeOK, SideOf
<1>5. FreedOnce'
  BY EndsAssumption, SizeAssumption DEF Procs, IndInv, Acquire, Goto, LoopOf, pipeVars,
     FreedOnce, TypeOK, EndsOpen, SideOf
<1>6. Notified'
  BY EndsAssumption, SizeAssumption DEF Procs, IndInv, Acquire, Goto, LoopOf, pipeVars,
     Notified, TypeOK, LockHeld, Roles, Working, EndsOpen, Empty, Full, WriterKilled
<1>7. StartSeen'
  BY SizeAssumption DEF Procs, IndInv, Acquire, Goto, LoopOf, pipeVars, StartSeen,
     TypeOK, Roles, LockHeld, Working, Empty
<1> QED
  BY <1>1, <1>2, <1>3, <1>4, <1>5, <1>6, <1>7 DEF IndInv

LEMMA SleepOnInv == ASSUME IndInv, NEW p \in Procs, SleepOn(p)
  PROVE  IndInv'
<1>1. TypeOK'
  BY EndsAssumption, SizeAssumption DEF Procs, IndInv, SleepOn, Goto, pipeVars, TypeOK,
     Used, PCs
<1>2. LockHeld'
  BY EndsAssumption, SizeAssumption DEF Procs, IndInv, SleepOn, Goto, pipeVars,
     LockHeld, TypeOK, Working
<1>3. Roles'
  BY EndsAssumption, SizeAssumption DEF Procs, IndInv, SleepOn, Goto, pipeVars, Roles,
     TypeOK
<1>4. EndsOpen'
  BY EndsAssumption, SizeAssumption DEF Procs, IndInv, SleepOn, Goto, pipeVars,
     EndsOpen, TypeOK, SideOf
<1>5. FreedOnce'
  BY EndsAssumption, SizeAssumption DEF Procs, IndInv, SleepOn, Goto, pipeVars,
     FreedOnce, TypeOK, EndsOpen, SideOf
<1>6. Notified'
  BY EndsAssumption, SizeAssumption DEF Procs, IndInv, SleepOn, Goto, pipeVars,
     Notified, TypeOK, LockHeld, Roles, Working, EndsOpen, Empty, Full, WriterKilled
<1>7. StartSeen'
  BY SizeAssumption DEF Procs, IndInv, SleepOn, Goto, pipeVars, StartSeen, TypeOK,
     Roles, LockHeld, Working, Empty
<1> QED
  BY <1>1, <1>2, <1>3, <1>4, <1>5, <1>6, <1>7 DEF IndInv

LEMMA WriteFailsInv == ASSUME IndInv, NEW p \in Procs, WriteFails(p)
  PROVE  IndInv'
<1>1. TypeOK'
  BY EndsAssumption, SizeAssumption DEF Procs, IndInv, WriteFails, Goto, Return,
     pipeVars, TypeOK, Used, PCs
<1>2. LockHeld'
  BY EndsAssumption, SizeAssumption DEF Procs, IndInv, WriteFails, Goto, Return,
     pipeVars, LockHeld, TypeOK, Working
<1>3. Roles'
  BY EndsAssumption, SizeAssumption DEF Procs, IndInv, WriteFails, Goto, Return,
     pipeVars, Roles, TypeOK
<1>4. EndsOpen'
  BY EndsAssumption, SizeAssumption DEF Procs, IndInv, WriteFails, Goto, Return,
     pipeVars, EndsOpen, TypeOK, SideOf
<1>5. FreedOnce'
  BY EndsAssumption, SizeAssumption DEF Procs, IndInv, WriteFails, Goto, Return,
     pipeVars, FreedOnce, TypeOK, EndsOpen, SideOf
<1>6. Notified'
  BY EndsAssumption, SizeAssumption DEF Procs, IndInv, WriteFails, Goto, Return,
     pipeVars, Notified, TypeOK, LockHeld, Roles, Working, EndsOpen, Empty, Full,
     WriterKilled
<1>7. StartSeen'
  BY SizeAssumption DEF Procs, IndInv, WriteFails, Goto, Return, pipeVars, StartSeen,
     TypeOK, Roles, LockHeld, Working, Empty
<1> QED
  BY <1>1, <1>2, <1>3, <1>4, <1>5, <1>6, <1>7 DEF IndInv

LEMMA WriteFullInv == ASSUME IndInv, NEW p \in Procs, WriteFull(p)
  PROVE  IndInv'
<1>1. TypeOK'
  BY EndsAssumption, SizeAssumption DEF Procs, IndInv, WriteFull, GotoWaking, pipeVars,
     TypeOK, Used, PCs
<1>2. LockHeld'
  BY EndsAssumption, SizeAssumption DEF Procs, IndInv, WriteFull, GotoWaking, pipeVars,
     LockHeld, TypeOK, Working
<1>3. Roles'
  BY EndsAssumption, SizeAssumption DEF Procs, IndInv, WriteFull, GotoWaking, pipeVars,
     Roles, TypeOK
<1>4. EndsOpen'
  BY EndsAssumption, SizeAssumption DEF Procs, IndInv, WriteFull, GotoWaking, pipeVars,
     EndsOpen, TypeOK, SideOf
<1>5. FreedOnce'
  BY EndsAssumption, SizeAssumption DEF Procs, IndInv, WriteFull, GotoWaking, pipeVars,
     FreedOnce, TypeOK, EndsOpen, SideOf
<1>6. Notified'
  BY EndsAssumption, SizeAssumption DEF Procs, IndInv, WriteFull, GotoWaking, pipeVars,
     Notified, TypeOK, LockHeld, Roles, Working, EndsOpen, Empty, Full, WriterKilled
<1>7. StartSeen'
  BY SizeAssumption DEF Procs, IndInv, WriteFull, GotoWaking, pipeVars, StartSeen,
     TypeOK, Roles, LockHeld, Working, Empty
<1> QED
  BY <1>1, <1>2, <1>3, <1>4, <1>5, <1>6, <1>7 DEF IndInv

LEMMA WriteByteInv == ASSUME IndInv, NEW p \in Procs, NEW v \in Data, WriteByte(p, v)
  PROVE  IndInv'
<1>0. nwrite' \in 0..(Wrap - 1) /\ Used' <= PipeSize /\ nread' = nread
  BY PutByte DEF IndInv, WriteByte
<1>a. i' \in [Procs -> Nat] /\ \A q \in Procs : i'[q] <= n[q]
  <2>1. i \in [Procs -> Nat] /\ \A q \in Procs : n[q] \in Nat /\ i[q] <= n[q]
    <3>1. /\ i \in [Procs -> Nat] /\ n \in [Procs -> Lengths \cup {0}]
          /\ \A q \in Procs : i[q] <= n[q]
      BY DEF IndInv, TypeOK
    <3>2. Lengths \cup {0} \subseteq Nat
      BY SizeAssumption
    <3> QED
      BY <3>1, <3>2
  <2>2. (i' = i \/ i' = [i EXCEPT ![p] = i[p] + 1]) /\ i[p] < n[p]
    BY DEF WriteByte
  <2> QED
    BY <2>1, <2>2
<1>b. data' \in [0..(PipeSize - 1) -> Data]
  BY DEF IndInv, TypeOK, WriteByte
<1>1. TypeOK'
  BY <1>0, <1>a, <1>b DEF IndInv, WriteByte, TypeOK
<1>2. LockHeld'
  BY EndsAssumption, SizeAssumption DEF Procs, IndInv, WriteByte, pipeVars, LockHeld,
     TypeOK, Working
<1>3. Roles'
  BY EndsAssumption, SizeAssumption DEF Procs, IndInv, WriteByte, pipeVars, Roles, TypeOK
<1>4. EndsOpen'
  BY EndsAssumption, SizeAssumption DEF Procs, IndInv, WriteByte, pipeVars, EndsOpen,
     TypeOK, SideOf
<1>5. FreedOnce'
  BY EndsAssumption, SizeAssumption DEF Procs, IndInv, WriteByte, pipeVars, FreedOnce,
     TypeOK, EndsOpen, SideOf
<1>6. Notified'
  BY EndsAssumption, SizeAssumption DEF Procs, IndInv, WriteByte, pipeVars, Notified,
     TypeOK, LockHeld, Roles, Working, EndsOpen, Empty, Full, WriterKilled
<1>7. StartSeen'
  BY SizeAssumption DEF Procs, IndInv, WriteByte, pipeVars, StartSeen, TypeOK, Roles,
     LockHeld, Working, Empty
<1> QED
  BY <1>1, <1>2, <1>3, <1>4, <1>5, <1>6, <1>7 DEF IndInv

LEMMA WriteDoneInv == ASSUME IndInv, NEW p \in Procs, WriteDone(p)
  PROVE  IndInv'
<1>1. TypeOK'
  BY EndsAssumption, SizeAssumption DEF Procs, IndInv, WriteDone, GotoWaking, Return,
     pipeVars, TypeOK, Used, PCs
<1>2. LockHeld'
  BY EndsAssumption, SizeAssumption DEF Procs, IndInv, WriteDone, GotoWaking, Return,
     pipeVars, LockHeld, TypeOK, Working
<1>3. Roles'
  BY EndsAssumption, SizeAssumption DEF Procs, IndInv, WriteDone, GotoWaking, Return,
     pipeVars, Roles, TypeOK
<1>4. EndsOpen'
  BY EndsAssumption, SizeAssumption DEF Procs, IndInv, WriteDone, GotoWaking, Return,
     pipeVars, EndsOpen, TypeOK, SideOf
<1>5. FreedOnce'
  BY EndsAssumption, SizeAssumption DEF Procs, IndInv, WriteDone, GotoWaking, Return,
     pipeVars, FreedOnce, TypeOK, EndsOpen, SideOf
<1>6. Notified'
  BY EndsAssumption, SizeAssumption DEF Procs, IndInv, WriteDone, GotoWaking, Return,
     pipeVars, Notified, TypeOK, LockHeld, Roles, Working, EndsOpen, Empty, Full,
     WriterKilled
<1>7. StartSeen'
  BY SizeAssumption DEF Procs, IndInv, WriteDone, GotoWaking, Return, pipeVars,
     StartSeen, TypeOK, Roles, LockHeld, Working, Empty
<1> QED
  BY <1>1, <1>2, <1>3, <1>4, <1>5, <1>6, <1>7 DEF IndInv

LEMMA ReadKilledInv == ASSUME IndInv, NEW p \in Procs, ReadKilled(p)
  PROVE  IndInv'
<1>1. TypeOK'
  BY EndsAssumption, SizeAssumption DEF Procs, IndInv, ReadKilled, Goto, Return,
     pipeVars, TypeOK, Used, PCs
<1>2. LockHeld'
  BY EndsAssumption, SizeAssumption DEF Procs, IndInv, ReadKilled, Goto, Return,
     pipeVars, LockHeld, TypeOK, Working
<1>3. Roles'
  BY EndsAssumption, SizeAssumption DEF Procs, IndInv, ReadKilled, Goto, Return,
     pipeVars, Roles, TypeOK
<1>4. EndsOpen'
  BY EndsAssumption, SizeAssumption DEF Procs, IndInv, ReadKilled, Goto, Return,
     pipeVars, EndsOpen, TypeOK, SideOf
<1>5. FreedOnce'
  BY EndsAssumption, SizeAssumption DEF Procs, IndInv, ReadKilled, Goto, Return,
     pipeVars, FreedOnce, TypeOK, EndsOpen, SideOf
<1>6. Notified'
  BY EndsAssumption, SizeAssumption DEF Procs, IndInv, ReadKilled, Goto, Return,
     pipeVars, Notified, TypeOK, LockHeld, Roles, Working, EndsOpen, Empty, Full,
     WriterKilled
<1>7. StartSeen'
  BY SizeAssumption DEF Procs, IndInv, ReadKilled, Goto, Return, pipeVars, StartSeen,
     TypeOK, Roles, LockHeld, Working, Empty
<1> QED
  BY <1>1, <1>2, <1>3, <1>4, <1>5, <1>6, <1>7 DEF IndInv

LEMMA ReadEmptyInv == ASSUME IndInv, NEW p \in Procs, ReadEmpty(p)
  PROVE  IndInv'
<1>1. TypeOK'
  BY EndsAssumption, SizeAssumption DEF Procs, IndInv, ReadEmpty, Goto, MustWait,
     pipeVars, TypeOK, Used, PCs
<1>2. LockHeld'
  BY EndsAssumption, SizeAssumption DEF Procs, IndInv, ReadEmpty, Goto, MustWait,
     pipeVars, LockHeld, TypeOK, Working
<1>3. Roles'
  BY EndsAssumption, SizeAssumption DEF Procs, IndInv, ReadEmpty, Goto, MustWait,
     pipeVars, Roles, TypeOK
<1>4. EndsOpen'
  BY EndsAssumption, SizeAssumption DEF Procs, IndInv, ReadEmpty, Goto, MustWait,
     pipeVars, EndsOpen, TypeOK, SideOf
<1>5. FreedOnce'
  BY EndsAssumption, SizeAssumption DEF Procs, IndInv, ReadEmpty, Goto, MustWait,
     pipeVars, FreedOnce, TypeOK, EndsOpen, SideOf
<1>6. Notified'
  BY EndsAssumption, SizeAssumption DEF Procs, IndInv, ReadEmpty, Goto, MustWait,
     pipeVars, Notified, TypeOK, LockHeld, Roles, Working, EndsOpen, Empty, Full,
     WriterKilled
<1>7. StartSeen'
  BY SizeAssumption DEF Procs, IndInv, ReadEmpty, Goto, MustWait, pipeVars, StartSeen,
     TypeOK, Roles, LockHeld, Working, Empty
<1> QED
  BY <1>1, <1>2, <1>3, <1>4, <1>5, <1>6, <1>7 DEF IndInv

LEMMA ReadStartInv == ASSUME IndInv, NEW p \in Procs, ReadStart(p)
  PROVE  IndInv'
<1>1. TypeOK'
  BY EndsAssumption, SizeAssumption DEF Procs, IndInv, ReadStart, Goto, MustWait,
     pipeVars, TypeOK, Used, PCs
<1>2. LockHeld'
  BY EndsAssumption, SizeAssumption DEF Procs, IndInv, ReadStart, Goto, MustWait,
     pipeVars, LockHeld, TypeOK, Working
<1>3. Roles'
  BY EndsAssumption, SizeAssumption DEF Procs, IndInv, ReadStart, Goto, MustWait,
     pipeVars, Roles, TypeOK
<1>4. EndsOpen'
  BY EndsAssumption, SizeAssumption DEF Procs, IndInv, ReadStart, Goto, MustWait,
     pipeVars, EndsOpen, TypeOK, SideOf
<1>5. FreedOnce'
  BY EndsAssumption, SizeAssumption DEF Procs, IndInv, ReadStart, Goto, MustWait,
     pipeVars, FreedOnce, TypeOK, EndsOpen, SideOf
<1>6. Notified'
  BY EndsAssumption, SizeAssumption DEF Procs, IndInv, ReadStart, Goto, MustWait,
     pipeVars, Notified, TypeOK, LockHeld, Roles, Working, EndsOpen, Empty, Full,
     WriterKilled
<1>7. StartSeen'
  BY SizeAssumption DEF Procs, IndInv, ReadStart, Goto, MustWait, pipeVars, StartSeen,
     TypeOK, Roles, LockHeld, Working, Empty
<1> QED
  BY <1>1, <1>2, <1>3, <1>4, <1>5, <1>6, <1>7 DEF IndInv

LEMMA ReadByteInv == ASSUME IndInv, NEW p \in Procs, ReadByte(p)
  PROVE  IndInv'
<1>0. nread' \in 0..(Wrap - 1) /\ Used' <= PipeSize /\ nwrite' = nwrite
  BY GetByte DEF IndInv, ReadByte
<1>a. i' \in [Procs -> Nat] /\ \A q \in Procs : i'[q] <= n[q]
  <2>1. i \in [Procs -> Nat] /\ \A q \in Procs : n[q] \in Nat /\ i[q] <= n[q]
    <3>1. /\ i \in [Procs -> Nat] /\ n \in [Procs -> Lengths \cup {0}]
          /\ \A q \in Procs : i[q] <= n[q]
      BY DEF IndInv, TypeOK
    <3>2. Lengths \cup {0} \subseteq Nat
      BY SizeAssumption
    <3> QED
      BY <3>1, <3>2
  <2>2. (i' = i \/ i' = [i EXCEPT ![p] = i[p] + 1]) /\ i[p] < n[p]
    BY DEF ReadByte
  <2> QED
    BY <2>1, <2>2
<1>b. pc' \in [Procs -> PCs]
  BY DEF IndInv, TypeOK, ReadByte, Goto, PCs
<1>1. TypeOK'
  BY <1>0, <1>a, <1>b DEF IndInv, ReadByte, TypeOK
<1>2. LockHeld'
  BY EndsAssumption, SizeAssumption DEF Procs, IndInv, ReadByte, Goto, pipeVars,
     LockHeld, TypeOK, Working
<1>3. Roles'
  BY EndsAssumption, SizeAssumption DEF Procs, IndInv, ReadByte, Goto, pipeVars, Roles,
     TypeOK
<1>4. EndsOpen'
  <2>1. /\ UNCHANGED <<open, readopen, writeopen>>
        /\ \A q \in Procs : \A l \in {"idle", "close", "free"} : pc'[q] = l <=> pc[q] = l
    BY DEF IndInv, TypeOK, ReadByte, Goto
  <2> QED
    BY <2>1 DEF IndInv, EndsOpen, SideOf, Procs
<1>5. FreedOnce'
  BY EndsAssumption, SizeAssumption DEF Procs, IndInv, ReadByte, Goto, pipeVars,
     FreedOnce, TypeOK, EndsOpen, SideOf
<1>6. Notified'
  <2>1. /\ pc[p] = "copy" /\ lock' = lock /\ ~Empty /\ p \in Readers
        /\ writeopen' = writeopen /\ readopen' = readopen /\ killed' = killed
        /\ pc' = pc \/ pc' = [pc EXCEPT ![p] = "copied"]
    BY DEF ReadByte, Goto, IndInv, Roles
  <2>2. TypeOK /\ LockHeld /\ Notified
    BY DEF IndInv
  <2>3. lock = p /\ p \notin Writers /\ \A q \in Procs : q # p => pc[q] \notin Working
    BY <2>1, <2>2, EndsAssumption DEF LockHeld, Working
  <2>4. \A q \in Procs : /\ pc'[q] = "asleep" => pc[q] = "asleep"
                         /\ pc'[q] # "sleep"
    BY <2>1, <2>2, <2>3 DEF TypeOK, Working
  <2>5. \A q \in Readers : pc'[q] = "asleep" => writeopen' /\ WriterKilled'
    BY <2>1, <2>2, <2>3, <2>4 DEF Notified, Procs, WriterKilled
  <2>6. \A q \in Writers : pc'[q] = "asleep" => readopen'
    BY <2>1, <2>2, <2>4 DEF Notified, Procs
  <2>7. lock' = p /\ pc'[p] \in {"copy", "copied"}
    BY <2>1, <2>2, <2>3 DEF TypeOK
  <2> QED
    BY <2>1, <2>4, <2>5, <2>6, <2>7 DEF Notified, Procs
<1>7. StartSeen'
  BY SizeAssumption DEF Procs, IndInv, ReadByte, Goto, pipeVars, StartSeen, TypeOK,
     Roles, LockHeld, Working, Empty
<1> QED
  BY <1>1, <1>2, <1>3, <1>4, <1>5, <1>6, <1>7 DEF IndInv

LEMMA ReadDoneInv == ASSUME IndInv, NEW p \in Procs, ReadDone(p)
  PROVE  IndInv'
<1>1. TypeOK'
  BY EndsAssumption, SizeAssumption DEF Procs, IndInv, ReadDone, GotoWaking, Return,
     pipeVars, TypeOK, Used, PCs
<1>2. LockHeld'
  BY EndsAssumption, SizeAssumption DEF Procs, IndInv, ReadDone, GotoWaking, Return,
     pipeVars, LockHeld, TypeOK, Working
<1>3. Roles'
  BY EndsAssumption, SizeAssumption DEF Procs, IndInv, ReadDone, GotoWaking, Return,
     pipeVars, Roles, TypeOK
<1>4. EndsOpen'
  BY EndsAssumption, SizeAssumption DEF Procs, IndInv, ReadDone, GotoWaking, Return,
     pipeVars, EndsOpen, TypeOK, SideOf
<1>5. FreedOnce'
  BY EndsAssumption, SizeAssumption DEF Procs, IndInv, ReadDone, GotoWaking, Return,
     pipeVars, FreedOnce, TypeOK, EndsOpen, SideOf
<1>6. Notified'
  BY EndsAssumption, SizeAssumption DEF Procs, IndInv, ReadDone, GotoWaking, Return,
     pipeVars, Notified, TypeOK, LockHeld, Roles, Working, EndsOpen, Empty, Full,
     WriterKilled
<1>7. StartSeen'
  BY SizeAssumption DEF Procs, IndInv, ReadDone, GotoWaking, Return, pipeVars,
     StartSeen, TypeOK, Roles, LockHeld, Working, Empty
<1> QED
  BY <1>1, <1>2, <1>3, <1>4, <1>5, <1>6, <1>7 DEF IndInv

LEMMA CloseFdInv == ASSUME IndInv, NEW p \in Procs, CloseFd(p)
  PROVE  IndInv'
<1>1. TypeOK'
  BY EndsAssumption, SizeAssumption DEF Procs, IndInv, CloseFd, Goto, SideOf, pipeVars,
     TypeOK, Used, PCs
<1>2. LockHeld'
  BY EndsAssumption, SizeAssumption DEF Procs, IndInv, CloseFd, Goto, SideOf, pipeVars,
     LockHeld, TypeOK, Working
<1>3. Roles'
  BY EndsAssumption, SizeAssumption DEF Procs, IndInv, CloseFd, Goto, SideOf, pipeVars,
     Roles, TypeOK
<1>4. EndsOpen'
  BY EndsAssumption, SizeAssumption DEF Procs, IndInv, CloseFd, Goto, SideOf, pipeVars,
     EndsOpen, TypeOK
<1>5. FreedOnce'
  BY EndsAssumption, SizeAssumption DEF Procs, IndInv, CloseFd, Goto, SideOf, pipeVars,
     FreedOnce, TypeOK, EndsOpen
<1>6. Notified'
  BY EndsAssumption, SizeAssumption DEF Procs, IndInv, CloseFd, Goto, SideOf, pipeVars,
     Notified, TypeOK, LockHeld, Roles, Working, EndsOpen, Empty, Full, WriterKilled
<1>7. StartSeen'
  BY SizeAssumption DEF Procs, IndInv, CloseFd, Goto, SideOf, pipeVars, StartSeen,
     TypeOK, Roles, LockHeld, Working, Empty
<1> QED
  BY <1>1, <1>2, <1>3, <1>4, <1>5, <1>6, <1>7 DEF IndInv

LEMMA PipeCloseInv == ASSUME IndInv, NEW p \in Procs, PipeClose(p)
  PROVE  IndInv'
<1>1. TypeOK'
  BY EndsAssumption, SizeAssumption DEF Procs, IndInv, PipeClose, GotoWaking,
     BothClosed, SideOf, pipeVars, TypeOK, Used, PCs
<1>2. LockHeld'
  BY EndsAssumption, SizeAssumption DEF Procs, IndInv, PipeClose, GotoWaking,
     BothClosed, SideOf, pipeVars, LockHeld, TypeOK, Working
<1>3. Roles'
  BY EndsAssumption, SizeAssumption DEF Procs, IndInv, PipeClose, GotoWaking,
     BothClosed, SideOf, pipeVars, Roles, TypeOK
<1>4. EndsOpen'
  BY EndsAssumption, SizeAssumption DEF Procs, IndInv, PipeClose, GotoWaking,
     BothClosed, SideOf, pipeVars, EndsOpen, TypeOK
<1>5. FreedOnce'
  BY EndsAssumption, SizeAssumption DEF Procs, IndInv, PipeClose, GotoWaking,
     BothClosed, SideOf, pipeVars, FreedOnce, TypeOK, EndsOpen
<1>6. Notified'
  BY EndsAssumption, SizeAssumption DEF Procs, IndInv, PipeClose, GotoWaking,
     BothClosed, SideOf, pipeVars, Notified, TypeOK, LockHeld, Roles, Working, EndsOpen,
     Empty, Full, WriterKilled
<1>7. StartSeen'
  BY SizeAssumption DEF Procs, IndInv, PipeClose, GotoWaking, BothClosed, SideOf,
     pipeVars, StartSeen, TypeOK, Roles, LockHeld, Working, Empty
<1> QED
  BY <1>1, <1>2, <1>3, <1>4, <1>5, <1>6, <1>7 DEF IndInv

LEMMA FreeInv == ASSUME IndInv, NEW p \in Procs, Free(p)
  PROVE  IndInv'
<1>0. frees' \in 0..1
  BY DEF IndInv, FreedOnce, Free
<1>1. TypeOK'
  BY <1>0 DEF IndInv, Free, Goto, pipeVars, TypeOK, Used, PCs
<1>2. LockHeld'
  BY EndsAssumption, SizeAssumption DEF Procs, IndInv, Free, Goto, pipeVars, LockHeld,
     TypeOK, Working
<1>3. Roles'
  BY EndsAssumption, SizeAssumption DEF Procs, IndInv, Free, Goto, pipeVars, Roles, TypeOK
<1>4. EndsOpen'
  BY EndsAssumption, SizeAssumption DEF Procs, IndInv, Free, Goto, pipeVars, EndsOpen,
     TypeOK, SideOf
<1>5. FreedOnce'
  BY EndsAssumption, SizeAssumption DEF Procs, IndInv, Free, Goto, pipeVars, FreedOnce,
     TypeOK, EndsOpen, SideOf
<1>6. Notified'
  BY EndsAssumption, SizeAssumption DEF Procs, IndInv, Free, Goto, pipeVars, Notified,
     TypeOK, LockHeld, Roles, Working, EndsOpen, Empty, Full, WriterKilled
<1>7. StartSeen'
  BY SizeAssumption DEF Procs, IndInv, Free, Goto, pipeVars, StartSeen, TypeOK, Roles,
     LockHeld, Working, Empty
<1> QED
  BY <1>1, <1>2, <1>3, <1>4, <1>5, <1>6, <1>7 DEF IndInv

LEMMA KillInv == ASSUME IndInv, NEW p \in Procs, Kill(p)
  PROVE  IndInv'
<1>1. TypeOK'
  BY EndsAssumption, SizeAssumption DEF Procs, IndInv, Kill, pipeVars, TypeOK, Used, PCs
<1>2. LockHeld'
  BY EndsAssumption, SizeAssumption DEF Procs, IndInv, Kill, pipeVars, LockHeld, TypeOK,
     Working
<1>3. Roles'
  BY EndsAssumption, SizeAssumption DEF Procs, IndInv, Kill, pipeVars, Roles, TypeOK
<1>4. EndsOpen'
  BY EndsAssumption, SizeAssumption DEF Procs, IndInv, Kill, pipeVars, EndsOpen, TypeOK,
     SideOf
<1>5. FreedOnce'
  BY EndsAssumption, SizeAssumption DEF Procs, IndInv, Kill, pipeVars, FreedOnce,
     TypeOK, EndsOpen, SideOf
<1>6. Notified'
  BY EndsAssumption, SizeAssumption DEF Procs, IndInv, Kill, pipeVars, Notified, TypeOK,
     LockHeld, Roles, Working, EndsOpen, Empty, Full, WriterKilled
<1>7. StartSeen'
  BY SizeAssumption DEF Procs, IndInv, Kill, pipeVars, StartSeen, TypeOK, Roles,
     LockHeld, Working, Empty
<1> QED
  BY <1>1, <1>2, <1>3, <1>4, <1>5, <1>6, <1>7 DEF IndInv

LEMMA NextInv == IndInv /\ [Next]_vars => IndInv'
<1> SUFFICES ASSUME IndInv, [Next]_vars PROVE IndInv'
  OBVIOUS
<1>1. CASE Next
  <2>1. PICK p \in Procs : \/ \E k \in Lengths : Call(p, k)
                          \/ Acquire(p)
                          \/ WriteStep(p) \/ ReadStep(p) \/ SleepOn(p)
                          \/ CloseFd(p) \/ PipeClose(p) \/ Free(p)
                          \/ Kill(p)
    BY <1>1 DEF Next
  <2> QED
    BY <2>1, CallInv, AcquireInv, SleepOnInv, WriteFailsInv, WriteFullInv, WriteByteInv,
       WriteDoneInv, ReadKilledInv, ReadEmptyInv, ReadStartInv, ReadByteInv, ReadDoneInv,
       CloseFdInv, PipeCloseInv, FreeInv, KillInv DEF WriteStep, ReadStep
<1>2. CASE UNCHANGED vars
  BY <1>2 DEF vars, IndInv, TypeOK, LockHeld, Roles, EndsOpen, FreedOnce, Notified,
     StartSeen, Used, Empty, Full, WriterKilled
<1> QED
  BY <1>1, <1>2

\* The lock, the ends and the sleepers: what every step preserves.
THEOREM Invariance == Spec => []IndInv
<1> QED
  BY InitInv, NextInv, PTL DEF Spec
-----------------------------------------------------------------------------
\* Whatever the processes do, the counters and indices stay in range and the
\* pipe is freed once, with nobody left that could use it.
THEOREM FreedAtTheEnd == Spec => []FreedLast
<1>1. IndInv => FreedLast
  BY DEF IndInv, FreedLast, TypeOK, FreedOnce, EndsOpen, LockHeld, Working, Procs
<1> QED
  BY <1>1, Invariance, PTL

\* Nobody sleeps through what he waits for (but for a writer's being killed).
THEOREM NobodyMissesAWakeup == Spec => []SleepersNotified
<1>1. IndInv => SleepersNotified
  BY EndsAssumption DEF IndInv, SleepersNotified, Notified, Procs
<1> QED
  BY <1>1, Invariance, PTL

\* A read that could copy out what it took reports the end only at the end.
THEOREM NoFalseEOF == Spec => EOFOnlyWhenClosed
<1>1. IndInv /\ [Next]_vars =>
        [\A p \in Readers : ReturnsZero(p) => CopyoutFailed(p) \/ (Empty /\ ~writeopen)]_vars
  <2> SUFFICES ASSUME IndInv, Next, NEW p \in Readers,
                      pc[p] = "copy", i[p] = 0, n[p] > 0, pc'[p] = "idle"
               PROVE  Empty /\ ~writeopen
    BY DEF ReturnsZero, CopyoutFailed
  <2>1. PICK q \in Procs : \/ \E k \in Lengths : Call(q, k)
                          \/ Acquire(q)
                          \/ WriteStep(q) \/ ReadStep(q) \/ SleepOn(q)
                          \/ CloseFd(q) \/ PipeClose(q) \/ Free(q)
                          \/ Kill(q)
    BY DEF Next
  <2>2. pc \in [Procs -> PCs] /\ p \in Procs
    BY DEF IndInv, TypeOK, Procs
  <2>3. ReadDone(p)
    <3>1. CASE WriteStep(q)
      BY <2>2, <3>1 DEF WriteStep, WriteFails, WriteFull, WriteByte, WriteDone, Goto,
         GotoWaking
    <3>2. CASE ReadStep(q)
      BY <2>2, <3>2 DEF ReadStep, ReadKilled, ReadEmpty, ReadStart, ReadByte, ReadDone,
         Goto,
         GotoWaking
    <3>3. CASE PipeClose(q)
      BY <2>2, <3>3 DEF PipeClose, GotoWaking
    <3> QED
      BY <2>1, <2>2, <3>1, <3>2, <3>3 DEF Call, Acquire, SleepOn, CloseFd, Free, Kill,
         Goto, LoopOf
  <2>4. i[p] # n[p]
    <3>1. n[p] \in Nat
      BY <2>2, SizeAssumption DEF IndInv, TypeOK
    <3> QED
      BY <3>1
  <2> QED
    BY <2>3, <2>4 DEF ReadDone, IndInv, StartSeen
<1> QED
  BY <1>1, Invariance, PTL DEF EOFOnlyWhenClosed, Spec
-----------------------------------------------------------------------------
(* A pipe is a stream of bytes                                             *)

\* The place nwrite points to is the one behind the last byte.
LEMMA Behind == ASSUME TypeOK
                PROVE  (nread + Used) % PipeSize = nwrite % PipeSize
<1>1. /\ nread \in Nat /\ nwrite \in Nat /\ PipeSize \in Nat \ {0} /\ Wrap \in Nat
      /\ Used = IF nread <= nwrite THEN nwrite - nread ELSE nwrite + Wrap - nread
  BY UsedIs, SizeAssumption, WrapAssumption DEF TypeOK
<1>2. PICK k \in Nat : Wrap = k * PipeSize
  BY WrapAssumption
<1>3. nread + Used = nwrite \/ nread + Used = nwrite + k * PipeSize
  BY <1>1, <1>2
<1>4. (nwrite + k * PipeSize) % PipeSize = nwrite % PipeSize
  BY <1>1, Round
<1>5. CASE nread + Used = nwrite
  BY <1>5
<1>6. CASE nread + Used = nwrite + k * PipeSize
  BY <1>4, <1>6
<1> QED
  BY <1>3, <1>5, <1>6

\* Where a byte is does not depend on whether nread has wrapped.
LEMMA Ahead == ASSUME TypeOK, NEW j \in Nat, nread' = (nread + 1) % Wrap
               PROVE  (nread' + j) % PipeSize = (nread + 1 + j) % PipeSize
<1>1. /\ nread \in 0..(Wrap - 1) /\ PipeSize \in Nat \ {0} /\ Wrap \in Nat \ {0}
  BY SizeAssumption, WrapAssumption DEF TypeOK
<1>2. PICK k \in Nat : Wrap = k * PipeSize
  BY WrapAssumption
<1>3. nread' = nread + 1 \/ (nread' = 0 /\ nread + 1 = Wrap)
  BY <1>1, WrapsInc
<1>4. CASE nread' = nread + 1
  BY <1>4
<1>5. CASE nread' = 0 /\ nread + 1 = Wrap
  <2>1. nread + 1 + j = j + k * PipeSize
    BY <1>1, <1>2, <1>5
  <2>2. (j + k * PipeSize) % PipeSize = j % PipeSize
    BY <1>1, Round
  <2>3. nread' + j = j
    BY <1>5
  <2> QED
    BY <2>1, <2>2, <2>3
<1> QED
  BY <1>3, <1>4, <1>5

Queue == [k \in 1..Used |-> data[(nread + k - 1) % PipeSize]]

LEMMA QueueType == ASSUME TypeOK
                   PROVE  Queue \in Seq(Data) /\ Len(Queue) = Used /\ DOMAIN Queue = 1..Used
<1>1. Used \in Nat /\ PipeSize \in Nat \ {0} /\ nread \in Nat
  BY UsedIs, SizeAssumption, WrapAssumption DEF TypeOK
<1>2. \A k \in 1..Used : data[(nread + k - 1) % PipeSize] \in Data
  <2> TAKE k \in 1..Used
  <2>1. nread + k - 1 \in Nat
    BY <1>1
  <2>2. (nread + k - 1) % PipeSize \in 0..(PipeSize - 1)
    BY <2>1, <1>1, DivMod
  <2> QED
    BY <2>2 DEF TypeOK
<1> QED
  BY <1>1, <1>2 DEF Queue

LEMMA QueueTypeNext == TypeOK' => (Queue \in Seq(Data) /\ Len(Queue) = Used)'
<1>1. TypeOK => Queue \in Seq(Data) /\ Len(Queue) = Used
  BY QueueType
<1> QED
  BY <1>1, PTL

LEMMA PutRefines ==
  ASSUME IndInv, NEW p \in Writers, NEW v \in Data, WriteByte(p, v)
  PROVE  Queue' = Append(Queue, v) /\ Len(Queue) < PipeSize
<1>1. TypeOK /\ ~Full /\ nread' = nread /\ nwrite' = (nwrite + 1) % Wrap
      /\ data' = [data EXCEPT ![nwrite % PipeSize] = v]
      /\ data \in [0..(PipeSize - 1) -> Data]
  BY DEF IndInv, WriteByte, TypeOK
<1>2. /\ Used \in Nat /\ PipeSize \in Nat \ {0} /\ nread \in Nat /\ nwrite \in Nat
      /\ Used < PipeSize /\ Used' = Used + 1
  BY <1>1, UsedIs, PutByte, SizeAssumption, WrapAssumption DEF TypeOK
<1>3. nwrite % PipeSize \in 0..(PipeSize - 1)
  BY <1>2, DivMod
<1>4. ASSUME NEW k \in 1..Used
      PROVE  data'[(nread + k - 1) % PipeSize] = Queue[k]
  <2>1. PICK a \in Nat : a = nread + k - 1
    BY <1>2
  <2>2. PICK d \in 1..(PipeSize - 1) : d = Used - k + 1
    BY <1>2
  <2>3. a + d = nread + Used
    BY <1>2, <2>1, <2>2
  <2>4. a % PipeSize # nwrite % PipeSize
    BY <1>1, <1>2, <2>3, Apart, Behind
  <2> QED
    BY <1>1, <1>3, <2>1, <2>4 DEF Queue
<1>5. data'[(nread + (Used + 1) - 1) % PipeSize] = v
  <2>1. nread + (Used + 1) - 1 = nread + Used
    BY <1>2
  <2> QED
    BY <1>1, <1>3, <2>1, Behind
<1>6. Queue' = [k \in 1..(Used + 1) |-> data'[(nread + k - 1) % PipeSize]]
  BY <1>1, <1>2 DEF Queue
<1>7. Queue \in Seq(Data) /\ Len(Queue) = Used
  BY <1>1, QueueType
<1>8. /\ Append(Queue, v) \in Seq(Data) /\ Queue' \in Seq(Data)
      /\ Len(Append(Queue, v)) = Used + 1 /\ Len(Queue') = Used + 1
  <2>1. TypeOK'
    <3>1. p \in Procs
      BY DEF Procs
    <3>2. IndInv'
      BY <3>1, WriteByteInv
    <3> QED
      BY <3>2 DEF IndInv
  <2>2. Queue' \in Seq(Data) /\ Len(Queue') = Used'
    BY <2>1, QueueTypeNext
  <2> QED
    BY <1>2, <1>7, <2>2, AppendProperties
<1>9. ASSUME NEW k \in 1..(Used + 1) PROVE Queue'[k] = Append(Queue, v)[k]
  <2>1. Queue'[k] = data'[(nread + k - 1) % PipeSize]
    BY <1>6
  <2>2. CASE k \in 1..Used
    BY <1>4, <1>7, <2>1, <2>2, AppendProperties
  <2>3. CASE k = Used + 1
    BY <1>5, <1>7, <2>1, <2>3, AppendProperties
  <2>4. k \in 1..Used \/ k = Used + 1
    BY <1>2
  <2> QED
    BY <2>2, <2>3, <2>4
<1>10. Queue' = Append(Queue, v)
  BY <1>8, <1>9, SeqEqual
<1> QED
  BY <1>2, <1>7, <1>10

LEMMA GetRefines ==
  ASSUME IndInv, NEW p \in Readers, ReadByte(p)
  PROVE  Queue' = Tail(Queue) /\ Queue # <<>>
<1>1. TypeOK /\ ~Empty /\ nwrite' = nwrite /\ nread' = (nread + 1) % Wrap /\ data' = data
  BY DEF IndInv, ReadByte
<1>2. /\ Used \in Nat /\ Used # 0 /\ PipeSize \in Nat \ {0} /\ nread \in Nat
      /\ Used' = Used - 1
  BY <1>1, UsedIs, GetByte, SizeAssumption, WrapAssumption DEF TypeOK
<1>3. Queue \in Seq(Data) /\ Len(Queue) = Used
  BY <1>1, QueueType
<1>4. Queue # <<>>
  BY <1>2, <1>3
<1>5. /\ Tail(Queue) \in Seq(Data) /\ Len(Tail(Queue)) = Used - 1
      /\ \A k \in 1..(Used - 1) : Tail(Queue)[k] = Queue[k + 1]
  BY <1>2, <1>3, <1>4, HeadTailProperties
<1>6. ASSUME NEW k \in 1..(Used - 1)
      PROVE  data[(nread' + k - 1) % PipeSize] = Queue[k + 1]
  <2>1. PICK j \in Nat : j = k - 1
    BY <1>2
  <2>2. (nread' + j) % PipeSize = (nread + 1 + j) % PipeSize
    BY <1>1, Ahead
  <2>3. nread' \in Nat
    BY <1>1, GetByte, WrapAssumption
  <2>4. nread' + k - 1 = nread' + j /\ nread + (k + 1) - 1 = nread + 1 + j
    BY <1>2, <2>1, <2>3
  <2>5. Queue[k + 1] = data[(nread + (k + 1) - 1) % PipeSize]
    BY <1>2 DEF Queue
  <2> QED
    BY <2>2, <2>4, <2>5
<1>7. Queue' = [k \in 1..(Used - 1) |-> data[(nread' + k - 1) % PipeSize]]
  BY <1>1, <1>2 DEF Queue
<1>8. Queue' \in Seq(Data) /\ Len(Queue') = Used - 1
  <2>1. TypeOK'
    <3>1. p \in Procs
      BY DEF Procs
    <3>2. IndInv'
      BY <3>1, ReadByteInv
    <3> QED
      BY <3>2 DEF IndInv
  <2> QED
    BY <1>2, <2>1, QueueTypeNext
<1>9. ASSUME NEW k \in 1..(Used - 1) PROVE Queue'[k] = Tail(Queue)[k]
  BY <1>5, <1>6, <1>7
<1>10. Queue' = Tail(Queue)
  BY <1>5, <1>8, <1>9, SeqEqual
<1> QED
  BY <1>4, <1>10

LEMMA InitRefines == Init => Stream!Init
<1> SUFFICES ASSUME Init PROVE Stream!Init
  OBVIOUS
<1>1. Used = 0
  BY WrapAssumption, Wraps DEF Init, Used
<1>2. Queue = <<>>
  BY <1>1 DEF Queue
<1> QED
  BY <1>2 DEF Init, Stream!Init, Queue

LEMMA StepRefines == IndInv /\ [Next]_vars => [Stream!Next]_Stream!vars
<1> SUFFICES ASSUME IndInv, [Next]_vars PROVE [Stream!Next]_Stream!vars
  OBVIOUS
<1>1. CASE UNCHANGED pipeVars
  BY <1>1 DEF pipeVars, Stream!vars, Used
<1>2. ASSUME NEW p \in Procs, NEW v \in Data, p \in Writers, WriteByte(p, v)
      PROVE  Stream!Put(v)
  <2>1. readopen /\ writeopen
    BY <1>2, EndsAssumption DEF WriteByte, IndInv, EndsOpen
  <2>2. Queue' = Append(Queue, v) /\ Len(Queue) < PipeSize
    BY <1>2, PutRefines
  <2> QED
    BY <1>2, <2>1, <2>2 DEF Stream!Put, Queue, WriteByte
<1>3. ASSUME NEW p \in Procs, p \in Readers, ReadByte(p)
      PROVE  Stream!Get
  <2>1. readopen
    BY <1>3 DEF ReadByte, IndInv, EndsOpen
  <2>2. Queue' = Tail(Queue) /\ Queue # <<>>
    BY <1>3, GetRefines
  <2> QED
    BY <1>3, <2>1, <2>2 DEF Stream!Get, Queue, ReadByte
<1>4. ASSUME NEW p \in Procs, PipeClose(p)
      PROVE  Stream!CloseRead \/ Stream!CloseWrite
  <2>1. IF p \in Writers THEN writeopen /\ writeopen' = FALSE /\ readopen' = readopen
                         ELSE readopen /\ readopen' = FALSE /\ writeopen' = writeopen
    BY <1>4 DEF PipeClose, IndInv, EndsOpen, Procs
  <2>2. UNCHANGED <<data, nread, nwrite>>
    BY <1>4 DEF PipeClose
  <2> QED
    BY <2>1, <2>2 DEF Stream!CloseRead, Stream!CloseWrite, Used
<1>5. ASSUME NEW p \in Procs, ~UNCHANGED pipeVars,
             \/ \E k \in Lengths : Call(p, k)
             \/ Acquire(p)
             \/ WriteStep(p) \/ ReadStep(p) \/ SleepOn(p)
             \/ CloseFd(p) \/ PipeClose(p) \/ Free(p)
             \/ Kill(p)
      PROVE  \/ PipeClose(p)
             \/ p \in Writers /\ \E v \in Data : WriteByte(p, v)
             \/ p \in Readers /\ ReadByte(p)
  <2>1. CASE WriteStep(p)
    BY <1>5, <2>1 DEF WriteStep, WriteFails, WriteFull, WriteDone
  <2>2. CASE ReadStep(p)
    BY <1>5, <2>2 DEF ReadStep, ReadKilled, ReadEmpty, ReadStart, ReadDone
  <2> QED
    BY <1>5, <2>1, <2>2 DEF Call, Acquire, SleepOn, CloseFd, Free, Kill
<1>6. CASE Next
  BY <1>1, <1>2, <1>3, <1>4, <1>5, <1>6 DEF Next, Stream!Next
<1>7. CASE UNCHANGED vars
  BY <1>1, <1>7 DEF vars, pipeVars
<1> QED
  BY <1>6, <1>7

\* Bytes come out in the order they went in, none lost and none twice.
THEOREM Refinement == Spec => ImplementsByteStream
<1> QED
  BY InitRefines, StepRefines, Invariance, PTL DEF Spec, ImplementsByteStream, Stream!Spec
=============================================================================
