-------------------------------- MODULE Log --------------------------------
(***************************************************************************)
(* The redo log of kernel/log.c: begin_op, log_write, end_op, commit and   *)
(* the recovery after a crash, with as much of the buffer cache (bio.c) as *)
(* the log relies on: a buffer that is pinned or locked stays in memory.   *)
(*                                                                         *)
(* A disk write is synchronous (bwrite waits for the device), so every     *)
(* write is a step of its own and a crash may fall between any two, or in  *)
(* the middle of one, which leaves any contents in the block it was        *)
(* writing.  The header is the exception: its used part is shorter than a  *)
(* sector.                                                                 *)
(*                                                                         *)
(* Whoever changes a buffer here logs it.  The one who does not, writei    *)
(* after a copyin that failed, is in BufferCache and FileBlocks.           *)
(***************************************************************************)
EXTENDS Naturals, Sequences, FiniteSets

CONSTANTS Procs,        \* processes that run file-system operations
          Blocks,       \* home block numbers outside the log area
          Data,         \* possible contents of a block
          Zero,         \* contents of a block mkfs has not written
          None,         \* neither a block nor the contents of one
          LogSize,      \* LOGSIZE of param.h
          NLog,         \* log.size, the superblock's nlog, header included
          MaxOpBlocks,  \* MAXOPBLOCKS of param.h
          OpBlocks      \* blocks one operation really writes

ASSUME DataAssumption == Zero \in Data /\ None \notin Data /\ None \notin Blocks
ASSUME ProcsAssumption == IsFiniteSet(Procs)
ASSUME SizeAssumption ==
  LogSize \in Nat /\ NLog \in Nat /\ MaxOpBlocks \in Nat /\ OpBlocks \in Nat
ASSUME HeaderAssumption == NLog > 0
\* mkfs makes the log area LOGSIZE blocks long, header included, and the callers split
\* what they write into operations of at most MAXOPBLOCKS blocks.
ASSUME ReservationAssumption == NLog <= LogSize + 1 /\ OpBlocks <= MaxOpBlocks

VARIABLES
  home,         \* disk: the home location of every block
  dlog,         \* disk: the blocks of the log area after the header
  dhead,        \* disk: the header block, as the sequence block[0..n-1]
  cache,        \* memory: contents of each block's buffer, None if it has none
  pin,          \* memory: references bpin() holds on each block's buffer
  lh,           \* memory: log.lh, as the sequence block[0..n-1]
  outstanding,  \* memory: log.outstanding
  committing,   \* memory: log.committing
  tail,         \* memory: loop variable of write_log and install_trans, plus 1
  boot,         \* how far fsinit() has got; "run" once processes may run
  pc,           \* where each process is
  blk,          \* the block whose sleep lock each process owns, or None
  wrote         \* the blocks logged so far by each process's operation

diskVars == <<home, dlog, dhead>>
logVars  == <<lh, outstanding, committing, tail>>
procVars == <<pc, blk, wrote>>
vars == <<home, dlog, dhead, cache, pin, lh, outstanding, committing, tail,
          boot, pc, blk, wrote>>

Committing == {"wlog", "install", "done"}  \* in end_op's do_commit branch

Locked(b) == \E p \in Procs : blk[p] = b

\* A process that panics inside log.c keeps log.lock for ever.
LogLockFree == \A p \in Procs : pc[p] # "panic"

\* bread() of an unlocked block: its buffer, filled from the disk if need be.
Contents(b) == IF cache[b] = None THEN home[b] ELSE cache[b]
Bread(b) == cache' = [cache EXCEPT ![b] = Contents(b)]
\* Mutant of Bpin: log_write forgets to pin the buffer.
BpinForgotten(b) == pin' = pin /\ b \in Blocks
Bpin(b) == pin' = [pin EXCEPT ![b] = @ + 1]
Bunpin(b) == pin' = [pin EXCEPT ![b] = @ - 1]

Logged(b) == \E i \in 1..Len(lh) : lh[i] = b

Goto(p, l) == pc' = [pc EXCEPT ![p] = l]

\* Mutant of Wakeup: the call of wakeup(&log) is missing.
WakeupMissing(p, l) == Goto(p, l)
\* p goes on at label l and wakeup(&log) makes every sleeper runnable.
Wakeup(p, l) == pc' = [q \in Procs |-> IF q = p THEN l
                                       ELSE IF pc[q] = "asleep" THEN "begin"
                                       ELSE pc[q]]
\* mkfs writes an empty log and any file system at all.
Init == /\ home \in [Blocks -> Data]
        /\ dlog = [i \in 1..(NLog - 1) |-> Zero]
        /\ dhead = <<>>
        /\ cache = [b \in Blocks |-> None]
        /\ pin = [b \in Blocks |-> 0]
        /\ lh = <<>> /\ outstanding = 0 /\ committing = FALSE /\ tail = 1
        /\ boot = "read_head"
        /\ pc = [p \in Procs |-> "idle"]
        /\ blk = [p \in Procs |-> None]
        /\ wrote = [p \in Procs |-> {}]
-----------------------------------------------------------------------------
(* begin_op, log_write, end_op and the reads and writes they bracket.      *)

\* Mutant of NoSpace: the reservation leaves out the operation that begins.
NoSpaceForOthers == Len(lh) + outstanding * MaxOpBlocks > LogSize
\* lh.n plus what the operations under way, and this one, may still write.
NoSpace == Len(lh) + (outstanding + 1) * MaxOpBlocks > LogSize
MustWait == committing \/ NoSpace

BeginOp(p) ==
  /\ boot = "run" /\ LogLockFree
  /\ pc[p] \in {"idle", "begin"} /\ blk[p] = None
  /\ ~MustWait
  /\ outstanding' = outstanding + 1
  /\ Goto(p, "op")
  /\ UNCHANGED <<diskVars, cache, pin, lh, committing, tail, boot, blk, wrote>>

\* sleep() releases log.lock only when p is SLEEPING: one step.
BeginOpSleep(p) ==
  /\ boot = "run" /\ LogLockFree
  /\ pc[p] \in {"idle", "begin"} /\ blk[p] = None
  /\ MustWait
  /\ Goto(p, "asleep")
  /\ UNCHANGED <<diskVars, cache, pin, logVars, boot, blk, wrote>>

\* bread() by an operation, or outside one (sys_read, exec's readi).
ReadBlock(p, b) ==
  /\ boot = "run"
  /\ pc[p] \in {"op", "idle"} /\ blk[p] = None
  /\ ~Locked(b)
  /\ Bread(b)
  /\ blk' = [blk EXCEPT ![p] = b]
  /\ UNCHANGED <<diskVars, pin, logVars, boot, pc, wrote>>

Brelse(p) ==
  /\ pc[p] \in {"op", "idle"} /\ blk[p] # None
  /\ blk' = [blk EXCEPT ![p] = None]
  /\ UNCHANGED <<diskVars, cache, pin, logVars, boot, pc, wrote>>

TooBig == Len(lh) >= LogSize \/ Len(lh) >= NLog - 1
OutsideTrans == outstanding < 1

\* An operation logs no more blocks than it needs: OpBlocks.
Allowed(p) == Cardinality(wrote[p] \cup {blk[p]}) <= OpBlocks

\* The buffer's data changes and log_write records its block.
LogWrite(p, v) ==
  /\ LogLockFree
  /\ pc[p] = "op" /\ blk[p] # None /\ Allowed(p)
  /\ ~(TooBig \/ OutsideTrans)
  /\ wrote' = [wrote EXCEPT ![p] = @ \cup {blk[p]}]
  /\ cache' = [cache EXCEPT ![blk[p]] = v]
  /\ IF Logged(blk[p]) THEN UNCHANGED <<lh, pin>>
                       ELSE lh' = Append(lh, blk[p]) /\ Bpin(blk[p])
  /\ UNCHANGED <<diskVars, outstanding, committing, tail, boot, pc, blk>>

LogWritePanic(p) ==
  /\ LogLockFree
  /\ pc[p] = "op" /\ blk[p] # None /\ Allowed(p)
  /\ TooBig \/ OutsideTrans
  /\ Goto(p, "panic")
  /\ UNCHANGED <<diskVars, cache, pin, logVars, boot, blk, wrote>>

\* Mutant of CommitEntry: blocks are installed before they are in the log.
InstallFirst == IF lh = <<>> THEN "done" ELSE "install"
\* commit() has nothing to do for a group that logged nothing.
CommitEntry == IF lh = <<>> THEN "done" ELSE "wlog"

\* The last operation of a group commits it; any other only returns its
\* reservation.
EndOp(p) ==
  /\ LogLockFree
  /\ pc[p] = "op" /\ blk[p] = None
  /\ outstanding' = outstanding - 1
  /\ IF committing
     THEN Goto(p, "panic") /\ UNCHANGED <<committing, tail>>
     ELSE IF outstanding' = 0
     THEN /\ Goto(p, CommitEntry)
          /\ committing' = TRUE
          /\ tail' = 1
     ELSE Wakeup(p, "idle") /\ UNCHANGED <<committing, tail>>
  /\ wrote' = [wrote EXCEPT ![p] = {}]
  /\ UNCHANGED <<diskVars, cache, pin, lh, boot, blk>>
-----------------------------------------------------------------------------
(* commit(), one disk write at a time.                                     *)

WriteLog(p) ==
  /\ pc[p] = "wlog"
  /\ tail <= Len(lh)
  /\ ~Locked(lh[tail])
  /\ Bread(lh[tail])
  /\ dlog' = [dlog EXCEPT ![tail] = Contents(lh[tail])]
  /\ tail' = tail + 1
  /\ UNCHANGED <<home, dhead, pin, lh, outstanding, committing, boot, procVars>>

\* write_head(): the point at which the transaction commits.
WriteHead(p) ==
  /\ pc[p] = "wlog"
  /\ tail > Len(lh)
  /\ dhead' = lh
  /\ tail' = 1
  /\ Goto(p, "install")
  /\ UNCHANGED <<home, dlog, cache, pin, lh, outstanding, committing, boot,
                 blk, wrote>>

\* One turn of install_trans: the logged copy goes to the buffer, then home.
Install == /\ tail <= Len(lh)
           /\ ~Locked(lh[tail])
           /\ cache' = [cache EXCEPT ![lh[tail]] = dlog[tail]]
           /\ home' = [home EXCEPT ![lh[tail]] = dlog[tail]]
           /\ tail' = tail + 1

InstallTrans(p) ==
  /\ pc[p] = "install"
  /\ Install
  /\ Bunpin(lh[tail])
  /\ UNCHANGED <<dlog, dhead, lh, outstanding, committing, boot, procVars>>

\* log.lh.n = 0, and write_head() makes the header on disk empty.
ClearHead == /\ tail > Len(lh)
             /\ lh' = <<>>
             /\ dhead' = <<>>

EraseTrans(p) ==
  /\ pc[p] = "install"
  /\ ClearHead
  /\ Goto(p, "done")
  /\ UNCHANGED <<home, dlog, cache, pin, outstanding, committing, tail, boot,
                 blk, wrote>>

EndOpDone(p) ==
  /\ LogLockFree
  /\ pc[p] = "done"
  /\ committing' = FALSE
  /\ Wakeup(p, "idle")
  /\ UNCHANGED <<diskVars, cache, pin, lh, outstanding, tail, boot, blk, wrote>>
-----------------------------------------------------------------------------
(* The buffer cache, crashes, and recover_from_log() at the next boot.     *)

\* bget() recycles an unreferenced buffer for some other block.
Evict(b) ==
  /\ cache[b] # None
  /\ pin[b] = 0 /\ ~Locked(b)
  /\ cache' = [cache EXCEPT ![b] = None]
  /\ UNCHANGED <<diskVars, pin, logVars, boot, procVars>>

\* The block that is being written when the power fails may hold anything.
TornLogBlock ==
  /\ \E p \in Procs : pc[p] = "wlog" /\ tail <= Len(lh)
  /\ \E v \in Data : dlog' = [dlog EXCEPT ![tail] = v]
  /\ home' = home

TornHomeBlock ==
  /\ boot = "install" \/ \E p \in Procs : pc[p] = "install"
  /\ tail <= Len(lh)
  /\ \E v \in Data : home' = [home EXCEPT ![lh[tail]] = v]
  /\ dlog' = dlog

Crash ==
  /\ boot # "read_head"
  /\ (home' = home /\ dlog' = dlog) \/ TornLogBlock \/ TornHomeBlock
  /\ dhead' = dhead
  /\ cache' = [b \in Blocks |-> None]
  /\ pin' = [b \in Blocks |-> 0]
  /\ lh' = <<>> /\ outstanding' = 0 /\ committing' = FALSE /\ tail' = 1
  /\ boot' = "read_head"
  /\ pc' = [p \in Procs |-> "idle"]
  /\ blk' = [p \in Procs |-> None]
  /\ wrote' = [p \in Procs |-> {}]

ReadHead ==
  /\ boot = "read_head"
  /\ lh' = dhead
  /\ tail' = 1
  /\ boot' = "install"
  /\ UNCHANGED <<diskVars, cache, pin, outstanding, committing, procVars>>

\* install_trans(1): as in commit(), but nothing was pinned.
RecoverTrans ==
  /\ boot = "install"
  /\ Install
  /\ UNCHANGED <<dlog, dhead, pin, lh, outstanding, committing, boot, procVars>>

RecoverDone ==
  /\ boot = "install"
  /\ ClearHead
  /\ boot' = "run"
  /\ UNCHANGED <<home, dlog, cache, pin, outstanding, committing, tail, procVars>>
-----------------------------------------------------------------------------
CommitStep(p) == WriteLog(p) \/ WriteHead(p) \/ InstallTrans(p) \/ EraseTrans(p)
Recovery == ReadHead \/ RecoverTrans \/ RecoverDone

Next ==
  \/ \E p \in Procs : \/ BeginOp(p) \/ BeginOpSleep(p)
                      \/ \E b \in Blocks : ReadBlock(p, b)
                      \/ Brelse(p)
                      \/ \E v \in Data : LogWrite(p, v)
                      \/ LogWritePanic(p)
                      \/ EndOp(p)
                      \/ CommitStep(p) \/ EndOpDone(p)
  \/ \E b \in Blocks : Evict(b)
  \/ Crash
  \/ Recovery

Spec == Init /\ [][Next]_vars

\* What the code's scheduling gives.  A running process goes on until it blocks
\* and round robin reaches every RUNNABLE one (WF).  An operation reads finitely
\* many blocks, so one that can end again and again does; and a process that
\* waits for a sleep lock is woken at each release and gets it in the end (SF).
Fairness ==
  /\ WF_vars(Recovery)
  /\ \A p \in Procs : /\ WF_vars(BeginOpSleep(p) /\ pc[p] = "begin")
                      /\ WF_vars(Brelse(p))
                      /\ SF_vars(EndOp(p))
                      /\ SF_vars(CommitStep(p))
                      /\ WF_vars(EndOpDone(p))

FairSpec == Spec /\ Fairness
-----------------------------------------------------------------------------
(* Properties                                                              *)

PCs == {"idle", "asleep", "begin", "op", "panic"} \cup Committing
Boots == {"read_head", "install", "run"}

\* The types, and the sizes that keep lh.block[] and the log area in bounds.
TypeOK == /\ home \in [Blocks -> Data]
          /\ dlog \in [1..(NLog - 1) -> Data]
          /\ dhead \in Seq(Blocks) /\ Len(dhead) <= NLog - 1
          /\ cache \in [Blocks -> Data \cup {None}]
          /\ pin \in [Blocks -> Nat]
          /\ lh \in Seq(Blocks) /\ Len(lh) <= NLog - 1
          /\ outstanding \in Nat
          /\ committing \in BOOLEAN
          /\ tail \in 1..NLog
          /\ boot \in Boots
          /\ pc \in [Procs -> PCs]
          /\ blk \in [Procs -> Blocks \cup {None}]
          /\ wrote \in [Procs -> SUBSET Blocks]

\* No process panics: an operation that begin_op has let in, and that logs no more
\* than the MAXOPBLOCKS blocks reserved for it, gets through.  False of log.c, which
\* reserves LOGSIZE blocks (line 134) and panics at log.size - 1 (line 221).
NoPanic == \A p \in Procs : pc[p] # "panic"

\* Operations that leave so much of their reservation unused that neither the header
\* of the log area nor the test before the absorption can catch them.
Roomy == LogSize + OpBlocks + 2 <= NLog + MaxOpBlocks

\* The blocks that the operations under way have reserved and not yet used.
Unused == {r \in Procs \X (1..MaxOpBlocks) :
             pc[r[1]] = "op" /\ r[2] > Cardinality(wrote[r[1]])}

\* begin_op's accounting: what the operations under way have reserved and not yet
\* used still fits into lh.block[], which holds LOGSIZE block numbers.  It says
\* nothing of the log area on disk, which is shorter: see NoPanic and Roomy.
SpaceReserved == Len(lh) + Cardinality(Unused) <= LogSize

\* Write-ahead: a block's home location is only ever written while a header on
\* disk says that the log holds it, so that a crash during the write is repaired.
WriteAhead == [][\A b \in Blocks : home'[b] # home[b] =>
                   \E i \in 1..Len(dhead) : dhead[i] = b]_vars

\* No process sleeps in begin_op for ever: a commit, another operation's end or
\* a reboot gets it out, unless log_write panics.
SleeperWoken == \A p \in Procs : pc[p] = "asleep" ~> pc[p] # "asleep" \/ ~NoPanic

\* What a boot would now restore: the logged copy of a block, or its home.
DurableOf(b) == IF \E i \in 1..Len(dhead) : dhead[i] = b
                THEN dlog[CHOOSE i \in 1..Len(dhead) : dhead[i] = b]
                ELSE home[b]
Durable == [b \in Blocks |-> DurableOf(b)]
Current == IF boot = "run" THEN [b \in Blocks |-> Contents(b)] ELSE Durable
Active == {p \in Procs : pc[p] = "op"}

Disk == INSTANCE AtomicDisk
          WITH durable <- Durable, current <- Current, active <- Active

\* The log with crash and recovery implements the atomic disk.
ImplementsAtomicDisk == Disk!Spec
-----------------------------------------------------------------------------
(* The inductive invariant behind ImplementsAtomicDisk and WriteAhead.     *)

Distinct(s) == \A i, j \in 1..Len(s) : s[i] = s[j] => i = j

\* begin_op admits nobody while the one committer is at work.
OneCommitter ==
  /\ \A p, q \in Procs : pc[p] \in Committing /\ pc[q] \in Committing => p = q
  /\ \A p \in Procs : pc[p] \in Committing => committing
  /\ committing => \A p \in Procs : pc[p] # "op"
  /\ NoPanic => outstanding = Cardinality(Active)

\* A buffer someone has locked stays in the cache, and only a process at work
\* on a file has one.
LockedCached == \A p \in Procs : blk[p] # None =>
                   /\ cache[blk[p]] # None
                   /\ pc[p] \in {"op", "idle", "panic"}

\* Position tail of install_trans: what is before it is home already.
Installing == boot = "install" \/ \E p \in Procs : pc[p] = "install"
Installed(b) == Installing /\ \E i \in 1..Len(lh) : lh[i] = b /\ i < tail
Dirty(b) == Logged(b) /\ ~Installed(b)

\* A buffer may differ from its home block only while its block is in the log,
\* and then it is pinned, once, until install_trans has written it home.
PinnedWhileDirty ==
  boot = "run" => \A b \in Blocks :
    IF Dirty(b) THEN pin[b] = 1 /\ cache[b] # None
                ELSE pin[b] = 0 /\ cache[b] \in {None, home[b]}

\* The header on disk lists the transaction exactly while it is installed.
HeaderOK ==
  /\ Distinct(lh) /\ Distinct(dhead)
  /\ Installing => dhead = lh
  /\ boot = "run" /\ ~Installing => dhead = <<>>
  /\ \A p \in Procs : pc[p] = "done" => lh = <<>>

\* What the commit has copied so far.
CopiesOK ==
  /\ (\E p \in Procs : pc[p] = "wlog") =>
        \A i \in 1..Len(lh) : i < tail => dlog[i] = cache[lh[i]]
  /\ Installing => \A i \in 1..Len(lh) :
        IF i < tail THEN home[lh[i]] = dlog[i]
        ELSE boot = "run" => cache[lh[i]] = dlog[i]

\* Before initlog returns there are no processes but the one that boots.
BootOK ==
  boot # "run" => /\ \A p \in Procs : pc[p] = "idle" /\ blk[p] = None
                  /\ \A b \in Blocks : pin[b] = 0 /\ cache[b] \in {None, home[b]}
                  /\ outstanding = 0 /\ committing = FALSE

IndInv == /\ TypeOK
          /\ OneCommitter
          /\ LockedCached
          /\ PinnedWhileDirty
          /\ HeaderOK
          /\ CopiesOK
          /\ BootOK
=============================================================================
