-------------------------------- MODULE Proc --------------------------------
(***************************************************************************)
(* The process table of kernel/proc.c: fork, exit, wait, kill, and the     *)
(* schedulers of several CPUs, between the steps that take and release     *)
(* wait_lock and the lock of each process.  A lock belongs to a CPU; while *)
(* a CPU has one its interrupts are off, so that it cannot yield.          *)
(*                                                                         *)
(* Memory, files and exit statuses are left out.  The only channel slept   *)
(* on is that of wait(), the process itself.                               *)
(***************************************************************************)
EXTENDS Naturals, FiniteSets

CONSTANTS NPROC,     \* slots of the table: 1..NPROC; init has slot 1
          CPUs,
          MaxPid,    \* bound: pids that allocpid() gives out
          KillPids,  \* pids that kill() is called with
          NoCpu      \* not a CPU

ProcSlots == 1..NPROC
Pids == 1..MaxPid
InitSlot == 1

ASSUME TableAssumption == NPROC \in Nat \ {0} /\ MaxPid \in Nat \ {0}
ASSUME CPUAssumption == NoCpu \notin CPUs /\ KillPids \subseteq 0..MaxPid

VARIABLES state, parent, pid, chan, killed, \* struct proc; 0 is the null pointer
          nextpid,
          plock,     \* p->lock of every slot: the CPU that has it, or NoCpu
          waitLock,  \* wait_lock, likewise
          cpu,       \* c->proc of every CPU, or 0
          kpc,       \* where the kernel thread of each slot is
          k,         \* the slot a loop over the table has got to, or fork's np
          kids,      \* havekids
          arg        \* the pid a kill() is looking for

ptable == <<state, parent, pid, chan, killed>>
locks == <<plock, waitLock>>
procVars == <<ptable, nextpid, locks, cpu, kpc, k, kids, arg>>

ProcInit == /\ state = [p \in ProcSlots |-> IF p = InitSlot THEN "RUNNABLE" ELSE "UNUSED"]
            /\ parent = [p \in ProcSlots |-> 0]
            /\ pid = [p \in ProcSlots |-> IF p = InitSlot THEN 1 ELSE 0]
            /\ chan = [p \in ProcSlots |-> 0]
            /\ killed = [p \in ProcSlots |-> FALSE]
            /\ nextpid = 2
            /\ plock = [p \in ProcSlots |-> NoCpu]
            /\ waitLock = NoCpu
            /\ cpu = [c \in CPUs |-> 0]
            /\ kpc = [p \in ProcSlots |-> "user"]
            /\ k = [p \in ProcSlots |-> 0]
            /\ kids = [p \in ProcSlots |-> FALSE]
            /\ arg = [p \in ProcSlots |-> 0]

Free(q) == plock[q] = NoCpu
Lock(q, c) == plock' = [plock EXCEPT ![q] = c]
Unlock(q) == plock' = [plock EXCEPT ![q] = NoCpu]
SetState(q, s) == state' = [state EXCEPT ![q] = s]
KGoto(p, l) == kpc' = [kpc EXCEPT ![p] = l]
Step(p) == k' = [k EXCEPT ![p] = @ + 1]
Start(p) == k' = [k EXCEPT ![p] = 1]
Done(p) == k' = [k EXCEPT ![p] = 0]
-----------------------------------------------------------------------------
(* The scheduler                                                           *)

\* c executes the code of p, in user mode or in the kernel.
Runs(c, p) == cpu[c] = p /\ state[p] = "RUNNING" /\ plock[p] # c

Idle(c, p) == cpu[c] = 0 /\ Free(p)

\* scheduler(): p->lock stays taken until p itself releases it.
SwitchIn(c, p) ==
  /\ Idle(c, p) /\ state[p] = "RUNNABLE"
  /\ SetState(p, "RUNNING") /\ Lock(p, c)
  /\ cpu' = [cpu EXCEPT ![c] = p]
  /\ UNCHANGED <<parent, pid, chan, killed, nextpid, waitLock, kpc, k, kids, arg>>

\* p is back from swtch(), in forkret(), yield() or sleep().
Resume(c, p) ==
  /\ cpu[c] = p /\ plock[p] = c /\ state[p] = "RUNNING"
  /\ Unlock(p)
  /\ chan' = [chan EXCEPT ![p] = 0]
  /\ KGoto(p, IF kpc[p] = "asleep" THEN "wait" ELSE kpc[p])
  /\ UNCHANGED <<state, parent, pid, killed, nextpid, waitLock, cpu, k, kids, arg>>

\* sched(), and the scheduler that goes on after swtch().
SwitchOut(c, p) ==
  /\ cpu[c] = p /\ plock[p] = c /\ state[p] # "RUNNING"
  /\ Unlock(p)
  /\ cpu' = [cpu EXCEPT ![c] = 0]
  /\ UNCHANGED <<ptable, nextpid, waitLock, kpc, k, kids, arg>>

NoLock(c) == waitLock # c /\ \A q \in ProcSlots : plock[q] # c

\* A timer interrupt: yield().
Yield(c, p) ==
  /\ Runs(c, p) /\ NoLock(c) /\ Free(p)
  /\ SetState(p, "RUNNABLE") /\ Lock(p, c)
  /\ UNCHANGED <<parent, pid, chan, killed, nextpid, waitLock, cpu, kpc, k, kids, arg>>
-----------------------------------------------------------------------------
(* fork()                                                                  *)

\* A system call other than kill; usertrap() sends the killed to exit().
Syscall(c, p, call) ==
  /\ Runs(c, p) /\ kpc[p] = "user"
  /\ killed[p] => call = "exit"
  /\ KGoto(p, call)
  /\ IF call = "fork" THEN Start(p) ELSE k' = k
  /\ UNCHANGED <<ptable, nextpid, locks, cpu, kids, arg>>

\* allocproc() passes over a slot in use.
AllocNext(c, p) ==
  /\ Runs(c, p) /\ kpc[p] = "fork" /\ k[p] \in ProcSlots
  /\ Free(k[p]) /\ state[k[p]] # "UNUSED"
  /\ Step(p)
  /\ UNCHANGED <<ptable, nextpid, locks, cpu, kpc, kids, arg>>

AllocFound(c, p) ==
  /\ Runs(c, p) /\ kpc[p] = "fork" /\ k[p] \in ProcSlots
  /\ Free(k[p]) /\ state[k[p]] = "UNUSED"
  /\ nextpid <= MaxPid
  /\ SetState(k[p], "USED")
  /\ pid' = [pid EXCEPT ![k[p]] = nextpid]
  /\ nextpid' = nextpid + 1
  /\ Lock(k[p], c)
  /\ KGoto(p, "copy")
  /\ UNCHANGED <<parent, chan, killed, waitLock, cpu, k, kids, arg>>

\* -1: no slot is free, or (the bound) no pid.
AllocFails(c, p) ==
  /\ Runs(c, p) /\ kpc[p] = "fork" /\ (k[p] \notin ProcSlots \/ nextpid > MaxPid)
  /\ Done(p) /\ KGoto(p, "user")
  /\ UNCHANGED <<ptable, nextpid, locks, cpu, kids, arg>>

ClearPid(q) == pid' = [pid EXCEPT ![q] = 0]
\* Mutant of ClearParent: freeproc() forgets the field.
KeepParent(q) == parent' = parent /\ q \in ProcSlots
ClearParent(q) == parent' = [parent EXCEPT ![q] = 0]
ClearKilled(q) == killed' = [killed EXCEPT ![q] = FALSE]

FreeProc(q) == /\ SetState(q, "UNUSED")
               /\ ClearPid(q) /\ ClearParent(q) /\ ClearKilled(q)
               /\ chan' = [chan EXCEPT ![q] = 0]

\* No memory for the trap frame, the page table or the copy of the parent's.
CopyFails(c, p) ==
  /\ Runs(c, p) /\ kpc[p] = "copy"
  /\ FreeProc(k[p]) /\ Unlock(k[p])
  /\ Done(p) /\ KGoto(p, "user")
  /\ UNCHANGED <<nextpid, waitLock, cpu, kids, arg>>

\* Mutant of AfterCopy: np->lock is kept while fork() takes wait_lock.
AfterCopyLocked(q) == plock' = plock /\ q \in ProcSlots
\* np->lock comes after wait_lock in the lock order: it is released first.
AfterCopy(q) == Unlock(q)

CopyDone(c, p) ==
  /\ Runs(c, p) /\ kpc[p] = "copy"
  /\ AfterCopy(k[p])
  /\ KGoto(p, "adopt")
  /\ UNCHANGED <<ptable, nextpid, waitLock, cpu, k, kids, arg>>

SetParent(c, p) ==
  /\ Runs(c, p) /\ kpc[p] = "adopt" /\ waitLock = NoCpu
  /\ parent' = [parent EXCEPT ![k[p]] = p]
  /\ KGoto(p, "ready")
  /\ UNCHANGED <<state, pid, chan, killed, nextpid, locks, cpu, k, kids, arg>>

ForkDone(c, p) ==
  /\ Runs(c, p) /\ kpc[p] = "ready" /\ Free(k[p])
  /\ SetState(k[p], "RUNNABLE") /\ Unlock(k[p])
  /\ KGoto(p, "user") /\ Done(p)
  /\ UNCHANGED <<parent, pid, chan, killed, nextpid, waitLock, cpu, kids, arg>>
-----------------------------------------------------------------------------
(* exit()                                                                  *)

ExitPanic(c, p) ==
  /\ Runs(c, p) /\ kpc[p] = "exit" /\ p = InitSlot
  /\ KGoto(p, "panic")
  /\ UNCHANGED <<ptable, nextpid, locks, cpu, k, kids, arg>>

ExitLock(c, p) ==
  /\ Runs(c, p) /\ kpc[p] = "exit" /\ p # InitSlot /\ waitLock = NoCpu
  /\ waitLock' = c
  /\ KGoto(p, "reparent")
  /\ UNCHANGED <<ptable, nextpid, plock, cpu, k, kids, arg>>

Children(p) == {q \in ProcSlots : parent[q] = p}

\* One turn of the loop of reparent(), which wakes init for every child.
Reparent(c, p) ==
  /\ Runs(c, p) /\ kpc[p] = "reparent"
  /\ \E q \in Children(p) : parent' = [parent EXCEPT ![q] = InitSlot]
  /\ KGoto(p, "wakeInit") /\ Start(p)
  /\ UNCHANGED <<state, pid, chan, killed, nextpid, locks, cpu, kids, arg>>

ReparentDone(c, p) ==
  /\ Runs(c, p) /\ kpc[p] = "reparent" /\ Children(p) = {}
  /\ KGoto(p, "wakeParent") /\ Start(p)
  /\ UNCHANGED <<ptable, nextpid, locks, cpu, kids, arg>>

\* Mutant of ChannelOf: exit() wakes the process that exits.
ChannelOfSelf(p) == IF kpc[p] = "wakeInit" THEN InitSlot ELSE p
ChannelOf(p) == IF kpc[p] = "wakeInit" THEN InitSlot ELSE parent[p]

\* One turn of the loop of wakeup().
WakeupSlot(c, p) ==
  /\ Runs(c, p) /\ kpc[p] \in {"wakeInit", "wakeParent"} /\ k[p] \in ProcSlots
  /\ k[p] # p => Free(k[p])
  /\ IF k[p] # p /\ state[k[p]] = "SLEEPING" /\ chan[k[p]] = ChannelOf(p)
     THEN SetState(k[p], "RUNNABLE")
     ELSE state' = state
  /\ Step(p)
  /\ UNCHANGED <<parent, pid, chan, killed, nextpid, locks, cpu, kpc, kids, arg>>

WakeupDone(c, p) ==
  /\ Runs(c, p) /\ kpc[p] \in {"wakeInit", "wakeParent"} /\ k[p] \notin ProcSlots
  /\ KGoto(p, IF kpc[p] = "wakeInit" THEN "reparent" ELSE "die") /\ Done(p)
  /\ UNCHANGED <<ptable, nextpid, locks, cpu, kids, arg>>

\* wait_lock is released, p->lock is not: the scheduler will do that.
Die(c, p) ==
  /\ Runs(c, p) /\ kpc[p] = "die" /\ Free(p)
  /\ SetState(p, "ZOMBIE") /\ Lock(p, c)
  /\ waitLock' = NoCpu
  /\ KGoto(p, "user")
  /\ UNCHANGED <<parent, pid, chan, killed, nextpid, cpu, k, kids, arg>>
-----------------------------------------------------------------------------
(* wait()                                                                  *)

\* Also at the end of sleep(): the table is scanned from its start.
WaitLock(c, p) ==
  /\ Runs(c, p) /\ kpc[p] = "wait" /\ waitLock = NoCpu
  /\ waitLock' = c
  /\ KGoto(p, "scan") /\ Start(p)
  /\ kids' = [kids EXCEPT ![p] = FALSE]
  /\ UNCHANGED <<ptable, nextpid, plock, cpu, arg>>

WaitReturn(p) == /\ waitLock' = NoCpu
                 /\ KGoto(p, "user") /\ Done(p)
                 /\ kids' = [kids EXCEPT ![p] = FALSE]

ChildLockFree(q) == Free(q)

\* Not a child, or one that has not exited.
ScanNext(c, p) ==
  /\ Runs(c, p) /\ kpc[p] = "scan" /\ k[p] \in ProcSlots
  /\ \/ parent[k[p]] # p /\ kids' = kids
     \/ /\ parent[k[p]] = p /\ ChildLockFree(k[p]) /\ state[k[p]] # "ZOMBIE"
        /\ kids' = [kids EXCEPT ![p] = TRUE]
  /\ Step(p)
  /\ UNCHANGED <<ptable, nextpid, locks, cpu, kpc, arg>>

FoundZombie(p) == /\ kpc[p] = "scan" /\ k[p] \in ProcSlots
                  /\ parent[k[p]] = p /\ ChildLockFree(k[p])
                  /\ state[k[p]] = "ZOMBIE"

Reap(c, p) ==
  /\ Runs(c, p) /\ FoundZombie(p)
  /\ FreeProc(k[p])
  /\ WaitReturn(p)
  /\ UNCHANGED <<nextpid, plock, cpu, arg>>

\* copyout() of the exit status fails: -1, and the zombie stays.  init asks for
\* no status (user/init.c).
CopyoutFails(c, p) ==
  /\ Runs(c, p) /\ FoundZombie(p) /\ p # InitSlot
  /\ WaitReturn(p)
  /\ UNCHANGED <<ptable, nextpid, plock, cpu, arg>>

WaitFails(c, p) ==
  /\ Runs(c, p) /\ kpc[p] = "scan" /\ k[p] \notin ProcSlots
  /\ ~kids[p] \/ killed[p]
  /\ WaitReturn(p)
  /\ UNCHANGED <<ptable, nextpid, plock, cpu, arg>>

\* sleep(): p->lock is taken before wait_lock is released.
WaitSleep(c, p) ==
  /\ Runs(c, p) /\ kpc[p] = "scan" /\ k[p] \notin ProcSlots
  /\ kids[p] /\ ~killed[p]
  /\ Free(p)
  /\ Lock(p, c) /\ waitLock' = NoCpu
  /\ chan' = [chan EXCEPT ![p] = p]
  /\ SetState(p, "SLEEPING")
  /\ KGoto(p, "asleep") /\ Done(p)
  /\ kids' = [kids EXCEPT ![p] = FALSE]
  /\ UNCHANGED <<parent, pid, killed, nextpid, cpu, arg>>
-----------------------------------------------------------------------------
(* kill()                                                                  *)

KillCall(c, p, v) ==
  /\ Runs(c, p) /\ kpc[p] = "user" /\ ~killed[p]
  /\ KGoto(p, "kill") /\ Start(p)
  /\ arg' = [arg EXCEPT ![p] = v]
  /\ UNCHANGED <<ptable, nextpid, locks, cpu, kids>>

KillReturn(p) == /\ KGoto(p, "user") /\ Done(p)
                 /\ arg' = [arg EXCEPT ![p] = 0]

KillNext(c, p) ==
  /\ Runs(c, p) /\ kpc[p] = "kill" /\ k[p] \in ProcSlots
  /\ Free(k[p]) /\ pid[k[p]] # arg[p]
  /\ Step(p)
  /\ UNCHANGED <<ptable, nextpid, locks, cpu, kpc, kids, arg>>

KillFound(c, p) ==
  /\ Runs(c, p) /\ kpc[p] = "kill" /\ k[p] \in ProcSlots
  /\ Free(k[p]) /\ pid[k[p]] = arg[p]
  /\ killed' = [killed EXCEPT ![k[p]] = TRUE]
  /\ SetState(k[p], IF state[k[p]] = "SLEEPING" THEN "RUNNABLE" ELSE state[k[p]])
  /\ KillReturn(p)
  /\ UNCHANGED <<parent, pid, chan, nextpid, locks, cpu, kids>>

KillFails(c, p) ==
  /\ Runs(c, p) /\ kpc[p] = "kill" /\ k[p] \notin ProcSlots
  /\ KillReturn(p)
  /\ UNCHANGED <<ptable, nextpid, locks, cpu, kids>>
-----------------------------------------------------------------------------
Schedule(c, p) == SwitchIn(c, p) \/ Resume(c, p) \/ SwitchOut(c, p)
ForkStep(c, p) == \/ AllocNext(c, p) \/ AllocFound(c, p) \/ AllocFails(c, p)
                  \/ CopyFails(c, p) \/ CopyDone(c, p)
                  \/ SetParent(c, p) \/ ForkDone(c, p)
ExitStep(c, p) == \/ ExitPanic(c, p) \/ ExitLock(c, p)
                  \/ Reparent(c, p) \/ ReparentDone(c, p)
                  \/ WakeupSlot(c, p) \/ WakeupDone(c, p) \/ Die(c, p)
WaitStep(c, p) == \/ WaitLock(c, p) \/ ScanNext(c, p)
                  \/ Reap(c, p) \/ CopyoutFails(c, p)
                  \/ WaitFails(c, p) \/ WaitSleep(c, p)
KillStep(c, p) == KillNext(c, p) \/ KillFound(c, p) \/ KillFails(c, p)
KernelStep(c, p) == ForkStep(c, p) \/ ExitStep(c, p) \/ WaitStep(c, p) \/ KillStep(c, p)

ProcNext == \E c \in CPUs, p \in ProcSlots :
          \/ Schedule(c, p) \/ Yield(c, p) \/ KernelStep(c, p)
          \/ \E call \in {"fork", "exit", "wait"} : Syscall(c, p, call)
          \/ \E v \in KillPids : KillCall(c, p, v)

ProcSpec == ProcInit /\ [][ProcNext]_procVars

-----------------------------------------------------------------------------
(* Properties                                                              *)

States == {"UNUSED", "USED", "SLEEPING", "RUNNABLE", "RUNNING", "ZOMBIE"}
PCs == {"user", "fork", "copy", "adopt", "ready", "exit", "panic", "reparent",
        "wakeInit", "wakeParent", "die", "wait", "scan", "asleep", "kill"}

\* The types; the pid of a slot is 0 if and only if it is free.
ProcTypeOK == /\ state \in [ProcSlots -> States]
              /\ parent \in [ProcSlots -> {0} \cup ProcSlots]
              /\ pid \in [ProcSlots -> 0..MaxPid]
              /\ \A p \in ProcSlots : pid[p] = 0 <=> state[p] = "UNUSED"
              /\ chan \in [ProcSlots -> {0} \cup ProcSlots]
              /\ killed \in [ProcSlots -> BOOLEAN]
              /\ nextpid \in 2..(MaxPid + 1)
              /\ plock \in [ProcSlots -> CPUs \cup {NoCpu}]
              /\ waitLock \in CPUs \cup {NoCpu}
              /\ cpu \in [CPUs -> {0} \cup ProcSlots]
              /\ kpc \in [ProcSlots -> PCs]
              /\ k \in [ProcSlots -> 0..(NPROC + 1)]
              /\ kids \in [ProcSlots -> BOOLEAN]
              /\ arg \in [ProcSlots -> 0..MaxPid]

\* No two CPUs are on the kernel stack of one process, and none is on that of
\* a free slot, whose memory has been given back.
OneCPUPerStack == \A c \in CPUs : cpu[c] # 0 =>
                    /\ state[cpu[c]] \notin {"UNUSED", "USED"}
                    /\ \A d \in CPUs \ {c} : cpu[d] # cpu[c]

\* Whoever is somebody's parent can still wait for him: he has not exited.
ParentsLive == \A p \in ProcSlots : parent[p] # 0 =>
                 state[parent[p]] \in {"SLEEPING", "RUNNABLE", "RUNNING"}

\* No process sleeps in wait() while it has a zombie to wait for, except when
\* one that is exiting has just handed init the zombie, and has yet to wake it.
NoLostWakeup == \A p \in ProcSlots :
  /\ state[p] = "ZOMBIE" /\ parent[p] # 0
  /\ state[parent[p]] = "SLEEPING"
  => waitLock # NoCpu /\ kpc[cpu[waitLock]] = "wakeInit"

\* Locks are taken in an order: a CPU that has the lock of a process waits for
\* no other lock, and one that has wait_lock only for those of processes.
LockHoldersMove ==
  LET Moves(c) == \E p \in ProcSlots : KernelStep(c, p) \/ Resume(c, p) \/ SwitchOut(c, p)
  IN /\ \A q \in ProcSlots : plock[q] # NoCpu => ENABLED Moves(plock[q])
     /\ waitLock # NoCpu => ENABLED Moves(waitLock) \/ \E q \in ProcSlots : plock[q] # NoCpu

\* What holds of the table and the CPUs whatever the locks are in between.
TableSound == ProcTypeOK /\ OneCPUPerStack /\ ParentsLive /\ NoLostWakeup

InTree(p) == p = InitSlot \/ parent[p] # 0
Exiting(p) == \/ state[p] = "ZOMBIE"
              \/ kpc[p] \in {"reparent", "wakeInit", "wakeParent", "die"}
ParentOf(p) == IF p = InitSlot \/ Exiting(parent[p]) THEN InitSlot ELSE parent[p]
SlotOf(v) == CHOOSE p \in ProcSlots : pid[p] = v /\ InTree(p)
PidsOf(S) == {pid[p] : p \in {q \in S : InTree(q)}}

TreeParent == [v \in PidsOf(ProcSlots) |-> pid[ParentOf(SlotOf(v))]]
TreeZombies == PidsOf({p \in ProcSlots : Exiting(p)})
TreeKilled == PidsOf({p \in ProcSlots : killed[p]})

Tree == INSTANCE ProcTree WITH InitPid <- 1, parent <- TreeParent,
                               zombies <- TreeZombies, killed <- TreeKilled

\* The table behaves as the tree of processes that Unix promises: every child
\* has one parent that can wait for it, and is waited for at most once.
ImplementsProcTree == Tree!Spec
=============================================================================
