----------------------------- MODULE Proc_proof -----------------------------
(***************************************************************************)
(* Proofs about Proc, for any number of slots, CPUs and pids.              *)
(***************************************************************************)
EXTENDS Proc, TLAPS

(* What the proofs need beside the properties of Proc.                     *)

HoldsWait == {"reparent", "wakeInit", "wakeParent", "die", "scan"}
Forking == {"copy", "adopt", "ready"}
LiveStates == {"SLEEPING", "RUNNABLE", "RUNNING"}

\* A CPU has its process to itself, and a process that runs has a CPU.
Stacks ==
  /\ \A c, d \in CPUs : cpu[c] # 0 /\ cpu[c] = cpu[d] => c = d
  /\ \A c \in CPUs : cpu[c] # 0 =>
       \/ state[cpu[c]] = "RUNNING"
       \/ plock[cpu[c]] = c /\ state[cpu[c]] \in {"RUNNABLE", "SLEEPING", "ZOMBIE"}
  /\ \A p \in ProcSlots : state[p] = "RUNNING" => \E c \in CPUs : cpu[c] = p

\* A CPU has the lock of its own process, to switch, or that of the child its
\* process is making; wait_lock it has only while its process runs.
LocksHeld ==
  /\ \A p \in ProcSlots : plock[p] # NoCpu =>
       LET q == cpu[plock[p]]
       IN q = p \/ (q # 0 /\ plock[q] # plock[p] /\ kpc[q] = "copy" /\ k[q] = p)
  /\ \A p \in ProcSlots : kpc[p] = "copy" => \E c \in CPUs : Runs(c, p) /\ plock[k[p]] = c
  /\ waitLock # NoCpu => /\ cpu[waitLock] # 0
                         /\ Runs(waitLock, cpu[waitLock])
                         /\ kpc[cpu[waitLock]] \in HoldsWait
  /\ \A p \in ProcSlots : kpc[p] \in HoldsWait => waitLock # NoCpu /\ cpu[waitLock] = p

\* Who is not a process (yet, or any more) is nowhere in the kernel; who sleeps
\* does so in wait().
Places ==
  /\ \A p \in ProcSlots : state[p] \in {"UNUSED", "USED", "ZOMBIE"} => kpc[p] = "user"
  /\ \A p \in ProcSlots : state[p] = "SLEEPING" => kpc[p] = "asleep" /\ chan[p] = p

\* A slot that fork() is filling belongs to one parent.
Forks ==
  /\ \A p \in ProcSlots : kpc[p] \in Forking => k[p] \in ProcSlots /\ state[k[p]] = "USED"
  /\ \A p, q \in ProcSlots : kpc[p] \in Forking /\ kpc[q] \in Forking /\ k[p] = k[q] => p = q
  /\ \A p \in ProcSlots : kpc[p] \in {"copy", "adopt"} => parent[k[p]] = 0
  /\ \A p \in ProcSlots : kpc[p] = "ready" => parent[k[p]] = p

\* init is there for ever, every other process has a parent, and a parent is
\* alive and not beyond reparent().
Family ==
  /\ parent[InitSlot] = 0 /\ state[InitSlot] \in LiveStates
  /\ kpc[InitSlot] \notin {"reparent", "wakeInit", "wakeParent", "die"}
  /\ \A p \in ProcSlots : parent[p] # 0 =>
       /\ state[p] # "UNUSED"
       /\ state[parent[p]] \in LiveStates /\ kpc[parent[p]] \notin {"wakeParent", "die"}
  /\ \A p \in ProcSlots \ {InitSlot} : state[p] \in LiveStates \cup {"ZOMBIE"} => parent[p] # 0

\* wait() has seen no zombie among the children it has passed.
Scanned == \A p \in ProcSlots : kpc[p] = "scan" =>
  /\ k[p] # 0
  /\ \A q \in ProcSlots : parent[q] = p /\ q < k[p] => state[q] # "ZOMBIE"

\* exit() has woken the parent when the loop of wakeup() has passed it.
ParentAwake == \A p \in ProcSlots :
  /\ kpc[p] = "wakeParent" => k[p] # 0
  /\ (kpc[p] = "wakeParent" /\ parent[p] < k[p]) \/ kpc[p] = "die"
     => state[parent[p]] # "SLEEPING"

\* The only zombie whose parent sleeps is one that init has just got, from a
\* process that is going to wake init next.
InitToWake == \A q \in ProcSlots :
  state[q] = "ZOMBIE" /\ parent[q] # 0 /\ state[parent[q]] = "SLEEPING" =>
    /\ waitLock # NoCpu /\ kpc[cpu[waitLock]] = "wakeInit"
    /\ parent[q] = InitSlot /\ k[cpu[waitLock]] = InitSlot

Wakeups == Scanned /\ ParentAwake /\ InitToWake

\* A pid is given out once.
Identities ==
  /\ pid[InitSlot] = 1
  /\ \A p \in ProcSlots : pid[p] < nextpid
  /\ \A p, q \in ProcSlots : pid[p] = pid[q] /\ pid[p] # 0 => p = q

IndInv == ProcTypeOK /\ Stacks /\ LocksHeld /\ Places /\ Forks /\ Family /\ Wakeups /\ Identities
-----------------------------------------------------------------------------
(* The invariant is inductive: one lemma for each action                   *)

LEMMA SlotFacts == /\ InitSlot \in ProcSlots /\ 0 \notin ProcSlots /\ InitSlot = 1
                   /\ \A p \in ProcSlots : p \in Nat /\ p >= InitSlot
                   /\ \A a \in Nat, p \in ProcSlots : p < a + 1 <=> p < a \/ p = a
  BY TableAssumption DEF ProcSlots, InitSlot

\* A loop over the table that has begun and is at no slot has passed all.
LEMMA PastTheEnd == \A a \in 0..(NPROC + 1) : a \notin ProcSlots /\ a # 0 => \A q \in ProcSlots : q < a
  BY TableAssumption DEF ProcSlots

LEMMA RangeFacts ==
  /\ 0 \in 0..(NPROC + 1) /\ 1 \in 0..(NPROC + 1)
  /\ \A a \in ProcSlots : a + 1 \in 0..(NPROC + 1)
  /\ KillPids \subseteq 0..MaxPid
  /\ \A n \in 2..(MaxPid + 1) : n <= MaxPid =>
       n \in 0..MaxPid /\ n # 0 /\ n + 1 \in 2..(MaxPid + 1)
  /\ 0 \in 0..MaxPid /\ NoCpu \notin CPUs /\ InitSlot \in ProcSlots /\ 0 \notin ProcSlots
  BY TableAssumption, CPUAssumption DEF ProcSlots, InitSlot

LEMMA InitInv == ProcInit => IndInv
<1> SUFFICES ASSUME ProcInit PROVE IndInv
  OBVIOUS
<1>1. ProcTypeOK
  BY TableAssumption, CPUAssumption DEF ProcInit, ProcTypeOK, ProcSlots, States, PCs, InitSlot
<1>2. Stacks
  BY SlotFacts, TableAssumption, CPUAssumption DEF ProcInit, ProcTypeOK, Stacks, LocksHeld,
     Places, Forks, Runs, HoldsWait, Forking
<1>3. LocksHeld
  BY SlotFacts, TableAssumption, CPUAssumption DEF ProcInit, ProcTypeOK, Stacks, LocksHeld,
     Places, Forks, Runs, HoldsWait, Forking
<1>4. Places
  BY SlotFacts, TableAssumption, CPUAssumption DEF ProcInit, ProcTypeOK, Stacks, LocksHeld,
     Places, Forks, Runs, HoldsWait, Forking
<1>5. Forks
  BY SlotFacts, TableAssumption, CPUAssumption DEF ProcInit, ProcTypeOK, Places, Forks, Family,
     Forking, LiveStates, LocksHeld, Runs, HoldsWait
<1>6. Family
  BY SlotFacts, TableAssumption, CPUAssumption DEF ProcInit, ProcTypeOK, Places, Forks, Family,
     Forking, LiveStates, LocksHeld, Runs, HoldsWait, Stacks
<1>7. Wakeups
  BY SlotFacts, TableAssumption, CPUAssumption DEF ProcInit, ProcTypeOK, Stacks, Places, Forks,
     Family, Wakeups, Scanned, ParentAwake, InitToWake, Forking, LiveStates, LocksHeld,
     Runs, HoldsWait
<1>8. Identities
  BY SlotFacts, TableAssumption, CPUAssumption DEF ProcInit, ProcTypeOK, Forks, Forking,
     Identities, Places
<1> QED
  BY <1>1, <1>2, <1>3, <1>4, <1>5, <1>6, <1>7, <1>8 DEF IndInv

LEMMA SwitchInInv == ASSUME IndInv, NEW c \in CPUs, NEW p \in ProcSlots, SwitchIn(c, p)
  PROVE  IndInv'
<1>1. ProcTypeOK'
  BY RangeFacts DEF IndInv, SwitchIn, Idle, Free, SetState, Lock, ptable, locks, ProcTypeOK,
     States, PCs, Forks, Forking
<1>2. Stacks'
  <2>1. \A d \in CPUs : cpu[d] # p
    BY SlotFacts, CPUAssumption DEF IndInv, ProcTypeOK, SwitchIn, Idle, Free, Stacks
  <2>2. /\ cpu' = [cpu EXCEPT ![c] = p] /\ plock' = [plock EXCEPT ![p] = c]
        /\ state' = [state EXCEPT ![p] = "RUNNING"] /\ cpu[c] = 0
    BY DEF SwitchIn, Idle, SetState, Lock
  <2> QED
    BY <2>1, <2>2, SlotFacts DEF IndInv, ProcTypeOK, Stacks
<1>3. LocksHeld'
  <2>1. /\ cpu' = [cpu EXCEPT ![c] = p] /\ plock' = [plock EXCEPT ![p] = c]
        /\ state' = [state EXCEPT ![p] = "RUNNING"] /\ cpu[c] = 0 /\ plock[p] = NoCpu
        /\ state[p] = "RUNNABLE" /\ kpc' = kpc /\ k' = k /\ waitLock' = waitLock
    BY DEF SwitchIn, Idle, SetState, Lock, Free
  <2>2. \A q \in ProcSlots : plock[q] # c
    BY <2>1, SlotFacts, CPUAssumption DEF IndInv, LocksHeld
  <2>3. waitLock # c /\ kpc[p] \notin HoldsWait /\ kpc[p] # "copy"
    BY <2>1, SlotFacts, CPUAssumption DEF IndInv, LocksHeld, Runs
  <2>4. ProcTypeOK /\ LocksHeld
    BY DEF IndInv
  <2>5. \A q \in ProcSlots : plock'[q] # NoCpu =>
          LET r == cpu'[plock'[q]]
          IN r = q \/ (r # 0 /\ plock'[r] # plock'[q] /\ kpc'[r] = "copy" /\ k'[r] = q)
    BY <2>1, <2>2, <2>3, <2>4, SlotFacts, CPUAssumption DEF ProcTypeOK, LocksHeld
  <2>6. \A q \in ProcSlots : kpc'[q] = "copy" => \E d \in CPUs : Runs(d, q)' /\ plock'[k'[q]] = d
    BY <2>1, <2>3, <2>4, SlotFacts, CPUAssumption DEF ProcTypeOK, LocksHeld, Runs
  <2>7. waitLock' # NoCpu => /\ cpu'[waitLock'] # 0 /\ Runs(waitLock, cpu[waitLock])'
                             /\ kpc'[cpu'[waitLock']] \in HoldsWait
    BY <2>1, <2>3, <2>4 DEF ProcTypeOK, LocksHeld, Runs
  <2>8. \A q \in ProcSlots : kpc'[q] \in HoldsWait => waitLock' # NoCpu /\ cpu'[waitLock'] = q
    BY <2>1, <2>3, <2>4 DEF ProcTypeOK, LocksHeld
  <2> QED
    BY <2>5, <2>6, <2>7, <2>8 DEF LocksHeld
<1>4. Places'
  BY DEF IndInv, SwitchIn, Idle, Free, SetState, Lock, ptable, locks, Places, ProcTypeOK, Stacks,
     LocksHeld, Forks, Runs, HoldsWait, Forking
<1>5. Forks'
  BY DEF IndInv, SwitchIn, Idle, Free, SetState, Lock, ptable, locks, Forks, ProcTypeOK, Places,
     Family, Forking, LiveStates, LocksHeld, Runs, HoldsWait
<1>6. Family'
  BY SlotFacts DEF IndInv, SwitchIn, Idle, Free, SetState, Lock, ptable, locks, Family,
     ProcTypeOK, Places, Forks, Forking, LiveStates, LocksHeld, Runs, HoldsWait, Stacks
<1>7. Wakeups'
  BY SlotFacts DEF IndInv, SwitchIn, Idle, Free, SetState, Lock, ptable, locks, Wakeups,
     ProcTypeOK, Stacks, Places, Forks, Family, Scanned, ParentAwake, InitToWake, Forking,
     LiveStates, LocksHeld, Runs, HoldsWait
<1>8. Identities'
  BY SlotFacts DEF IndInv, SwitchIn, Idle, Free, SetState, Lock, ptable, locks, Identities,
     ProcTypeOK, Forks, Forking, Places
<1> QED
  BY <1>1, <1>2, <1>3, <1>4, <1>5, <1>6, <1>7, <1>8 DEF IndInv

LEMMA ResumeInv == ASSUME IndInv, NEW c \in CPUs, NEW p \in ProcSlots, Resume(c, p)
  PROVE  IndInv'
<1>1. ProcTypeOK'
  BY RangeFacts DEF IndInv, Resume, Unlock, KGoto, ptable, locks, ProcTypeOK, States, PCs, Forks,
     Forking
<1>2. Stacks'
  BY DEF IndInv, Resume, Unlock, KGoto, ptable, locks, Stacks, ProcTypeOK, LocksHeld, Places,
     Forks, Runs, HoldsWait, Forking
<1>3. LocksHeld'
  BY CPUAssumption DEF IndInv, Resume, Unlock, KGoto, ptable, locks, LocksHeld, ProcTypeOK,
     Stacks, Places, Forks, Runs, HoldsWait, Forking
<1>4. Places'
  BY DEF IndInv, Resume, Unlock, KGoto, ptable, locks, Places, ProcTypeOK, Stacks, LocksHeld,
     Forks, Runs, HoldsWait, Forking
<1>5. Forks'
  BY DEF IndInv, Resume, Unlock, KGoto, ptable, locks, Forks, ProcTypeOK, Places, Family, Forking,
     LiveStates, LocksHeld, Runs, HoldsWait
<1>6. Family'
  BY SlotFacts DEF IndInv, Resume, Unlock, KGoto, ptable, locks, Family, ProcTypeOK, Places,
     Forks, Forking, LiveStates, LocksHeld, Runs, HoldsWait, Stacks
<1>7. Wakeups'
  BY SlotFacts DEF IndInv, Resume, Unlock, KGoto, ptable, locks, Wakeups, ProcTypeOK, Stacks,
     Places, Forks, Family, Scanned, ParentAwake, InitToWake, Forking, LiveStates,
     LocksHeld, Runs, HoldsWait
<1>8. Identities'
  BY SlotFacts DEF IndInv, Resume, Unlock, KGoto, ptable, locks, Identities, ProcTypeOK, Forks,
     Forking, Places
<1> QED
  BY <1>1, <1>2, <1>3, <1>4, <1>5, <1>6, <1>7, <1>8 DEF IndInv

LEMMA SwitchOutInv == ASSUME IndInv, NEW c \in CPUs, NEW p \in ProcSlots, SwitchOut(c, p)
  PROVE  IndInv'
<1>1. ProcTypeOK'
  BY RangeFacts DEF IndInv, SwitchOut, Unlock, ptable, locks, ProcTypeOK, States, PCs, Forks,
     Forking
<1>2. Stacks'
  BY DEF IndInv, SwitchOut, Unlock, ptable, locks, Stacks, ProcTypeOK, LocksHeld, Places, Forks,
     Runs, HoldsWait, Forking
<1>3. LocksHeld'
  BY CPUAssumption DEF IndInv, SwitchOut, Unlock, ptable, locks, LocksHeld, ProcTypeOK, Stacks,
     Places, Forks, Runs, HoldsWait, Forking
<1>4. Places'
  BY DEF IndInv, SwitchOut, Unlock, ptable, locks, Places, ProcTypeOK, Stacks, LocksHeld, Forks,
     Runs, HoldsWait, Forking
<1>5. Forks'
  BY DEF IndInv, SwitchOut, Unlock, ptable, locks, Forks, ProcTypeOK, Places, Family, Forking,
     LiveStates, LocksHeld, Runs, HoldsWait
<1>6. Family'
  BY SlotFacts DEF IndInv, SwitchOut, Unlock, ptable, locks, Family, ProcTypeOK, Places, Forks,
     Forking, LiveStates, LocksHeld, Runs, HoldsWait, Stacks
<1>7. Wakeups'
  BY SlotFacts DEF IndInv, SwitchOut, Unlock, ptable, locks, Wakeups, ProcTypeOK, Stacks, Places,
     Forks, Family, Scanned, ParentAwake, InitToWake, Forking, LiveStates, LocksHeld, Runs,
     HoldsWait
<1>8. Identities'
  BY SlotFacts DEF IndInv, SwitchOut, Unlock, ptable, locks, Identities, ProcTypeOK, Forks,
     Forking, Places
<1> QED
  BY <1>1, <1>2, <1>3, <1>4, <1>5, <1>6, <1>7, <1>8 DEF IndInv

LEMMA YieldInv == ASSUME IndInv, NEW c \in CPUs, NEW p \in ProcSlots, Yield(c, p)
  PROVE  IndInv'
<1>1. ProcTypeOK'
  BY RangeFacts DEF IndInv, Yield, Runs, NoLock, Free, SetState, Lock, ptable, locks, ProcTypeOK,
     States, PCs, Forks, Forking
<1>2. Stacks'
  BY DEF IndInv, Yield, Runs, NoLock, Free, SetState, Lock, ptable, locks, Stacks, ProcTypeOK,
     LocksHeld, Places, Forks, HoldsWait, Forking
<1>3. LocksHeld'
  BY CPUAssumption DEF IndInv, Yield, Runs, NoLock, Free, SetState, Lock, ptable, locks,
     LocksHeld, ProcTypeOK, Stacks, Places, Forks, HoldsWait, Forking
<1>4. Places'
  BY DEF IndInv, Yield, Runs, NoLock, Free, SetState, Lock, ptable, locks, Places, ProcTypeOK,
     Stacks, LocksHeld, Forks, HoldsWait, Forking
<1>5. Forks'
  BY DEF IndInv, Yield, Runs, NoLock, Free, SetState, Lock, ptable, locks, Forks, ProcTypeOK,
     Places, Family, Forking, LiveStates, LocksHeld, HoldsWait
<1>6. Family'
  BY SlotFacts DEF IndInv, Yield, Runs, NoLock, Free, SetState, Lock, ptable, locks, Family,
     ProcTypeOK, Places, Forks, Forking, LiveStates, LocksHeld, HoldsWait, Stacks
<1>7. Wakeups'
  BY SlotFacts DEF IndInv, Yield, Runs, NoLock, Free, SetState, Lock, ptable, locks, Wakeups,
     ProcTypeOK, Stacks, Places, Forks, Family, Scanned, ParentAwake, InitToWake, Forking,
     LiveStates, LocksHeld, HoldsWait
<1>8. Identities'
  BY SlotFacts DEF IndInv, Yield, Runs, NoLock, Free, SetState, Lock, ptable, locks,
     Identities, ProcTypeOK, Forks, Forking, Places
<1> QED
  BY <1>1, <1>2, <1>3, <1>4, <1>5, <1>6, <1>7, <1>8 DEF IndInv

LEMMA SyscallInv == ASSUME IndInv, NEW c \in CPUs, NEW p \in ProcSlots,
         NEW call \in {"fork", "exit", "wait"}, Syscall(c, p, call)
  PROVE  IndInv'
<1>1. ProcTypeOK'
  BY RangeFacts DEF IndInv, Syscall, Runs, KGoto, Start, ptable, locks, ProcTypeOK, States, PCs,
     Forks, Forking
<1>2. Stacks'
  BY DEF IndInv, Syscall, Runs, KGoto, Start, ptable, locks, Stacks, ProcTypeOK, LocksHeld,
     Places, Forks, HoldsWait, Forking
<1>3. LocksHeld'
  BY CPUAssumption DEF IndInv, Syscall, Runs, KGoto, Start, ptable, locks, LocksHeld, ProcTypeOK,
     Stacks, Places, Forks, HoldsWait, Forking
<1>4. Places'
  BY DEF IndInv, Syscall, Runs, KGoto, Start, ptable, locks, Places, ProcTypeOK, Stacks,
     LocksHeld, Forks, HoldsWait, Forking
<1>5. Forks'
  BY DEF IndInv, Syscall, Runs, KGoto, Start, ptable, locks, Forks, ProcTypeOK, Places, Family,
     Forking, LiveStates, LocksHeld, HoldsWait
<1>6. Family'
  BY SlotFacts DEF IndInv, Syscall, Runs, KGoto, Start, ptable, locks, Family, ProcTypeOK, Places,
     Forks, Forking, LiveStates, LocksHeld, HoldsWait, Stacks
<1>7. Wakeups'
  <2>1. /\ UNCHANGED <<parent, waitLock, cpu>> /\ state' = state /\ kpc' = [kpc EXCEPT ![p] = call]
        /\ kpc[p] = "user" /\ \A q \in ProcSlots \ {p} : k'[q] = k[q]
    BY SlotFacts, PastTheEnd DEF IndInv, ProcTypeOK, Syscall, KGoto, Start, ptable, locks
  <2>2. ProcTypeOK /\ LocksHeld /\ Places /\ Family /\ Scanned /\ ParentAwake /\ InitToWake
    BY DEF IndInv, Wakeups
  <2>3. kpc[p] \in HoldsWait => cpu[waitLock] = p /\ \A q \in ProcSlots : kpc[q] \in HoldsWait => q = p
    BY <2>2 DEF LocksHeld
  <2>7. waitLock # NoCpu => /\ waitLock \in CPUs /\ cpu[waitLock] \in ProcSlots
                            /\ kpc[cpu[waitLock]] \in HoldsWait
    BY <2>2 DEF ProcTypeOK, LocksHeld
  <2>4. Scanned'
    BY <2>1, <2>2, <2>3, SlotFacts DEF ProcTypeOK, Scanned, HoldsWait
  <2>5. ParentAwake'
    <3> SUFFICES ASSUME NEW q \in ProcSlots
                 PROVE  /\ kpc'[q] = "wakeParent" => k'[q] # 0
                        /\ (kpc'[q] = "wakeParent" /\ parent'[q] < k'[q]) \/ kpc'[q] = "die"
                           => state'[parent'[q]] # "SLEEPING"
      BY DEF ParentAwake
    <3>1. CASE q = p
      BY <2>1, <2>2, <2>3, <3>1, SlotFacts DEF ProcTypeOK, ParentAwake, Family, LiveStates,
         HoldsWait
    <3>2. CASE q # p
      BY <2>1, <2>2, <2>3, <3>2, SlotFacts DEF ProcTypeOK, ParentAwake, Family, LiveStates,
         HoldsWait
    <3> QED
      BY <3>1, <3>2
  <2>6. InitToWake'
    BY <2>1, <2>2, <2>3, <2>7, SlotFacts DEF ProcTypeOK, InitToWake, HoldsWait
  <2> QED
    BY <2>4, <2>5, <2>6 DEF Wakeups
<1>8. Identities'
  BY SlotFacts DEF IndInv, Syscall, Runs, KGoto, Start, ptable, locks, Identities, ProcTypeOK,
     Forks, Forking, Places
<1> QED
  BY <1>1, <1>2, <1>3, <1>4, <1>5, <1>6, <1>7, <1>8 DEF IndInv

LEMMA AllocNextInv == ASSUME IndInv, NEW c \in CPUs, NEW p \in ProcSlots, AllocNext(c, p)
  PROVE  IndInv'
<1>1. ProcTypeOK'
  BY RangeFacts DEF IndInv, AllocNext, Runs, Free, Step, ptable, locks, ProcTypeOK, States, PCs,
     Forks, Forking
<1>2. Stacks'
  BY DEF IndInv, AllocNext, Runs, Free, Step, ptable, locks, Stacks, ProcTypeOK, LocksHeld,
     Places, Forks, HoldsWait, Forking
<1>3. LocksHeld'
  BY CPUAssumption DEF IndInv, AllocNext, Runs, Free, Step, ptable, locks, LocksHeld, ProcTypeOK,
     Stacks, Places, Forks, HoldsWait, Forking
<1>4. Places'
  BY DEF IndInv, AllocNext, Runs, Free, Step, ptable, locks, Places, ProcTypeOK, Stacks,
     LocksHeld, Forks, HoldsWait, Forking
<1>5. Forks'
  BY DEF IndInv, AllocNext, Runs, Free, Step, ptable, locks, Forks, ProcTypeOK, Places, Family,
     Forking, LiveStates, LocksHeld, HoldsWait
<1>6. Family'
  BY SlotFacts DEF IndInv, AllocNext, Runs, Free, Step, ptable, locks, Family, ProcTypeOK,
     Places, Forks, Forking, LiveStates, LocksHeld, HoldsWait, Stacks
<1>7. Wakeups'
  BY SlotFacts DEF IndInv, AllocNext, Runs, Free, Step, ptable, locks, Wakeups, ProcTypeOK,
     Stacks, Places, Forks, Family, Scanned, ParentAwake, InitToWake, Forking, LiveStates,
     LocksHeld, HoldsWait
<1>8. Identities'
  BY SlotFacts DEF IndInv, AllocNext, Runs, Free, Step, ptable, locks, Identities, ProcTypeOK,
     Forks, Forking, Places
<1> QED
  BY <1>1, <1>2, <1>3, <1>4, <1>5, <1>6, <1>7, <1>8 DEF IndInv

LEMMA AllocFoundInv == ASSUME IndInv, NEW c \in CPUs, NEW p \in ProcSlots, AllocFound(c, p)
  PROVE  IndInv'
<1>1. ProcTypeOK'
  BY RangeFacts DEF IndInv, AllocFound, Runs, Free, SetState, Lock, KGoto, ptable, locks,
     ProcTypeOK, States, PCs, Forks, Forking
<1>2. Stacks'
  BY DEF IndInv, AllocFound, Runs, Free, SetState, Lock, KGoto, ptable, locks, Stacks, ProcTypeOK,
     LocksHeld, Places, Forks, HoldsWait, Forking
<1>3. LocksHeld'
  <2>1. /\ plock' = [plock EXCEPT ![k[p]] = c] /\ state' = [state EXCEPT ![k[p]] = "USED"]
        /\ kpc' = [kpc EXCEPT ![p] = "copy"] /\ k' = k /\ cpu' = cpu /\ waitLock' = waitLock
        /\ plock[k[p]] = NoCpu /\ state[k[p]] = "UNUSED" /\ k[p] \in ProcSlots /\ kpc[p] = "fork"
        /\ cpu[c] = p /\ state[p] = "RUNNING" /\ plock[p] # c
    BY DEF AllocFound, Runs, Free, SetState, Lock, KGoto
  <2>2. ProcTypeOK /\ Stacks /\ LocksHeld /\ Places
    BY DEF IndInv
  <2>3. \A q \in ProcSlots : plock[q] # c
    BY <2>1, <2>2, CPUAssumption DEF LocksHeld
  <2>4. \A d \in CPUs : cpu[d] # k[p] /\ (cpu[d] = p => d = c)
    BY <2>1, <2>2, SlotFacts DEF Stacks, ProcTypeOK
  <2>5. \A q \in ProcSlots : plock'[q] # NoCpu =>
          LET r == cpu'[plock'[q]]
          IN r = q \/ (r # 0 /\ plock'[r] # plock'[q] /\ kpc'[r] = "copy" /\ k'[r] = q)
    BY <2>1, <2>2, <2>3, <2>4, SlotFacts, CPUAssumption DEF ProcTypeOK, LocksHeld
  <2>6. \A q \in ProcSlots : kpc'[q] = "copy" => \E d \in CPUs : Runs(d, q)' /\ plock'[k'[q]] = d
    BY <2>1, <2>2, <2>3, <2>4, CPUAssumption DEF ProcTypeOK, LocksHeld, Runs
  <2>7. waitLock' # NoCpu => /\ cpu'[waitLock'] # 0 /\ Runs(waitLock, cpu[waitLock])'
                             /\ kpc'[cpu'[waitLock']] \in HoldsWait
    BY <2>1, <2>2, <2>4 DEF ProcTypeOK, LocksHeld, Runs, HoldsWait
  <2>8. \A q \in ProcSlots : kpc'[q] \in HoldsWait => waitLock' # NoCpu /\ cpu'[waitLock'] = q
    BY <2>1, <2>2 DEF ProcTypeOK, LocksHeld, HoldsWait
  <2> QED
    BY <2>5, <2>6, <2>7, <2>8 DEF LocksHeld
<1>4. Places'
  BY DEF IndInv, AllocFound, Runs, Free, SetState, Lock, KGoto, ptable, locks, Places, ProcTypeOK,
     Stacks, LocksHeld, Forks, HoldsWait, Forking
<1>5. Forks'
  BY DEF IndInv, AllocFound, Runs, Free, SetState, Lock, KGoto, ptable, locks, Forks, ProcTypeOK,
     Places, Family, Forking, LiveStates, LocksHeld, HoldsWait
<1>6. Family'
  BY SlotFacts DEF IndInv, AllocFound, Runs, Free, SetState, Lock, KGoto, ptable, locks,
     Family, ProcTypeOK, Places, Forks, Forking, LiveStates, LocksHeld, HoldsWait, Stacks
<1>7. Wakeups'
  BY SlotFacts DEF IndInv, AllocFound, Runs, Free, SetState, Lock, KGoto, ptable, locks,
     Wakeups, ProcTypeOK, Stacks, Places, Forks, Family, Scanned, ParentAwake, InitToWake,
     Forking, LiveStates, LocksHeld, HoldsWait
<1>8. Identities'
  BY SlotFacts DEF IndInv, AllocFound, Runs, Free, SetState, Lock, KGoto, ptable, locks,
     Identities, ProcTypeOK, Forks, Forking, Places
<1> QED
  BY <1>1, <1>2, <1>3, <1>4, <1>5, <1>6, <1>7, <1>8 DEF IndInv

LEMMA AllocFailsInv == ASSUME IndInv, NEW c \in CPUs, NEW p \in ProcSlots, AllocFails(c, p)
  PROVE  IndInv'
<1>1. ProcTypeOK'
  BY RangeFacts DEF IndInv, AllocFails, Runs, Done, KGoto, ptable, locks, ProcTypeOK, States, PCs,
     Forks, Forking
<1>2. Stacks'
  BY DEF IndInv, AllocFails, Runs, Done, KGoto, ptable, locks, Stacks, ProcTypeOK, LocksHeld,
     Places, Forks, HoldsWait, Forking
<1>3. LocksHeld'
  BY CPUAssumption DEF IndInv, AllocFails, Runs, Done, KGoto, ptable, locks, LocksHeld,
     ProcTypeOK, Stacks, Places, Forks, HoldsWait, Forking
<1>4. Places'
  BY DEF IndInv, AllocFails, Runs, Done, KGoto, ptable, locks, Places, ProcTypeOK, Stacks,
     LocksHeld, Forks, HoldsWait, Forking
<1>5. Forks'
  BY DEF IndInv, AllocFails, Runs, Done, KGoto, ptable, locks, Forks, ProcTypeOK, Places, Family,
     Forking, LiveStates, LocksHeld, HoldsWait
<1>6. Family'
  BY SlotFacts DEF IndInv, AllocFails, Runs, Done, KGoto, ptable, locks, Family, ProcTypeOK,
     Places, Forks, Forking, LiveStates, LocksHeld, HoldsWait, Stacks
<1>7. Wakeups'
  BY SlotFacts DEF IndInv, AllocFails, Runs, Done, KGoto, ptable, locks, Wakeups, ProcTypeOK,
     Stacks, Places, Forks, Family, Scanned, ParentAwake, InitToWake, Forking, LiveStates,
     LocksHeld, HoldsWait
<1>8. Identities'
  BY SlotFacts DEF IndInv, AllocFails, Runs, Done, KGoto, ptable, locks, Identities, ProcTypeOK,
     Forks, Forking, Places
<1> QED
  BY <1>1, <1>2, <1>3, <1>4, <1>5, <1>6, <1>7, <1>8 DEF IndInv

LEMMA CopyFailsInv == ASSUME IndInv, NEW c \in CPUs, NEW p \in ProcSlots, CopyFails(c, p)
  PROVE  IndInv'
<1>1. ProcTypeOK'
  BY RangeFacts DEF IndInv, CopyFails, Runs, FreeProc, ClearPid, ClearParent, ClearKilled,
     SetState, Unlock, Done, KGoto, ptable, locks, ProcTypeOK, States, PCs, Forks, Forking
<1>2. Stacks'
  BY DEF IndInv, CopyFails, Runs, FreeProc, ClearPid, ClearParent, ClearKilled, SetState,
     Unlock, Done, KGoto, ptable, locks, Stacks, ProcTypeOK, LocksHeld, Places, Forks, HoldsWait,
     Forking
<1>3. LocksHeld'
  BY CPUAssumption DEF IndInv, CopyFails, Runs, FreeProc, ClearPid, ClearParent,
     ClearKilled, SetState, Unlock, Done, KGoto, ptable, locks, LocksHeld, ProcTypeOK, Stacks,
     Places, Forks, HoldsWait, Forking
<1>4. Places'
  BY DEF IndInv, CopyFails, Runs, FreeProc, ClearPid, ClearParent, ClearKilled, SetState,
     Unlock, Done, KGoto, ptable, locks, Places, ProcTypeOK, Stacks, LocksHeld, Forks, HoldsWait,
     Forking
<1>5. Forks'
  BY DEF IndInv, CopyFails, Runs, FreeProc, ClearPid, ClearParent, ClearKilled, SetState,
     Unlock, Done, KGoto, ptable, locks, Forks, ProcTypeOK, Places, Family, Forking, LiveStates,
     LocksHeld, HoldsWait
<1>6. Family'
  BY SlotFacts DEF IndInv, CopyFails, Runs, FreeProc, ClearPid, ClearParent, ClearKilled,
     SetState, Unlock, Done, KGoto, ptable, locks, Family, ProcTypeOK, Places, Forks, Forking,
     LiveStates, LocksHeld, HoldsWait, Stacks
<1>7. Wakeups'
  BY SlotFacts DEF IndInv, CopyFails, Runs, FreeProc, ClearPid, ClearParent, ClearKilled,
     SetState, Unlock, Done, KGoto, ptable, locks, Wakeups, ProcTypeOK, Stacks, Places, Forks,
     Family, Scanned, ParentAwake, InitToWake, Forking, LiveStates, LocksHeld, HoldsWait
<1>8. Identities'
  <2>1. pid' = [pid EXCEPT ![k[p]] = 0] /\ nextpid' = nextpid /\ k[p] \in ProcSlots
        /\ k[p] # InitSlot
    BY SlotFacts DEF IndInv, ProcTypeOK, CopyFails, FreeProc, ClearPid, Forks, Forking,
       Family, LiveStates
  <2>2. pid \in [ProcSlots -> Nat] /\ nextpid > 0
    BY DEF IndInv, ProcTypeOK
  <2> QED
    BY <2>1, <2>2 DEF IndInv, Identities
<1> QED
  BY <1>1, <1>2, <1>3, <1>4, <1>5, <1>6, <1>7, <1>8 DEF IndInv

LEMMA CopyDoneInv == ASSUME IndInv, NEW c \in CPUs, NEW p \in ProcSlots, CopyDone(c, p)
  PROVE  IndInv'
<1>1. ProcTypeOK'
  BY RangeFacts DEF IndInv, CopyDone, Runs, AfterCopy, Unlock, KGoto, ptable, locks, ProcTypeOK,
     States, PCs, Forks, Forking
<1>2. Stacks'
  BY DEF IndInv, CopyDone, Runs, AfterCopy, Unlock, KGoto, ptable, locks, Stacks, ProcTypeOK,
     LocksHeld, Places, Forks, HoldsWait, Forking
<1>3. LocksHeld'
  BY CPUAssumption DEF IndInv, CopyDone, Runs, AfterCopy, Unlock, KGoto, ptable, locks,
     LocksHeld, ProcTypeOK, Stacks, Places, Forks, HoldsWait, Forking
<1>4. Places'
  BY DEF IndInv, CopyDone, Runs, AfterCopy, Unlock, KGoto, ptable, locks, Places, ProcTypeOK,
     Stacks, LocksHeld, Forks, HoldsWait, Forking
<1>5. Forks'
  BY DEF IndInv, CopyDone, Runs, AfterCopy, Unlock, KGoto, ptable, locks, Forks, ProcTypeOK,
     Places, Family, Forking, LiveStates, LocksHeld, HoldsWait
<1>6. Family'
  BY SlotFacts DEF IndInv, CopyDone, Runs, AfterCopy, Unlock, KGoto, ptable, locks, Family,
     ProcTypeOK, Places, Forks, Forking, LiveStates, LocksHeld, HoldsWait, Stacks
<1>7. Wakeups'
  BY SlotFacts DEF IndInv, CopyDone, Runs, AfterCopy, Unlock, KGoto, ptable, locks, Wakeups,
     ProcTypeOK, Stacks, Places, Forks, Family, Scanned, ParentAwake, InitToWake, Forking,
     LiveStates, LocksHeld, HoldsWait
<1>8. Identities'
  BY SlotFacts DEF IndInv, CopyDone, Runs, AfterCopy, Unlock, KGoto, ptable, locks,
     Identities, ProcTypeOK, Forks, Forking, Places
<1> QED
  BY <1>1, <1>2, <1>3, <1>4, <1>5, <1>6, <1>7, <1>8 DEF IndInv

LEMMA SetParentInv == ASSUME IndInv, NEW c \in CPUs, NEW p \in ProcSlots, SetParent(c, p)
  PROVE  IndInv'
<1>1. ProcTypeOK'
  BY RangeFacts DEF IndInv, SetParent, Runs, KGoto, ptable, locks, ProcTypeOK, States, PCs, Forks,
     Forking
<1>2. Stacks'
  BY DEF IndInv, SetParent, Runs, KGoto, ptable, locks, Stacks, ProcTypeOK, LocksHeld, Places,
     Forks, HoldsWait, Forking
<1>3. LocksHeld'
  BY CPUAssumption DEF IndInv, SetParent, Runs, KGoto, ptable, locks, LocksHeld, ProcTypeOK,
     Stacks, Places, Forks, HoldsWait, Forking
<1>4. Places'
  BY DEF IndInv, SetParent, Runs, KGoto, ptable, locks, Places, ProcTypeOK, Stacks, LocksHeld,
     Forks, HoldsWait, Forking
<1>5. Forks'
  BY DEF IndInv, SetParent, Runs, KGoto, ptable, locks, Forks, ProcTypeOK, Places, Family,
     Forking, LiveStates, LocksHeld, HoldsWait
<1>6. Family'
  BY SlotFacts DEF IndInv, SetParent, Runs, KGoto, ptable, locks, Family, ProcTypeOK, Places,
     Forks, Forking, LiveStates, LocksHeld, HoldsWait, Stacks
<1>7. Wakeups'
  BY SlotFacts DEF IndInv, SetParent, Runs, KGoto, ptable, locks, Wakeups, ProcTypeOK, Stacks,
     Places, Forks, Family, Scanned, ParentAwake, InitToWake, Forking, LiveStates,
     LocksHeld, HoldsWait
<1>8. Identities'
  BY SlotFacts DEF IndInv, SetParent, Runs, KGoto, ptable, locks, Identities, ProcTypeOK, Forks,
     Forking, Places
<1> QED
  BY <1>1, <1>2, <1>3, <1>4, <1>5, <1>6, <1>7, <1>8 DEF IndInv

LEMMA ForkDoneInv == ASSUME IndInv, NEW c \in CPUs, NEW p \in ProcSlots, ForkDone(c, p)
  PROVE  IndInv'
<1>1. ProcTypeOK'
  BY RangeFacts DEF IndInv, ForkDone, Runs, Free, SetState, Unlock, KGoto, Done, ptable,
     locks, ProcTypeOK, States, PCs, Forks, Forking
<1>2. Stacks'
  BY DEF IndInv, ForkDone, Runs, Free, SetState, Unlock, KGoto, Done, ptable, locks, Stacks,
     ProcTypeOK, LocksHeld, Places, Forks, HoldsWait, Forking
<1>3. LocksHeld'
  BY CPUAssumption DEF IndInv, ForkDone, Runs, Free, SetState, Unlock, KGoto, Done, ptable,
     locks, LocksHeld, ProcTypeOK, Stacks, Places, Forks, HoldsWait, Forking
<1>4. Places'
  BY DEF IndInv, ForkDone, Runs, Free, SetState, Unlock, KGoto, Done, ptable, locks, Places,
     ProcTypeOK, Stacks, LocksHeld, Forks, HoldsWait, Forking
<1>5. Forks'
  BY DEF IndInv, ForkDone, Runs, Free, SetState, Unlock, KGoto, Done, ptable, locks, Forks,
     ProcTypeOK, Places, Family, Forking, LiveStates, LocksHeld, HoldsWait
<1>6. Family'
  BY SlotFacts DEF IndInv, ForkDone, Runs, Free, SetState, Unlock, KGoto, Done, ptable, locks,
     Family, ProcTypeOK, Places, Forks, Forking, LiveStates, LocksHeld, HoldsWait, Stacks
<1>7. Wakeups'
  BY SlotFacts DEF IndInv, ForkDone, Runs, Free, SetState, Unlock, KGoto, Done, ptable, locks,
     Wakeups, ProcTypeOK, Stacks, Places, Forks, Family, Scanned, ParentAwake, InitToWake,
     Forking, LiveStates, LocksHeld, HoldsWait
<1>8. Identities'
  BY SlotFacts DEF IndInv, ForkDone, Runs, Free, SetState, Unlock, KGoto, Done, ptable, locks,
     Identities, ProcTypeOK, Forks, Forking, Places
<1> QED
  BY <1>1, <1>2, <1>3, <1>4, <1>5, <1>6, <1>7, <1>8 DEF IndInv

LEMMA ExitPanicInv == ASSUME IndInv, NEW c \in CPUs, NEW p \in ProcSlots, ExitPanic(c, p)
  PROVE  IndInv'
<1>1. ProcTypeOK'
  BY RangeFacts DEF IndInv, ExitPanic, Runs, KGoto, ptable, locks, ProcTypeOK, States, PCs, Forks,
     Forking
<1>2. Stacks'
  BY DEF IndInv, ExitPanic, Runs, KGoto, ptable, locks, Stacks, ProcTypeOK, LocksHeld, Places,
     Forks, HoldsWait, Forking
<1>3. LocksHeld'
  BY CPUAssumption DEF IndInv, ExitPanic, Runs, KGoto, ptable, locks, LocksHeld, ProcTypeOK,
     Stacks, Places, Forks, HoldsWait, Forking
<1>4. Places'
  BY DEF IndInv, ExitPanic, Runs, KGoto, ptable, locks, Places, ProcTypeOK, Stacks, LocksHeld,
     Forks, HoldsWait, Forking
<1>5. Forks'
  BY DEF IndInv, ExitPanic, Runs, KGoto, ptable, locks, Forks, ProcTypeOK, Places, Family,
     Forking, LiveStates, LocksHeld, HoldsWait
<1>6. Family'
  BY SlotFacts DEF IndInv, ExitPanic, Runs, KGoto, ptable, locks, Family, ProcTypeOK, Places,
     Forks, Forking, LiveStates, LocksHeld, HoldsWait, Stacks
<1>7. Wakeups'
  BY SlotFacts DEF IndInv, ExitPanic, Runs, KGoto, ptable, locks, Wakeups, ProcTypeOK, Stacks,
     Places, Forks, Family, Scanned, ParentAwake, InitToWake, Forking, LiveStates,
     LocksHeld, HoldsWait
<1>8. Identities'
  BY SlotFacts DEF IndInv, ExitPanic, Runs, KGoto, ptable, locks, Identities, ProcTypeOK, Forks,
     Forking, Places
<1> QED
  BY <1>1, <1>2, <1>3, <1>4, <1>5, <1>6, <1>7, <1>8 DEF IndInv

LEMMA ExitLockInv == ASSUME IndInv, NEW c \in CPUs, NEW p \in ProcSlots, ExitLock(c, p)
  PROVE  IndInv'
<1>1. ProcTypeOK'
  BY RangeFacts DEF IndInv, ExitLock, Runs, KGoto, ptable, locks, ProcTypeOK, States, PCs, Forks,
     Forking
<1>2. Stacks'
  BY DEF IndInv, ExitLock, Runs, KGoto, ptable, locks, Stacks, ProcTypeOK, LocksHeld, Places,
     Forks, HoldsWait, Forking
<1>3. LocksHeld'
  <2>1. /\ waitLock = NoCpu /\ waitLock' = c /\ kpc' = [kpc EXCEPT ![p] = "reparent"]
        /\ kpc[p] = "exit" /\ cpu[c] = p /\ state[p] = "RUNNING" /\ plock[p] # c
        /\ state' = state /\ plock' = plock /\ cpu' = cpu /\ \A q \in ProcSlots \ {p} : k'[q] = k[q]
    BY DEF IndInv, ProcTypeOK, ExitLock, Runs, KGoto, Start, ptable
  <2>2. ProcTypeOK /\ Stacks /\ LocksHeld
    BY DEF IndInv
  <2>3. ASSUME NEW q \in ProcSlots, plock'[q] # NoCpu
        PROVE  LET r == cpu'[plock'[q]]
               IN r = q \/ (r # 0 /\ plock'[r] # plock'[q] /\ kpc'[r] = "copy" /\ k'[r] = q)
    <3>1. PICK r \in {0} \cup ProcSlots : r = cpu[plock[q]]
      BY <2>1, <2>2, <2>3 DEF ProcTypeOK
    <3>2. r = q \/ (r # 0 /\ plock[r] # plock[q] /\ kpc[r] = "copy" /\ k[r] = q)
      BY <2>1, <2>2, <2>3, <3>1 DEF LocksHeld
    <3>3. r # q => r # p /\ kpc'[r] = "copy" /\ k'[r] = q
      BY <2>1, <2>2, <3>2 DEF ProcTypeOK
    <3> QED
      BY <2>1, <3>1, <3>2, <3>3
  <2>4. \A q \in ProcSlots : kpc'[q] = "copy" => \E d \in CPUs : Runs(d, q)' /\ plock'[k'[q]] = d
    BY <2>1, <2>2 DEF ProcTypeOK, LocksHeld, Runs
  <2>5. waitLock' # NoCpu => /\ cpu'[waitLock'] # 0 /\ Runs(waitLock, cpu[waitLock])'
                             /\ kpc'[cpu'[waitLock']] \in HoldsWait
    BY <2>1, <2>2, SlotFacts DEF ProcTypeOK, Runs, HoldsWait
  <2>6. \A q \in ProcSlots : kpc'[q] \in HoldsWait => waitLock' # NoCpu /\ cpu'[waitLock'] = q
    BY <2>1, <2>2, CPUAssumption DEF ProcTypeOK, LocksHeld
  <2> QED
    BY <2>3, <2>4, <2>5, <2>6 DEF LocksHeld
<1>4. Places'
  BY DEF IndInv, ExitLock, Runs, KGoto, ptable, locks, Places, ProcTypeOK, Stacks, LocksHeld,
     Forks, HoldsWait, Forking
<1>5. Forks'
  BY DEF IndInv, ExitLock, Runs, KGoto, ptable, locks, Forks, ProcTypeOK, Places, Family, Forking,
     LiveStates, LocksHeld, HoldsWait
<1>6. Family'
  BY SlotFacts DEF IndInv, ExitLock, Runs, KGoto, ptable, locks, Family, ProcTypeOK, Places,
     Forks, Forking, LiveStates, LocksHeld, HoldsWait, Stacks
<1>7. Wakeups'
  BY SlotFacts DEF IndInv, ExitLock, Runs, KGoto, ptable, locks, Wakeups, ProcTypeOK, Stacks,
     Places, Forks, Family, Scanned, ParentAwake, InitToWake, Forking, LiveStates,
     LocksHeld, HoldsWait
<1>8. Identities'
  BY SlotFacts DEF IndInv, ExitLock, Runs, KGoto, ptable, locks, Identities, ProcTypeOK, Forks,
     Forking, Places
<1> QED
  BY <1>1, <1>2, <1>3, <1>4, <1>5, <1>6, <1>7, <1>8 DEF IndInv

LEMMA ReparentInv == ASSUME IndInv, NEW c \in CPUs, NEW p \in ProcSlots, Reparent(c, p)
  PROVE  IndInv'
<1>1. ProcTypeOK'
  BY RangeFacts DEF IndInv, Reparent, Runs, Children, KGoto, Start, ptable, locks, ProcTypeOK,
     States, PCs, Forks, Forking
<1>2. Stacks'
  BY DEF IndInv, Reparent, Runs, Children, KGoto, Start, ptable, locks, Stacks, ProcTypeOK,
     LocksHeld, Places, Forks, HoldsWait, Forking
<1>3. LocksHeld'
  BY CPUAssumption DEF IndInv, Reparent, Runs, Children, KGoto, Start, ptable, locks,
     LocksHeld, ProcTypeOK, Stacks, Places, Forks, HoldsWait, Forking
<1>4. Places'
  BY DEF IndInv, Reparent, Runs, Children, KGoto, Start, ptable, locks, Places, ProcTypeOK,
     Stacks, LocksHeld, Forks, HoldsWait, Forking
<1>5. Forks'
  BY DEF IndInv, Reparent, Runs, Children, KGoto, Start, ptable, locks, Forks, ProcTypeOK, Places,
     Family, Forking, LiveStates, LocksHeld, HoldsWait
<1>6. Family'
  BY SlotFacts DEF IndInv, Reparent, Runs, Children, KGoto, Start, ptable, locks, Family,
     ProcTypeOK, Places, Forks, Forking, LiveStates, LocksHeld, HoldsWait, Stacks
<1>7. Wakeups'
  BY SlotFacts DEF IndInv, Reparent, Runs, Children, KGoto, Start, ptable, locks, Wakeups,
     ProcTypeOK, Stacks, Places, Forks, Family, Scanned, ParentAwake, InitToWake, Forking,
     LiveStates, LocksHeld, HoldsWait
<1>8. Identities'
  BY SlotFacts DEF IndInv, Reparent, Runs, Children, KGoto, Start, ptable, locks, Identities,
     ProcTypeOK, Forks, Forking, Places
<1> QED
  BY <1>1, <1>2, <1>3, <1>4, <1>5, <1>6, <1>7, <1>8 DEF IndInv

LEMMA ReparentDoneInv == ASSUME IndInv, NEW c \in CPUs, NEW p \in ProcSlots, ReparentDone(c, p)
  PROVE  IndInv'
<1>1. ProcTypeOK'
  BY RangeFacts DEF IndInv, ReparentDone, Runs, Children, KGoto, Start, ptable, locks, ProcTypeOK,
     States, PCs, Forks, Forking
<1>2. Stacks'
  BY DEF IndInv, ReparentDone, Runs, Children, KGoto, Start, ptable, locks, Stacks, ProcTypeOK,
     LocksHeld, Places, Forks, HoldsWait, Forking
<1>3. LocksHeld'
  BY CPUAssumption DEF IndInv, ReparentDone, Runs, Children, KGoto, Start, ptable, locks,
     LocksHeld, ProcTypeOK, Stacks, Places, Forks, HoldsWait, Forking
<1>4. Places'
  BY DEF IndInv, ReparentDone, Runs, Children, KGoto, Start, ptable, locks, Places, ProcTypeOK,
     Stacks, LocksHeld, Forks, HoldsWait, Forking
<1>5. Forks'
  BY DEF IndInv, ReparentDone, Runs, Children, KGoto, Start, ptable, locks, Forks, ProcTypeOK,
     Places, Family, Forking, LiveStates, LocksHeld, HoldsWait
<1>6. Family'
  BY SlotFacts DEF IndInv, ReparentDone, Runs, Children, KGoto, Start, ptable, locks, Family,
     ProcTypeOK, Places, Forks, Forking, LiveStates, LocksHeld, HoldsWait, Stacks
<1>7. Wakeups'
  <2>1. /\ UNCHANGED <<parent, waitLock, cpu>> /\ state' = state
        /\ kpc' = [kpc EXCEPT ![p] = "wakeParent"]
        /\ kpc[p] = "reparent" /\ k' = [k EXCEPT ![p] = 1]
        /\ p # InitSlot /\ parent[p] \in ProcSlots
    BY SlotFacts, PastTheEnd DEF IndInv, ProcTypeOK, Family, LiveStates, ReparentDone, Runs,
       KGoto, Start, ptable, locks
  <2>2. ProcTypeOK /\ LocksHeld /\ Places /\ Family /\ Scanned /\ ParentAwake /\ InitToWake
    BY DEF IndInv, Wakeups
  <2>3. kpc[p] \in HoldsWait => cpu[waitLock] = p /\ \A q \in ProcSlots : kpc[q] \in HoldsWait => q = p
    BY <2>2 DEF LocksHeld
  <2>7. waitLock # NoCpu => /\ waitLock \in CPUs /\ cpu[waitLock] \in ProcSlots
                            /\ kpc[cpu[waitLock]] \in HoldsWait
    BY <2>2 DEF ProcTypeOK, LocksHeld
  <2>4. Scanned'
    BY <2>1, <2>2, <2>3, SlotFacts DEF ProcTypeOK, Scanned, HoldsWait
  <2>5. ParentAwake'
    <3> SUFFICES ASSUME NEW q \in ProcSlots
                 PROVE  /\ kpc'[q] = "wakeParent" => k'[q] # 0
                        /\ (kpc'[q] = "wakeParent" /\ parent'[q] < k'[q]) \/ kpc'[q] = "die"
                           => state'[parent'[q]] # "SLEEPING"
      BY DEF ParentAwake
    <3>1. CASE q = p
      <4>1. kpc'[q] = "wakeParent" /\ parent'[q] = parent[p] /\ k'[q] = 1
        BY <2>1, <2>2, <3>1 DEF ProcTypeOK
      <4>2. parent[p] \in Nat /\ parent[p] >= 1
        BY <2>1, SlotFacts
      <4> QED
        BY <4>1, <4>2
    <3>2. CASE q # p
      BY <2>1, <2>2, <2>3, <3>2, SlotFacts DEF ProcTypeOK, ParentAwake, Family, LiveStates,
         HoldsWait
    <3> QED
      BY <3>1, <3>2
  <2>6. InitToWake'
    BY <2>1, <2>2, <2>3, <2>7, SlotFacts DEF ProcTypeOK, InitToWake, HoldsWait
  <2> QED
    BY <2>4, <2>5, <2>6 DEF Wakeups
<1>8. Identities'
  BY SlotFacts DEF IndInv, ReparentDone, Runs, Children, KGoto, Start, ptable, locks,
     Identities, ProcTypeOK, Forks, Forking, Places
<1> QED
  BY <1>1, <1>2, <1>3, <1>4, <1>5, <1>6, <1>7, <1>8 DEF IndInv

LEMMA WakeupSlotInv == ASSUME IndInv, NEW c \in CPUs, NEW p \in ProcSlots, WakeupSlot(c, p)
  PROVE  IndInv'
<1>1. ProcTypeOK'
  BY RangeFacts DEF IndInv, WakeupSlot, Runs, Free, ChannelOf, SetState, Step, ptable, locks,
     ProcTypeOK, States, PCs, Forks, Forking
<1>2. Stacks'
  BY DEF IndInv, WakeupSlot, Runs, Free, ChannelOf, SetState, Step, ptable, locks, Stacks,
     ProcTypeOK, LocksHeld, Places, Forks, HoldsWait, Forking
<1>3. LocksHeld'
  BY CPUAssumption DEF IndInv, WakeupSlot, Runs, Free, ChannelOf, SetState, Step, ptable,
     locks, LocksHeld, ProcTypeOK, Stacks, Places, Forks, HoldsWait, Forking
<1>4. Places'
  BY DEF IndInv, WakeupSlot, Runs, Free, ChannelOf, SetState, Step, ptable, locks, Places,
     ProcTypeOK, Stacks, LocksHeld, Forks, HoldsWait, Forking
<1>5. Forks'
  BY DEF IndInv, WakeupSlot, Runs, Free, ChannelOf, SetState, Step, ptable, locks, Forks,
     ProcTypeOK, Places, Family, Forking, LiveStates, LocksHeld, HoldsWait
<1>6. Family'
  <2>1. /\ parent' = parent /\ kpc' = kpc /\ k[p] \in ProcSlots
        /\ \/ state' = state
           \/ state[k[p]] = "SLEEPING" /\ state' = [state EXCEPT ![k[p]] = "RUNNABLE"]
    BY DEF WakeupSlot, SetState
  <2>2. ProcTypeOK /\ Family
    BY DEF IndInv
  <2>3. \A q \in ProcSlots :
          \/ state'[q] = state[q]
          \/ state[q] = "SLEEPING" /\ state'[q] = "RUNNABLE"
    BY <2>1, <2>2 DEF ProcTypeOK
  <2>4. \A q \in ProcSlots :
          /\ state'[q] \in LiveStates <=> state[q] \in LiveStates
          /\ state'[q] = "ZOMBIE" <=> state[q] = "ZOMBIE"
          /\ state'[q] = "UNUSED" <=> state[q] = "UNUSED"
    BY <2>3 DEF LiveStates
  <2>5. parent \in [ProcSlots -> {0} \cup ProcSlots]
    BY <2>2 DEF ProcTypeOK
  <2> QED
    BY <2>1, <2>2, <2>4, <2>5, SlotFacts DEF Family
<1>7. Wakeups'
  <2> DEFINE h == k[p]
  <2> USE SlotFacts
  <2>1. /\ UNCHANGED <<parent, waitLock, cpu>> /\ kpc' = kpc /\ k' = [k EXCEPT ![p] = h + 1]
        /\ h \in ProcSlots /\ kpc[p] \in {"wakeInit", "wakeParent"} /\ state[p] = "RUNNING"
    BY DEF WakeupSlot, Runs, Step, locks
  <2>2. ProcTypeOK /\ LocksHeld /\ Places /\ Family /\ Scanned /\ ParentAwake /\ InitToWake
    BY DEF IndInv, Wakeups
  <2>3. p # InitSlot /\ parent[p] \in ProcSlots
    BY <2>1, <2>2 DEF ProcTypeOK, Family, LiveStates
  <2>4. kpc[p] = "wakeParent" => parent[p] # p
    BY <2>2, <2>3 DEF Family
  <2>5. \A q \in ProcSlots :
          \/ state'[q] = state[q]
          \/ state[q] = "SLEEPING" /\ state'[q] = "RUNNABLE"
    <3>1. state \in [ProcSlots -> States]
      BY <2>2 DEF ProcTypeOK
    <3>2. \/ state' = state
          \/ state[h] = "SLEEPING" /\ state' = [state EXCEPT ![h] = "RUNNABLE"]
      BY DEF WakeupSlot, SetState
    <3> QED
      BY <2>1, <3>1, <3>2
  <2>6. h # p /\ h = ChannelOf(p) => state'[h] # "SLEEPING"
    <3>1. state[h] = "SLEEPING" => chan[h] = h
      BY <2>1, <2>2 DEF Places
    <3> QED
      BY <2>1, <2>2, <3>1 DEF WakeupSlot, SetState, ProcTypeOK
  <2>7. waitLock # NoCpu /\ cpu[waitLock] = p /\ \A q \in ProcSlots : kpc[q] \in HoldsWait => q = p
    BY <2>1, <2>2 DEF LocksHeld, HoldsWait
  <2>8. Scanned'
    BY <2>1, <2>2, <2>5, <2>7 DEF ProcTypeOK, Scanned, HoldsWait
  <2>9. ParentAwake'
    <3> SUFFICES ASSUME NEW q \in ProcSlots
                 PROVE  /\ kpc'[q] = "wakeParent" => k'[q] # 0
                        /\ (kpc'[q] = "wakeParent" /\ parent'[q] < k'[q]) \/ kpc'[q] = "die"
                           => state'[parent'[q]] # "SLEEPING"
      BY DEF ParentAwake
    <3>1. CASE kpc[p] = "wakeParent" /\ q = p
      <4>1. k'[q] = h + 1 /\ h \in Nat /\ parent'[q] = parent[p]
        BY <2>1, <2>2, <3>1 DEF ProcTypeOK
      <4>2. parent[p] < h + 1 <=> parent[p] < h \/ parent[p] = h
        BY <2>1, <2>3
      <4>3. parent[p] < h => state'[parent[p]] # "SLEEPING"
        BY <2>1, <2>2, <2>3, <2>5, <3>1 DEF ParentAwake
      <4>4. parent[p] = h => state'[parent[p]] # "SLEEPING"
        BY <2>3, <2>4, <2>6, <3>1 DEF ChannelOf
      <4> QED
        BY <2>1, <3>1, <4>1, <4>2, <4>3, <4>4
    <3>2. CASE ~(kpc[p] = "wakeParent" /\ q = p)
      BY <2>1, <2>2, <2>7, <3>2 DEF HoldsWait
    <3> QED
      BY <3>1, <3>2
  <2>10. InitToWake'
    <3> SUFFICES ASSUME NEW q \in ProcSlots, state'[q] = "ZOMBIE", parent'[q] # 0,
                        state'[parent'[q]] = "SLEEPING"
                 PROVE  /\ waitLock' # NoCpu /\ kpc'[cpu'[waitLock']] = "wakeInit"
                        /\ parent'[q] = InitSlot /\ k'[cpu'[waitLock']] = InitSlot
      BY DEF InitToWake
    <3>1. state[q] = "ZOMBIE" /\ parent[q] \in ProcSlots /\ state[parent[q]] = "SLEEPING"
      BY <2>1, <2>2, <2>5 DEF ProcTypeOK
    <3>2. kpc[p] = "wakeInit" /\ parent[q] = InitSlot /\ h = InitSlot
      BY <2>1, <2>2, <2>7, <3>1 DEF InitToWake
    <3>3. state'[h] # "SLEEPING"
      BY <2>3, <2>6, <3>2 DEF ChannelOf
    <3> QED
      BY <2>1, <3>2, <3>3
  <2> QED
    BY <2>8, <2>9, <2>10 DEF Wakeups
<1>8. Identities'
  BY SlotFacts DEF IndInv, WakeupSlot, Runs, Free, ChannelOf, SetState, Step, ptable, locks,
     Identities, ProcTypeOK, Forks, Forking, Places
<1> QED
  BY <1>1, <1>2, <1>3, <1>4, <1>5, <1>6, <1>7, <1>8 DEF IndInv

LEMMA WakeupDoneInv == ASSUME IndInv, NEW c \in CPUs, NEW p \in ProcSlots, WakeupDone(c, p)
  PROVE  IndInv'
<1>1. ProcTypeOK'
  BY RangeFacts DEF IndInv, WakeupDone, Runs, KGoto, Done, ptable, locks, ProcTypeOK, States, PCs,
     Forks, Forking
<1>2. Stacks'
  BY DEF IndInv, WakeupDone, Runs, KGoto, Done, ptable, locks, Stacks, ProcTypeOK, LocksHeld,
     Places, Forks, HoldsWait, Forking
<1>3. LocksHeld'
  BY CPUAssumption DEF IndInv, WakeupDone, Runs, KGoto, Done, ptable, locks, LocksHeld,
     ProcTypeOK, Stacks, Places, Forks, HoldsWait, Forking
<1>4. Places'
  BY DEF IndInv, WakeupDone, Runs, KGoto, Done, ptable, locks, Places, ProcTypeOK, Stacks,
     LocksHeld, Forks, HoldsWait, Forking
<1>5. Forks'
  BY DEF IndInv, WakeupDone, Runs, KGoto, Done, ptable, locks, Forks, ProcTypeOK, Places, Family,
     Forking, LiveStates, LocksHeld, HoldsWait
<1>6. Family'
  BY SlotFacts DEF IndInv, WakeupDone, Runs, KGoto, Done, ptable, locks, Family, ProcTypeOK,
     Places, Forks, Forking, LiveStates, LocksHeld, HoldsWait, Stacks
<1>7. Wakeups'
  <2>1. /\ UNCHANGED <<state, parent, waitLock, cpu>> /\ kpc[p] \in HoldsWait
        /\ k' = [k EXCEPT ![p] = 0] /\ k[p] \notin ProcSlots
        /\ \/ kpc[p] = "wakeInit" /\ kpc' = [kpc EXCEPT ![p] = "reparent"]
           \/ kpc[p] = "wakeParent" /\ kpc' = [kpc EXCEPT ![p] = "die"]
    BY DEF WakeupDone, KGoto, Done, ptable, locks, HoldsWait
  <2>2. ProcTypeOK /\ LocksHeld /\ Family /\ Scanned /\ ParentAwake /\ InitToWake
    BY DEF IndInv, Wakeups
  <2>3. waitLock # NoCpu /\ cpu[waitLock] = p /\ \A q \in ProcSlots : kpc[q] \in HoldsWait => q = p
    BY <2>1, <2>2 DEF LocksHeld
  <2>4. Scanned'
    BY <2>1, <2>2, <2>3 DEF ProcTypeOK, Scanned, HoldsWait
  <2>5. kpc[p] = "wakeParent" => state[parent[p]] # "SLEEPING"
    <3> SUFFICES ASSUME kpc[p] = "wakeParent" PROVE state[parent[p]] # "SLEEPING"
      OBVIOUS
    <3>1. k[p] \in 0..(NPROC + 1) /\ k[p] # 0 /\ parent[p] \in {0} \cup ProcSlots
      BY <2>2 DEF ProcTypeOK, ParentAwake
    <3>2. CASE parent[p] \in ProcSlots
      <4>1. parent[p] < k[p]
        BY <2>1, <3>1, <3>2, PastTheEnd
      <4> QED
        BY <2>2, <4>1 DEF ParentAwake
    <3>3. parent[p] # 0
      <4>1. state[p] = "RUNNING"
        BY DEF WakeupDone, Runs
      <4> QED
        BY <2>2, <4>1 DEF Family, LiveStates
    <3> QED
      BY <3>1, <3>2, <3>3
  <2>6. ParentAwake'
    BY <2>1, <2>2, <2>3, <2>5 DEF ProcTypeOK, ParentAwake, HoldsWait
  <2>7. InitToWake'
    <3> SUFFICES ASSUME NEW q \in ProcSlots, state[q] = "ZOMBIE", parent[q] # 0,
                        state[parent[q]] = "SLEEPING"
                 PROVE  FALSE
      BY <2>1 DEF InitToWake
    <3> QED
      BY <2>1, <2>2, <2>3, SlotFacts DEF InitToWake
  <2> QED
    BY <2>4, <2>6, <2>7 DEF Wakeups
<1>8. Identities'
  BY SlotFacts DEF IndInv, WakeupDone, Runs, KGoto, Done, ptable, locks, Identities, ProcTypeOK,
     Forks, Forking, Places
<1> QED
  BY <1>1, <1>2, <1>3, <1>4, <1>5, <1>6, <1>7, <1>8 DEF IndInv

LEMMA DieInv == ASSUME IndInv, NEW c \in CPUs, NEW p \in ProcSlots, Die(c, p)
  PROVE  IndInv'
<1>1. ProcTypeOK'
  BY RangeFacts DEF IndInv, Die, Runs, Free, SetState, Lock, KGoto, ptable, locks, ProcTypeOK,
     States, PCs, Forks, Forking
<1>2. Stacks'
  BY DEF IndInv, Die, Runs, Free, SetState, Lock, KGoto, ptable, locks, Stacks, ProcTypeOK,
     LocksHeld, Places, Forks, HoldsWait, Forking
<1>3. LocksHeld'
  BY CPUAssumption DEF IndInv, Die, Runs, Free, SetState, Lock, KGoto, ptable, locks,
     LocksHeld, ProcTypeOK, Stacks, Places, Forks, HoldsWait, Forking
<1>4. Places'
  BY DEF IndInv, Die, Runs, Free, SetState, Lock, KGoto, ptable, locks, Places, ProcTypeOK,
     Stacks, LocksHeld, Forks, HoldsWait, Forking
<1>5. Forks'
  BY DEF IndInv, Die, Runs, Free, SetState, Lock, KGoto, ptable, locks, Forks, ProcTypeOK, Places,
     Family, Forking, LiveStates, LocksHeld, HoldsWait
<1>6. Family'
  BY SlotFacts DEF IndInv, Die, Runs, Free, SetState, Lock, KGoto, ptable, locks, Family,
     ProcTypeOK, Places, Forks, Forking, LiveStates, LocksHeld, HoldsWait, Stacks
<1>7. Wakeups'
  BY SlotFacts DEF IndInv, Die, Runs, Free, SetState, Lock, KGoto, ptable, locks, Wakeups,
     ProcTypeOK, Stacks, Places, Forks, Family, Scanned, ParentAwake, InitToWake, Forking,
     LiveStates, LocksHeld, HoldsWait
<1>8. Identities'
  BY SlotFacts DEF IndInv, Die, Runs, Free, SetState, Lock, KGoto, ptable, locks, Identities,
     ProcTypeOK, Forks, Forking, Places
<1> QED
  BY <1>1, <1>2, <1>3, <1>4, <1>5, <1>6, <1>7, <1>8 DEF IndInv

LEMMA WaitLockInv == ASSUME IndInv, NEW c \in CPUs, NEW p \in ProcSlots, WaitLock(c, p)
  PROVE  IndInv'
<1>1. ProcTypeOK'
  BY RangeFacts DEF IndInv, WaitLock, Runs, KGoto, Start, ptable, locks, ProcTypeOK, States, PCs,
     Forks, Forking
<1>2. Stacks'
  BY DEF IndInv, WaitLock, Runs, KGoto, Start, ptable, locks, Stacks, ProcTypeOK, LocksHeld,
     Places, Forks, HoldsWait, Forking
<1>3. LocksHeld'
  <2>1. /\ waitLock = NoCpu /\ waitLock' = c /\ kpc' = [kpc EXCEPT ![p] = "scan"]
        /\ kpc[p] = "wait" /\ cpu[c] = p /\ state[p] = "RUNNING" /\ plock[p] # c
        /\ state' = state /\ plock' = plock /\ cpu' = cpu /\ \A q \in ProcSlots \ {p} : k'[q] = k[q]
    BY DEF IndInv, ProcTypeOK, WaitLock, Runs, KGoto, Start, ptable
  <2>2. ProcTypeOK /\ Stacks /\ LocksHeld
    BY DEF IndInv
  <2>3. ASSUME NEW q \in ProcSlots, plock'[q] # NoCpu
        PROVE  LET r == cpu'[plock'[q]]
               IN r = q \/ (r # 0 /\ plock'[r] # plock'[q] /\ kpc'[r] = "copy" /\ k'[r] = q)
    <3>1. PICK r \in {0} \cup ProcSlots : r = cpu[plock[q]]
      BY <2>1, <2>2, <2>3 DEF ProcTypeOK
    <3>2. r = q \/ (r # 0 /\ plock[r] # plock[q] /\ kpc[r] = "copy" /\ k[r] = q)
      BY <2>1, <2>2, <2>3, <3>1 DEF LocksHeld
    <3>3. r # q => r # p /\ kpc'[r] = "copy" /\ k'[r] = q
      BY <2>1, <2>2, <3>2 DEF ProcTypeOK
    <3> QED
      BY <2>1, <3>1, <3>2, <3>3
  <2>4. \A q \in ProcSlots : kpc'[q] = "copy" => \E d \in CPUs : Runs(d, q)' /\ plock'[k'[q]] = d
    BY <2>1, <2>2 DEF ProcTypeOK, LocksHeld, Runs
  <2>5. waitLock' # NoCpu => /\ cpu'[waitLock'] # 0 /\ Runs(waitLock, cpu[waitLock])'
                             /\ kpc'[cpu'[waitLock']] \in HoldsWait
    BY <2>1, <2>2, SlotFacts DEF ProcTypeOK, Runs, HoldsWait
  <2>6. \A q \in ProcSlots : kpc'[q] \in HoldsWait => waitLock' # NoCpu /\ cpu'[waitLock'] = q
    BY <2>1, <2>2, CPUAssumption DEF ProcTypeOK, LocksHeld
  <2> QED
    BY <2>3, <2>4, <2>5, <2>6 DEF LocksHeld
<1>4. Places'
  BY DEF IndInv, WaitLock, Runs, KGoto, Start, ptable, locks, Places, ProcTypeOK, Stacks,
     LocksHeld, Forks, HoldsWait, Forking
<1>5. Forks'
  BY DEF IndInv, WaitLock, Runs, KGoto, Start, ptable, locks, Forks, ProcTypeOK, Places, Family,
     Forking, LiveStates, LocksHeld, HoldsWait
<1>6. Family'
  BY SlotFacts DEF IndInv, WaitLock, Runs, KGoto, Start, ptable, locks, Family, ProcTypeOK,
     Places, Forks, Forking, LiveStates, LocksHeld, HoldsWait, Stacks
<1>7. Wakeups'
  BY SlotFacts DEF IndInv, WaitLock, Runs, KGoto, Start, ptable, locks, Wakeups, ProcTypeOK,
     Stacks, Places, Forks, Family, Scanned, ParentAwake, InitToWake, Forking, LiveStates,
     LocksHeld, HoldsWait
<1>8. Identities'
  BY SlotFacts DEF IndInv, WaitLock, Runs, KGoto, Start, ptable, locks, Identities, ProcTypeOK,
     Forks, Forking, Places
<1> QED
  BY <1>1, <1>2, <1>3, <1>4, <1>5, <1>6, <1>7, <1>8 DEF IndInv

LEMMA ScanNextInv == ASSUME IndInv, NEW c \in CPUs, NEW p \in ProcSlots, ScanNext(c, p)
  PROVE  IndInv'
<1>1. ProcTypeOK'
  BY RangeFacts DEF IndInv, ScanNext, Runs, ChildLockFree, Free, Step, ptable, locks, ProcTypeOK,
     States, PCs, Forks, Forking
<1>2. Stacks'
  BY DEF IndInv, ScanNext, Runs, ChildLockFree, Free, Step, ptable, locks, Stacks, ProcTypeOK,
     LocksHeld, Places, Forks, HoldsWait, Forking
<1>3. LocksHeld'
  BY CPUAssumption DEF IndInv, ScanNext, Runs, ChildLockFree, Free, Step, ptable, locks,
     LocksHeld, ProcTypeOK, Stacks, Places, Forks, HoldsWait, Forking
<1>4. Places'
  BY DEF IndInv, ScanNext, Runs, ChildLockFree, Free, Step, ptable, locks, Places, ProcTypeOK,
     Stacks, LocksHeld, Forks, HoldsWait, Forking
<1>5. Forks'
  BY DEF IndInv, ScanNext, Runs, ChildLockFree, Free, Step, ptable, locks, Forks, ProcTypeOK,
     Places, Family, Forking, LiveStates, LocksHeld, HoldsWait
<1>6. Family'
  BY SlotFacts DEF IndInv, ScanNext, Runs, ChildLockFree, Free, Step, ptable, locks, Family,
     ProcTypeOK, Places, Forks, Forking, LiveStates, LocksHeld, HoldsWait, Stacks
<1>7. Wakeups'
  BY SlotFacts DEF IndInv, ScanNext, Runs, ChildLockFree, Free, Step, ptable, locks, Wakeups,
     ProcTypeOK, Stacks, Places, Forks, Family, Scanned, ParentAwake, InitToWake, Forking,
     LiveStates, LocksHeld, HoldsWait
<1>8. Identities'
  BY SlotFacts DEF IndInv, ScanNext, Runs, ChildLockFree, Free, Step, ptable, locks,
     Identities, ProcTypeOK, Forks, Forking, Places
<1> QED
  BY <1>1, <1>2, <1>3, <1>4, <1>5, <1>6, <1>7, <1>8 DEF IndInv

LEMMA ReapInv == ASSUME IndInv, NEW c \in CPUs, NEW p \in ProcSlots, Reap(c, p)
  PROVE  IndInv'
<1>1. ProcTypeOK'
  BY RangeFacts DEF IndInv, Reap, Runs, FoundZombie, ChildLockFree, Free, FreeProc,
     ClearPid, ClearParent, ClearKilled, SetState, WaitReturn, KGoto, Done, ptable, locks,
     ProcTypeOK, States, PCs, Forks, Forking
<1>2. Stacks'
  <2>1. /\ state' = [state EXCEPT ![k[p]] = "UNUSED"] /\ cpu' = cpu /\ plock' = plock
        /\ k[p] \in ProcSlots /\ state[k[p]] = "ZOMBIE" /\ plock[k[p]] = NoCpu
    BY DEF Reap, FoundZombie, ChildLockFree, Free, FreeProc, SetState
  <2>2. \A d \in CPUs : cpu[d] # k[p]
    BY <2>1, SlotFacts, CPUAssumption DEF IndInv, ProcTypeOK, Stacks
  <2> QED
    BY <2>1, <2>2 DEF IndInv, ProcTypeOK, Stacks
<1>3. LocksHeld'
  BY CPUAssumption DEF IndInv, Reap, Runs, FoundZombie, ChildLockFree, Free, FreeProc,
     ClearPid, ClearParent, ClearKilled, SetState, WaitReturn, KGoto, Done, ptable, locks,
     LocksHeld, ProcTypeOK, Stacks, Places, Forks, HoldsWait, Forking
<1>4. Places'
  BY DEF IndInv, Reap, Runs, FoundZombie, ChildLockFree, Free, FreeProc, ClearPid,
     ClearParent, ClearKilled, SetState, WaitReturn, KGoto, Done, ptable, locks, Places,
     ProcTypeOK, Stacks, LocksHeld, Forks, HoldsWait, Forking
<1>5. Forks'
  BY DEF IndInv, Reap, Runs, FoundZombie, ChildLockFree, Free, FreeProc, ClearPid,
     ClearParent, ClearKilled, SetState, WaitReturn, KGoto, Done, ptable, locks, Forks,
     ProcTypeOK, Places, Family, Forking, LiveStates, LocksHeld, HoldsWait
<1>6. Family'
  BY SlotFacts DEF IndInv, Reap, Runs, FoundZombie, ChildLockFree, Free, FreeProc, ClearPid,
     ClearParent, ClearKilled, SetState, WaitReturn, KGoto, Done, ptable, locks, Family,
     ProcTypeOK, Places, Forks, Forking, LiveStates, LocksHeld, HoldsWait, Stacks
<1>7. Wakeups'
  BY SlotFacts DEF IndInv, Reap, Runs, FoundZombie, ChildLockFree, Free, FreeProc, ClearPid,
     ClearParent, ClearKilled, SetState, WaitReturn, KGoto, Done, ptable, locks, Wakeups,
     ProcTypeOK, Stacks, Places, Forks, Family, Scanned, ParentAwake, InitToWake, Forking,
     LiveStates, LocksHeld, HoldsWait
<1>8. Identities'
  <2>1. pid' = [pid EXCEPT ![k[p]] = 0] /\ nextpid' = nextpid /\ k[p] \in ProcSlots
        /\ k[p] # InitSlot
    BY SlotFacts DEF IndInv, ProcTypeOK, Reap, FreeProc, ClearPid, FoundZombie, Family,
       LiveStates
  <2>2. pid \in [ProcSlots -> Nat] /\ nextpid > 0
    BY DEF IndInv, ProcTypeOK
  <2> QED
    BY <2>1, <2>2 DEF IndInv, Identities
<1> QED
  BY <1>1, <1>2, <1>3, <1>4, <1>5, <1>6, <1>7, <1>8 DEF IndInv

LEMMA CopyoutFailsInv == ASSUME IndInv, NEW c \in CPUs, NEW p \in ProcSlots, CopyoutFails(c, p)
  PROVE  IndInv'
<1>1. ProcTypeOK'
  BY RangeFacts DEF IndInv, CopyoutFails, Runs, FoundZombie, WaitReturn, KGoto, Done, ptable,
     locks, ProcTypeOK, States, PCs, Forks, Forking
<1>2. Stacks'
  BY DEF IndInv, CopyoutFails, Runs, FoundZombie, WaitReturn, KGoto, Done, ptable, locks,
     Stacks, ProcTypeOK, LocksHeld, Places, Forks, HoldsWait, Forking
<1>3. LocksHeld'
  BY CPUAssumption DEF IndInv, CopyoutFails, Runs, FoundZombie, WaitReturn, KGoto, Done,
     ptable, locks, LocksHeld, ProcTypeOK, Stacks, Places, Forks, HoldsWait, Forking
<1>4. Places'
  BY DEF IndInv, CopyoutFails, Runs, FoundZombie, WaitReturn, KGoto, Done, ptable, locks,
     Places, ProcTypeOK, Stacks, LocksHeld, Forks, HoldsWait, Forking
<1>5. Forks'
  BY DEF IndInv, CopyoutFails, Runs, FoundZombie, WaitReturn, KGoto, Done, ptable, locks,
     Forks, ProcTypeOK, Places, Family, Forking, LiveStates, LocksHeld, HoldsWait
<1>6. Family'
  BY SlotFacts DEF IndInv, CopyoutFails, Runs, FoundZombie, WaitReturn, KGoto, Done, ptable,
     locks, Family, ProcTypeOK, Places, Forks, Forking, LiveStates, LocksHeld, HoldsWait, Stacks
<1>7. Wakeups'
  BY SlotFacts DEF IndInv, CopyoutFails, Runs, FoundZombie, WaitReturn, KGoto, Done, ptable,
     locks, Wakeups, ProcTypeOK, Stacks, Places, Forks, Family, Scanned, ParentAwake,
     InitToWake, Forking, LiveStates, LocksHeld, HoldsWait
<1>8. Identities'
  BY SlotFacts DEF IndInv, CopyoutFails, Runs, FoundZombie, WaitReturn, KGoto, Done, ptable,
     locks, Identities, ProcTypeOK, Forks, Forking, Places
<1> QED
  BY <1>1, <1>2, <1>3, <1>4, <1>5, <1>6, <1>7, <1>8 DEF IndInv

LEMMA WaitFailsInv == ASSUME IndInv, NEW c \in CPUs, NEW p \in ProcSlots, WaitFails(c, p)
  PROVE  IndInv'
<1>1. ProcTypeOK'
  BY RangeFacts DEF IndInv, WaitFails, Runs, WaitReturn, KGoto, Done, ptable, locks, ProcTypeOK,
     States, PCs, Forks, Forking
<1>2. Stacks'
  BY DEF IndInv, WaitFails, Runs, WaitReturn, KGoto, Done, ptable, locks, Stacks, ProcTypeOK,
     LocksHeld, Places, Forks, HoldsWait, Forking
<1>3. LocksHeld'
  BY CPUAssumption DEF IndInv, WaitFails, Runs, WaitReturn, KGoto, Done, ptable, locks,
     LocksHeld, ProcTypeOK, Stacks, Places, Forks, HoldsWait, Forking
<1>4. Places'
  BY DEF IndInv, WaitFails, Runs, WaitReturn, KGoto, Done, ptable, locks, Places, ProcTypeOK,
     Stacks, LocksHeld, Forks, HoldsWait, Forking
<1>5. Forks'
  BY DEF IndInv, WaitFails, Runs, WaitReturn, KGoto, Done, ptable, locks, Forks, ProcTypeOK,
     Places, Family, Forking, LiveStates, LocksHeld, HoldsWait
<1>6. Family'
  BY SlotFacts DEF IndInv, WaitFails, Runs, WaitReturn, KGoto, Done, ptable, locks, Family,
     ProcTypeOK, Places, Forks, Forking, LiveStates, LocksHeld, HoldsWait, Stacks
<1>7. Wakeups'
  BY SlotFacts DEF IndInv, WaitFails, Runs, WaitReturn, KGoto, Done, ptable, locks, Wakeups,
     ProcTypeOK, Stacks, Places, Forks, Family, Scanned, ParentAwake, InitToWake, Forking,
     LiveStates, LocksHeld, HoldsWait
<1>8. Identities'
  BY SlotFacts DEF IndInv, WaitFails, Runs, WaitReturn, KGoto, Done, ptable, locks,
     Identities, ProcTypeOK, Forks, Forking, Places
<1> QED
  BY <1>1, <1>2, <1>3, <1>4, <1>5, <1>6, <1>7, <1>8 DEF IndInv

LEMMA WaitSleepInv == ASSUME IndInv, NEW c \in CPUs, NEW p \in ProcSlots, WaitSleep(c, p)
  PROVE  IndInv'
<1>1. ProcTypeOK'
  BY RangeFacts DEF IndInv, WaitSleep, Runs, Free, Lock, SetState, KGoto, Done, ptable, locks,
     ProcTypeOK, States, PCs, Forks, Forking
<1>2. Stacks'
  BY DEF IndInv, WaitSleep, Runs, Free, Lock, SetState, KGoto, Done, ptable, locks, Stacks,
     ProcTypeOK, LocksHeld, Places, Forks, HoldsWait, Forking
<1>3. LocksHeld'
  BY CPUAssumption DEF IndInv, WaitSleep, Runs, Free, Lock, SetState, KGoto, Done, ptable,
     locks, LocksHeld, ProcTypeOK, Stacks, Places, Forks, HoldsWait, Forking
<1>4. Places'
  BY DEF IndInv, WaitSleep, Runs, Free, Lock, SetState, KGoto, Done, ptable, locks, Places,
     ProcTypeOK, Stacks, LocksHeld, Forks, HoldsWait, Forking
<1>5. Forks'
  BY DEF IndInv, WaitSleep, Runs, Free, Lock, SetState, KGoto, Done, ptable, locks, Forks,
     ProcTypeOK, Places, Family, Forking, LiveStates, LocksHeld, HoldsWait
<1>6. Family'
  BY SlotFacts DEF IndInv, WaitSleep, Runs, Free, Lock, SetState, KGoto, Done, ptable, locks,
     Family, ProcTypeOK, Places, Forks, Forking, LiveStates, LocksHeld, HoldsWait, Stacks
<1>7. Wakeups'
  <2>1. /\ parent' = parent /\ cpu' = cpu /\ waitLock' = NoCpu /\ kpc[p] = "scan"
        /\ k' = [k EXCEPT ![p] = 0] /\ k[p] \notin ProcSlots
        /\ kpc' = [kpc EXCEPT ![p] = "asleep"] /\ state' = [state EXCEPT ![p] = "SLEEPING"]
    BY DEF WaitSleep, KGoto, Done, SetState
  <2>2. ProcTypeOK /\ LocksHeld /\ Scanned /\ ParentAwake /\ InitToWake
    BY DEF IndInv, Wakeups
  <2>3. waitLock # NoCpu /\ cpu[waitLock] = p /\ \A q \in ProcSlots : kpc[q] \in HoldsWait => q = p
    BY <2>1, <2>2 DEF LocksHeld, HoldsWait
  <2>4. Scanned' /\ ParentAwake'
    BY <2>1, <2>2, <2>3 DEF ProcTypeOK, Scanned, ParentAwake, HoldsWait
  <2>5. InitToWake'
    <3> SUFFICES ASSUME NEW q \in ProcSlots, state'[q] = "ZOMBIE", parent'[q] # 0,
                        state'[parent'[q]] = "SLEEPING"
                 PROVE  FALSE
      BY DEF InitToWake
    <3>1. q # p /\ state[q] = "ZOMBIE" /\ parent[q] \in ProcSlots
      BY <2>1, <2>2 DEF ProcTypeOK
    <3>2. CASE parent[q] = p
      <4>1. k[p] \in 0..(NPROC + 1) /\ k[p] # 0
        BY <2>1, <2>2 DEF ProcTypeOK, Scanned
      <4>2. q < k[p]
        BY <2>1, <4>1, PastTheEnd
      <4> QED
        BY <2>1, <2>2, <3>1, <3>2, <4>2 DEF Scanned
    <3>3. CASE parent[q] # p
      BY <2>1, <2>2, <2>3, <3>1, <3>3 DEF ProcTypeOK, InitToWake
    <3> QED
      BY <3>2, <3>3
  <2> QED
    BY <2>4, <2>5 DEF Wakeups
<1>8. Identities'
  BY SlotFacts DEF IndInv, WaitSleep, Runs, Free, Lock, SetState, KGoto, Done, ptable, locks,
     Identities, ProcTypeOK, Forks, Forking, Places
<1> QED
  BY <1>1, <1>2, <1>3, <1>4, <1>5, <1>6, <1>7, <1>8 DEF IndInv

LEMMA KillCallInv == ASSUME IndInv, NEW c \in CPUs, NEW p \in ProcSlots,
         NEW v \in KillPids, KillCall(c, p, v)
  PROVE  IndInv'
<1>1. ProcTypeOK'
  BY RangeFacts DEF IndInv, KillCall, Runs, KGoto, Start, ptable, locks, ProcTypeOK, States, PCs,
     Forks, Forking
<1>2. Stacks'
  BY DEF IndInv, KillCall, Runs, KGoto, Start, ptable, locks, Stacks, ProcTypeOK, LocksHeld,
     Places, Forks, HoldsWait, Forking
<1>3. LocksHeld'
  BY CPUAssumption DEF IndInv, KillCall, Runs, KGoto, Start, ptable, locks, LocksHeld, ProcTypeOK,
     Stacks, Places, Forks, HoldsWait, Forking
<1>4. Places'
  BY DEF IndInv, KillCall, Runs, KGoto, Start, ptable, locks, Places, ProcTypeOK, Stacks,
     LocksHeld, Forks, HoldsWait, Forking
<1>5. Forks'
  BY DEF IndInv, KillCall, Runs, KGoto, Start, ptable, locks, Forks, ProcTypeOK, Places, Family,
     Forking, LiveStates, LocksHeld, HoldsWait
<1>6. Family'
  BY SlotFacts DEF IndInv, KillCall, Runs, KGoto, Start, ptable, locks, Family, ProcTypeOK,
     Places, Forks, Forking, LiveStates, LocksHeld, HoldsWait, Stacks
<1>7. Wakeups'
  BY SlotFacts DEF IndInv, KillCall, Runs, KGoto, Start, ptable, locks, Wakeups, ProcTypeOK,
     Stacks, Places, Forks, Family, Scanned, ParentAwake, InitToWake, Forking, LiveStates,
     LocksHeld, HoldsWait
<1>8. Identities'
  BY SlotFacts DEF IndInv, KillCall, Runs, KGoto, Start, ptable, locks, Identities, ProcTypeOK,
     Forks, Forking, Places
<1> QED
  BY <1>1, <1>2, <1>3, <1>4, <1>5, <1>6, <1>7, <1>8 DEF IndInv

LEMMA KillNextInv == ASSUME IndInv, NEW c \in CPUs, NEW p \in ProcSlots, KillNext(c, p)
  PROVE  IndInv'
<1>1. ProcTypeOK'
  BY RangeFacts DEF IndInv, KillNext, Runs, Free, Step, ptable, locks, ProcTypeOK, States, PCs,
     Forks, Forking
<1>2. Stacks'
  BY DEF IndInv, KillNext, Runs, Free, Step, ptable, locks, Stacks, ProcTypeOK, LocksHeld,
     Places, Forks, HoldsWait, Forking
<1>3. LocksHeld'
  BY CPUAssumption DEF IndInv, KillNext, Runs, Free, Step, ptable, locks, LocksHeld, ProcTypeOK,
     Stacks, Places, Forks, HoldsWait, Forking
<1>4. Places'
  BY DEF IndInv, KillNext, Runs, Free, Step, ptable, locks, Places, ProcTypeOK, Stacks,
     LocksHeld, Forks, HoldsWait, Forking
<1>5. Forks'
  BY DEF IndInv, KillNext, Runs, Free, Step, ptable, locks, Forks, ProcTypeOK, Places, Family,
     Forking, LiveStates, LocksHeld, HoldsWait
<1>6. Family'
  BY SlotFacts DEF IndInv, KillNext, Runs, Free, Step, ptable, locks, Family, ProcTypeOK, Places,
     Forks, Forking, LiveStates, LocksHeld, HoldsWait, Stacks
<1>7. Wakeups'
  BY SlotFacts DEF IndInv, KillNext, Runs, Free, Step, ptable, locks, Wakeups, ProcTypeOK,
     Stacks, Places, Forks, Family, Scanned, ParentAwake, InitToWake, Forking, LiveStates,
     LocksHeld, HoldsWait
<1>8. Identities'
  BY SlotFacts DEF IndInv, KillNext, Runs, Free, Step, ptable, locks, Identities, ProcTypeOK,
     Forks, Forking, Places
<1> QED
  BY <1>1, <1>2, <1>3, <1>4, <1>5, <1>6, <1>7, <1>8 DEF IndInv

LEMMA KillFoundInv == ASSUME IndInv, NEW c \in CPUs, NEW p \in ProcSlots, KillFound(c, p)
  PROVE  IndInv'
<1>1. ProcTypeOK'
  BY RangeFacts DEF IndInv, KillFound, Runs, Free, SetState, KillReturn, KGoto, Done, ptable,
     locks, ProcTypeOK, States, PCs, Forks, Forking
<1>2. Stacks'
  BY DEF IndInv, KillFound, Runs, Free, SetState, KillReturn, KGoto, Done, ptable, locks,
     Stacks, ProcTypeOK, LocksHeld, Places, Forks, HoldsWait, Forking
<1>3. LocksHeld'
  BY CPUAssumption DEF IndInv, KillFound, Runs, Free, SetState, KillReturn, KGoto, Done,
     ptable, locks, LocksHeld, ProcTypeOK, Stacks, Places, Forks, HoldsWait, Forking
<1>4. Places'
  BY DEF IndInv, KillFound, Runs, Free, SetState, KillReturn, KGoto, Done, ptable, locks,
     Places, ProcTypeOK, Stacks, LocksHeld, Forks, HoldsWait, Forking
<1>5. Forks'
  BY DEF IndInv, KillFound, Runs, Free, SetState, KillReturn, KGoto, Done, ptable, locks,
     Forks, ProcTypeOK, Places, Family, Forking, LiveStates, LocksHeld, HoldsWait
<1>6. Family'
  BY SlotFacts DEF IndInv, KillFound, Runs, Free, SetState, KillReturn, KGoto, Done, ptable,
     locks, Family, ProcTypeOK, Places, Forks, Forking, LiveStates, LocksHeld, HoldsWait, Stacks
<1>7. Wakeups'
  BY SlotFacts DEF IndInv, KillFound, Runs, Free, SetState, KillReturn, KGoto, Done, ptable,
     locks, Wakeups, ProcTypeOK, Stacks, Places, Forks, Family, Scanned, ParentAwake,
     InitToWake, Forking, LiveStates, LocksHeld, HoldsWait
<1>8. Identities'
  BY SlotFacts DEF IndInv, KillFound, Runs, Free, SetState, KillReturn, KGoto, Done, ptable,
     locks, Identities, ProcTypeOK, Forks, Forking, Places
<1> QED
  BY <1>1, <1>2, <1>3, <1>4, <1>5, <1>6, <1>7, <1>8 DEF IndInv

LEMMA KillFailsInv == ASSUME IndInv, NEW c \in CPUs, NEW p \in ProcSlots, KillFails(c, p)
  PROVE  IndInv'
<1>1. ProcTypeOK'
  BY RangeFacts DEF IndInv, KillFails, Runs, KillReturn, KGoto, Done, ptable, locks, ProcTypeOK,
     States, PCs, Forks, Forking
<1>2. Stacks'
  BY DEF IndInv, KillFails, Runs, KillReturn, KGoto, Done, ptable, locks, Stacks, ProcTypeOK,
     LocksHeld, Places, Forks, HoldsWait, Forking
<1>3. LocksHeld'
  BY CPUAssumption DEF IndInv, KillFails, Runs, KillReturn, KGoto, Done, ptable, locks,
     LocksHeld, ProcTypeOK, Stacks, Places, Forks, HoldsWait, Forking
<1>4. Places'
  BY DEF IndInv, KillFails, Runs, KillReturn, KGoto, Done, ptable, locks, Places, ProcTypeOK,
     Stacks, LocksHeld, Forks, HoldsWait, Forking
<1>5. Forks'
  BY DEF IndInv, KillFails, Runs, KillReturn, KGoto, Done, ptable, locks, Forks, ProcTypeOK,
     Places, Family, Forking, LiveStates, LocksHeld, HoldsWait
<1>6. Family'
  BY SlotFacts DEF IndInv, KillFails, Runs, KillReturn, KGoto, Done, ptable, locks, Family,
     ProcTypeOK, Places, Forks, Forking, LiveStates, LocksHeld, HoldsWait, Stacks
<1>7. Wakeups'
  BY SlotFacts DEF IndInv, KillFails, Runs, KillReturn, KGoto, Done, ptable, locks, Wakeups,
     ProcTypeOK, Stacks, Places, Forks, Family, Scanned, ParentAwake, InitToWake, Forking,
     LiveStates, LocksHeld, HoldsWait
<1>8. Identities'
  BY SlotFacts DEF IndInv, KillFails, Runs, KillReturn, KGoto, Done, ptable, locks,
     Identities, ProcTypeOK, Forks, Forking, Places
<1> QED
  BY <1>1, <1>2, <1>3, <1>4, <1>5, <1>6, <1>7, <1>8 DEF IndInv

LEMMA NextInv == IndInv /\ [ProcNext]_procVars => IndInv'
<1> SUFFICES ASSUME IndInv, [ProcNext]_procVars PROVE IndInv'
  OBVIOUS
<1>1. CASE ProcNext
  <2>1. PICK c \in CPUs, p \in ProcSlots :
          \/ Schedule(c, p) \/ Yield(c, p) \/ KernelStep(c, p)
          \/ \E call \in {"fork", "exit", "wait"} : Syscall(c, p, call)
          \/ \E v \in KillPids : KillCall(c, p, v)
    BY <1>1 DEF ProcNext
  <2>2. CASE Schedule(c, p)
    BY <2>2, SwitchInInv, ResumeInv, SwitchOutInv DEF Schedule
  <2>3. CASE ForkStep(c, p)
    BY <2>3, AllocNextInv, AllocFoundInv, AllocFailsInv, CopyFailsInv, CopyDoneInv,
       SetParentInv, ForkDoneInv DEF ForkStep
  <2>4. CASE ExitStep(c, p)
    BY <2>4, ExitPanicInv, ExitLockInv, ReparentInv, ReparentDoneInv, WakeupSlotInv,
       WakeupDoneInv, DieInv DEF ExitStep
  <2>5. CASE WaitStep(c, p)
    BY <2>5, WaitLockInv, ScanNextInv, ReapInv, CopyoutFailsInv, WaitFailsInv,
       WaitSleepInv DEF WaitStep
  <2>6. CASE KillStep(c, p)
    BY <2>6, KillNextInv, KillFoundInv, KillFailsInv DEF KillStep
  <2> QED
    BY <2>1, <2>2, <2>3, <2>4, <2>5, <2>6, YieldInv, SyscallInv, KillCallInv DEF KernelStep
<1>2. CASE UNCHANGED procVars
  BY <1>2 DEF procVars, ptable, locks, IndInv, ProcTypeOK, Stacks, LocksHeld, Places, Forks, Family,
     Wakeups, Scanned, ParentAwake, InitToWake, Identities, Runs
<1> QED
  BY <1>1, <1>2

\* Who holds which lock, where: what every step preserves.
THEOREM Invariance == ProcSpec => []IndInv
<1> QED
  BY InitInv, NextInv, PTL DEF ProcSpec

\* No two CPUs are on one kernel stack, no parent is gone, and nobody sleeps in
\* wait() with a zombie to wait for, except until the one that left it wakes init.
THEOREM TableIsSound == ProcSpec => []TableSound
<1>1. IndInv => TableSound
  <2> SUFFICES ASSUME IndInv PROVE TableSound
    OBVIOUS
  <2>1. OneCPUPerStack
    BY DEF IndInv, ProcTypeOK, Stacks, OneCPUPerStack
  <2>2. ParentsLive
    BY DEF IndInv, Family, ParentsLive, LiveStates
  <2>3. NoLostWakeup
    BY DEF IndInv, Wakeups, InitToWake, NoLostWakeup
  <2> QED
    BY <2>1, <2>2, <2>3 DEF IndInv, TableSound
<1> QED
  BY <1>1, Invariance, PTL
-----------------------------------------------------------------------------
(* The table behaves as a tree of processes                                *)

\* Who is in the tree has a pid of his own, and a parent that is there too.
LEMMA InTreeFacts ==
  ASSUME IndInv
  PROVE  /\ InTree(InitSlot) /\ pid[InitSlot] = 1 /\ ~Exiting(InitSlot)
         /\ \A p \in ProcSlots : InTree(p) =>
              /\ pid[p] \in Pids /\ state[p] # "UNUSED"
              /\ \A q \in ProcSlots : pid[q] = pid[p] => q = p
              /\ ParentOf(p) \in ProcSlots /\ InTree(ParentOf(p)) /\ ~Exiting(ParentOf(p))
<1>1. ProcTypeOK /\ Family /\ Identities
  BY DEF IndInv
<1>2. InTree(InitSlot) /\ pid[InitSlot] = 1 /\ ~Exiting(InitSlot)
  BY <1>1 DEF InTree, Exiting, Family, Identities, LiveStates
<1>3. ASSUME NEW p \in ProcSlots, InTree(p)
      PROVE  /\ pid[p] \in Pids /\ state[p] # "UNUSED"
             /\ \A q \in ProcSlots : pid[q] = pid[p] => q = p
  <2>1. state[p] # "UNUSED"
    BY <1>1, <1>3 DEF InTree, Family, LiveStates
  <2>2. pid[p] \in 0..MaxPid /\ pid[p] # 0
    BY <1>1, <2>1 DEF ProcTypeOK
  <2>3. pid[p] \in Pids
    BY <2>2, TableAssumption DEF Pids
  <2> QED
    BY <1>1, <2>1, <2>2, <2>3 DEF Identities
<1>4. ASSUME NEW p \in ProcSlots, InTree(p)
      PROVE  ParentOf(p) \in ProcSlots /\ InTree(ParentOf(p)) /\ ~Exiting(ParentOf(p))
  <2>1. CASE p = InitSlot \/ Exiting(parent[p])
    BY <1>2, <2>1, SlotFacts DEF ParentOf
  <2>2. CASE p # InitSlot /\ ~Exiting(parent[p])
    <3>1. parent[p] \in ProcSlots /\ ParentOf(p) = parent[p]
      BY <1>1, <1>4, <2>2 DEF ParentOf, InTree, ProcTypeOK
    <3>2. state[parent[p]] \in LiveStates
      BY <1>1, <3>1, SlotFacts DEF Family
    <3>3. InTree(parent[p])
      BY <1>1, <3>1, <3>2 DEF InTree, Family
    <3> QED
      BY <2>2, <3>1, <3>3
  <2> QED
    BY <2>1, <2>2
<1> QED
  BY <1>2, <1>3, <1>4

\* The tree, slot by slot.
SlotView ==
  /\ \A v : v \in DOMAIN TreeParent <=> \E p \in ProcSlots : InTree(p) /\ v = pid[p]
  /\ \A p \in ProcSlots : InTree(p) =>
       /\ TreeParent[pid[p]] = pid[ParentOf(p)]
       /\ pid[p] \in TreeZombies <=> Exiting(p)
       /\ pid[p] \in TreeKilled <=> killed[p]
  /\ \A v : v \in TreeZombies <=> \E p \in ProcSlots : InTree(p) /\ v = pid[p] /\ Exiting(p)
  /\ \A v : v \in TreeKilled <=> \E p \in ProcSlots : InTree(p) /\ v = pid[p] /\ killed[p]
  /\ TreeParent = [v \in DOMAIN TreeParent |-> TreeParent[v]]
LEMMA View == IndInv => SlotView
<1> SUFFICES ASSUME IndInv PROVE SlotView
  OBVIOUS
<1>1. DOMAIN TreeParent = PidsOf(ProcSlots) /\ TreeParent = [v \in DOMAIN TreeParent |-> TreeParent[v]]
  BY DEF TreeParent
<1>2. \A v : v \in DOMAIN TreeParent <=> \E p \in ProcSlots : InTree(p) /\ v = pid[p]
  BY <1>1 DEF PidsOf
<1>3. ASSUME NEW p \in ProcSlots, InTree(p)
      PROVE  TreeParent[pid[p]] = pid[ParentOf(p)]
  <2>1. \A q \in ProcSlots : pid[q] = pid[p] => q = p
    BY <1>3, InTreeFacts
  <2>2. SlotOf(pid[p]) = p
    BY <1>3, <2>1 DEF SlotOf
  <2>3. pid[p] \in PidsOf(ProcSlots)
    BY <1>3 DEF PidsOf
  <2> QED
    BY <2>2, <2>3 DEF TreeParent
<1>4. \A v : v \in TreeZombies <=> \E p \in ProcSlots : InTree(p) /\ v = pid[p] /\ Exiting(p)
  BY DEF TreeZombies, PidsOf
<1>5. \A v : v \in TreeKilled <=> \E p \in ProcSlots : InTree(p) /\ v = pid[p] /\ killed[p]
  BY DEF TreeKilled, PidsOf
<1>6. \A p, q \in ProcSlots : InTree(p) /\ InTree(q) /\ pid[p] = pid[q] => p = q
  BY InTreeFacts
<1> QED
  BY <1>1, <1>2, <1>3, <1>4, <1>5, <1>6 DEF SlotView

\* What a step does to the tree follows from what it does to the slots.
LEMMA SameTree ==
  ASSUME IndInv, IndInv', \A p \in ProcSlots : InTree(p)' <=> InTree(p),
         \A p \in ProcSlots : InTree(p) => /\ pid'[p] = pid[p]
                                           /\ ParentOf(p)' = ParentOf(p)
                                           /\ Exiting(p)' <=> Exiting(p)
                                           /\ killed'[p] = killed[p]
  PROVE  UNCHANGED Tree!vars
<1>1. SlotView /\ SlotView'
  BY View, PTL
<1>2. DOMAIN TreeParent' = DOMAIN TreeParent
  BY <1>1 DEF SlotView
<1>3. \A v \in DOMAIN TreeParent : TreeParent'[v] = TreeParent[v]
  <2> SUFFICES ASSUME NEW p \in ProcSlots, InTree(p) PROVE TreeParent'[pid[p]] = TreeParent[pid[p]]
    BY <1>1 DEF SlotView
  <2>1. ParentOf(p) \in ProcSlots /\ InTree(ParentOf(p))
    BY InTreeFacts
  <2>2. TreeParent'[pid'[p]] = pid'[ParentOf(p)']
    BY <1>1 DEF SlotView
  <2> QED
    BY <1>1, <2>1, <2>2 DEF SlotView
<1>4. TreeParent' = TreeParent
  BY <1>1, <1>2, <1>3 DEF SlotView
<1>5. TreeZombies' = TreeZombies
  <2>1. \A v : v \in TreeZombies' <=> v \in TreeZombies
    BY <1>1 DEF SlotView
  <2> QED
    BY <2>1
<1>6. TreeKilled' = TreeKilled
  <2>1. \A v : v \in TreeKilled' <=> v \in TreeKilled
    BY <1>1 DEF SlotView
  <2> QED
    BY <2>1
<1> QED
  BY <1>4, <1>5, <1>6 DEF Tree!vars

LEMMA SameSlots ==
  ASSUME IndInv, IndInv', UNCHANGED <<parent, pid, killed>>,
         \A p \in ProcSlots : Exiting(p)' <=> Exiting(p)
  PROVE  UNCHANGED Tree!vars
<1>1. \A p \in ProcSlots : InTree(p)' <=> InTree(p)
  BY DEF InTree
<1>2. ASSUME NEW p \in ProcSlots, InTree(p) PROVE ParentOf(p)' = ParentOf(p)
  <2>1. p = InitSlot \/ parent[p] \in ProcSlots
    BY <1>2 DEF IndInv, ProcTypeOK, InTree
  <2> QED
    BY <2>1 DEF ParentOf
<1> QED
  BY <1>1, <1>2, SameTree

LEMMA SwitchInSilent == ASSUME IndInv, NEW c \in CPUs, NEW p \in ProcSlots, SwitchIn(c, p)
  PROVE  UNCHANGED Tree!vars
<1>1. UNCHANGED <<parent, pid, killed>>
  BY DEF SwitchIn, ptable
<1>2. \A q \in ProcSlots : Exiting(q)' <=> Exiting(q)
  BY DEF IndInv, ProcTypeOK, SwitchIn, Idle, Free, SetState, Lock, ptable, locks, Exiting, Places
<1> QED
  BY <1>1, <1>2, SwitchInInv, SameSlots

LEMMA ResumeSilent == ASSUME IndInv, NEW c \in CPUs, NEW p \in ProcSlots, Resume(c, p)
  PROVE  UNCHANGED Tree!vars
<1>1. UNCHANGED <<parent, pid, killed>>
  BY DEF Resume, ptable
<1>2. \A q \in ProcSlots : Exiting(q)' <=> Exiting(q)
  BY DEF IndInv, ProcTypeOK, Resume, Unlock, KGoto, ptable, locks, Exiting, Places
<1> QED
  BY <1>1, <1>2, ResumeInv, SameSlots

LEMMA SwitchOutSilent == ASSUME IndInv, NEW c \in CPUs, NEW p \in ProcSlots, SwitchOut(c, p)
  PROVE  UNCHANGED Tree!vars
<1>1. UNCHANGED <<parent, pid, killed>>
  BY DEF SwitchOut, ptable
<1>2. \A q \in ProcSlots : Exiting(q)' <=> Exiting(q)
  BY DEF IndInv, ProcTypeOK, SwitchOut, Unlock, ptable, locks, Exiting, Places
<1> QED
  BY <1>1, <1>2, SwitchOutInv, SameSlots

LEMMA YieldSilent == ASSUME IndInv, NEW c \in CPUs, NEW p \in ProcSlots, Yield(c, p)
  PROVE  UNCHANGED Tree!vars
<1>1. UNCHANGED <<parent, pid, killed>>
  BY DEF Yield, ptable
<1>2. \A q \in ProcSlots : Exiting(q)' <=> Exiting(q)
  BY DEF IndInv, ProcTypeOK, Yield, Runs, NoLock, Free, SetState, Lock, ptable, locks,
     Exiting, Places
<1> QED
  BY <1>1, <1>2, YieldInv, SameSlots

LEMMA SyscallSilent == ASSUME IndInv, NEW c \in CPUs, NEW p \in ProcSlots,
         NEW call \in {"fork", "exit", "wait"}, Syscall(c, p, call)
  PROVE  UNCHANGED Tree!vars
<1>1. UNCHANGED <<parent, pid, killed>>
  BY DEF Syscall, ptable
<1>2. \A q \in ProcSlots : Exiting(q)' <=> Exiting(q)
  BY DEF IndInv, ProcTypeOK, Syscall, Runs, KGoto, Start, ptable, locks, Exiting, Places
<1> QED
  BY <1>1, <1>2, SyscallInv, SameSlots

LEMMA AllocNextSilent == ASSUME IndInv, NEW c \in CPUs, NEW p \in ProcSlots, AllocNext(c, p)
  PROVE  UNCHANGED Tree!vars
<1>1. UNCHANGED <<parent, pid, killed>>
  BY DEF AllocNext, ptable
<1>2. \A q \in ProcSlots : Exiting(q)' <=> Exiting(q)
  BY DEF IndInv, ProcTypeOK, AllocNext, Runs, Free, Step, ptable, locks, Exiting, Places
<1> QED
  BY <1>1, <1>2, AllocNextInv, SameSlots

LEMMA AllocFailsSilent == ASSUME IndInv, NEW c \in CPUs, NEW p \in ProcSlots, AllocFails(c, p)
  PROVE  UNCHANGED Tree!vars
<1>1. UNCHANGED <<parent, pid, killed>>
  BY DEF AllocFails, ptable
<1>2. \A q \in ProcSlots : Exiting(q)' <=> Exiting(q)
  BY DEF IndInv, ProcTypeOK, AllocFails, Runs, Done, KGoto, ptable, locks, Exiting, Places
<1> QED
  BY <1>1, <1>2, AllocFailsInv, SameSlots

LEMMA CopyDoneSilent == ASSUME IndInv, NEW c \in CPUs, NEW p \in ProcSlots, CopyDone(c, p)
  PROVE  UNCHANGED Tree!vars
<1>1. UNCHANGED <<parent, pid, killed>>
  BY DEF CopyDone, ptable
<1>2. \A q \in ProcSlots : Exiting(q)' <=> Exiting(q)
  BY DEF IndInv, ProcTypeOK, CopyDone, Runs, AfterCopy, Unlock, KGoto, ptable, locks, Exiting,
     Places
<1> QED
  BY <1>1, <1>2, CopyDoneInv, SameSlots

LEMMA ForkDoneSilent == ASSUME IndInv, NEW c \in CPUs, NEW p \in ProcSlots, ForkDone(c, p)
  PROVE  UNCHANGED Tree!vars
<1>1. UNCHANGED <<parent, pid, killed>>
  BY DEF ForkDone, ptable
<1>2. \A q \in ProcSlots : Exiting(q)' <=> Exiting(q)
  BY DEF IndInv, ProcTypeOK, ForkDone, Runs, Free, SetState, Unlock, KGoto, Done, ptable,
     locks, Exiting, Places, Forks, Forking
<1> QED
  BY <1>1, <1>2, ForkDoneInv, SameSlots

LEMMA ExitPanicSilent == ASSUME IndInv, NEW c \in CPUs, NEW p \in ProcSlots, ExitPanic(c, p)
  PROVE  UNCHANGED Tree!vars
<1>1. UNCHANGED <<parent, pid, killed>>
  BY DEF ExitPanic, ptable
<1>2. \A q \in ProcSlots : Exiting(q)' <=> Exiting(q)
  BY DEF IndInv, ProcTypeOK, ExitPanic, Runs, KGoto, ptable, locks, Exiting, Places
<1> QED
  BY <1>1, <1>2, ExitPanicInv, SameSlots

LEMMA ReparentDoneSilent == ASSUME IndInv, NEW c \in CPUs, NEW p \in ProcSlots, ReparentDone(c, p)
  PROVE  UNCHANGED Tree!vars
<1>1. UNCHANGED <<parent, pid, killed>>
  BY DEF ReparentDone, ptable
<1>2. \A q \in ProcSlots : Exiting(q)' <=> Exiting(q)
  BY DEF IndInv, ProcTypeOK, ReparentDone, Runs, Children, KGoto, Start, ptable, locks,
     Exiting, Places
<1> QED
  BY <1>1, <1>2, ReparentDoneInv, SameSlots

LEMMA WakeupSlotSilent == ASSUME IndInv, NEW c \in CPUs, NEW p \in ProcSlots, WakeupSlot(c, p)
  PROVE  UNCHANGED Tree!vars
<1>1. UNCHANGED <<parent, pid, killed>>
  BY DEF WakeupSlot, ptable
<1>2. \A q \in ProcSlots : Exiting(q)' <=> Exiting(q)
  BY DEF IndInv, ProcTypeOK, WakeupSlot, Runs, Free, ChannelOf, SetState, Step, ptable,
     locks, Exiting, Places
<1> QED
  BY <1>1, <1>2, WakeupSlotInv, SameSlots

LEMMA WakeupDoneSilent == ASSUME IndInv, NEW c \in CPUs, NEW p \in ProcSlots, WakeupDone(c, p)
  PROVE  UNCHANGED Tree!vars
<1>1. UNCHANGED <<parent, pid, killed>>
  BY DEF WakeupDone, ptable
<1>2. \A q \in ProcSlots : Exiting(q)' <=> Exiting(q)
  BY DEF IndInv, ProcTypeOK, WakeupDone, Runs, KGoto, Done, ptable, locks, Exiting, Places
<1> QED
  BY <1>1, <1>2, WakeupDoneInv, SameSlots

LEMMA DieSilent == ASSUME IndInv, NEW c \in CPUs, NEW p \in ProcSlots, Die(c, p)
  PROVE  UNCHANGED Tree!vars
<1>1. UNCHANGED <<parent, pid, killed>>
  BY DEF Die, ptable
<1>2. \A q \in ProcSlots : Exiting(q)' <=> Exiting(q)
  BY DEF IndInv, ProcTypeOK, Die, Runs, Free, SetState, Lock, KGoto, ptable, locks, Exiting,
     Places
<1> QED
  BY <1>1, <1>2, DieInv, SameSlots

LEMMA WaitLockSilent == ASSUME IndInv, NEW c \in CPUs, NEW p \in ProcSlots, WaitLock(c, p)
  PROVE  UNCHANGED Tree!vars
<1>1. UNCHANGED <<parent, pid, killed>>
  BY DEF WaitLock, ptable
<1>2. \A q \in ProcSlots : Exiting(q)' <=> Exiting(q)
  BY DEF IndInv, ProcTypeOK, WaitLock, Runs, KGoto, Start, ptable, locks, Exiting, Places
<1> QED
  BY <1>1, <1>2, WaitLockInv, SameSlots

LEMMA ScanNextSilent == ASSUME IndInv, NEW c \in CPUs, NEW p \in ProcSlots, ScanNext(c, p)
  PROVE  UNCHANGED Tree!vars
<1>1. UNCHANGED <<parent, pid, killed>>
  BY DEF ScanNext, ptable
<1>2. \A q \in ProcSlots : Exiting(q)' <=> Exiting(q)
  BY DEF IndInv, ProcTypeOK, ScanNext, Runs, ChildLockFree, Free, Step, ptable, locks,
     Exiting, Places
<1> QED
  BY <1>1, <1>2, ScanNextInv, SameSlots

LEMMA CopyoutFailsSilent == ASSUME IndInv, NEW c \in CPUs, NEW p \in ProcSlots, CopyoutFails(c, p)
  PROVE  UNCHANGED Tree!vars
<1>1. UNCHANGED <<parent, pid, killed>>
  BY DEF CopyoutFails, ptable
<1>2. \A q \in ProcSlots : Exiting(q)' <=> Exiting(q)
  BY DEF IndInv, ProcTypeOK, CopyoutFails, Runs, FoundZombie, WaitReturn, KGoto, Done, ptable,
     locks, Exiting, Places
<1> QED
  BY <1>1, <1>2, CopyoutFailsInv, SameSlots

LEMMA WaitFailsSilent == ASSUME IndInv, NEW c \in CPUs, NEW p \in ProcSlots, WaitFails(c, p)
  PROVE  UNCHANGED Tree!vars
<1>1. UNCHANGED <<parent, pid, killed>>
  BY DEF WaitFails, ptable
<1>2. \A q \in ProcSlots : Exiting(q)' <=> Exiting(q)
  BY DEF IndInv, ProcTypeOK, WaitFails, Runs, WaitReturn, KGoto, Done, ptable, locks, Exiting,
     Places
<1> QED
  BY <1>1, <1>2, WaitFailsInv, SameSlots

LEMMA WaitSleepSilent == ASSUME IndInv, NEW c \in CPUs, NEW p \in ProcSlots, WaitSleep(c, p)
  PROVE  UNCHANGED Tree!vars
<1>1. UNCHANGED <<parent, pid, killed>>
  BY DEF WaitSleep, ptable
<1>2. \A q \in ProcSlots : Exiting(q)' <=> Exiting(q)
  BY DEF IndInv, ProcTypeOK, WaitSleep, Runs, Free, Lock, SetState, KGoto, Done, ptable,
     locks, Exiting, Places
<1> QED
  BY <1>1, <1>2, WaitSleepInv, SameSlots

LEMMA KillCallSilent == ASSUME IndInv, NEW c \in CPUs, NEW p \in ProcSlots,
         NEW v \in KillPids, KillCall(c, p, v)
  PROVE  UNCHANGED Tree!vars
<1>1. UNCHANGED <<parent, pid, killed>>
  BY DEF KillCall, ptable
<1>2. \A q \in ProcSlots : Exiting(q)' <=> Exiting(q)
  BY DEF IndInv, ProcTypeOK, KillCall, Runs, KGoto, Start, ptable, locks, Exiting, Places
<1> QED
  BY <1>1, <1>2, KillCallInv, SameSlots

LEMMA KillNextSilent == ASSUME IndInv, NEW c \in CPUs, NEW p \in ProcSlots, KillNext(c, p)
  PROVE  UNCHANGED Tree!vars
<1>1. UNCHANGED <<parent, pid, killed>>
  BY DEF KillNext, ptable
<1>2. \A q \in ProcSlots : Exiting(q)' <=> Exiting(q)
  BY DEF IndInv, ProcTypeOK, KillNext, Runs, Free, Step, ptable, locks, Exiting, Places
<1> QED
  BY <1>1, <1>2, KillNextInv, SameSlots

LEMMA KillFailsSilent == ASSUME IndInv, NEW c \in CPUs, NEW p \in ProcSlots, KillFails(c, p)
  PROVE  UNCHANGED Tree!vars
<1>1. UNCHANGED <<parent, pid, killed>>
  BY DEF KillFails, ptable
<1>2. \A q \in ProcSlots : Exiting(q)' <=> Exiting(q)
  BY DEF IndInv, ProcTypeOK, KillFails, Runs, KillReturn, KGoto, Done, ptable, locks, Exiting,
     Places
<1> QED
  BY <1>1, <1>2, KillFailsInv, SameSlots

\* Steps at slots that are not in the tree, and the move to init of a child
\* whose parent is on its way out.
LEMMA AllocFoundSilent == ASSUME IndInv, NEW c \in CPUs, NEW p \in ProcSlots, AllocFound(c, p)
  PROVE  UNCHANGED Tree!vars
<1>1. /\ UNCHANGED <<parent, killed>> /\ pid' = [pid EXCEPT ![k[p]] = nextpid]
      /\ state' = [state EXCEPT ![k[p]] = "USED"] /\ kpc' = [kpc EXCEPT ![p] = "copy"]
      /\ k[p] \in ProcSlots /\ state[k[p]] = "UNUSED" /\ kpc[p] = "fork"
  BY DEF AllocFound, SetState, KGoto
<1>2. ProcTypeOK /\ Family
  BY DEF IndInv
<1>3. ~InTree(k[p])
  BY <1>1, InTreeFacts
<1>4. \A q \in ProcSlots : Exiting(q)' <=> Exiting(q)
  BY <1>1, <1>2 DEF ProcTypeOK, Exiting
<1>5. \A q \in ProcSlots : InTree(q)' <=> InTree(q)
  BY <1>1 DEF InTree
<1>6. ASSUME NEW q \in ProcSlots, InTree(q) PROVE pid'[q] = pid[q] /\ ParentOf(q)' = ParentOf(q)
  <2>1. q = InitSlot \/ parent[q] \in ProcSlots
    BY <1>2, <1>6 DEF ProcTypeOK, InTree
  <2> QED
    BY <1>1, <1>2, <1>3, <1>4, <1>6, <2>1 DEF ParentOf, ProcTypeOK
<1> QED
  BY <1>1, <1>4, <1>5, <1>6, AllocFoundInv, SameTree

LEMMA CopyFailsSilent == ASSUME IndInv, NEW c \in CPUs, NEW p \in ProcSlots, CopyFails(c, p)
  PROVE  UNCHANGED Tree!vars
<1>1. ProcTypeOK /\ Family /\ Forks
  BY DEF IndInv
<1>2. k[p] \in ProcSlots /\ state[k[p]] = "USED" /\ parent[k[p]] = 0 /\ k[p] # InitSlot
  BY <1>1 DEF CopyFails, Forks, Forking, Family, LiveStates
<1>3. /\ pid' = [pid EXCEPT ![k[p]] = 0] /\ parent' = [parent EXCEPT ![k[p]] = 0]
      /\ killed' = [killed EXCEPT ![k[p]] = FALSE] /\ state' = [state EXCEPT ![k[p]] = "UNUSED"]
      /\ kpc' = [kpc EXCEPT ![p] = "user"] /\ kpc[p] = "copy"
  BY DEF CopyFails, FreeProc, ClearPid, ClearParent, ClearKilled, SetState, KGoto
<1>4. \A q \in ProcSlots : Exiting(q)' <=> Exiting(q)
  BY <1>1, <1>2, <1>3 DEF ProcTypeOK, Exiting
<1>5. parent' = parent
  BY <1>1, <1>2, <1>3 DEF ProcTypeOK
<1>6. ~InTree(k[p]) /\ \A q \in ProcSlots : InTree(q)' <=> InTree(q)
  BY <1>2, <1>5 DEF InTree
<1>7. ASSUME NEW q \in ProcSlots, InTree(q)
      PROVE  pid'[q] = pid[q] /\ killed'[q] = killed[q] /\ ParentOf(q)' = ParentOf(q)
  <2>1. q = InitSlot \/ parent[q] \in ProcSlots
    BY <1>1, <1>7 DEF ProcTypeOK, InTree
  <2>2. ParentOf(q)' = ParentOf(q)
    BY <1>4, <1>5, <2>1 DEF ParentOf
  <2> QED
    BY <1>1, <1>3, <1>6, <1>7, <2>2 DEF ProcTypeOK
<1> QED
  BY <1>4, <1>6, <1>7, CopyFailsInv, SameTree

LEMMA ReparentSilent == ASSUME IndInv, NEW c \in CPUs, NEW p \in ProcSlots, Reparent(c, p)
  PROVE  UNCHANGED Tree!vars
<1>1. ProcTypeOK /\ Family
  BY DEF IndInv
<1>2. PICK q \in ProcSlots : parent[q] = p /\ parent' = [parent EXCEPT ![q] = InitSlot]
  BY DEF Reparent, Children
<1>3. /\ UNCHANGED <<state, pid, killed>> /\ kpc[p] = "reparent"
      /\ kpc' = [kpc EXCEPT ![p] = "wakeInit"]
  BY DEF Reparent, KGoto
<1>4. /\ Exiting(p) /\ Exiting(p)' /\ \A r \in ProcSlots : Exiting(r)' <=> Exiting(r)
  BY <1>1, <1>3 DEF ProcTypeOK, Exiting
<1>5. /\ InTree(q) /\ InTree(q)' /\ \A r \in ProcSlots \ {q} : parent'[r] = parent[r]
      /\ \A r \in ProcSlots : InTree(r)' <=> InTree(r)
  BY <1>1, <1>2, SlotFacts DEF ProcTypeOK, InTree
<1>6. ASSUME NEW r \in ProcSlots, InTree(r) PROVE ParentOf(r)' = ParentOf(r)
  <2>1. CASE r = q
    BY <1>1, <1>2, <1>4, <2>1 DEF ParentOf, ProcTypeOK
  <2>2. CASE r # q
    <3>1. r = InitSlot \/ parent[r] \in ProcSlots
      BY <1>1, <1>6 DEF ProcTypeOK, InTree
    <3> QED
      BY <1>4, <1>5, <2>2, <3>1 DEF ParentOf
  <2> QED
    BY <2>1, <2>2
<1> QED
  BY <1>3, <1>4, <1>5, <1>6, ReparentInv, SameTree

\* The steps of the tree.
LEMMA SetParentForks == ASSUME IndInv, NEW c \in CPUs, NEW p \in ProcSlots, SetParent(c, p)
  PROVE  Tree!Next
<1>1. ProcTypeOK /\ Forks /\ Family /\ Identities /\ IndInv'
  BY SetParentInv DEF IndInv
<1>2. PICK q \in ProcSlots : q = k[p] /\ state[q] = "USED" /\ parent[q] = 0 /\ q # InitSlot
  BY <1>1 DEF SetParent, Forks, Forking, Family, LiveStates
<1>3. /\ UNCHANGED <<state, pid, killed>> /\ parent' = [parent EXCEPT ![q] = p]
      /\ kpc' = [kpc EXCEPT ![p] = "ready"] /\ kpc[p] = "adopt" /\ state[p] = "RUNNING"
  BY <1>2 DEF SetParent, KGoto, Runs
<1>4. InTree(p) /\ ~Exiting(p)
  BY <1>1, <1>3 DEF InTree, Exiting, Family, LiveStates
<1>5. \A r \in ProcSlots : Exiting(r)' <=> Exiting(r)
  BY <1>1, <1>3 DEF ProcTypeOK, Exiting
<1>6. /\ ~InTree(q) /\ InTree(q)' /\ \A r \in ProcSlots \ {q} : parent'[r] = parent[r]
      /\ \A r \in ProcSlots \ {q} : InTree(r)' <=> InTree(r)
  BY <1>1, <1>2, <1>3, SlotFacts DEF ProcTypeOK, InTree
<1>7. ParentOf(q)' = p
  BY <1>1, <1>2, <1>3, <1>4, <1>5 DEF ParentOf, ProcTypeOK
<1>8. ASSUME NEW r \in ProcSlots, InTree(r) PROVE ParentOf(r)' = ParentOf(r)
  <2>1. r = InitSlot \/ parent[r] \in ProcSlots
    BY <1>1, <1>8 DEF ProcTypeOK, InTree
  <2> QED
    BY <1>5, <1>6, <1>8, <2>1 DEF ParentOf
<1>9. SlotView /\ SlotView'
  BY <1>1, View, PTL
<1>10. pid[p] \in Tree!Live /\ pid[q] \notin Tree!Existing
  <2>1. pid[p] \in DOMAIN TreeParent /\ pid[p] \notin TreeZombies
    BY <1>4, <1>9 DEF SlotView
  <2>2. \A r \in ProcSlots : InTree(r) => pid[r] # pid[q]
    BY <1>2, <1>6, InTreeFacts
  <2>3. pid[q] \notin DOMAIN TreeParent
    BY <1>9, <2>2 DEF SlotView
  <2> QED
    BY <2>1, <2>3 DEF Tree!Live, Tree!Existing
<1>11. \A v : v \in DOMAIN TreeParent' <=> v \in DOMAIN TreeParent \cup {pid[q]}
  BY <1>2, <1>3, <1>6, <1>9 DEF SlotView
<1>12. \A v \in DOMAIN TreeParent : TreeParent'[v] = TreeParent[v] /\ v # pid[q]
  <2> SUFFICES ASSUME NEW r \in ProcSlots, InTree(r)
               PROVE  TreeParent'[pid[r]] = TreeParent[pid[r]] /\ pid[r] # pid[q]
    BY <1>9 DEF SlotView
  <2>1. r # q /\ InTree(r)' /\ pid'[r] = pid[r]
    BY <1>3, <1>6
  <2>2. ParentOf(r) \in ProcSlots /\ pid[r] # pid[q]
    BY <1>2, <2>1, InTreeFacts
  <2>3. TreeParent'[pid'[r]] = pid'[ParentOf(r)'] /\ TreeParent[pid[r]] = pid[ParentOf(r)]
    BY <1>9, <2>1 DEF SlotView
  <2> QED
    BY <1>3, <1>8, <2>1, <2>2, <2>3
<1>13. TreeParent'[pid[q]] = pid[p]
  BY <1>2, <1>3, <1>6, <1>7, <1>9 DEF SlotView
<1>14. TreeParent' = [v \in Tree!Existing \cup {pid[q]} |->
                        IF v = pid[q] THEN pid[p] ELSE TreeParent[v]]
  <2>1. DOMAIN TreeParent' = DOMAIN TreeParent \cup {pid[q]}
    BY <1>11
  <2>2. TreeParent' = [v \in DOMAIN TreeParent' |-> TreeParent'[v]]
    BY <1>9 DEF SlotView
  <2> QED
    BY <1>12, <1>13, <2>1, <2>2 DEF Tree!Existing
<1>15. TreeZombies' = TreeZombies
  <2>1. ~Exiting(q)
    BY <1>1, <1>2 DEF Exiting, IndInv, Places
  <2>2. \A v : v \in TreeZombies' <=> v \in TreeZombies
    BY <1>3, <1>5, <1>6, <1>9, <2>1 DEF SlotView
  <2> QED
    BY <2>2
<1>16. TreeKilled' \in {TreeKilled, TreeKilled \cup {pid[q]}}
  <2>1. \A v : v \in TreeKilled' <=> v \in TreeKilled \/ (v = pid[q] /\ killed[q])
    BY <1>2, <1>3, <1>6, <1>9 DEF SlotView
  <2>2. TreeKilled' = TreeKilled \/ TreeKilled' = TreeKilled \cup {pid[q]}
    BY <2>1
  <2> QED
    BY <2>2
<1>17. Tree!Fork(pid[p], pid[q])
  BY <1>10, <1>14, <1>15, <1>16 DEF Tree!Fork
<1>18. pid[p] \in Pids /\ pid[q] \in Pids
  <2>1. pid[q] \in 0..MaxPid /\ pid[q] # 0
    BY <1>1, <1>2 DEF ProcTypeOK
  <2>2. pid[q] \in Pids
    BY <2>1, TableAssumption DEF Pids
  <2> QED
    BY <1>4, <2>2, InTreeFacts
<1> QED
  BY <1>17, <1>18 DEF Tree!Next

LEMMA ExitLockExits == ASSUME IndInv, NEW c \in CPUs, NEW p \in ProcSlots, ExitLock(c, p)
  PROVE  Tree!Next
<1>1. ProcTypeOK /\ Family /\ IndInv'
  BY ExitLockInv DEF IndInv
<1>2. /\ UNCHANGED <<parent, state, pid, killed>> /\ kpc' = [kpc EXCEPT ![p] = "reparent"]
      /\ kpc[p] = "exit" /\ state[p] = "RUNNING" /\ p # InitSlot
  BY DEF ExitLock, KGoto, Runs, ptable
<1>3. InTree(p) /\ ~Exiting(p) /\ pid[p] \in Pids
  BY <1>1, <1>2, InTreeFacts DEF InTree, Exiting, Family, LiveStates
<1>4. Exiting(p)' /\ \A r \in ProcSlots \ {p} : Exiting(r)' <=> Exiting(r)
  BY <1>1, <1>2 DEF ProcTypeOK, Exiting
<1>5. \A r \in ProcSlots : InTree(r)' <=> InTree(r)
  BY <1>2 DEF InTree
<1>6. ASSUME NEW r \in ProcSlots, InTree(r)
      PROVE  ParentOf(r)' = IF ParentOf(r) = p THEN InitSlot ELSE ParentOf(r)
  <2>1. CASE r = InitSlot
    BY <1>2, <2>1 DEF ParentOf
  <2>2. CASE r # InitSlot
    <3>1. parent[r] \in ProcSlots
      BY <1>1, <1>6, <2>2 DEF ProcTypeOK, InTree
    <3> QED
      BY <1>2, <1>3, <1>4, <2>2, <3>1 DEF ParentOf
  <2> QED
    BY <2>1, <2>2
<1>7. SlotView /\ SlotView'
  BY <1>1, View, PTL
<1>8. pid[p] \in Tree!Live /\ pid[p] # 1
  BY <1>2, <1>3, <1>7, InTreeFacts, SlotFacts DEF SlotView, Tree!Live, Tree!Existing
<1>9. TreeZombies' = TreeZombies \cup {pid[p]}
  <2>1. \A v : v \in TreeZombies' <=> v \in TreeZombies \/ v = pid[p]
    BY <1>2, <1>3, <1>4, <1>5, <1>7 DEF SlotView
  <2> QED
    BY <2>1
<1>10. TreeKilled' = TreeKilled
  <2>1. \A v : v \in TreeKilled' <=> v \in TreeKilled
    BY <1>2, <1>5, <1>7 DEF SlotView
  <2> QED
    BY <2>1
<1>11. \A v \in DOMAIN TreeParent :
          TreeParent'[v] = IF TreeParent[v] = pid[p] THEN 1 ELSE TreeParent[v]
  <2> SUFFICES ASSUME NEW r \in ProcSlots, InTree(r)
               PROVE  TreeParent'[pid[r]] = IF TreeParent[pid[r]] = pid[p] THEN 1
                                            ELSE TreeParent[pid[r]]
    BY <1>7 DEF SlotView
  <2>1. ParentOf(r) \in ProcSlots /\ pid[InitSlot] = 1
    BY InTreeFacts
  <2>2. pid[ParentOf(r)] = pid[p] <=> ParentOf(r) = p
    BY <1>3, <2>1, InTreeFacts
  <2>3. TreeParent'[pid[r]] = pid[ParentOf(r)'] /\ TreeParent[pid[r]] = pid[ParentOf(r)]
    BY <1>2, <1>5, <1>7 DEF SlotView
  <2> QED
    BY <1>6, <2>1, <2>2, <2>3
<1>12. TreeParent' = [v \in Tree!Existing |->
                        IF TreeParent[v] = pid[p] THEN 1 ELSE TreeParent[v]]
  <2>1. \A v : v \in DOMAIN TreeParent' <=> v \in DOMAIN TreeParent
    BY <1>2, <1>5, <1>7 DEF SlotView
  <2>2. TreeParent' = [v \in DOMAIN TreeParent' |-> TreeParent'[v]]
    BY <1>7 DEF SlotView
  <2> QED
    BY <1>11, <2>1, <2>2 DEF Tree!Existing
<1>13. Tree!Exit(pid[p])
  BY <1>8, <1>9, <1>10, <1>12 DEF Tree!Exit
<1> QED
  BY <1>3, <1>13 DEF Tree!Next

LEMMA ReapWaits == ASSUME IndInv, NEW c \in CPUs, NEW p \in ProcSlots, Reap(c, p)
  PROVE  Tree!Next
<1>1. ProcTypeOK /\ Family /\ Places /\ IndInv'
  BY ReapInv DEF IndInv
<1>2. PICK q \in ProcSlots : q = k[p] /\ parent[q] = p /\ state[q] = "ZOMBIE" /\ kpc[q] = "user"
  BY <1>1 DEF Reap, FoundZombie, Places
<1>3. /\ pid' = [pid EXCEPT ![q] = 0] /\ parent' = [parent EXCEPT ![q] = 0]
      /\ killed' = [killed EXCEPT ![q] = FALSE] /\ state' = [state EXCEPT ![q] = "UNUSED"]
      /\ kpc' = [kpc EXCEPT ![p] = "user"] /\ kpc[p] = "scan" /\ state[p] = "RUNNING"
  BY <1>2 DEF Reap, FreeProc, ClearPid, ClearParent, ClearKilled, SetState, WaitReturn,
     KGoto,
     FoundZombie, Runs
<1>4. InTree(p) /\ ~Exiting(p) /\ InTree(q) /\ Exiting(q) /\ p # q /\ q # InitSlot
  BY <1>1, <1>2, <1>3, SlotFacts DEF InTree, Exiting, Family, LiveStates
<1>5. \A r \in ProcSlots \ {q} : Exiting(r)' <=> Exiting(r)
  BY <1>1, <1>2, <1>3 DEF ProcTypeOK, Exiting
<1>6. ~InTree(q)' /\ \A r \in ProcSlots \ {q} : InTree(r)' <=> InTree(r)
  BY <1>1, <1>3, <1>4 DEF ProcTypeOK, InTree
<1>7. ASSUME NEW r \in ProcSlots \ {q}, InTree(r)
      PROVE  ParentOf(r)' = ParentOf(r) /\ ParentOf(r) \in ProcSlots \ {q}
  <2>1. ParentOf(r) \in ProcSlots /\ ~Exiting(ParentOf(r))
    BY <1>7, InTreeFacts
  <2>2. r # InitSlot => parent[r] \in ProcSlots /\ parent[r] # q
    BY <1>1, <1>2, <1>7 DEF ProcTypeOK, InTree, Family, LiveStates
  <2>3. parent'[r] = parent[r]
    BY <1>1, <1>3, <1>7 DEF ProcTypeOK
  <2> QED
    BY <1>4, <1>5, <2>1, <2>2, <2>3 DEF ParentOf
<1>8. SlotView /\ SlotView'
  BY <1>1, View, PTL
<1>9. ParentOf(q) = p
  BY <1>2, <1>4 DEF ParentOf
<1>10. \A r \in ProcSlots \ {q} : pid'[r] = pid[r] /\ killed'[r] = killed[r]
  BY <1>1, <1>3 DEF ProcTypeOK
<1>11. \A r \in ProcSlots \ {q} : pid[r] # pid[q]
  BY <1>4, InTreeFacts
<1>12. /\ pid[p] \in Tree!Live /\ pid[q] \in TreeZombies /\ TreeParent[pid[q]] = pid[p]
       /\ pid[p] \in Pids /\ pid[q] \in Pids
  BY <1>4, <1>8, <1>9, InTreeFacts DEF SlotView, Tree!Live, Tree!Existing
<1>13. TreeZombies' = TreeZombies \ {pid[q]}
  <2>1. \A v : v \in TreeZombies' <=> v \in TreeZombies /\ v # pid[q]
    BY <1>5, <1>6, <1>8, <1>10, <1>11 DEF SlotView
  <2> QED
    BY <2>1
<1>14. TreeKilled' = TreeKilled \ {pid[q]}
  <2>1. \A v : v \in TreeKilled' <=> v \in TreeKilled /\ v # pid[q]
    BY <1>6, <1>8, <1>10, <1>11 DEF SlotView
  <2> QED
    BY <2>1
<1>15. TreeParent' = [v \in Tree!Existing \ {pid[q]} |-> TreeParent[v]]
  <2>1. \A v : v \in DOMAIN TreeParent' <=> v \in DOMAIN TreeParent /\ v # pid[q]
    BY <1>6, <1>8, <1>10, <1>11 DEF SlotView
  <2>2. TreeParent' = [v \in DOMAIN TreeParent' |-> TreeParent'[v]]
    BY <1>8 DEF SlotView
  <2>3. ASSUME NEW r \in ProcSlots \ {q}, InTree(r) PROVE TreeParent'[pid[r]] = TreeParent[pid[r]]
    <3>1. TreeParent'[pid'[r]] = pid'[ParentOf(r)'] /\ TreeParent[pid[r]] = pid[ParentOf(r)]
      BY <1>6, <1>8, <2>3 DEF SlotView
    <3> QED
      BY <1>7, <1>10, <2>3, <3>1
  <2>4. \A v \in DOMAIN TreeParent \ {pid[q]} : TreeParent'[v] = TreeParent[v]
    BY <1>8, <2>3 DEF SlotView
  <2> QED
    BY <2>1, <2>2, <2>4 DEF Tree!Existing
<1>16. Tree!Wait(pid[p], pid[q])
  BY <1>12, <1>13, <1>14, <1>15 DEF Tree!Wait
<1> QED
  BY <1>12, <1>16 DEF Tree!Next

LEMMA KillFoundKills == ASSUME IndInv, NEW c \in CPUs, NEW p \in ProcSlots, KillFound(c, p)
  PROVE  [Tree!Next]_Tree!vars
<1>1. ProcTypeOK /\ IndInv'
  BY KillFoundInv DEF IndInv
<1>2. PICK q \in ProcSlots : q = k[p]
  BY DEF KillFound
<1>3. /\ UNCHANGED <<parent, pid>> /\ killed' = [killed EXCEPT ![q] = TRUE]
      /\ kpc' = [kpc EXCEPT ![p] = "user"] /\ kpc[p] = "kill"
      /\ state' = [state EXCEPT ![q] = IF @ = "SLEEPING" THEN "RUNNABLE" ELSE @]
  BY <1>2 DEF KillFound, KillReturn, KGoto, SetState
<1>4. \A r \in ProcSlots : Exiting(r)' <=> Exiting(r)
  BY <1>1, <1>3 DEF ProcTypeOK, Exiting
<1>5. \A r \in ProcSlots : InTree(r)' <=> InTree(r)
  BY <1>3 DEF InTree
<1>6. ASSUME NEW r \in ProcSlots, InTree(r) PROVE ParentOf(r)' = ParentOf(r)
  <2>1. r = InitSlot \/ parent[r] \in ProcSlots
    BY <1>1, <1>6 DEF ProcTypeOK, InTree
  <2> QED
    BY <1>3, <1>4, <2>1 DEF ParentOf
<1>7. \A r \in ProcSlots \ {q} : killed'[r] = killed[r]
  BY <1>1, <1>3 DEF ProcTypeOK
<1>8. CASE ~InTree(q)
  BY <1>1, <1>3, <1>4, <1>5, <1>6, <1>7, <1>8, SameTree
<1>9. CASE InTree(q)
  <2>1. SlotView /\ SlotView'
    BY <1>1, View, PTL
  <2>2. killed'[q]
    BY <1>1, <1>3 DEF ProcTypeOK
  <2>3. TreeKilled' = TreeKilled \cup {pid[q]}
    <3>1. \A v : v \in TreeKilled' <=> v \in TreeKilled \/ v = pid[q]
      BY <1>3, <1>5, <1>7, <1>9, <2>1, <2>2 DEF SlotView
    <3> QED
      BY <3>1
  <2>4. TreeZombies' = TreeZombies
    <3>1. \A v : v \in TreeZombies' <=> v \in TreeZombies
      BY <1>3, <1>4, <1>5, <2>1 DEF SlotView
    <3> QED
      BY <3>1
  <2>5. TreeParent' = TreeParent
    <3>1. \A v : v \in DOMAIN TreeParent' <=> v \in DOMAIN TreeParent
      BY <1>3, <1>5, <2>1 DEF SlotView
    <3>2. ASSUME NEW r \in ProcSlots, InTree(r) PROVE TreeParent'[pid[r]] = TreeParent[pid[r]]
      BY <1>3, <1>5, <1>6, <2>1, <3>2 DEF SlotView
    <3>3. \A v \in DOMAIN TreeParent : TreeParent'[v] = TreeParent[v]
      BY <2>1, <3>2 DEF SlotView
    <3> QED
      BY <2>1, <3>1, <3>3 DEF SlotView
  <2>6. Tree!Kill(pid[q]) /\ pid[q] \in Pids
    BY <1>9, <2>1, <2>3, <2>4, <2>5, InTreeFacts DEF SlotView, Tree!Kill, Tree!Existing
  <2> QED
    BY <2>6 DEF Tree!Next
<1> QED
  BY <1>8, <1>9

LEMMA InitRefines == ProcInit => Tree!Init
<1> SUFFICES ASSUME ProcInit PROVE Tree!Init
  OBVIOUS
<1>1. IndInv /\ SlotView
  BY InitInv, View
<1>2. \A p \in ProcSlots : InTree(p) <=> p = InitSlot
  BY SlotFacts DEF ProcInit, InTree
<1>3. pid[InitSlot] = 1 /\ ParentOf(InitSlot) = InitSlot
  BY <1>1, InTreeFacts DEF ParentOf
<1>4. TreeParent = [v \in {1} |-> 1]
  <2>1. \A v : v \in DOMAIN TreeParent <=> v = 1
    BY <1>1, <1>2, <1>3, SlotFacts DEF SlotView
  <2>2. TreeParent[1] = 1 /\ TreeParent = [v \in DOMAIN TreeParent |-> TreeParent[v]]
    BY <1>1, <1>2, <1>3, SlotFacts DEF SlotView
  <2> QED
    BY <2>1, <2>2
<1>5. TreeZombies = {}
  BY <1>1, <1>2, InTreeFacts DEF SlotView
<1>6. TreeKilled = {}
  BY <1>1, <1>2, SlotFacts DEF SlotView, ProcInit
<1> QED
  BY <1>4, <1>5, <1>6 DEF Tree!Init

LEMMA StepRefines == IndInv /\ [ProcNext]_procVars => [Tree!Next]_Tree!vars
<1> SUFFICES ASSUME IndInv, [ProcNext]_procVars PROVE [Tree!Next]_Tree!vars
  OBVIOUS
<1>1. CASE ProcNext
  <2>1. PICK c \in CPUs, p \in ProcSlots :
          \/ Schedule(c, p) \/ Yield(c, p) \/ KernelStep(c, p)
          \/ \E call \in {"fork", "exit", "wait"} : Syscall(c, p, call)
          \/ \E v \in KillPids : KillCall(c, p, v)
    BY <1>1 DEF ProcNext
  <2>2. CASE Schedule(c, p)
    BY <2>2, SwitchInSilent, ResumeSilent, SwitchOutSilent DEF Schedule
  <2>3. CASE ForkStep(c, p)
    BY <2>3, AllocNextSilent, AllocFoundSilent, AllocFailsSilent, CopyFailsSilent,
       CopyDoneSilent, SetParentForks, ForkDoneSilent DEF ForkStep
  <2>4. CASE ExitStep(c, p)
    BY <2>4, ExitPanicSilent, ExitLockExits, ReparentSilent, ReparentDoneSilent,
       WakeupSlotSilent, WakeupDoneSilent, DieSilent DEF ExitStep
  <2>5. CASE WaitStep(c, p)
    BY <2>5, WaitLockSilent, ScanNextSilent, ReapWaits, CopyoutFailsSilent,
       WaitFailsSilent, WaitSleepSilent DEF WaitStep
  <2>6. CASE KillStep(c, p)
    BY <2>6, KillNextSilent, KillFoundKills, KillFailsSilent DEF KillStep
  <2> QED
    BY <2>1, <2>2, <2>3, <2>4, <2>5, <2>6, YieldSilent, SyscallSilent, KillCallSilent
       DEF KernelStep
<1>2. CASE UNCHANGED procVars
  <2>1. IndInv'
    BY <1>2, NextInv
  <2>2. UNCHANGED <<parent, pid, killed>> /\ \A q \in ProcSlots : Exiting(q)' <=> Exiting(q)
    BY <1>2 DEF procVars, ptable, Exiting
  <2> QED
    BY <2>1, <2>2, SameSlots
<1> QED
  BY <1>1, <1>2

\* The table, lock by lock and slot by slot, behaves as the tree of processes
\* that fork(), exit(), wait() and kill() promise.
THEOREM Refinement == ProcSpec => ImplementsProcTree
<1> QED
  BY InitRefines, StepRefines, Invariance, PTL DEF ProcSpec, ImplementsProcTree, Tree!Spec
=============================================================================
