--------------------------------- MODULE Trap ---------------------------------
(***************************************************************************)
(* How xv6 enters and leaves the kernel and moves from thread to thread:   *)
(* trap.c, trampoline.S, kernelvec.S, spinlock.c, the scheduler of proc.c, *)
(* start.c, main.c and the sleep system call of sysproc.c.  A thread is a  *)
(* process or the scheduler of a hart; an interrupt may hit it between any *)
(* two of its steps with SIE on, one hart's code in between runs at once   *)
(* where SIE is off and no other hart can see the difference.  What nobody *)
(* reads again (a trap frame's hartid, sepc after sret) is cleared.        *)
(***************************************************************************)
EXTENDS Naturals, FiniteSets

CONSTANTS NHart, NPROC,
          MaxSleep,     (* the longest sleep asked for, in ticks           *)
          Killable,     (* the processes somebody kills                    *)
          Devices       (* interrupts of the PLIC: UART0_IRQ, VIRTIO0_IRQ  *)
ASSUME TrapAssumption ==
  {NHart, NPROC} \subseteq Nat \ {0} /\ MaxSleep \in Nat /\ Killable \subseteq 0 .. NPROC - 1

VARIABLES
  csr,      (* of each hart: sie, spie, spp, sepc, stvec, ssip, and tp     *)
  cpus,     (* cpus[]: noff, intena, proc                                  *)
  cur,      (* the thread whose registers each hart has                    *)
  at,       (* where each thread is, below the handler of an interrupt     *)
  frame,    (* that handler: the locals of kerneltrap or of usertrap       *)
  saved,    (* intena, the local of sched                                  *)
  scan,     (* p, the local of each scheduler                              *)
  proc,     (* proc[]: state, killed, trapframe epc and kernel_hartid      *)
  lock,     (* of each p->lock and of tickslock: Free, or the cpu          *)
  nap,      (* of each sys_sleep: n, and ticks - ticks0 as far as n        *)
  upc,      (* the program counter of each process in user mode            *)
  plic,     (* interrupts that are pending, and that are claimed           *)
  started

machine == <<csr, cpus>>
threads == <<at, frame, saved, scan>>
devices == <<plic, started>>
vars == <<machine, cur, threads, proc, lock, nap, upc, devices>>
Harts == 0 .. NHart - 1
Procs == 0 .. NPROC - 1
SchedOf(c) == NPROC + c
Threads == 0 .. NPROC + NHart - 1
TicksLock == NPROC                \* an index of lock, after those of Procs
Free == NHart
NoProc == NPROC
NoFrame == [step |-> "none", kind |-> "none", i |-> 0, sepc |-> "none", tp |-> Free]
Following == [u0 |-> "u1", u1 |-> "u0"]               \* pc + 4

cpuid(h) == csr[h].tp
mycpu(h) == cpus[cpuid(h)]
myproc(h) == mycpu(h).proc
Here(h, l) == at[cur[h]] = l /\ frame[cur[h]] = NoFrame
Goto(h, l) == at' = [at EXCEPT ![cur[h]] = l] /\ UNCHANGED <<frame, saved, scan>>
Handler(h, step) == frame[cur[h]].step = step
HandlerGoto(h, step, i) ==
  /\ frame' = [frame EXCEPT ![cur[h]].step = step, ![cur[h]].i = i]
  /\ UNCHANGED <<at, saved, scan>>
\* A check of the kernel that fails calls panic.
Checked(h, ok, A) ==
  IF ok THEN A
  ELSE Goto(h, "panic") /\ UNCHANGED <<machine, cur, proc, lock, nap, upc, devices>>

(***************************************************************************)
(* spinlock.c                                                              *)
(***************************************************************************)
pushed(h) ==
  [mycpu(h) EXCEPT !.noff = @ + 1, !.intena = IF mycpu(h).noff = 0 THEN csr[h].sie ELSE @]
push_off(h) ==
  /\ cpus' = [cpus EXCEPT ![cpuid(h)] = pushed(h)]
  /\ csr' = [csr EXCEPT ![h].sie = FALSE]
\* intena means nothing while noff is 0.
popped(c) == [c EXCEPT !.noff = @ - 1, !.intena = @ /\ c.noff > 1]
reenabled(h, c) == [csr[h] EXCEPT !.sie = @ \/ (c.noff = 1 /\ c.intena)]
pop_off(h, c) ==
  /\ cpus' = [cpus EXCEPT ![cpuid(h)] = popped(c)]
  /\ csr' = [csr EXCEPT ![h] = reenabled(h, c)]
holding(h, lk) == lock[lk] = cpuid(h)
\* What release and pop_off check.
Releasable(h, lk) == holding(h, lk) /\ ~csr[h].sie /\ mycpu(h).noff >= 1
Take(h, lk) == lock[lk] = Free /\ lock' = [lock EXCEPT ![lk] = cpuid(h)]
Drop(lk) == lock' = [lock EXCEPT ![lk] = Free]

(***************************************************************************)
(* scheduler() and sched()                                                 *)
(***************************************************************************)
\* swtch to the scheduler, with p->lock held and the new state set.
sched(h, p, c, state) ==
  /\ proc' = [proc EXCEPT ![p].state = state]
  /\ saved' = [saved EXCEPT ![cur[h]] = c.intena]
  /\ cur' = [cur EXCEPT ![h] = SchedOf(cpuid(h))]
\* sched() goes on: intena belongs to the thread, not to the cpu.
\* Mutant of resumed: it is left to the cpu.
resumed_as_is(h) == mycpu(h)
resumed(h) == [mycpu(h) EXCEPT !.intena = saved[cur[h]]]

SchedGoto(h, l, p) ==
  /\ at' = [at EXCEPT ![cur[h]] = l]
  /\ scan' = [scan EXCEPT ![h] = p]
  /\ UNCHANGED <<frame, saved>>
\* The end of a turn of the inner loop; a new turn of the outer one begins
\* with intr_on().
NextProc(h, c) ==
  LET p == scan[h] + 1 IN
  IF p < NPROC THEN SchedGoto(h, "acquire", p) /\ pop_off(h, c)
  ELSE /\ SchedGoto(h, "acquire", 0)
       /\ cpus' = [cpus EXCEPT ![cpuid(h)] = popped(c)]
       /\ csr' = [csr EXCEPT ![h].sie = TRUE]
scheduler(h) ==
  LET p == scan[h] IN
  /\ cur[h] \notin Procs
  /\ \/ Here(h, "acquire") /\ push_off(h) /\ Goto(h, "wait") /\ UNCHANGED <<cur, proc, lock>>
     \/ /\ Here(h, "wait") /\ proc[p].state = "RUNNABLE"
        /\ Take(h, p)
        /\ proc' = [proc EXCEPT ![p].state = "RUNNING"]
        /\ cpus' = [cpus EXCEPT ![cpuid(h)].proc = p]
        /\ cur' = [cur EXCEPT ![h] = p]
        /\ Goto(h, "back")
        /\ UNCHANGED csr
     \/ /\ Here(h, "wait") /\ proc[p].state # "RUNNABLE"
        /\ lock[p] = Free
        /\ NextProc(h, mycpu(h))
        /\ UNCHANGED <<cur, proc, lock>>
     \/ /\ Here(h, "back")
        /\ Checked(h, Releasable(h, p),
             /\ NextProc(h, [mycpu(h) EXCEPT !.proc = NoProc])
             /\ Drop(p)
             /\ UNCHANGED <<cur, proc>>)
  /\ UNCHANGED <<nap, upc, devices>>

(***************************************************************************)
(* main(), after start(): hart 0 initializes, the others wait for it; the  *)
(* scheduler begins with intr_on().                                        *)
(***************************************************************************)
trapinithart(h) == [csr[h] EXCEPT !.stvec = "kernelvec"]
main(h) ==
  /\ Here(h, "main")
  /\ h = 0 \/ started
  /\ csr' = [csr EXCEPT ![h] = [trapinithart(h) EXCEPT !.sie = TRUE]]
  /\ started' = TRUE
  /\ Goto(h, "acquire")
  /\ UNCHANGED <<cpus, cur, proc, lock, nap, upc, plic>>

(***************************************************************************)
(* Into the kernel: the hart's part of a trap, then uservec and the first  *)
(* half of usertrap, or kernelvec.                                         *)
(***************************************************************************)
Pending(h, kind) == IF kind = "timer" THEN csr[h].ssip ELSE plic.pending # {}
Entered(h, from, pc) ==
  [csr[h] EXCEPT !.sie = FALSE, !.spie = csr[h].sie, !.spp = from, !.sepc = pc]
\* devintr: what it does first.  Only hart 0 counts the ticks.
FirstStep(c, kind) ==
  IF kind = "dev" THEN "claim" ELSE IF c = 0 THEN "clock" ELSE "ack"
usertrap(h, kind) ==
  LET p == cur[h]
      in == [Entered(h, "U", upc[p]) EXCEPT !.stvec = "kernelvec", !.tp = proc[p].hartid]
      Trapframe(pc, k) ==
        proc' = [proc EXCEPT ![p].epc = pc, ![p].killed = @ \/ k, ![p].hartid = Free]
  IN
  /\ Here(h, "user")
  /\ Checked(h, csr[h].stvec = "uservec",
       /\ \/ /\ kind = "syscall" /\ ~proc[p].killed
             /\ Trapframe(Following[upc[p]], FALSE)
             /\ csr' = [csr EXCEPT ![h] = [in EXCEPT !.sie = TRUE]]
             /\ Goto(h, "syscall")
          \/ /\ (kind = "syscall" /\ proc[p].killed) \/ (kind = "fault" /\ p \in Killable)
             /\ Trapframe(upc[p], TRUE)
             /\ csr' = [csr EXCEPT ![h] = in]
             /\ Goto(h, "exit")
          \/ /\ kind \in {"timer", "dev"} /\ Pending(h, kind)
             /\ Trapframe(upc[p], FALSE)
             /\ csr' = [csr EXCEPT ![h] = in]
             /\ at' = [at EXCEPT ![p] = "trap"]
             /\ frame' = [frame EXCEPT ![p].step = FirstStep(in.tp, kind), ![p].kind = kind]
             /\ UNCHANGED <<saved, scan>>
       /\ UNCHANGED <<cpus, cur, lock, nap, upc, devices>>)
kernelvec(h, kind) ==
  LET t == cur[h] IN
  /\ kind \in {"timer", "dev"} /\ at[t] # "user" /\ csr[h].sie /\ Pending(h, kind)
  /\ Checked(h, csr[h].stvec = "kernelvec" /\ frame[t] = NoFrame,
       /\ csr' = [csr EXCEPT ![h] = Entered(h, "S", at[t])]
       /\ frame' = [frame EXCEPT ![t] =
            [step |-> FirstStep(cpuid(h), kind), kind |-> kind, i |-> 0,
             sepc |-> at[t], tp |-> cpuid(h)]]
       /\ UNCHANGED <<cpus, cur, at, saved, scan, proc, lock, nap, upc, devices>>)

(***************************************************************************)
(* devintr(), clockintr() and wakeup(), and what usertrap and kerneltrap   *)
(* do when it is done.                                                     *)
(***************************************************************************)
Afterwards(h) ==
  LET t == cur[h]  timer == frame[t].kind = "timer" IN
  IF at[t] = "trap"
  THEN IF proc[t].killed THEN "exit" ELSE IF timer THEN "yield" ELSE "done"
  ELSE IF timer /\ myproc(h) # NoProc /\ proc[myproc(h)].state = "RUNNING" THEN "yield" ELSE "done"
clockintr(h) ==
  /\ Handler(h, "clock")
  /\ Take(h, TicksLock)
  /\ push_off(h)
  /\ nap' = [p \in Procs |-> [nap[p] EXCEPT !.passed = IF @ < nap[p].n THEN @ + 1 ELSE @]]
  /\ HandlerGoto(h, "wake", 0)
  /\ UNCHANGED <<cur, proc, upc, devices>>
\* Mutant of Wakes: the first process is not looked at.
WakesLate(p) == p # 0 /\ proc[p].state = "SLEEPING"
Wakes(p) == proc[p].state = "SLEEPING"
wakeup(h) ==
  LET p == frame[cur[h]].i IN
  /\ Handler(h, "wake")
  /\ p = myproc(h) \/ lock[p] = Free
  /\ proc' = IF p # myproc(h) /\ Wakes(p) THEN [proc EXCEPT ![p].state = "RUNNABLE"] ELSE proc
  /\ IF p + 1 < NPROC THEN HandlerGoto(h, "wake", p + 1) ELSE HandlerGoto(h, "clocked", 0)
  /\ UNCHANGED <<machine, cur, lock, nap, upc, devices>>
\* The end of clockintr and of devintr; ssip was not set again before.
clockdone(h) ==
  /\ Handler(h, "clocked")
  /\ Checked(h, Releasable(h, TicksLock),
       /\ Drop(TicksLock)
       /\ cpus' = [cpus EXCEPT ![cpuid(h)] = popped(mycpu(h))]
       /\ csr' = [csr EXCEPT ![h] = [reenabled(h, mycpu(h)) EXCEPT !.ssip = FALSE]]
       /\ HandlerGoto(h, Afterwards(h), 0)
       /\ UNCHANGED <<cur, proc, nap, upc, devices>>)
acknowledge(h) ==
  /\ Handler(h, "ack")
  /\ csr' = [csr EXCEPT ![h].ssip = FALSE]
  /\ HandlerGoto(h, Afterwards(h), 0)
  /\ UNCHANGED <<cpus, cur, proc, lock, nap, upc, devices>>
\* Another hart may have claimed it, and this one gets 0.
plic_claim(h) ==
  /\ Handler(h, "claim")
  /\ \/ /\ plic.pending = {}
        /\ HandlerGoto(h, Afterwards(h), 0)
        /\ UNCHANGED plic
     \/ \E d \in plic.pending :
        /\ plic' = [pending |-> plic.pending \ {d}, claimed |-> plic.claimed \cup {d}]
        /\ HandlerGoto(h, "device", d)
  /\ UNCHANGED <<machine, cur, proc, lock, nap, upc, started>>
\* uartintr or virtio_disk_intr, and plic_complete.
plic_complete(h) ==
  /\ Handler(h, "device")
  /\ plic' = [plic EXCEPT !.claimed = @ \ {frame[cur[h]].i}]
  /\ HandlerGoto(h, Afterwards(h), 0)
  /\ UNCHANGED <<machine, cur, proc, lock, nap, upc, started>>

yield(h) ==
  LET p == myproc(h) IN
  \/ /\ Handler(h, "yield")
     /\ Checked(h, mycpu(h).noff = 0,
          /\ Take(h, p)
          /\ push_off(h)
          /\ sched(h, p, pushed(h), "RUNNABLE")
          /\ frame' = [frame EXCEPT ![cur[h]].step = "resumed"]
          /\ UNCHANGED <<at, scan, nap, upc, devices>>)
  \/ /\ Handler(h, "resumed")
     /\ Checked(h, Releasable(h, p),
          /\ Drop(p)
          /\ pop_off(h, resumed(h))
          /\ frame' = [frame EXCEPT ![cur[h]].step = "done"]
          /\ saved' = [saved EXCEPT ![cur[h]] = FALSE]
          /\ UNCHANGED <<cur, at, scan, proc, nap, upc, devices>>)

(***************************************************************************)
(* Out of the kernel: the end of kerneltrap and kernelvec, usertrapret,    *)
(* userret.                                                                *)
(***************************************************************************)
\* Mutant of Restored: the registers are left as the other threads had them.
RestoredNot(h, f) == csr[h]
\* w_sepc and w_sstatus: an interrupt of the kernel finds spp and spie set.
Restored(h, f) == [csr[h] EXCEPT !.sepc = f.sepc, !.spp = "S", !.spie = TRUE]
\* sret; what sepc is afterwards no one looks at.
sret(r) == [r EXCEPT !.sie = r.spie, !.spie = TRUE, !.spp = "U", !.sepc = "none"]
kernelret(h) ==
  LET t == cur[h]  r == Restored(h, frame[t]) IN
  /\ Handler(h, "done") /\ at[t] # "trap"
  /\ csr' = [csr EXCEPT ![h] = sret(r)]
  /\ at' = [at EXCEPT ![t] = IF r.spp = "S" THEN r.sepc ELSE "panic"]
  /\ frame' = [frame EXCEPT ![t] = NoFrame]
  /\ UNCHANGED <<cpus, cur, saved, scan, proc, lock, nap, upc, devices>>
intr_off(h) == csr' = [csr EXCEPT ![h].sie = FALSE]
\* usertrapret until interrupts are off: after devintr, a system call, or
\* the fork that made the process.
usertrapret(h) ==
  /\ \/ Handler(h, "done") /\ at[cur[h]] = "trap"
     \/ Here(h, "end") /\ ~proc[cur[h]].killed
     \/ Here(h, "forked")
  /\ intr_off(h)
  /\ at' = [at EXCEPT ![cur[h]] = "ret"]
  /\ frame' = [frame EXCEPT ![cur[h]] = NoFrame]
  /\ UNCHANGED <<cpus, cur, saved, scan, proc, lock, nap, upc, devices>>
\* The rest of usertrapret: the registers for the next trap and for sret.
touser(h) ==
  LET p == cur[h] IN
  /\ Here(h, "ret")
  /\ csr' = [csr EXCEPT ![h].stvec = "uservec", ![h].spp = "U", ![h].spie = TRUE, ![h].sepc = proc[p].epc]
  /\ proc' = [proc EXCEPT ![p].hartid = cpuid(h)]
  /\ Goto(h, "userret")
  /\ UNCHANGED <<cpus, cur, lock, nap, upc, devices>>
\* tp is the program's.
userret(h) ==
  /\ Here(h, "userret")
  /\ Checked(h, csr[h].spp = "U",
       /\ csr' = [csr EXCEPT ![h] = [sret(csr[h]) EXCEPT !.tp = Free]]
       /\ upc' = [upc EXCEPT ![cur[h]] = csr[h].sepc]
       /\ Goto(h, "user")
       /\ UNCHANGED <<cpus, cur, proc, lock, nap, devices>>)

(***************************************************************************)
(* What goes on in the kernel meanwhile: system calls, of which sys_sleep  *)
(* is the one modelled, exit and forkret.                                  *)
(***************************************************************************)
syscall(h) ==
  LET p == cur[h] IN
  /\ Here(h, "syscall")
  /\ \E n \in 0 .. MaxSleep : nap' = [nap EXCEPT ![p] = [n |-> n, passed |-> 0]]
  /\ Goto(h, "acquire0")
  /\ UNCHANGED <<machine, cur, proc, lock, upc, devices>>
\* acquire(&tickslock), in sys_sleep and at the end of sleep().
acquireticks(h) ==
  LET p == cur[h] IN
  /\ \/ Here(h, "acquire0") /\ push_off(h) /\ Goto(h, "wait0") /\ UNCHANGED <<lock, nap>>
     \/ /\ Here(h, "wait0") /\ Take(h, TicksLock) /\ Goto(h, "check")
        /\ nap' = [nap EXCEPT ![p].passed = 0]
        /\ UNCHANGED machine
     \/ Here(h, "acquire1") /\ push_off(h) /\ Goto(h, "wait1") /\ UNCHANGED <<lock, nap>>
     \/ Here(h, "wait1") /\ Take(h, TicksLock) /\ Goto(h, "check") /\ UNCHANGED <<machine, nap>>
  /\ UNCHANGED <<cur, proc, upc, devices>>
\* The loop of sys_sleep, sleep() and its end.
sys_sleep(h) ==
  LET p == cur[h]  more == nap[p].passed < nap[p].n IN
  /\ \/ /\ Here(h, "check") /\ (~more \/ proc[p].killed)
        /\ Checked(h, Releasable(h, TicksLock),
             /\ Drop(TicksLock) /\ pop_off(h, mycpu(h)) /\ Goto(h, "end")
             /\ nap' = [nap EXCEPT ![p] = [n |-> 0, passed |-> 0]]
             /\ UNCHANGED <<cur, proc>>)
     \/ /\ Here(h, "check") /\ more /\ ~proc[p].killed
        /\ lock[p] = Free
        /\ Checked(h, holding(h, TicksLock) /\ mycpu(h).noff = 1,
             /\ lock' = [lock EXCEPT ![p] = cpuid(h), ![TicksLock] = Free]
             /\ sched(h, p, mycpu(h), "SLEEPING")
             /\ at' = [at EXCEPT ![p] = "asleep"]
             /\ UNCHANGED <<machine, frame, scan, nap>>)
     \/ /\ Here(h, "asleep")
        /\ Checked(h, Releasable(h, p),
             /\ Drop(p) /\ pop_off(h, resumed(h))
             /\ at' = [at EXCEPT ![p] = "acquire1"] /\ saved' = [saved EXCEPT ![p] = FALSE]
             /\ UNCHANGED <<cur, frame, scan, proc, nap>>)
  /\ UNCHANGED <<upc, devices>>
exit(h) ==
  LET p == myproc(h) IN
  /\ Handler(h, "exit") \/ Here(h, "exit") \/ (Here(h, "end") /\ proc[p].killed)
  /\ Checked(h, mycpu(h).noff = 0,
       /\ Take(h, p)
       /\ push_off(h)
       /\ sched(h, p, pushed(h), "ZOMBIE")
       /\ at' = [at EXCEPT ![p] = "dead"]
       /\ frame' = [frame EXCEPT ![p] = NoFrame]
       /\ UNCHANGED <<scan, nap, upc, devices>>)
forkret(h) ==
  /\ Here(h, "forkret")
  /\ Checked(h, Releasable(h, cur[h]),
       /\ Drop(cur[h]) /\ pop_off(h, mycpu(h)) /\ Goto(h, "forked")
       /\ UNCHANGED <<cur, proc, nap, upc, devices>>)

(***************************************************************************)
(* From outside: the timer of a hart by way of timervec, a device, and     *)
(* kill() by somebody else.                                                *)
(***************************************************************************)
timervec(h) ==
  /\ ~csr[h].ssip
  /\ csr' = [csr EXCEPT ![h].ssip = TRUE]
  /\ UNCHANGED <<cpus, cur, threads, proc, lock, nap, upc, devices>>
Raise(d) ==
  /\ d \notin plic.pending \cup plic.claimed
  /\ plic' = [plic EXCEPT !.pending = @ \cup {d}]
  /\ UNCHANGED <<machine, cur, threads, proc, lock, nap, upc, started>>
kill(p) ==
  /\ lock[p] = Free /\ ~proc[p].killed
  /\ proc' = [proc EXCEPT ![p].killed = TRUE, ![p].state = IF @ = "SLEEPING" THEN "RUNNABLE" ELSE @]
  /\ UNCHANGED <<machine, cur, threads, lock, nap, upc, devices>>

start ==
  /\ csr = [h \in Harts |-> [sie |-> FALSE, spie |-> FALSE, spp |-> "S", sepc |-> "none",
                             stvec |-> "none", ssip |-> FALSE, tp |-> h]]
  /\ cpus = [h \in Harts |-> [noff |-> 0, intena |-> FALSE, proc |-> NoProc]]
  /\ cur = [h \in Harts |-> SchedOf(h)]
  /\ at = [t \in Threads |-> IF t \in Procs THEN "forkret" ELSE "main"]
  /\ frame = [t \in Threads |-> NoFrame]
  /\ saved = [t \in Threads |-> FALSE]
  /\ scan = [h \in Harts |-> 0]
  /\ \E forked \in SUBSET Procs :      \* fork is in Proc
       proc = [p \in Procs |-> [state |-> IF p \in forked THEN "RUNNABLE" ELSE "UNUSED",
                               killed |-> FALSE, epc |-> "u0", hartid |-> Free]]
  /\ lock = [l \in 0 .. NPROC |-> Free]
  /\ nap = [p \in Procs |-> [n |-> 0, passed |-> 0]]
  /\ upc = [p \in Procs |-> "u0"]
  /\ plic = [pending |-> {}, claimed |-> {}]
  /\ started = FALSE

Interrupt(h, kind) == usertrap(h, kind) \/ kernelvec(h, kind)
Step(h) ==
  \/ main(h) \/ scheduler(h)
  \/ clockintr(h) \/ wakeup(h) \/ clockdone(h) \/ acknowledge(h)
  \/ plic_claim(h) \/ plic_complete(h) \/ yield(h)
  \/ kernelret(h) \/ usertrapret(h) \/ touser(h) \/ userret(h)
  \/ syscall(h) \/ acquireticks(h) \/ sys_sleep(h) \/ exit(h) \/ forkret(h)
Next ==
  \/ \E h \in Harts :
       \/ Step(h) \/ timervec(h)
       \/ \E kind \in {"timer", "dev", "syscall", "fault"} : Interrupt(h, kind)
  \/ \E d \in Devices : Raise(d)
  \/ \E p \in Killable : kill(p)
Spec == start /\ [][Next]_vars
\* A step of t itself, not of a handler that interrupts it.
Own(t) == \E h \in Harts : cur[h] = t /\ frame[t] = NoFrame /\ Step(h)
\* A hart executes what is next; the CLINT raises interrupts, which are taken
\* where they are let in, but are so rare (interval in start.c) that what they
\* interrupt goes on in between.
FairSpec ==
  /\ Spec
  /\ \A h \in Harts : WF_vars(Step(h)) /\ WF_vars(timervec(h)) /\ SF_vars(Interrupt(h, "timer"))
  /\ \A t \in Threads : SF_vars(Own(t))

(***************************************************************************)
(* No trap is ever taken with the vector of the other mode, in the middle  *)
(* of a handler, or by a hart that takes itself for another one; no two    *)
(* harts run on one stack; and none of the panics of usertrap, kerneltrap, *)
(* sched, release and pop_off is reached (trap.c, proc.c, spinlock.c).     *)
(***************************************************************************)
TrapsSafe ==
  /\ \A t \in Threads : at[t] # "panic"
  /\ \A h \in Harts :
       IF at[cur[h]] = "user" THEN csr[h].stvec = "uservec"
       ELSE /\ csr[h].sie => csr[h].stvec = "kernelvec" /\ frame[cur[h]] = NoFrame
            /\ cpuid(h) = h
  /\ \A h, k \in Harts : h # k => cur[h] # cur[k]

(***************************************************************************)
(* A hart has interrupts off while it holds or waits for a lock, and noff  *)
(* counts those locks; a thread that is done with its locks has interrupts *)
(* as before them, whatever other threads and harts it was suspended for   *)
(* (push_off, pop_off, sched).                                             *)
(***************************************************************************)
Waiting(h) == Here(h, "wait") \/ Here(h, "wait0") \/ Here(h, "wait1")
InterruptsMatched ==
  \A h \in Harts : at[cur[h]] # "user" =>
    /\ LET held == {l \in 0 .. NPROC : holding(h, l)} IN
       mycpu(h).noff = Cardinality(held) + (IF Waiting(h) THEN 1 ELSE 0)
    /\ csr[h].sie => mycpu(h).noff = 0
    /\ (\E l \in {"syscall", "acquire0", "acquire1"} : Here(h, l)) => csr[h].sie
    /\ Here(h, "end") => csr[h].sie

(***************************************************************************)
(* Both together: what a trap finds, and what it leaves, on every hart.    *)
(***************************************************************************)
HartsSafe == TrapsSafe /\ InterruptsMatched

\* Of the threads, what they can see themselves; a trap is not a place of its own.
Position == [t \in Threads |-> IF at[t] = "trap" THEN "user" ELSE at[t]]
ProgramCounter == [p \in Procs |-> IF at[p] = "user" THEN upc[p] ELSE proc[p].epc]
Alone == INSTANCE Uninterrupted WITH pos <- Position, pc <- ProgramCounter

(***************************************************************************)
(* Refinement: interrupts are invisible.  Every thread goes through its    *)
(* own steps, one by one, as if it had never been interrupted, suspended   *)
(* or moved to another hart, and a program goes on where it was or behind  *)
(* its system call.                                                        *)
(***************************************************************************)
ImplementsUninterrupted == Alone!Spec
=============================================================================
