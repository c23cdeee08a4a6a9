------------------------------ MODULE Trap_proof ------------------------------
(***************************************************************************)
(* Proofs about Trap: on any number of harts with any number of processes  *)
(* no panic is reached, interrupts are off while a lock is held and back   *)
(* as they were after it, and no thread notices that it was interrupted.   *)
(***************************************************************************)
EXTENDS Trap, FiniteSetTheorems, TLAPS

(***************************************************************************)
(* The inductive invariant.                                                *)
(***************************************************************************)
HandlerSteps == {"claim", "device", "clock", "wake", "clocked", "ack", "yield", "resumed",
                 "exit", "done"}
States == {"UNUSED", "RUNNABLE", "RUNNING", "SLEEPING", "ZOMBIE"}
Counters == {"u0", "u1"}
SchedPlaces == {"main", "acquire", "wait", "back"}
ProcPlaces == {"forkret", "forked", "ret", "userret", "user", "syscall", "acquire0", "wait0",
               "check", "asleep", "acquire1", "wait1", "end", "exit", "trap", "dead"}
Places == SchedPlaces \cup ProcPlaces
\* Where interrupts may be on in the kernel, and where they have to be.
Open == {"acquire", "forked", "syscall", "acquire0", "acquire1", "end"}
MustBeOn == {"syscall", "acquire0", "acquire1", "end"}

Csr == [sie : BOOLEAN, spie : BOOLEAN, spp : {"S", "U"}, sepc : Counters \cup Places \cup {"none"},
        stvec : {"none", "kernelvec", "uservec"}, ssip : BOOLEAN, tp : Harts \cup {Free}]
Cpu == [noff : Nat, intena : BOOLEAN, proc : Procs \cup {NoProc}]
Frame == [step : HandlerSteps \cup {"none"}, kind : {"none", "timer", "dev"},
          i : Procs \cup Devices \cup {0}, sepc : Places \cup {"none"}, tp : Harts \cup {Free}]
Process == [state : States, killed : BOOLEAN, epc : Counters, hartid : Harts \cup {Free}]

Types ==
  /\ csr \in [Harts -> Csr] /\ cpus \in [Harts -> Cpu]
  /\ cur \in [Harts -> Threads] /\ scan \in [Harts -> Procs]
  /\ at \in [Threads -> Places] /\ frame \in [Threads -> Frame]
  /\ saved \in [Threads -> BOOLEAN]
  /\ proc \in [Procs -> Process] /\ upc \in [Procs -> Counters]
  /\ lock \in [0 .. NPROC -> Harts \cup {Free}]
  /\ plic \in [pending : SUBSET Devices, claimed : SUBSET Devices]

\* Where a thread can be, and where it can have been interrupted.
PlaceOf(t) ==
  /\ at[t] \in IF t \in Procs THEN ProcPlaces ELSE SchedPlaces
  /\ frame[t].step = "none" => frame[t] = NoFrame /\ at[t] # "trap"
  /\ frame[t].step # "none" => at[t] = "trap" \/ (at[t] \in Open /\ frame[t].sepc = at[t])
  /\ frame[t].step \in {"yield", "resumed", "exit"} => t \in Procs
  /\ frame[t].step = "exit" => at[t] = "trap"
  /\ frame[t].step = "wake" => frame[t].i \in Procs
  /\ frame[t].step = "resumed" => ~saved[t]
  /\ at[t] = "asleep" => saved[t]

\* What a hart runs: its scheduler, or the process that the scheduler waits for.
RunningAt(h) ==
  \/ /\ cur[h] = SchedOf(h)
     /\ cpus[h].proc = IF at[cur[h]] = "back" THEN scan[h] ELSE NoProc
  \/ /\ cur[h] \in Procs /\ cpus[h].proc = cur[h] /\ scan[h] = cur[h]
     /\ proc[cur[h]].state = "RUNNING" /\ at[SchedOf(h)] = "back"

\* Where a process is that no hart runs.
StateOf(p) ==
  /\ proc[p].state = "RUNNING" => (\E h \in Harts : cur[h] = p) /\ at[p] # "dead"
  /\ proc[p].state = "RUNNABLE" =>
       frame[p].step = "resumed" \/ (frame[p] = NoFrame /\ at[p] \in {"forkret", "asleep"})
  /\ proc[p].state = "SLEEPING" => frame[p] = NoFrame /\ at[p] = "asleep"
  /\ proc[p].state = "UNUSED" => frame[p] = NoFrame /\ at[p] = "forkret"
  /\ proc[p].state = "ZOMBIE" => frame[p] = NoFrame /\ at[p] = "dead"

HoldsTicks(h) == Handler(h, "wake") \/ Handler(h, "clocked") \/ Here(h, "check")
HoldsProc(h) ==
  Handler(h, "resumed") \/ Here(h, "forkret") \/ Here(h, "asleep") \/ Here(h, "back")

\* Who holds which lock, and what push_off has counted and kept.
LocksAt(h) ==
  /\ lock[TicksLock] = h <=> HoldsTicks(h)
  /\ \A p \in Procs : lock[p] = h <=> HoldsProc(h) /\ cpus[h].proc = p
  /\ cpus[h].noff = IF HoldsTicks(h) \/ HoldsProc(h) \/ Waiting(h) THEN 1 ELSE 0
  /\ Here(h, "wait0") \/ Here(h, "wait1") \/ Here(h, "check") => cpus[h].intena
  /\ Handler(h, "wake") \/ Handler(h, "clocked") => ~cpus[h].intena

\* The registers of a hart, as far as the next trap or return depends on them.
RegistersAt(h) ==
  /\ at[cur[h]] # "user" => csr[h].tp = h
  /\ IF at[cur[h]] \in {"user", "userret"}
     THEN csr[h].stvec = "uservec" /\ proc[cur[h]].hartid = h
     ELSE at[cur[h]] # "main" => csr[h].stvec = "kernelvec"
  /\ at[cur[h]] = "userret" => csr[h].spp = "U" /\ csr[h].sepc = proc[cur[h]].epc
  /\ csr[h].sie => at[cur[h]] \in Open \cup {"user"} /\ frame[cur[h]] = NoFrame
  /\ at[cur[h]] \in MustBeOn /\ frame[cur[h]] = NoFrame => csr[h].sie

IndInv ==
  /\ Types
  /\ \A t \in Threads : PlaceOf(t)
  /\ \A h \in Harts : RunningAt(h)
  /\ \A h, k \in Harts : cur[h] = cur[k] => h = k
  /\ \A p \in Procs : StateOf(p)
  /\ \A h \in Harts : LocksAt(h)
  /\ \A h \in Harts : RegistersAt(h)

-----------------------------------------------------------------------------
(* Harts, processes and threads are numbers; nothing else is used of them. *)
LEMMA Numbers ==
  /\ Procs \subseteq Threads /\ 0 \in Procs
  /\ \A h \in Harts : SchedOf(h) \in Threads \ Procs
  /\ \A h, k \in Harts : SchedOf(h) = SchedOf(k) => h = k
  /\ \A t \in Threads \ Procs : \E h \in Harts : t = SchedOf(h)
  /\ Free \notin Harts /\ NoProc \notin Procs
  /\ TicksLock \notin Procs /\ 0 .. NPROC = Procs \cup {TicksLock}
  /\ \A p \in Procs : p + 1 < NPROC => p + 1 \in Procs
<1> USE TrapAssumption
<1>1. Procs \subseteq Threads /\ 0 \in Procs
  BY DEF Procs, Threads
<1>2. \A h \in Harts : SchedOf(h) \in Threads \ Procs
  BY DEF Procs, Threads, Harts, SchedOf
<1>3. \A h, k \in Harts : SchedOf(h) = SchedOf(k) => h = k
  BY DEF Harts, SchedOf
<1>4. ASSUME NEW t \in Threads \ Procs PROVE \E h \in Harts : t = SchedOf(h)
  <2>1. t - NPROC \in Harts /\ t = NPROC + (t - NPROC)
    BY DEF Procs, Threads, Harts
  <2> QED
    BY <2>1 DEF SchedOf
<1>5. Free \notin Harts /\ NoProc \notin Procs
  BY DEF Harts, Free, Procs, NoProc
<1>6. TicksLock \notin Procs /\ 0 .. NPROC = Procs \cup {TicksLock}
  BY DEF Procs, TicksLock
<1>7. \A p \in Procs : p + 1 < NPROC => p + 1 \in Procs
  BY DEF Procs
<1> QED
  BY <1>1, <1>2, <1>3, <1>4, <1>5, <1>6, <1>7

\* Types, one variable at a time.
LEMMA TypesOf ==
  ASSUME IndInv, NEW h \in Harts, NEW t \in Threads, t = cur[h]
  PROVE  /\ csr[h] \in Csr /\ cpus[h] \in Cpu /\ scan[h] \in Procs
         /\ at[t] \in Places /\ frame[t] \in Frame /\ saved[t] \in BOOLEAN
         /\ t \in Procs => proc[t] \in Process
  BY DEF IndInv, Types

\* What a step of hart h, which runs thread t, leaves alone.
OnlyHart(h, t) ==
  /\ \A k \in Harts \ {h} : /\ csr'[k] = csr[k] /\ cpus'[k] = cpus[k]
                            /\ cur'[k] = cur[k] /\ scan'[k] = scan[k]
  /\ \A s \in Threads \ {t} : at'[s] = at[s] /\ frame'[s] = frame[s] /\ saved'[s] = saved[s]
  /\ \A l \in 0 .. NPROC : lock'[l] = lock[l] \/ (lock[l] \in {h, Free} /\ lock'[l] \in {h, Free})
  /\ \A p \in Procs \ {t} :
       /\ proc'[p].hartid = proc[p].hartid /\ proc'[p].epc = proc[p].epc
       /\ \/ proc'[p].state = proc[p].state
          \/ proc[p].state = "SLEEPING" /\ proc'[p].state = "RUNNABLE"
          \/ proc[p].state = "RUNNABLE" /\ proc'[p].state = "RUNNING" /\ cur'[h] = p

\* What a hart knows of itself does not change by the steps of another.
LEMMA Elsewhere ==
  ASSUME IndInv, NEW h \in Harts, NEW t \in Threads, t = cur[h], OnlyHart(h, t),
         NEW k \in Harts, k # h
  PROVE  RunningAt(k)' /\ LocksAt(k)' /\ RegistersAt(k)'
<1> PICK s \in Threads : s = cur[k]
  BY DEF IndInv, Types
<1>1. s # t /\ t # SchedOf(k) /\ SchedOf(k) \in Threads
  BY Numbers DEF IndInv, RunningAt
<1>2. /\ csr'[k] = csr[k] /\ cpus'[k] = cpus[k] /\ cur'[k] = s /\ scan'[k] = scan[k]
      /\ at'[s] = at[s] /\ frame'[s] = frame[s] /\ at'[SchedOf(k)] = at[SchedOf(k)]
  BY <1>1 DEF OnlyHart
<1>3. s \in Procs => /\ proc'[s].hartid = proc[s].hartid /\ proc'[s].epc = proc[s].epc
                     /\ proc'[s].state = proc[s].state
  BY <1>1, Numbers DEF OnlyHart, IndInv, RunningAt
<1>4. \A l \in 0 .. NPROC : lock'[l] = k <=> lock[l] = k
  BY Numbers DEF OnlyHart
<1>5. RunningAt(k)'
  BY <1>2, <1>3 DEF IndInv, RunningAt
<1>6. LocksAt(k)'
  <2>1. LocksAt(k)
    BY DEF IndInv
  <2>2. lock'[TicksLock] = k <=> lock[TicksLock] = k
    BY <1>4, Numbers
  <2>3. \A p \in Procs : lock'[p] = k <=> lock[p] = k
    BY <1>4, Numbers
  <2> QED
    BY <1>2, <2>1, <2>2, <2>3 DEF LocksAt, HoldsTicks, HoldsProc, Waiting, Here, Handler
<1>7. RegistersAt(k)'
  <2>1. RegistersAt(k)
    BY DEF IndInv
  <2>2. at[s] \in {"user", "userret"} => s \in Procs
    BY Numbers DEF IndInv, PlaceOf, SchedPlaces
  <2> QED
    BY <1>2, <1>3, <2>1, <2>2 DEF RegistersAt
<1> QED
  BY <1>5, <1>6, <1>7

\* It remains to look at the hart that does the step, and at its thread.
LEMMA HereToo ==
  ASSUME IndInv, NEW h \in Harts, NEW t \in Threads, t = cur[h], OnlyHart(h, t),
         Types', PlaceOf(t)', RunningAt(h)', LocksAt(h)', RegistersAt(h)',
         \A k \in Harts : cur'[h] = cur'[k] => h = k,
         t \in Procs => StateOf(t)',
         \A p \in Procs : cur'[h] = p => at[p] # "dead"
  PROVE  IndInv'
<1>1. \A k \in Harts : RunningAt(k)' /\ LocksAt(k)' /\ RegistersAt(k)'
  BY Elsewhere
<1>2. ASSUME NEW s \in Threads PROVE PlaceOf(s)'
  <2>1. CASE s # t
    BY <2>1 DEF OnlyHart, IndInv, PlaceOf
  <2> QED
    BY <2>1
<1>3. \A k, l \in Harts : cur'[k] = cur'[l] => k = l
  BY DEF OnlyHart, IndInv
<1>4. ASSUME NEW p \in Procs PROVE StateOf(p)'
  <2>1. CASE p # t
    <3>1. StateOf(p) /\ p \in Threads /\ at'[p] = at[p] /\ frame'[p] = frame[p]
      BY <2>1, Numbers DEF IndInv, OnlyHart
    <3>2. CASE proc'[p].state = proc[p].state
      <4>1. proc[p].state = "RUNNING" => \E k \in Harts : cur'[k] = p
        BY <2>1, <3>1 DEF StateOf, OnlyHart
      <4> QED
        BY <3>1, <3>2, <4>1 DEF StateOf
    <3>3. CASE proc[p].state = "SLEEPING" /\ proc'[p].state = "RUNNABLE"
      BY <3>1, <3>3 DEF StateOf
    <3>4. CASE proc'[p].state = "RUNNING" /\ cur'[h] = p
      BY <3>1, <3>4 DEF StateOf
    <3> QED
      BY <2>1, <3>2, <3>3, <3>4 DEF OnlyHart
  <2> QED
    BY <2>1
<1> QED
  BY <1>1, <1>2, <1>3, <1>4 DEF IndInv

\* What hart h knows of the thread t that it runs.
LEMMA Current ==
  ASSUME IndInv, NEW h \in Harts, NEW t \in Threads, t = cur[h]
  PROVE  /\ t \in Procs => /\ cpus[h].proc = t /\ scan[h] = t /\ t # SchedOf(h)
                           /\ proc[t].state = "RUNNING" /\ at[SchedOf(h)] = "back"
                           /\ at[t] \in ProcPlaces \ {"dead"}
         /\ t \notin Procs => /\ t = SchedOf(h) /\ at[t] \in SchedPlaces
                              /\ cpus[h].proc = IF at[t] = "back" THEN scan[h] ELSE NoProc
         /\ at[t] # "user" => /\ cpuid(h) = h /\ mycpu(h) = cpus[h]
                              /\ myproc(h) = cpus[h].proc
<1>1. RunningAt(h) /\ RegistersAt(h) /\ PlaceOf(t) /\ (t \in Procs => StateOf(t))
  BY DEF IndInv
<1>2. SchedOf(h) \in Threads \ Procs
  BY Numbers
<1>3. t \in Procs => /\ cpus[h].proc = t /\ scan[h] = t /\ t # SchedOf(h)
                     /\ proc[t].state = "RUNNING" /\ at[SchedOf(h)] = "back"
  BY <1>1, <1>2 DEF RunningAt
<1>4. t \in Procs => at[t] \in ProcPlaces \ {"dead"}
  BY <1>1, <1>3 DEF PlaceOf, StateOf
<1>5. t \notin Procs => /\ t = SchedOf(h) /\ at[t] \in SchedPlaces
                        /\ cpus[h].proc = IF at[t] = "back" THEN scan[h] ELSE NoProc
  BY <1>1 DEF RunningAt, PlaceOf
<1>6. at[t] # "user" => cpuid(h) = h
  BY <1>1 DEF RegistersAt, cpuid
<1> QED
  BY <1>3, <1>4, <1>5, <1>6 DEF mycpu, myproc

\* A handler runs with interrupts off, on top of what it has interrupted.
LEMMA InFrame ==
  ASSUME IndInv, NEW h \in Harts, NEW t \in Threads, t = cur[h], frame[t].step # "none"
  PROVE  /\ frame[t] # NoFrame /\ at[t] \in {"trap"} \cup Open
         /\ at[t] = "trap" \/ frame[t].sepc = at[t]
         /\ at[t] \notin {"user", "userret", "main", "back", "forkret", "asleep", "check", "dead",
                          "wait", "wait0", "wait1"}
         /\ at[t] = "trap" => t \in Procs
         /\ t \notin Procs => cpus[h].proc = NoProc
         /\ ~csr[h].sie /\ csr[h].tp = h /\ csr[h].stvec = "kernelvec"
<1>1. PlaceOf(t) /\ RegistersAt(h) /\ frame[t] # NoFrame
  BY DEF IndInv, NoFrame
<1>2. at[t] \in {"trap"} \cup Open /\ (at[t] = "trap" \/ frame[t].sepc = at[t])
  BY <1>1 DEF PlaceOf
<1>3. at[t] \notin {"user", "userret", "main", "back", "forkret", "asleep", "check", "dead",
                    "wait", "wait0", "wait1"}
  BY <1>2 DEF Open
<1>4. at[t] = "trap" => t \in Procs
  BY <1>1 DEF PlaceOf, SchedPlaces
<1>5. t \notin Procs => cpus[h].proc = NoProc
  BY <1>3, Current
<1> QED
  BY <1>1, <1>2, <1>3, <1>4, <1>5 DEF RegistersAt, IndInv, Types, Csr

\* Most steps go on with the same thread.
LEMMA Stays ==
  ASSUME IndInv, NEW h \in Harts, NEW t \in Threads, t = cur[h], OnlyHart(h, t),
         cur' = cur, cpus'[h].proc = cpus[h].proc, scan'[h] = scan[h],
         t \in Procs => proc'[t].state = proc[t].state /\ at'[t] # "dead",
         t \notin Procs => (at'[t] = "back" <=> at[t] = "back"),
         Types', PlaceOf(t)', LocksAt(h)', RegistersAt(h)'
  PROVE  IndInv'
<1>1. RunningAt(h)'
  <2>1. t # SchedOf(h) => at'[SchedOf(h)] = at[SchedOf(h)]
    BY Numbers DEF OnlyHart
  <2> QED
    BY <2>1, Current DEF RunningAt
<1>2. \A k \in Harts : cur'[h] = cur'[k] => h = k
  BY DEF IndInv
<1>3. t \in Procs => StateOf(t)'
  BY Current DEF StateOf
<1>4. \A p \in Procs : cur'[h] = p => at[p] # "dead"
  BY Current
<1> QED
  BY <1>1, <1>2, <1>3, <1>4, HereToo

\* A step from one point of a handler to another.
LEMMA InHandler ==
  ASSUME IndInv, NEW h \in Harts, NEW t \in Threads, t = cur[h], OnlyHart(h, t),
         frame[t].step # "none", frame'[t].step # "none", frame'[t].sepc = frame[t].sepc,
         frame'[t].step \in {"yield", "resumed"} => t \in Procs,
         frame'[t].step = "exit" => at[t] = "trap",
         frame'[t].step = "wake" => frame'[t].i \in Procs,
         frame'[t].step = "resumed" => ~saved'[t],
         at' = at, cur' = cur, cpus'[h].proc = cpus[h].proc, scan'[h] = scan[h],
         csr'[h].sie = csr[h].sie, csr'[h].stvec = csr[h].stvec, csr'[h].tp = csr[h].tp,
         t \in Procs => proc'[t].state = proc[t].state,
         Types',
         lock'[TicksLock] = h <=> frame'[t].step \in {"wake", "clocked"},
         \A p \in Procs : lock'[p] = h <=> frame'[t].step = "resumed" /\ cpus[h].proc = p,
         cpus'[h].noff = IF frame'[t].step \in {"wake", "clocked", "resumed"} THEN 1 ELSE 0,
         frame'[t].step \in {"wake", "clocked"} => ~cpus'[h].intena
  PROVE  IndInv'
<1>1. /\ frame'[t] # NoFrame
      /\ at[t] \notin {"user", "userret", "main", "back", "forkret", "asleep", "check", "dead",
                       "wait", "wait0", "wait1"}
      /\ at[t] = "trap" => t \in Procs
  BY InFrame DEF NoFrame
<1>2. PlaceOf(t)'
  BY <1>1, InFrame DEF PlaceOf, IndInv
<1>3. LocksAt(h)'
  BY <1>1 DEF LocksAt, HoldsTicks, HoldsProc, Waiting, Here, Handler
<1>4. RegistersAt(h)'
  BY <1>1, InFrame DEF RegistersAt
<1> QED
  BY <1>1, <1>2, <1>3, <1>4, Stays

\* Where the handlers go when devintr() is done.
LEMMA After ==
  ASSUME IndInv, NEW h \in Harts, NEW t \in Threads, t = cur[h], frame[t].step # "none"
  PROVE  /\ Afterwards(h) \in {"exit", "yield", "done"}
         /\ Afterwards(h) = "yield" => t \in Procs
         /\ Afterwards(h) = "exit" => at[t] = "trap"
<1>1. myproc(h) = cpus[h].proc
  BY InFrame, Current
<1> QED
  BY <1>1, InFrame DEF Afterwards

\* What push_off and pop_off do to the counter, and to a hart's interrupts.
LEMMA Pushed ==
  ASSUME NEW h \in Harts, mycpu(h) \in Cpu, csr[h] \in Csr
  PROVE  /\ pushed(h) \in Cpu /\ pushed(h).noff = mycpu(h).noff + 1
         /\ pushed(h).proc = mycpu(h).proc
         /\ mycpu(h).noff = 0 => pushed(h).intena = csr[h].sie
<1> DEFINE c == mycpu(h)
           b == IF c.noff = 0 THEN csr[h].sie ELSE c.intena
<1>1. csr[h].sie \in BOOLEAN /\ c.intena \in BOOLEAN
  BY DEF Csr, Cpu
<1>2. b \in BOOLEAN /\ (c.noff = 0 => b = csr[h].sie)
  BY <1>1
<1>3. c.noff + 1 \in Nat /\ c.proc \in Procs \cup {NoProc}
  BY DEF Cpu
<1>a. pushed(h) = [c EXCEPT !.noff = c.noff + 1, !.intena = b]
  BY DEF pushed
<1>b. c \in Cpu
  OBVIOUS
<1> HIDE DEF b, c
<1>4. pushed(h) = [noff |-> c.noff + 1, intena |-> b, proc |-> c.proc]
  BY <1>a, <1>b DEF Cpu
<1>5. pushed(h) \in Cpu
  BY <1>2, <1>3, <1>4 DEF Cpu
<1>6. pushed(h).noff = c.noff + 1 /\ pushed(h).proc = c.proc
  BY <1>4
<1>7. pushed(h).intena = b
  BY <1>4
<1> QED
  BY <1>2, <1>5, <1>6, <1>7 DEF c

LEMMA Popped ==
  ASSUME NEW c \in Cpu, NEW h \in Harts, c.noff = 1, csr[h] \in Csr
  PROVE  /\ popped(c) \in Cpu /\ popped(c).noff = 0 /\ popped(c).proc = c.proc
         /\ reenabled(h, c) \in Csr
         /\ reenabled(h, c).sie = (csr[h].sie \/ c.intena)
         /\ reenabled(h, c).stvec = csr[h].stvec /\ reenabled(h, c).tp = csr[h].tp
         /\ reenabled(h, c).spp = csr[h].spp /\ reenabled(h, c).sepc = csr[h].sepc
<1>1. c.noff - 1 = 0 /\ ~(c.noff > 1)
  OBVIOUS
<1>2. popped(c) = [noff |-> 0, intena |-> FALSE, proc |-> c.proc]
  <2> DEFINE e == c.intena /\ c.noff > 1
  <2>1. popped(c) = [c EXCEPT !.noff = c.noff - 1, !.intena = e]
    BY DEF popped
  <2>2. e = FALSE
    BY <1>1
  <2> HIDE DEF e
  <2>3. popped(c) = [noff |-> c.noff - 1, intena |-> e, proc |-> c.proc]
    BY <2>1 DEF Cpu
  <2> QED
    BY <1>1, <2>2, <2>3
<1>3. /\ popped(c) \in Cpu /\ popped(c).noff = 0 /\ popped(c).proc = c.proc
  BY <1>2 DEF Cpu
<1>4. csr[h].sie \in BOOLEAN /\ c.intena \in BOOLEAN
  BY DEF Csr, Cpu
<1>5. (csr[h].sie \/ c.intena) \in BOOLEAN
  OBVIOUS
<1> DEFINE b == csr[h].sie \/ c.intena
<1>6. reenabled(h, c) = [csr[h] EXCEPT !.sie = b]
  BY <1>1 DEF reenabled
<1>7. b \in BOOLEAN /\ b = (csr[h].sie \/ c.intena)
  BY <1>5
<1> HIDE DEF b
<1>8. /\ reenabled(h, c) \in Csr /\ reenabled(h, c).sie = b
      /\ reenabled(h, c).stvec = csr[h].stvec /\ reenabled(h, c).tp = csr[h].tp
      /\ reenabled(h, c).spp = csr[h].spp /\ reenabled(h, c).sepc = csr[h].sepc
  BY <1>6, <1>7 DEF Csr
<1> QED
  BY <1>3, <1>7, <1>8

-----------------------------------------------------------------------------
(* devintr(), clockintr() and wakeup().                                    *)

LEMMA AcknowledgeInv ==
  ASSUME IndInv, NEW h \in Harts, acknowledge(h)
  PROVE  IndInv'
<1> PICK t \in Threads : t = cur[h]
  BY DEF IndInv, Types
<1>1. /\ frame[t].step = "ack"
      /\ csr' = [csr EXCEPT ![h].ssip = FALSE]
      /\ frame' = [frame EXCEPT ![t].step = Afterwards(h), ![t].i = 0]
      /\ UNCHANGED <<cpus, cur, at, saved, scan, proc, lock, upc, plic>>
  BY DEF acknowledge, Handler, HandlerGoto, devices
<1>2. /\ csr[h] \in Csr /\ frame[t] \in Frame /\ LocksAt(h)
      /\ csr \in [Harts -> Csr] /\ frame \in [Threads -> Frame]
  BY TypesOf DEF IndInv, Types
<1>3. /\ frame'[t].step = Afterwards(h) /\ frame'[t].sepc = frame[t].sepc
      /\ csr'[h].sie = csr[h].sie /\ csr'[h].stvec = csr[h].stvec /\ csr'[h].tp = csr[h].tp
  BY <1>1, <1>2 DEF Csr, Frame
<1>4. Types'
  <2>1. csr' \in [Harts -> Csr]
    BY <1>1, <1>2 DEF Csr
  <2>2. frame' \in [Threads -> Frame]
    BY <1>1, <1>2, After DEF Frame, HandlerSteps
  <2> QED
    BY <1>1, <2>1, <2>2 DEF IndInv, Types
<1>5. OnlyHart(h, t)
  BY <1>1, <1>2 DEF OnlyHart
<1>6. /\ lock[TicksLock] # h /\ \A p \in Procs : lock[p] # h
      /\ cpus[h].noff = 0
  BY <1>1, <1>2, InFrame DEF LocksAt, HoldsTicks, HoldsProc, Waiting, Here, Handler
<1>7. /\ Afterwards(h) \in {"exit", "yield", "done"}
      /\ Afterwards(h) = "yield" => t \in Procs
      /\ Afterwards(h) = "exit" => at[t] = "trap"
  BY <1>1, After
<1>8. UNCHANGED <<cur, at, scan, proc>> /\ cpus'[h].noff = 0 /\ cpus'[h].proc = cpus[h].proc
  BY <1>1, <1>6
<1>9. lock'[TicksLock] # h /\ \A p \in Procs : lock'[p] # h
  BY <1>1, <1>6
<1>10. frame[t].step # "none" /\ frame'[t].step \in {"exit", "yield", "done"}
  BY <1>1, <1>3, <1>7
<1> QED
  BY <1>3, <1>4, <1>5, <1>7, <1>8, <1>9, <1>10, InHandler

LEMMA PlicClaimInv ==
  ASSUME IndInv, NEW h \in Harts, plic_claim(h)
  PROVE  IndInv'
<1> PICK t \in Threads : t = cur[h]
  BY DEF IndInv, Types
<1>1. /\ frame[t].step = "claim"
      /\ UNCHANGED <<csr, cpus, cur, at, saved, scan, proc, lock, upc>>
  BY DEF plic_claim, Handler, HandlerGoto, machine
<1>2. PICK s, i : /\ frame' = [frame EXCEPT ![t].step = s, ![t].i = i]
                  /\ \/ s = Afterwards(h) /\ i = 0 /\ plic' = plic
                     \/ s = "device" /\ i \in plic.pending
                        /\ plic' = [pending |-> plic.pending \ {i},
                                    claimed |-> plic.claimed \cup {i}]
  BY DEF plic_claim, HandlerGoto
<1>3. /\ frame[t] \in Frame /\ LocksAt(h) /\ frame \in [Threads -> Frame]
      /\ plic \in [pending : SUBSET Devices, claimed : SUBSET Devices]
  BY TypesOf DEF IndInv, Types
<1>4. frame'[t].step = s /\ frame'[t].sepc = frame[t].sepc
  BY <1>2, <1>3 DEF Frame
<1>5. s \in {"exit", "yield", "done", "device"} /\ i \in Devices \cup {0}
  BY <1>1, <1>2, <1>3, After
<1>6. Types'
  <2>1. frame' \in [Threads -> Frame]
    BY <1>2, <1>3, <1>5 DEF Frame, HandlerSteps
  <2>2. plic' \in [pending : SUBSET Devices, claimed : SUBSET Devices]
    BY <1>2, <1>3
  <2> QED
    BY <1>1, <2>1, <2>2 DEF IndInv, Types
<1>7. OnlyHart(h, t)
  BY <1>1, <1>2, <1>3 DEF OnlyHart
<1>8. /\ lock[TicksLock] # h /\ \A p \in Procs : lock[p] # h
      /\ cpus[h].noff = 0
  BY <1>1, <1>3, InFrame DEF LocksAt, HoldsTicks, HoldsProc, Waiting, Here, Handler
<1>9. s = "yield" => t \in Procs
  BY <1>1, <1>2, After
<1>10. s = "exit" => at[t] = "trap"
  BY <1>1, <1>2, After
<1> QED
  BY <1>1, <1>4, <1>5, <1>6, <1>7, <1>8, <1>9, <1>10, InHandler

LEMMA PlicCompleteInv ==
  ASSUME IndInv, NEW h \in Harts, plic_complete(h)
  PROVE  IndInv'
<1> PICK t \in Threads : t = cur[h]
  BY DEF IndInv, Types
<1>1. /\ frame[t].step = "device"
      /\ plic' = [plic EXCEPT !.claimed = @ \ {frame[t].i}]
      /\ frame' = [frame EXCEPT ![t].step = Afterwards(h), ![t].i = 0]
      /\ UNCHANGED <<csr, cpus, cur, at, saved, scan, proc, lock, upc>>
  BY DEF plic_complete, Handler, HandlerGoto, machine
<1>2. /\ frame[t] \in Frame /\ LocksAt(h) /\ frame \in [Threads -> Frame]
      /\ plic \in [pending : SUBSET Devices, claimed : SUBSET Devices]
  BY TypesOf DEF IndInv, Types
<1>3. frame'[t].step = Afterwards(h) /\ frame'[t].sepc = frame[t].sepc
  BY <1>1, <1>2 DEF Frame
<1>4. Types'
  <2>1. frame' \in [Threads -> Frame]
    BY <1>1, <1>2, After DEF Frame, HandlerSteps
  <2>2. plic' \in [pending : SUBSET Devices, claimed : SUBSET Devices]
    BY <1>1, <1>2
  <2> QED
    BY <1>1, <2>1, <2>2 DEF IndInv, Types
<1>5. OnlyHart(h, t)
  BY <1>1, <1>2 DEF OnlyHart
<1>6. /\ lock[TicksLock] # h /\ \A p \in Procs : lock[p] # h
      /\ cpus[h].noff = 0
  BY <1>1, <1>2, InFrame DEF LocksAt, HoldsTicks, HoldsProc, Waiting, Here, Handler
<1>7. /\ Afterwards(h) \in {"exit", "yield", "done"}
      /\ Afterwards(h) = "yield" => t \in Procs
      /\ Afterwards(h) = "exit" => at[t] = "trap"
  BY <1>1, After
<1>8. UNCHANGED <<csr, cur, at, scan, proc>> /\ cpus'[h].noff = 0 /\ cpus'[h].proc = cpus[h].proc
  BY <1>1, <1>6
<1>9. lock'[TicksLock] # h /\ \A p \in Procs : lock'[p] # h
  BY <1>1, <1>6
<1>10. frame[t].step # "none" /\ frame'[t].step \in {"exit", "yield", "done"}
  BY <1>1, <1>3, <1>7
<1> QED
  BY <1>3, <1>4, <1>5, <1>7, <1>8, <1>9, <1>10, InHandler

\* acquire(&tickslock) in the handler, with interrupts off already.
LEMMA ClockIntrInv ==
  ASSUME IndInv, NEW h \in Harts, clockintr(h)
  PROVE  IndInv'
<1> PICK t \in Threads : t = cur[h]
  BY DEF IndInv, Types
<1>0. frame[t].step = "clock"
  BY DEF clockintr, Handler
<1>a. cpuid(h) = h /\ mycpu(h) = cpus[h] /\ ~csr[h].sie
  BY <1>0, InFrame, Current
<1>1. /\ lock[TicksLock] = Free /\ lock' = [lock EXCEPT ![TicksLock] = h]
      /\ csr' = [csr EXCEPT ![h].sie = FALSE]
      /\ cpus' = [cpus EXCEPT ![h] = pushed(h)]
      /\ frame' = [frame EXCEPT ![t].step = "wake", ![t].i = 0]
      /\ UNCHANGED <<cur, at, saved, scan, proc, upc, plic>>
  BY <1>a DEF clockintr, HandlerGoto, Take, push_off, devices
<1>2. /\ csr[h] \in Csr /\ frame[t] \in Frame /\ cpus[h] \in Cpu /\ LocksAt(h)
      /\ csr \in [Harts -> Csr] /\ frame \in [Threads -> Frame] /\ cpus \in [Harts -> Cpu]
      /\ lock \in [0 .. NPROC -> Harts \cup {Free}]
  BY TypesOf DEF IndInv, Types
<1>3. /\ frame'[t].step = "wake" /\ frame'[t].i = 0 /\ frame'[t].sepc = frame[t].sepc
      /\ csr'[h].sie = csr[h].sie /\ csr'[h].stvec = csr[h].stvec /\ csr'[h].tp = csr[h].tp
  BY <1>a, <1>1, <1>2 DEF Csr, Frame
<1>4. /\ pushed(h) \in Cpu /\ pushed(h).noff = cpus[h].noff + 1
      /\ pushed(h).proc = cpus[h].proc /\ (cpus[h].noff = 0 => pushed(h).intena = csr[h].sie)
  BY <1>a, <1>2, Pushed
<1>5. Types'
  <2>1. csr' \in [Harts -> Csr]
    BY <1>1, <1>2 DEF Csr
  <2>2. frame' \in [Threads -> Frame]
    BY <1>1, <1>2, Numbers DEF Frame, HandlerSteps
  <2>3. cpus' \in [Harts -> Cpu]
    BY <1>1, <1>2, <1>4
  <2>4. lock' \in [0 .. NPROC -> Harts \cup {Free}]
    BY <1>1, <1>2
  <2> QED
    BY <1>1, <2>1, <2>2, <2>3, <2>4 DEF IndInv, Types
<1>6. OnlyHart(h, t)
  BY <1>1, <1>2 DEF OnlyHart
<1>7. /\ \A p \in Procs : lock[p] # h
      /\ cpus[h].noff = 0
  BY <1>0, <1>2, InFrame DEF LocksAt, HoldsTicks, HoldsProc, Waiting, Here, Handler
<1>8. lock'[TicksLock] = h /\ \A p \in Procs : lock'[p] # h
  BY <1>1, <1>2, <1>7, Numbers
<1>9. cpus'[h].noff = 1 /\ cpus'[h].proc = cpus[h].proc /\ ~cpus'[h].intena
  BY <1>a, <1>1, <1>2, <1>4, <1>7
<1>10. frame'[t].i \in Procs
  BY <1>3, Numbers
<1>11. UNCHANGED <<cur, at, saved, scan, proc>>
  BY <1>1
<1> QED
  BY <1>0, <1>3, <1>5, <1>6, <1>8, <1>9, <1>10, <1>11, InHandler

\* Only processes that sleep, which no hart runs, are changed.
LEMMA WakeupInv ==
  ASSUME IndInv, NEW h \in Harts, wakeup(h)
  PROVE  IndInv'
<1> PICK t \in Threads : t = cur[h]
  BY DEF IndInv, Types
<1>0. frame[t].step = "wake"
  BY DEF wakeup, Handler
<1>a. myproc(h) = cpus[h].proc /\ PlaceOf(t)
  BY <1>0, InFrame, Current DEF IndInv
<1> DEFINE p == frame[t].i
<1>1. /\ p \in Procs
      /\ proc' = IF p # myproc(h) /\ Wakes(p) THEN [proc EXCEPT ![p].state = "RUNNABLE"] ELSE proc
      /\ UNCHANGED <<csr, cpus, cur, at, saved, scan, lock, upc, plic>>
  BY <1>0, <1>a DEF wakeup, HandlerGoto, machine, devices, PlaceOf
<1>2. PICK s, i : /\ frame' = [frame EXCEPT ![t].step = s, ![t].i = i]
                  /\ (s = "wake" /\ i \in Procs) \/ (s = "clocked" /\ i = 0)
  BY <1>1, Numbers DEF wakeup, HandlerGoto
<1>3. /\ frame[t] \in Frame /\ LocksAt(h) /\ frame \in [Threads -> Frame]
      /\ proc \in [Procs -> Process]
  BY TypesOf DEF IndInv, Types
<1>4. frame'[t].step = s /\ frame'[t].i = i /\ frame'[t].sepc = frame[t].sepc
  BY <1>2, <1>3 DEF Frame
<1>5. \A q \in Procs :
        /\ proc'[q].hartid = proc[q].hartid /\ proc'[q].epc = proc[q].epc
        /\ \/ proc'[q].state = proc[q].state
           \/ q = p /\ proc[q].state = "SLEEPING" /\ proc'[q].state = "RUNNABLE"
  BY <1>1, <1>3 DEF Process, Wakes
<1>6. Types'
  <2>1. frame' \in [Threads -> Frame]
    BY <1>2, <1>3, Numbers DEF Frame, HandlerSteps
  <2>2. proc' \in [Procs -> Process]
    BY <1>1, <1>3 DEF Process, States
  <2> QED
    BY <1>1, <2>1, <2>2 DEF IndInv, Types
<1>7. t \in Procs => proc'[t].state = proc[t].state
  BY <1>5, Current
<1>8. OnlyHart(h, t)
  BY <1>1, <1>2, <1>3, <1>5 DEF OnlyHart
<1>9. /\ lock[TicksLock] = h /\ \A q \in Procs : lock[q] # h
      /\ cpus[h].noff = 1 /\ ~cpus[h].intena
  BY <1>0, <1>3, InFrame DEF LocksAt, HoldsTicks, HoldsProc, Waiting, Here, Handler
<1>10. s \in {"wake", "clocked"} /\ (s = "wake" => i \in Procs)
  BY <1>2
<1>11. UNCHANGED <<csr, cpus, cur, at, saved, scan, lock>>
  BY <1>1
<1> QED
  BY <1>0, <1>4, <1>6, <1>7, <1>8, <1>9, <1>10, <1>11, InHandler


\* release(&tickslock) and, on every hart, the end of devintr().
LEMMA ClockDoneInv ==
  ASSUME IndInv, NEW h \in Harts, clockdone(h)
  PROVE  IndInv'
<1> PICK t \in Threads : t = cur[h]
  BY DEF IndInv, Types
<1>0. frame[t].step = "clocked"
  BY DEF clockdone, Handler
<1>a. cpuid(h) = h /\ mycpu(h) = cpus[h] /\ ~csr[h].sie
  BY <1>0, InFrame, Current
<1> DEFINE c == cpus[h]
           r == reenabled(h, c)
<1>1. /\ csr[h] \in Csr /\ frame[t] \in Frame /\ c \in Cpu /\ LocksAt(h)
      /\ csr \in [Harts -> Csr] /\ frame \in [Threads -> Frame] /\ cpus \in [Harts -> Cpu]
      /\ lock \in [0 .. NPROC -> Harts \cup {Free}]
  BY TypesOf DEF IndInv, Types
<1>2. /\ lock[TicksLock] = h /\ \A p \in Procs : lock[p] # h
      /\ c.noff = 1 /\ ~c.intena
  BY <1>0, <1>1, InFrame DEF LocksAt, HoldsTicks, HoldsProc, Waiting, Here, Handler
<1>3. Releasable(h, TicksLock)
  BY <1>a, <1>2 DEF Releasable, holding
<1>4. /\ lock' = [lock EXCEPT ![TicksLock] = Free]
      /\ cpus' = [cpus EXCEPT ![h] = popped(c)]
      /\ csr' = [csr EXCEPT ![h] = [r EXCEPT !.ssip = FALSE]]
      /\ frame' = [frame EXCEPT ![t].step = Afterwards(h), ![t].i = 0]
      /\ UNCHANGED <<cur, at, saved, scan, proc, upc, plic>>
  BY <1>a, <1>3 DEF clockdone, Checked, Drop, HandlerGoto, devices
<1>5. /\ popped(c) \in Cpu /\ popped(c).noff = 0 /\ popped(c).proc = c.proc
      /\ r \in Csr /\ r.sie = (csr[h].sie \/ c.intena)
      /\ r.stvec = csr[h].stvec /\ r.tp = csr[h].tp
  BY <1>1, <1>2, Popped
<1> HIDE DEF c, r
<1>6. /\ [r EXCEPT !.ssip = FALSE] \in Csr /\ [r EXCEPT !.ssip = FALSE].sie = r.sie
      /\ [r EXCEPT !.ssip = FALSE].stvec = r.stvec /\ [r EXCEPT !.ssip = FALSE].tp = r.tp
  BY <1>5 DEF Csr
<1>7. /\ csr'[h].sie = csr[h].sie /\ csr'[h].stvec = csr[h].stvec /\ csr'[h].tp = csr[h].tp
  <2>1. csr[h].sie = FALSE
    BY <1>a, <1>1 DEF Csr
  <2>2. r.sie = FALSE
    BY <1>2, <1>5, <2>1
  <2>3. csr'[h] = [r EXCEPT !.ssip = FALSE]
    BY <1>1, <1>4
  <2> QED
    BY <1>5, <1>6, <2>1, <2>2, <2>3
<1>8. /\ frame'[t].step = Afterwards(h) /\ frame'[t].sepc = frame[t].sepc
  BY <1>1, <1>4 DEF Frame
<1>9. Types'
  <2>1. csr' \in [Harts -> Csr]
    BY <1>1, <1>4, <1>6
  <2>2. frame' \in [Threads -> Frame]
    BY <1>0, <1>1, <1>4, After DEF Frame, HandlerSteps
  <2>3. cpus' \in [Harts -> Cpu]
    BY <1>1, <1>4, <1>5
  <2>4. lock' \in [0 .. NPROC -> Harts \cup {Free}]
    BY <1>1, <1>4
  <2> QED
    BY <1>4, <2>1, <2>2, <2>3, <2>4 DEF IndInv, Types
<1>10. OnlyHart(h, t)
  BY <1>1, <1>2, <1>4 DEF OnlyHart
<1>11. lock'[TicksLock] # h /\ \A p \in Procs : lock'[p] # h
  BY <1>1, <1>2, <1>4, Numbers
<1>12. cpus'[h].noff = 0 /\ cpus'[h].proc = cpus[h].proc
  BY <1>1, <1>4, <1>5 DEF c
<1>13. UNCHANGED <<cur, at, saved, scan, proc>>
  BY <1>4
<1>14. /\ Afterwards(h) \in {"exit", "yield", "done"}
       /\ Afterwards(h) = "yield" => t \in Procs
       /\ Afterwards(h) = "exit" => at[t] = "trap"
  BY <1>0, After
<1> QED
  BY <1>0, <1>7, <1>8, <1>9, <1>10, <1>11, <1>12, <1>13, <1>14, InHandler

-----------------------------------------------------------------------------
(* From outside.                                                           *)

\* A step that changes nothing IndInv speaks of but types.
LEMMA Outside ==
  ASSUME IndInv, Types', UNCHANGED <<cpus, cur, at, frame, saved, scan, lock, upc>>,
         \A h \in Harts : /\ csr'[h].sie = csr[h].sie /\ csr'[h].stvec = csr[h].stvec
                          /\ csr'[h].tp = csr[h].tp /\ csr'[h].spp = csr[h].spp
                          /\ csr'[h].sepc = csr[h].sepc,
         \A p \in Procs : /\ proc'[p].hartid = proc[p].hartid /\ proc'[p].epc = proc[p].epc
                          /\ \/ proc'[p].state = proc[p].state
                             \/ proc[p].state = "SLEEPING" /\ proc'[p].state = "RUNNABLE"
  PROVE  IndInv'
<1>1. ASSUME NEW t \in Threads PROVE PlaceOf(t)'
  BY DEF IndInv, PlaceOf
<1>2. ASSUME NEW h \in Harts PROVE RunningAt(h)' /\ LocksAt(h)' /\ RegistersAt(h)'
  <2> PICK t \in Threads : t = cur[h]
    BY DEF IndInv, Types
  <2>1. RunningAt(h)'
    BY DEF IndInv, RunningAt
  <2>2. LocksAt(h)'
    BY DEF IndInv, LocksAt, HoldsTicks, HoldsProc, Waiting, Here, Handler
  <2>3. RegistersAt(h)'
    <3>1. at[t] \in {"user", "userret"} => t \in Procs
      BY Current DEF SchedPlaces
    <3> QED
      BY <3>1 DEF IndInv, RegistersAt
  <2> QED
    BY <2>1, <2>2, <2>3
<1>3. ASSUME NEW p \in Procs PROVE StateOf(p)'
  BY DEF IndInv, StateOf
<1>4. \A h, k \in Harts : cur'[h] = cur'[k] => h = k
  BY DEF IndInv
<1> QED
  BY <1>1, <1>2, <1>3, <1>4 DEF IndInv

LEMMA TimervecInv ==
  ASSUME IndInv, NEW h \in Harts, timervec(h)
  PROVE  IndInv'
<1>1. /\ csr' = [csr EXCEPT ![h].ssip = TRUE]
      /\ UNCHANGED <<cpus, cur, at, frame, saved, scan, proc, lock, upc, plic>>
  BY DEF timervec, threads, devices
<1>2. csr \in [Harts -> Csr]
  BY DEF IndInv, Types
<1>3. csr' \in [Harts -> Csr]
  <2>1. [csr[h] EXCEPT !.ssip = TRUE] \in Csr
    BY <1>2 DEF Csr
  <2> QED
    BY <1>1, <1>2, <2>1
<1>4. \A k \in Harts : /\ csr'[k].sie = csr[k].sie /\ csr'[k].stvec = csr[k].stvec
                       /\ csr'[k].tp = csr[k].tp /\ csr'[k].spp = csr[k].spp
                       /\ csr'[k].sepc = csr[k].sepc
  BY <1>1, <1>2 DEF Csr
<1>5. Types'
  BY <1>1, <1>3 DEF IndInv, Types
<1> QED
  BY <1>1, <1>4, <1>5, Outside

LEMMA RaiseInv ==
  ASSUME IndInv, NEW d \in Devices, Raise(d)
  PROVE  IndInv'
<1>1. /\ plic' = [plic EXCEPT !.pending = @ \cup {d}]
      /\ UNCHANGED <<csr, cpus, cur, at, frame, saved, scan, proc, lock, upc>>
  BY DEF Raise, machine, threads
<1>2. plic' \in [pending : SUBSET Devices, claimed : SUBSET Devices]
  BY <1>1 DEF IndInv, Types
<1>3. Types'
  BY <1>1, <1>2 DEF IndInv, Types
<1> QED
  BY <1>1, <1>3, Outside

LEMMA KillInv ==
  ASSUME IndInv, NEW p \in Killable, kill(p)
  PROVE  IndInv'
<1>1. /\ proc' = [proc EXCEPT ![p].killed = TRUE,
                   ![p].state = IF @ = "SLEEPING" THEN "RUNNABLE" ELSE @]
      /\ UNCHANGED <<csr, cpus, cur, at, frame, saved, scan, lock, upc, plic>>
  BY DEF kill, machine, threads, devices
<1>2. p \in Procs /\ proc \in [Procs -> Process]
  BY TrapAssumption DEF Procs, IndInv, Types
<1> DEFINE s == IF proc[p].state = "SLEEPING" THEN "RUNNABLE" ELSE proc[p].state
<1>3. proc' \in [Procs -> Process]
  <2>1. s \in States
    BY <1>2 DEF Process, States
  <2>2. proc' = [proc EXCEPT ![p] = [proc[p] EXCEPT !.killed = TRUE, !.state = s]]
    BY <1>1, <1>2 DEF Process
  <2> HIDE DEF s
  <2>3. [proc[p] EXCEPT !.killed = TRUE, !.state = s] \in Process
    BY <1>2, <2>1 DEF Process
  <2> QED
    BY <1>2, <2>2, <2>3
<1>4. \A q \in Procs : /\ proc'[q].hartid = proc[q].hartid /\ proc'[q].epc = proc[q].epc
                       /\ \/ proc'[q].state = proc[q].state
                          \/ proc[q].state = "SLEEPING" /\ proc'[q].state = "RUNNABLE"
  BY <1>1, <1>2 DEF Process
<1>5. Types'
  BY <1>1, <1>3 DEF IndInv, Types
<1> QED
  BY <1>1, <1>4, <1>5, Outside

LEMMA StutterInv ==
  ASSUME IndInv, UNCHANGED vars
  PROVE  IndInv'
<1>1. UNCHANGED <<csr, cpus, cur, at, frame, saved, scan, proc, lock, upc, plic>>
  BY DEF vars, machine, threads, devices
<1>2. Types'
  BY <1>1 DEF IndInv, Types
<1> QED
  BY <1>1, <1>2, Outside

-----------------------------------------------------------------------------
(* Steps of the threads themselves.                                        *)

\* Where a thread stands when no handler has interrupted it.
LocksOf(h, t) ==
  /\ lock[TicksLock] = h <=> at[t] = "check"
  /\ \A p \in Procs :
       lock[p] = h <=> (at[t] \in {"forkret", "asleep", "back"} /\ cpus[h].proc = p)
  /\ at[t] \in {"check", "forkret", "asleep", "back", "wait", "wait0", "wait1"}
       => cpus[h].noff = 1
  /\ at[t] \notin {"check", "forkret", "asleep", "back", "wait", "wait0", "wait1"}
       => cpus[h].noff = 0
  /\ at[t] \in {"wait0", "wait1", "check"} => cpus[h].intena = TRUE
RegistersOf(h, t) ==
  /\ at[t] # "trap"
  /\ at[t] # "user" => csr[h].tp = h
  /\ at[t] \notin {"user", "userret", "main"} => csr[h].stvec = "kernelvec"
  /\ at[t] \in {"user", "userret"} => csr[h].stvec = "uservec" /\ proc[t].hartid = h
  /\ at[t] \notin Open \cup {"user"} => csr[h].sie = FALSE
  /\ at[t] \in MustBeOn => csr[h].sie = TRUE

LEMMA AtPlace ==
  ASSUME IndInv, NEW h \in Harts, NEW t \in Threads, t = cur[h], frame[t] = NoFrame
  PROVE  LocksOf(h, t) /\ RegistersOf(h, t)
<1>1. LocksAt(h) /\ RegistersAt(h) /\ PlaceOf(t) /\ frame[t].step = "none"
  BY DEF IndInv, NoFrame
<1>2. csr[h].sie \in BOOLEAN /\ cpus[h].intena \in BOOLEAN
  BY TypesOf DEF Csr, Cpu
<1>3. LocksOf(h, t)
  BY <1>1, <1>2 DEF LocksOf, LocksAt, HoldsTicks, HoldsProc, Waiting, Here, Handler
<1>4. RegistersOf(h, t)
  BY <1>1, <1>2 DEF RegistersOf, RegistersAt, PlaceOf, Open, MustBeOn
<1> QED
  BY <1>3, <1>4

\* A thread goes to l, where nothing interrupts it, and stays on its hart.
LEMMA Goes ==
  ASSUME IndInv, NEW h \in Harts, NEW t \in Threads, t = cur[h], OnlyHart(h, t),
         NEW l, at'[t] = l, frame'[t] = NoFrame, cur' = cur,
         cpus'[h].proc = cpus[h].proc, scan'[h] = scan[h],
         t \in Procs => proc'[t].state = proc[t].state /\ l \in ProcPlaces,
         t \notin Procs => at[t] # "back" /\ l \in SchedPlaces,
         l \notin {"forkret", "asleep", "back", "dead", "trap"},
         Types',
         lock'[TicksLock] = h <=> l = "check",
         \A p \in Procs : lock'[p] # h,
         cpus'[h].noff = IF l \in {"check", "wait", "wait0", "wait1"} THEN 1 ELSE 0,
         l \in {"wait0", "wait1", "check"} => cpus'[h].intena,
         l # "user" => csr'[h].tp = h,
         l \notin {"user", "userret", "main"} => csr'[h].stvec = "kernelvec",
         l \in {"user", "userret"} => csr'[h].stvec = "uservec" /\ proc'[t].hartid = h,
         l = "userret" => csr'[h].spp = "U" /\ csr'[h].sepc = proc'[t].epc,
         csr'[h].sie => l \in Open \cup {"user"},
         l \in MustBeOn => csr'[h].sie
  PROVE  IndInv'
<1>1. frame'[t].step = "none"
  BY DEF NoFrame
<1>2. PlaceOf(t)'
  BY <1>1 DEF PlaceOf
<1>3. LocksAt(h)'
  BY <1>1 DEF LocksAt, HoldsTicks, HoldsProc, Waiting, Here, Handler
<1>4. RegistersAt(h)'
  BY DEF RegistersAt
<1>5. t \in Procs => proc'[t].state = proc[t].state /\ at'[t] # "dead"
  OBVIOUS
<1>6. t \notin Procs => (at'[t] = "back" <=> at[t] = "back")
  OBVIOUS
<1> QED
  BY <1>2, <1>3, <1>4, <1>5, <1>6, Stays

LEMMA MainInv ==
  ASSUME IndInv, NEW h \in Harts, main(h)
  PROVE  IndInv'
<1> PICK t \in Threads : t = cur[h]
  BY DEF IndInv, Types
<1>1. /\ at[t] = "main" /\ frame[t] = NoFrame
      /\ csr' = [csr EXCEPT ![h] = [trapinithart(h) EXCEPT !.sie = TRUE]]
      /\ at' = [at EXCEPT ![t] = "acquire"]
      /\ UNCHANGED <<cpus, cur, frame, saved, scan, proc, lock, upc, plic>>
  BY DEF main, Here, Goto
<1>0. LocksOf(h, t) /\ RegistersOf(h, t)
  BY <1>1, AtPlace
<1>2. /\ csr[h] \in Csr /\ csr \in [Harts -> Csr] /\ at \in [Threads -> Places]
  BY TypesOf DEF IndInv, Types
<1>3. /\ csr'[h] = [csr[h] EXCEPT !.stvec = "kernelvec", !.sie = TRUE]
      /\ csr'[h] \in Csr /\ csr'[h].stvec = "kernelvec" /\ csr'[h].tp = csr[h].tp
  BY <1>1, <1>2 DEF trapinithart, Csr
<1>4. at'[t] = "acquire" /\ t \notin Procs /\ csr[h].tp = h
  BY <1>1, <1>2, Current, <1>0 DEF ProcPlaces, LocksOf, RegistersOf
<1>5. Types'
  <2>1. csr' \in [Harts -> Csr]
    BY <1>1, <1>2, <1>3
  <2>2. at' \in [Threads -> Places]
    BY <1>1, <1>2 DEF Places, SchedPlaces
  <2> QED
    BY <1>1, <2>1, <2>2 DEF IndInv, Types
<1>6. OnlyHart(h, t)
  BY <1>1, <1>2 DEF OnlyHart
<1>7. /\ lock[TicksLock] # h /\ \A p \in Procs : lock[p] # h
      /\ cpus[h].noff = 0
  BY <1>1, <1>0 DEF LocksOf, RegistersOf
<1> QED
  BY <1>1, <1>3, <1>4, <1>5, <1>6, <1>7, Goes DEF SchedPlaces, Open, MustBeOn

LEMMA SyscallInv ==
  ASSUME IndInv, NEW h \in Harts, syscall(h)
  PROVE  IndInv'
<1> PICK t \in Threads : t = cur[h]
  BY DEF IndInv, Types
<1>1. /\ at[t] = "syscall" /\ frame[t] = NoFrame
      /\ at' = [at EXCEPT ![t] = "acquire0"]
      /\ UNCHANGED <<csr, cpus, cur, frame, saved, scan, proc, lock, upc, plic>>
  BY DEF syscall, Here, Goto, machine, devices
<1>0. LocksOf(h, t) /\ RegistersOf(h, t)
  BY <1>1, AtPlace
<1>2. at \in [Threads -> Places]
  BY DEF IndInv, Types
<1>3. at'[t] = "acquire0" /\ t \in Procs
  BY <1>1, <1>2, Current DEF SchedPlaces
<1>4. Types'
  <2>1. at' \in [Threads -> Places]
    BY <1>1, <1>2 DEF Places, ProcPlaces
  <2> QED
    BY <1>1, <2>1 DEF IndInv, Types
<1>5. OnlyHart(h, t)
  BY <1>1, <1>2 DEF OnlyHart
<1>6. /\ lock[TicksLock] # h /\ \A p \in Procs : lock[p] # h
      /\ cpus[h].noff = 0 /\ csr[h].sie = TRUE /\ csr[h].stvec = "kernelvec" /\ csr[h].tp = h
  BY <1>1, <1>0 DEF MustBeOn, LocksOf, RegistersOf
<1> QED
  BY <1>1, <1>3, <1>4, <1>5, <1>6, Goes DEF ProcPlaces, Open

\* push_off() with interrupts on, then the wait for tickslock.
LEMMA AcquireTicksInv ==
  ASSUME IndInv, NEW h \in Harts, acquireticks(h)
  PROVE  IndInv'
<1> PICK t \in Threads : t = cur[h]
  BY DEF IndInv, Types
<1>1. /\ at[t] \in {"acquire0", "wait0", "acquire1", "wait1"} /\ frame[t] = NoFrame
      /\ UNCHANGED <<cur, frame, saved, scan, proc, upc, plic>>
  BY DEF acquireticks, Here, Goto, devices
<1>0. LocksOf(h, t) /\ RegistersOf(h, t)
  BY <1>1, AtPlace
<1>2. /\ csr[h] \in Csr /\ cpus[h] \in Cpu
      /\ csr \in [Harts -> Csr] /\ cpus \in [Harts -> Cpu] /\ at \in [Threads -> Places]
      /\ lock \in [0 .. NPROC -> Harts \cup {Free}]
  BY TypesOf DEF IndInv, Types
<1>3. t \in Procs /\ cpuid(h) = h /\ mycpu(h) = cpus[h]
  BY <1>1, Current DEF SchedPlaces
<1>4. /\ lock[TicksLock] # h /\ \A p \in Procs : lock[p] # h
      /\ csr[h].stvec = "kernelvec" /\ csr[h].tp = h
  BY <1>1, <1>0 DEF LocksOf, RegistersOf
<1>5. ASSUME NEW l, l \in {"wait0", "wait1"}, at[t] \in {"acquire0", "acquire1"}, push_off(h),
             at' = [at EXCEPT ![t] = l], lock' = lock
      PROVE  IndInv'
  <2>1. cpus[h].noff = 0 /\ csr[h].sie = TRUE
    BY <1>1, <1>5, <1>0 DEF MustBeOn, LocksOf, RegistersOf
  <2>2. /\ cpus' = [cpus EXCEPT ![h] = pushed(h)] /\ csr' = [csr EXCEPT ![h].sie = FALSE]
    BY <1>3, <1>5 DEF push_off
  <2>3. /\ pushed(h) \in Cpu /\ pushed(h).noff = 1 /\ pushed(h).proc = cpus[h].proc
        /\ pushed(h).intena = TRUE
    BY <1>2, <1>3, <2>1, Pushed
  <2>4. csr' \in [Harts -> Csr] /\ csr'[h].sie = FALSE /\ csr'[h].stvec = csr[h].stvec
        /\ csr'[h].tp = csr[h].tp
    BY <1>2, <2>2 DEF Csr
  <2>5. cpus' \in [Harts -> Cpu] /\ cpus'[h] = pushed(h)
    BY <1>2, <2>2, <2>3
  <2>6. at' \in [Threads -> Places] /\ at'[t] = l
    BY <1>2, <1>5 DEF Places, ProcPlaces
  <2>7. Types'
    BY <1>1, <1>5, <2>4, <2>5, <2>6 DEF IndInv, Types
  <2>8. OnlyHart(h, t)
    BY <1>1, <1>2, <1>5, <2>2 DEF OnlyHart
  <2> QED
    BY <1>1, <1>3, <1>4, <1>5, <2>3, <2>4, <2>5, <2>6, <2>7, <2>8, Goes
       DEF ProcPlaces, MustBeOn
<1>6. ASSUME at[t] \in {"wait0", "wait1"}, Take(h, TicksLock), at' = [at EXCEPT ![t] = "check"],
             UNCHANGED <<csr, cpus>>
      PROVE  IndInv'
  <2>1. cpus[h].noff = 1 /\ csr[h].sie = FALSE /\ cpus[h].intena = TRUE
    BY <1>1, <1>6, <1>0 DEF Open, LocksOf, RegistersOf
  <2>2. lock[TicksLock] = Free /\ lock' = [lock EXCEPT ![TicksLock] = h]
    BY <1>3, <1>6 DEF Take
  <2>3. lock' \in [0 .. NPROC -> Harts \cup {Free}]
    BY <1>2, <2>2
  <2>4. at' \in [Threads -> Places] /\ at'[t] = "check"
    BY <1>2, <1>6 DEF Places, ProcPlaces
  <2>5. Types'
    BY <1>1, <1>6, <2>3, <2>4 DEF IndInv, Types
  <2>6. OnlyHart(h, t)
    BY <1>1, <1>2, <1>6, <2>2 DEF OnlyHart
  <2>7. lock'[TicksLock] = h /\ \A p \in Procs : lock'[p] # h
    BY <1>2, <1>4, <2>2, Numbers
  <2> QED
    BY <1>1, <1>3, <1>4, <1>6, <2>1, <2>4, <2>5, <2>6, <2>7, Goes DEF ProcPlaces, MustBeOn
<1> QED
  BY <1>5, <1>6 DEF acquireticks, Here, Goto, machine


-----------------------------------------------------------------------------
(* Into the kernel and out of it.                                          *)

\* An interrupt of the kernel finds it where interrupts are let in.
LEMMA KernelvecInv ==
  ASSUME IndInv, NEW h \in Harts, NEW kind, kernelvec(h, kind)
  PROVE  IndInv'
<1> PICK t \in Threads : t = cur[h]
  BY DEF IndInv, Types
<1>1. kind \in {"timer", "dev"} /\ at[t] # "user" /\ csr[h].sie
  BY DEF kernelvec
<1>2. at[t] \in Open /\ frame[t] = NoFrame
  BY <1>1 DEF IndInv, RegistersAt
<1>3. LocksOf(h, t) /\ RegistersOf(h, t)
  BY <1>2, AtPlace
<1>4. cpuid(h) = h /\ csr[h].stvec = "kernelvec" /\ csr[h].tp = h
  BY <1>2, <1>3, Current DEF RegistersOf, Open
<1> DEFINE f == [step |-> FirstStep(h, kind), kind |-> kind, i |-> 0, sepc |-> at[t], tp |-> h]
<1>5. /\ csr' = [csr EXCEPT ![h] = Entered(h, "S", at[t])]
      /\ frame' = [frame EXCEPT ![t] = f]
      /\ UNCHANGED <<cpus, cur, at, saved, scan, proc, lock, upc, plic>>
  BY <1>2, <1>4 DEF kernelvec, Checked, devices
<1>6. /\ csr[h] \in Csr /\ csr \in [Harts -> Csr] /\ frame \in [Threads -> Frame]
      /\ at[t] \in Places /\ PlaceOf(t)
  BY TypesOf DEF IndInv, Types
<1>7. f.step \in {"claim", "clock", "ack"} /\ f.sepc = at[t]
  BY DEF FirstStep
<1>8. f \in Frame
  BY <1>1, <1>6, <1>7 DEF Frame, HandlerSteps
<1> HIDE DEF f
<1>9. csr' \in [Harts -> Csr] /\ csr'[h].sie = FALSE /\ csr'[h].tp = h
      /\ csr'[h].stvec = "kernelvec"
  BY <1>4, <1>5, <1>6 DEF Entered, Csr
<1>10. frame' \in [Threads -> Frame] /\ frame'[t] = f
  BY <1>5, <1>6, <1>8
<1>11. Types'
  BY <1>5, <1>9, <1>10 DEF IndInv, Types
<1>12. OnlyHart(h, t)
  BY <1>5, <1>6 DEF OnlyHart
<1>13. at[t] \notin {"trap", "user", "userret", "main", "back", "forkret", "asleep", "check", "dead",
                     "wait", "wait0", "wait1"}
  BY <1>2 DEF Open
<1>14. f # NoFrame
  BY <1>7 DEF NoFrame
<1>15. PlaceOf(t)'
  BY <1>2, <1>5, <1>6, <1>7, <1>10, <1>13 DEF PlaceOf
<1>16. LocksAt(h)'
  BY <1>3, <1>5, <1>7, <1>10, <1>13, <1>14
     DEF LocksOf, LocksAt, HoldsTicks, HoldsProc, Waiting, Here, Handler
<1>17. RegistersAt(h)'
  BY <1>5, <1>9, <1>10, <1>13, <1>14 DEF RegistersAt
<1> QED
  BY <1>5, <1>11, <1>12, <1>13, <1>15, <1>16, <1>17, Stays, Current

\* kerneltrap() writes back what the other threads have left in the registers.
LEMMA KernelretInv ==
  ASSUME IndInv, NEW h \in Harts, kernelret(h)
  PROVE  IndInv'
<1> PICK t \in Threads : t = cur[h]
  BY DEF IndInv, Types
<1>1. frame[t].step = "done" /\ at[t] # "trap"
  BY DEF kernelret, Handler
<1>2. at[t] \in Open /\ frame[t].sepc = at[t] /\ ~csr[h].sie /\ csr[h].tp = h
      /\ csr[h].stvec = "kernelvec"
  BY <1>1, InFrame
<1> DEFINE r == Restored(h, frame[t])
<1>3. /\ csr[h] \in Csr /\ csr \in [Harts -> Csr] /\ frame \in [Threads -> Frame]
      /\ at \in [Threads -> Places] /\ at[t] \in Places /\ LocksAt(h)
  BY TypesOf DEF IndInv, Types
<1>4. r.spp = "S" /\ r.sepc = at[t]
      /\ sret(r) \in Csr /\ sret(r).sie = TRUE /\ sret(r).tp = h /\ sret(r).stvec = "kernelvec"
  BY <1>2, <1>3 DEF Restored, sret, Csr
<1>5. /\ csr' = [csr EXCEPT ![h] = sret(r)]
      /\ at' = [at EXCEPT ![t] = IF r.spp = "S" THEN r.sepc ELSE "panic"]
      /\ frame' = [frame EXCEPT ![t] = NoFrame]
      /\ UNCHANGED <<cpus, cur, saved, scan, proc, lock, upc, plic>>
  BY DEF kernelret, devices
<1> HIDE DEF r
<1>6. at' = at
  BY <1>3, <1>4, <1>5
<1>7. /\ csr' \in [Harts -> Csr] /\ csr'[h].sie = TRUE /\ csr'[h].tp = h
      /\ csr'[h].stvec = "kernelvec"
  BY <1>3, <1>4, <1>5
<1>8. NoFrame \in Frame
  BY DEF NoFrame, Frame
<1>9. frame' \in [Threads -> Frame] /\ frame'[t] = NoFrame
  BY <1>3, <1>5, <1>8
<1>10. Types'
  BY <1>5, <1>6, <1>7, <1>9 DEF IndInv, Types
<1>11. OnlyHart(h, t)
  BY <1>3, <1>5, <1>6 DEF OnlyHart
<1>12. /\ lock[TicksLock] # h /\ \A p \in Procs : lock[p] # h
       /\ cpus[h].noff = 0
  BY <1>1, <1>3, InFrame DEF LocksAt, HoldsTicks, HoldsProc, Waiting, Here, Handler
<1>13. at[t] \notin {"trap", "user", "userret", "main", "back", "forkret", "asleep", "check", "dead",
                     "wait", "wait0", "wait1"}
  BY <1>2 DEF Open
<1>14. /\ t \in Procs => proc'[t].state = proc[t].state /\ at[t] \in ProcPlaces
       /\ t \notin Procs => at[t] # "back" /\ at[t] \in SchedPlaces
  BY <1>5, <1>13, Current
<1> QED
  BY <1>2, <1>5, <1>6, <1>7, <1>9, <1>10, <1>11, <1>12, <1>13, <1>14, Goes

\* After a fork, a system call or devintr(), in usertrapret() with interrupts off.
LEMMA UsertrapretInv ==
  ASSUME IndInv, NEW h \in Harts, usertrapret(h)
  PROVE  IndInv'
<1> PICK t \in Threads : t = cur[h]
  BY DEF IndInv, Types
<1>1. /\ \/ frame[t].step = "done" /\ at[t] = "trap"
         \/ frame[t] = NoFrame /\ at[t] \in {"end", "forked"}
      /\ csr' = [csr EXCEPT ![h].sie = FALSE]
      /\ at' = [at EXCEPT ![t] = "ret"]
      /\ frame' = [frame EXCEPT ![t] = NoFrame]
      /\ UNCHANGED <<cpus, cur, saved, scan, proc, lock, upc, plic>>
  BY DEF usertrapret, Handler, Here, intr_off, devices
<1>2. /\ csr[h] \in Csr /\ csr \in [Harts -> Csr] /\ frame \in [Threads -> Frame]
      /\ at \in [Threads -> Places] /\ LocksAt(h)
  BY TypesOf DEF IndInv, Types
<1>3. t \in Procs /\ csr[h].tp = h /\ csr[h].stvec = "kernelvec"
      /\ lock[TicksLock] # h /\ (\A p \in Procs : lock[p] # h) /\ cpus[h].noff = 0
  <2>1. CASE frame[t].step = "done" /\ at[t] = "trap"
    BY <1>2, <2>1, InFrame DEF LocksAt, HoldsTicks, HoldsProc, Waiting, Here, Handler
  <2>2. CASE frame[t] = NoFrame /\ at[t] \in {"end", "forked"}
    <3>1. LocksOf(h, t) /\ RegistersOf(h, t)
      BY <2>2, AtPlace
    <3>2. t \in Procs
      BY <2>2, Current DEF SchedPlaces
    <3> QED
      BY <2>2, <3>1, <3>2 DEF LocksOf, RegistersOf
  <2> QED
    BY <1>1, <2>1, <2>2
<1>4. csr' \in [Harts -> Csr] /\ csr'[h].sie = FALSE /\ csr'[h].tp = h
      /\ csr'[h].stvec = "kernelvec"
  BY <1>1, <1>2, <1>3 DEF Csr
<1>5. NoFrame \in Frame
  BY DEF NoFrame, Frame
<1>6. frame' \in [Threads -> Frame] /\ frame'[t] = NoFrame
  BY <1>1, <1>2, <1>5
<1>7. at' \in [Threads -> Places] /\ at'[t] = "ret"
  BY <1>1, <1>2 DEF Places, ProcPlaces
<1>8. Types'
  BY <1>1, <1>4, <1>6, <1>7 DEF IndInv, Types
<1>9. OnlyHart(h, t)
  BY <1>1, <1>2 DEF OnlyHart
<1> QED
  BY <1>1, <1>3, <1>4, <1>6, <1>7, <1>8, <1>9, Goes DEF ProcPlaces, MustBeOn

LEMMA ToUserInv ==
  ASSUME IndInv, NEW h \in Harts, touser(h)
  PROVE  IndInv'
<1> PICK t \in Threads : t = cur[h]
  BY DEF IndInv, Types
<1>1. at[t] = "ret" /\ frame[t] = NoFrame
  BY DEF touser, Here
<1>2. LocksOf(h, t) /\ RegistersOf(h, t) /\ t \in Procs /\ cpuid(h) = h
  BY <1>1, AtPlace, Current DEF SchedPlaces
<1>3. /\ csr' = [csr EXCEPT ![h].stvec = "uservec", ![h].spp = "U", ![h].spie = TRUE,
                            ![h].sepc = proc[t].epc]
      /\ proc' = [proc EXCEPT ![t].hartid = h]
      /\ at' = [at EXCEPT ![t] = "userret"]
      /\ UNCHANGED <<cpus, cur, frame, saved, scan, lock, upc, plic>>
  BY <1>2 DEF touser, Goto, devices
<1>4. /\ csr[h] \in Csr /\ csr \in [Harts -> Csr] /\ proc \in [Procs -> Process]
      /\ at \in [Threads -> Places] /\ proc[t] \in Process
  BY <1>2, TypesOf DEF IndInv, Types
<1>5. csr[h].sie = FALSE /\ csr[h].tp = h
  BY <1>1, <1>2 DEF RegistersOf, Open
<1>6. /\ proc' \in [Procs -> Process] /\ proc'[t].hartid = h /\ proc'[t].epc = proc[t].epc
      /\ proc'[t].state = proc[t].state
      /\ \A p \in Procs \ {t} : proc'[p] = proc[p]
  BY <1>2, <1>3, <1>4 DEF Process
<1>7. /\ csr' \in [Harts -> Csr] /\ csr'[h].sie = FALSE /\ csr'[h].tp = h
      /\ csr'[h].stvec = "uservec" /\ csr'[h].spp = "U" /\ csr'[h].sepc = proc[t].epc
  BY <1>3, <1>4, <1>5 DEF Csr, Process
<1>8. at' \in [Threads -> Places] /\ at'[t] = "userret"
  BY <1>3, <1>4 DEF Places, ProcPlaces
<1>9. Types'
  BY <1>3, <1>6, <1>7, <1>8 DEF IndInv, Types
<1>10. OnlyHart(h, t)
  BY <1>3, <1>4, <1>6 DEF OnlyHart
<1>11. lock[TicksLock] # h /\ (\A p \in Procs : lock[p] # h) /\ cpus[h].noff = 0
  BY <1>1, <1>2 DEF LocksOf
<1> QED
  BY <1>1, <1>2, <1>3, <1>6, <1>7, <1>8, <1>9, <1>10, <1>11, Goes DEF ProcPlaces, MustBeOn

LEMMA UserretInv ==
  ASSUME IndInv, NEW h \in Harts, userret(h)
  PROVE  IndInv'
<1> PICK t \in Threads : t = cur[h]
  BY DEF IndInv, Types
<1>1. at[t] = "userret" /\ frame[t] = NoFrame
  BY DEF userret, Here
<1>2. LocksOf(h, t) /\ RegistersOf(h, t) /\ t \in Procs
  BY <1>1, AtPlace, Current DEF SchedPlaces
<1>3. csr[h].spp = "U" /\ csr[h].sepc = proc[t].epc
  BY <1>1 DEF IndInv, RegistersAt
<1>4. /\ csr' = [csr EXCEPT ![h] = [sret(csr[h]) EXCEPT !.tp = Free]]
      /\ upc' = [upc EXCEPT ![t] = csr[h].sepc]
      /\ at' = [at EXCEPT ![t] = "user"]
      /\ UNCHANGED <<cpus, cur, frame, saved, scan, proc, lock, plic>>
  BY <1>3 DEF userret, Checked, Goto, devices
<1>5. /\ csr[h] \in Csr /\ csr \in [Harts -> Csr] /\ upc \in [Procs -> Counters]
      /\ at \in [Threads -> Places] /\ proc[t] \in Process
  BY <1>2, TypesOf DEF IndInv, Types
<1>6. csr[h].stvec = "uservec" /\ proc[t].hartid = h
  BY <1>1, <1>2 DEF RegistersOf
<1>7. csr' \in [Harts -> Csr] /\ csr'[h].stvec = "uservec"
  BY <1>4, <1>5, <1>6 DEF sret, Csr
<1>8. upc' \in [Procs -> Counters]
  BY <1>3, <1>4, <1>5 DEF Process
<1>9. at' \in [Threads -> Places] /\ at'[t] = "user"
  BY <1>4, <1>5 DEF Places, ProcPlaces
<1>10. Types'
  BY <1>4, <1>7, <1>8, <1>9 DEF IndInv, Types
<1>11. OnlyHart(h, t)
  BY <1>4, <1>5 DEF OnlyHart
<1>12. lock[TicksLock] # h /\ (\A p \in Procs : lock[p] # h) /\ cpus[h].noff = 0
  BY <1>1, <1>2 DEF LocksOf
<1> QED
  BY <1>1, <1>2, <1>4, <1>6, <1>7, <1>9, <1>10, <1>11, <1>12, Goes DEF ProcPlaces, MustBeOn

\* A system call, an interrupt, or a fault of the program.
LEMMA UsertrapInv ==
  ASSUME IndInv, NEW h \in Harts, NEW kind, usertrap(h, kind)
  PROVE  IndInv'
<1> PICK t \in Threads : t = cur[h]
  BY DEF IndInv, Types
<1>1. at[t] = "user" /\ frame[t] = NoFrame
  BY DEF usertrap, Here
<1>2. LocksOf(h, t) /\ RegistersOf(h, t) /\ t \in Procs
  BY <1>1, AtPlace, Current DEF SchedPlaces
<1>3. csr[h].stvec = "uservec" /\ proc[t].hartid = h
  BY <1>1, <1>2 DEF RegistersOf
<1> DEFINE in == [Entered(h, "U", upc[t]) EXCEPT !.stvec = "kernelvec", !.tp = h]
<1>4. PICK pc, dies :
        /\ pc \in {upc[t], Following[upc[t]]} /\ dies \in BOOLEAN
        /\ proc' = [proc EXCEPT ![t].epc = pc, ![t].killed = @ \/ dies, ![t].hartid = Free]
        /\ UNCHANGED <<cpus, cur, saved, scan, lock, upc, plic>>
        /\ \/ /\ csr' = [csr EXCEPT ![h] = [in EXCEPT !.sie = TRUE]]
              /\ at' = [at EXCEPT ![t] = "syscall"] /\ frame' = frame
           \/ /\ csr' = [csr EXCEPT ![h] = in]
              /\ at' = [at EXCEPT ![t] = "exit"] /\ frame' = frame
           \/ /\ csr' = [csr EXCEPT ![h] = in] /\ kind \in {"timer", "dev"}
              /\ at' = [at EXCEPT ![t] = "trap"]
              /\ frame' = [frame EXCEPT ![t].step = FirstStep(h, kind), ![t].kind = kind]
  <2>1. in.tp = h
    BY TypesOf DEF Entered, Csr
  <2> QED
    BY <1>3, <2>1 DEF usertrap, Checked, Goto, devices
<1>5. /\ csr[h] \in Csr /\ csr \in [Harts -> Csr] /\ proc \in [Procs -> Process]
      /\ at \in [Threads -> Places] /\ frame \in [Threads -> Frame] /\ frame[t] \in Frame
      /\ upc \in [Procs -> Counters] /\ upc[t] \in Counters
  BY <1>2, TypesOf DEF IndInv, Types
<1>6. in \in Csr /\ in.sie = FALSE /\ in.tp = h /\ in.stvec = "kernelvec"
  BY <1>5 DEF Entered, Csr
<1>7. /\ [in EXCEPT !.sie = TRUE] \in Csr /\ [in EXCEPT !.sie = TRUE].sie = TRUE
      /\ [in EXCEPT !.sie = TRUE].tp = h /\ [in EXCEPT !.sie = TRUE].stvec = "kernelvec"
  BY <1>6 DEF Csr
<1> HIDE DEF in
<1>8. /\ proc' \in [Procs -> Process] /\ proc'[t].state = proc[t].state
      /\ \A p \in Procs \ {t} : proc'[p] = proc[p]
  <2>1. pc \in Counters
    BY <1>4, <1>5 DEF Counters, Following
  <2> DEFINE b == proc[t].killed \/ dies
             r == [proc[t] EXCEPT !.epc = pc, !.killed = b, !.hartid = Free]
  <2>2. b \in BOOLEAN
    OBVIOUS
  <2>3. proc' = [proc EXCEPT ![t] = r]
    BY <1>2, <1>4, <1>5
  <2> HIDE DEF b
  <2>4. r \in Process /\ r.state = proc[t].state
    BY <1>2, <1>5, <2>1, <2>2 DEF Process
  <2> HIDE DEF r
  <2> QED
    BY <1>2, <1>5, <2>3, <2>4
<1>9. /\ lock'[TicksLock] # h /\ (\A p \in Procs : lock'[p] # h)
      /\ cpus'[h].noff = 0 /\ cpus'[h].proc = cpus[h].proc /\ scan'[h] = scan[h] /\ cur' = cur
  BY <1>1, <1>2, <1>4 DEF LocksOf
<1>10. OnlyHart(h, t)
  <2>1. \A k \in Harts \ {h} : csr'[k] = csr[k]
    BY <1>4, <1>5
  <2>2. \A s \in Threads \ {t} : at'[s] = at[s] /\ frame'[s] = frame[s]
    BY <1>4, <1>5
  <2> QED
    BY <1>4, <1>8, <2>1, <2>2 DEF OnlyHart
<1>11. ASSUME NEW r \in Csr, NEW l, l \in {"syscall", "exit"}, r.sie = (l = "syscall"), r.tp = h,
              r.stvec = "kernelvec", csr' = [csr EXCEPT ![h] = r],
              at' = [at EXCEPT ![t] = l], frame' = frame
       PROVE  IndInv'
  <2>1. csr' \in [Harts -> Csr] /\ csr'[h] = r
    BY <1>5, <1>11
  <2>2. at' \in [Threads -> Places] /\ at'[t] = l
    BY <1>5, <1>11 DEF Places, ProcPlaces
  <2>3. Types'
    BY <1>4, <1>8, <1>11, <2>1, <2>2 DEF IndInv, Types
  <2>4. frame'[t] = NoFrame /\ csr'[h].sie = (l = "syscall") /\ csr'[h].tp = h
        /\ csr'[h].stvec = "kernelvec"
    BY <1>1, <1>11, <2>1
  <2> QED
    BY <1>2, <1>8, <1>9, <1>10, <1>11, <2>2, <2>3, <2>4, Goes DEF ProcPlaces, Open, MustBeOn
<1>12. ASSUME csr' = [csr EXCEPT ![h] = in], kind \in {"timer", "dev"},
              at' = [at EXCEPT ![t] = "trap"],
              frame' = [frame EXCEPT ![t].step = FirstStep(h, kind), ![t].kind = kind]
       PROVE  IndInv'
  <2>1. FirstStep(h, kind) \in {"claim", "clock", "ack"}
    BY DEF FirstStep
  <2>2. csr' \in [Harts -> Csr] /\ csr'[h] = in
    BY <1>5, <1>6, <1>12
  <2>3. at' \in [Threads -> Places] /\ at'[t] = "trap"
    BY <1>5, <1>12 DEF Places, ProcPlaces
  <2>4. frame' \in [Threads -> Frame] /\ frame'[t].step \in {"claim", "clock", "ack"}
    <3> DEFINE s == FirstStep(h, kind)
               f == [frame[t] EXCEPT !.step = s, !.kind = kind]
    <3>1. s \in {"claim", "clock", "ack"} /\ frame' = [frame EXCEPT ![t] = f]
      BY <1>5, <1>12, <2>1
    <3> HIDE DEF s
    <3>2. f \in Frame /\ f.step = s
      BY <1>5, <1>12, <3>1 DEF Frame, HandlerSteps
    <3> HIDE DEF f
    <3> QED
      BY <1>5, <3>1, <3>2
  <2>5. Types'
    BY <1>4, <1>8, <2>2, <2>3, <2>4 DEF IndInv, Types
  <2>6. frame'[t] # NoFrame
    BY <2>4 DEF NoFrame
  <2>7. PlaceOf(t)'
    BY <1>2, <2>3, <2>4 DEF PlaceOf, ProcPlaces
  <2>8. LocksAt(h)'
    BY <1>9, <2>3, <2>4, <2>6 DEF LocksAt, HoldsTicks, HoldsProc, Waiting, Here, Handler
  <2>9. RegistersAt(h)'
    BY <1>6, <1>9, <2>2, <2>3, <2>6 DEF RegistersAt
  <2> QED
    BY <1>2, <1>8, <1>9, <1>10, <2>3, <2>5, <2>7, <2>8, <2>9, Stays
<1> QED
  BY <1>4, <1>6, <1>7, <1>11, <1>12

\* release(&p->lock): a new process runs with interrupts as the scheduler had them.
LEMMA ForkretInv ==
  ASSUME IndInv, NEW h \in Harts, forkret(h)
  PROVE  IndInv'
<1> PICK t \in Threads : t = cur[h]
  BY DEF IndInv, Types
<1>1. at[t] = "forkret" /\ frame[t] = NoFrame
  BY DEF forkret, Here
<1>2. LocksOf(h, t) /\ RegistersOf(h, t) /\ t \in Procs /\ cpuid(h) = h /\ mycpu(h) = cpus[h]
      /\ cpus[h].proc = t
  BY <1>1, AtPlace, Current DEF SchedPlaces
<1> DEFINE c == cpus[h]
<1>3. /\ lock[TicksLock] # h /\ lock[t] = h /\ (\A p \in Procs \ {t} : lock[p] # h)
      /\ c.noff = 1 /\ csr[h].sie = FALSE /\ csr[h].tp = h /\ csr[h].stvec = "kernelvec"
  BY <1>1, <1>2 DEF LocksOf, RegistersOf, Open
<1>4. /\ lock' = [lock EXCEPT ![t] = Free]
      /\ cpus' = [cpus EXCEPT ![h] = popped(c)]
      /\ csr' = [csr EXCEPT ![h] = reenabled(h, c)]
      /\ at' = [at EXCEPT ![t] = "forked"]
      /\ UNCHANGED <<cur, frame, saved, scan, proc, upc, plic>>
  BY <1>2, <1>3 DEF forkret, Checked, Releasable, holding, Drop, pop_off, Goto, devices
<1>5. /\ csr[h] \in Csr /\ csr \in [Harts -> Csr] /\ c \in Cpu /\ cpus \in [Harts -> Cpu]
      /\ at \in [Threads -> Places] /\ lock \in [0 .. NPROC -> Harts \cup {Free}]
  BY TypesOf DEF IndInv, Types
<1>6. /\ popped(c) \in Cpu /\ popped(c).noff = 0 /\ popped(c).proc = c.proc
      /\ reenabled(h, c) \in Csr
      /\ reenabled(h, c).stvec = csr[h].stvec /\ reenabled(h, c).tp = csr[h].tp
  BY <1>3, <1>5, Popped
<1> HIDE DEF c
<1>7. /\ cpus' \in [Harts -> Cpu] /\ cpus'[h].noff = 0 /\ cpus'[h].proc = cpus[h].proc
      /\ csr' \in [Harts -> Csr] /\ csr'[h].tp = h /\ csr'[h].stvec = "kernelvec"
  BY <1>3, <1>4, <1>5, <1>6 DEF c
<1>8. lock' \in [0 .. NPROC -> Harts \cup {Free}]
      /\ lock'[TicksLock] # h /\ (\A p \in Procs : lock'[p] # h)
  BY <1>3, <1>4, <1>5, Numbers
<1>9. at' \in [Threads -> Places] /\ at'[t] = "forked"
  BY <1>4, <1>5 DEF Places, ProcPlaces
<1>10. Types'
  BY <1>4, <1>7, <1>8, <1>9 DEF IndInv, Types
<1>11. OnlyHart(h, t)
  BY <1>3, <1>4, <1>5 DEF OnlyHart
<1> QED
  BY <1>1, <1>2, <1>4, <1>7, <1>8, <1>9, <1>10, <1>11, Goes DEF ProcPlaces, Open, MustBeOn

-----------------------------------------------------------------------------
(* swtch: a hart goes on with its scheduler, or with a process.            *)

\* A process that stops leaves the hart to the scheduler, with its lock held.
LEMMA Switches ==
  ASSUME IndInv, NEW h \in Harts, NEW t \in Procs, t = cur[h], OnlyHart(h, t),
         cur' = [cur EXCEPT ![h] = SchedOf(h)], scan' = scan,
         cpus'[h].proc = t, cpus'[h].noff = 1,
         lock'[t] = h, \A p \in Procs \ {t} : lock'[p] # h, lock'[TicksLock] # h,
         csr'[h].sie = FALSE, csr'[h].tp = h, csr'[h].stvec = "kernelvec",
         Types', PlaceOf(t)', StateOf(t)'
  PROVE  IndInv'
<1> DEFINE s == SchedOf(h)
<1>1. t \in Threads /\ s \in Threads /\ s \notin Procs /\ s # t /\ cur \in [Harts -> Threads]
  BY Numbers DEF IndInv, Types
<1>2. scan[h] = t /\ at[s] = "back"
  BY <1>1, Current
<1>3. frame[s] = NoFrame
  BY <1>1, <1>2 DEF IndInv, PlaceOf, Open
<1>4. cur'[h] = s /\ at'[s] = "back" /\ frame'[s] = NoFrame /\ frame'[s].step = "none"
  BY <1>1, <1>2, <1>3 DEF OnlyHart, NoFrame
<1>5. RunningAt(h)'
  BY <1>2, <1>4 DEF RunningAt
<1>6. LocksAt(h)'
  BY <1>4 DEF LocksAt, HoldsTicks, HoldsProc, Waiting, Here, Handler
<1>7. RegistersAt(h)'
  BY <1>4 DEF RegistersAt, MustBeOn
<1>8. \A k \in Harts : cur'[h] = cur'[k] => h = k
  <2> SUFFICES ASSUME NEW k \in Harts, k # h, s = cur[k] PROVE FALSE
    BY <1>1, <1>4
  <2>1. RunningAt(k)
    BY DEF IndInv
  <2> QED
    BY <1>1, <2>1, Numbers DEF RunningAt
<1>9. \A p \in Procs : cur'[h] = p => at[p] # "dead"
  BY <1>1, <1>4
<1> QED
  BY <1>1, <1>5, <1>6, <1>7, <1>8, <1>9, HereToo

\* The scheduler goes to l, in the midst of its loop.
LEMMA SchedulerGoes ==
  ASSUME IndInv, NEW h \in Harts, NEW t \in Threads \ Procs, t = cur[h], OnlyHart(h, t),
         NEW l \in {"acquire", "wait"}, at'[t] = l, frame'[t] = NoFrame, cur' = cur,
         cpus'[h].proc = NoProc, cpus'[h].noff = IF l = "wait" THEN 1 ELSE 0,
         \A p \in Procs : lock'[p] # h, lock'[TicksLock] # h,
         csr'[h].sie => l = "acquire", csr'[h].tp = h, csr'[h].stvec = "kernelvec", Types'
  PROVE  IndInv'
<1>1. t = SchedOf(h) /\ frame'[t].step = "none"
  BY Current DEF NoFrame
<1>2. PlaceOf(t)'
  BY <1>1 DEF PlaceOf, SchedPlaces
<1>3. RunningAt(h)'
  BY <1>1 DEF RunningAt
<1>4. LocksAt(h)'
  BY <1>1 DEF LocksAt, HoldsTicks, HoldsProc, Waiting, Here, Handler
<1>5. RegistersAt(h)'
  BY DEF RegistersAt, MustBeOn, Open
<1>6. \A k \in Harts : cur'[h] = cur'[k] => h = k
  BY DEF IndInv
<1>7. \A p \in Procs : cur'[h] = p => at[p] # "dead"
  OBVIOUS
<1> QED
  BY <1>2, <1>3, <1>4, <1>5, <1>6, <1>7, HereToo

\* The scheduler runs process p.
LEMMA Dispatched ==
  ASSUME IndInv, NEW h \in Harts, NEW t \in Threads \ Procs, t = cur[h], OnlyHart(h, t),
         NEW p \in Procs, p = scan[h], proc[p].state = "RUNNABLE",
         at[t] = "wait", at'[t] = "back", frame[t] = NoFrame, frame' = frame, scan' = scan,
         cur' = [cur EXCEPT ![h] = p], proc'[p].state = "RUNNING",
         cpus'[h].proc = p, cpus'[h].noff = cpus[h].noff, cpus'[h].intena = cpus[h].intena,
         csr' = csr, lock'[p] = h, \A q \in Procs \ {p} : lock'[q] = lock[q],
         lock'[TicksLock] = lock[TicksLock], Types'
  PROVE  IndInv'
<1>1. t = SchedOf(h) /\ p \in Threads /\ p # t /\ cur \in [Harts -> Threads]
  BY Current, Numbers DEF IndInv, Types
<1>2. LocksOf(h, t) /\ RegistersOf(h, t)
  BY AtPlace
<1>3. /\ cpus[h].noff = 1 /\ lock[TicksLock] # h /\ (\A q \in Procs : lock[q] # h)
      /\ csr[h].sie = FALSE /\ csr[h].tp = h /\ csr[h].stvec = "kernelvec"
  BY <1>2 DEF LocksOf, RegistersOf, Open
<1>4. /\ frame[p].step = "resumed" \/ (frame[p] = NoFrame /\ at[p] \in {"forkret", "asleep"})
      /\ PlaceOf(p)
  BY <1>1 DEF IndInv, StateOf
<1>5. at'[p] = at[p] /\ cur'[h] = p /\ frame'[p] = frame[p]
  BY <1>1 DEF OnlyHart
<1>6. at[p] \notin {"user", "userret", "main", "back", "check", "dead", "wait", "wait0", "wait1"}
  BY <1>4 DEF PlaceOf, NoFrame, Open
<1>7. RunningAt(h)'
  BY <1>1, <1>5 DEF RunningAt
<1>8. frame[p] = NoFrame => frame[p].step = "none"
  BY DEF NoFrame
<1>9. LocksAt(h)'
  BY <1>3, <1>4, <1>5, <1>6, <1>8
     DEF LocksAt, HoldsTicks, HoldsProc, Waiting, Here, Handler
<1>10. RegistersAt(h)'
  BY <1>3, <1>4, <1>5, <1>6, <1>8 DEF RegistersAt, MustBeOn
<1>11. PlaceOf(t)'
  BY <1>1, <1>8 DEF PlaceOf, IndInv, NoFrame, SchedPlaces
<1>12. \A k \in Harts : cur'[h] = cur'[k] => h = k
  <2> SUFFICES ASSUME NEW k \in Harts, k # h, p = cur[k] PROVE FALSE
    BY <1>1, <1>5
  <2>1. proc[p].state = "RUNNING"
    BY <1>1, Current
  <2> QED
    BY <2>1
<1>13. \A q \in Procs : cur'[h] = q => at[q] # "dead"
  BY <1>5, <1>6
<1> QED
  BY <1>1, <1>7, <1>9, <1>10, <1>11, <1>12, <1>13, HereToo

\* scheduler(): the lock of the next process, the process, or the next one.
LEMMA SchedulerInv ==
  ASSUME IndInv, NEW h \in Harts, scheduler(h)
  PROVE  IndInv'
<1> PICK t \in Threads : t = cur[h]
  BY DEF IndInv, Types
<1>1. t \notin Procs /\ at[t] \in {"acquire", "wait", "back"} /\ frame[t] = NoFrame
      /\ UNCHANGED <<upc, plic>>
  BY DEF scheduler, Here, devices
<1>2. LocksOf(h, t) /\ RegistersOf(h, t) /\ t = SchedOf(h) /\ cpuid(h) = h /\ mycpu(h) = cpus[h]
      /\ cpus[h].proc = IF at[t] = "back" THEN scan[h] ELSE NoProc
  BY <1>1, AtPlace, Current
<1>3. /\ csr[h] \in Csr /\ csr \in [Harts -> Csr] /\ cpus[h] \in Cpu /\ cpus \in [Harts -> Cpu]
      /\ at \in [Threads -> Places] /\ lock \in [0 .. NPROC -> Harts \cup {Free}]
      /\ scan \in [Harts -> Procs] /\ scan[h] \in Procs /\ proc \in [Procs -> Process]
      /\ cur \in [Harts -> Threads]
  BY TypesOf DEF IndInv, Types
<1>4. csr[h].tp = h /\ csr[h].stvec = "kernelvec" /\ lock[TicksLock] # h
      /\ (at[t] # "back" => \A p \in Procs : lock[p] # h)
  BY <1>1, <1>2 DEF LocksOf, RegistersOf
<1> DEFINE p == scan[h]
<1>5. CASE at[t] = "acquire"
  <2>1. /\ cpus' = [cpus EXCEPT ![h] = pushed(h)] /\ csr' = [csr EXCEPT ![h].sie = FALSE]
        /\ at' = [at EXCEPT ![t] = "wait"]
        /\ UNCHANGED <<cur, frame, saved, scan, proc, lock>>
    BY <1>2, <1>5 DEF scheduler, Here, push_off, Goto
  <2>2. cpus[h].noff = 0
    BY <1>2, <1>5 DEF LocksOf
  <2>3. pushed(h) \in Cpu /\ pushed(h).noff = 1 /\ pushed(h).proc = cpus[h].proc
    BY <1>2, <1>3, <2>2, Pushed
  <2>4. cpus' \in [Harts -> Cpu] /\ cpus'[h].noff = 1 /\ cpus'[h].proc = NoProc
    BY <1>2, <1>3, <1>5, <2>1, <2>3
  <2>5. csr' \in [Harts -> Csr] /\ csr'[h].sie = FALSE /\ csr'[h].tp = h
        /\ csr'[h].stvec = "kernelvec"
    BY <1>3, <1>4, <2>1 DEF Csr
  <2>6. at' \in [Threads -> Places] /\ at'[t] = "wait"
    BY <1>3, <2>1 DEF Places, SchedPlaces
  <2>7. Types'
    BY <1>1, <2>1, <2>4, <2>5, <2>6 DEF IndInv, Types
  <2>8. OnlyHart(h, t)
    BY <1>3, <2>1 DEF OnlyHart
  <2> QED
    BY <1>1, <1>4, <1>5, <2>1, <2>4, <2>5, <2>6, <2>7, <2>8, SchedulerGoes
<1>6. CASE at[t] = "wait" /\ proc[p].state = "RUNNABLE"
  <2>1. /\ lock[p] = Free /\ lock' = [lock EXCEPT ![p] = h]
        /\ proc' = [proc EXCEPT ![p].state = "RUNNING"]
        /\ cpus' = [cpus EXCEPT ![h].proc = p]
        /\ cur' = [cur EXCEPT ![h] = p]
        /\ at' = [at EXCEPT ![t] = "back"]
        /\ UNCHANGED <<csr, frame, saved, scan>>
    BY <1>2, <1>6 DEF scheduler, Here, Take, Goto
  <2>2. /\ proc' \in [Procs -> Process] /\ proc'[p].state = "RUNNING"
        /\ proc'[p].hartid = proc[p].hartid /\ proc'[p].epc = proc[p].epc
        /\ \A q \in Procs \ {p} : proc'[q] = proc[q]
    BY <1>3, <2>1 DEF Process, States
  <2>3. /\ cpus' \in [Harts -> Cpu] /\ cpus'[h].proc = p /\ cpus'[h].noff = cpus[h].noff
        /\ cpus'[h].intena = cpus[h].intena
    BY <1>3, <2>1 DEF Cpu
  <2>4. lock' \in [0 .. NPROC -> Harts \cup {Free}] /\ lock'[p] = h
        /\ (\A q \in Procs \ {p} : lock'[q] = lock[q]) /\ lock'[TicksLock] = lock[TicksLock]
    BY <1>3, <2>1, Numbers
  <2>5. at' \in [Threads -> Places] /\ at'[t] = "back" /\ cur' \in [Harts -> Threads]
        /\ cur'[h] = p
    BY <1>3, <2>1, Numbers DEF Places, SchedPlaces
  <2>6. Types'
    BY <1>1, <2>1, <2>2, <2>3, <2>4, <2>5 DEF IndInv, Types
  <2>7. OnlyHart(h, t)
    <3>1. \A k \in Harts \ {h} : /\ csr'[k] = csr[k] /\ cpus'[k] = cpus[k]
                                 /\ cur'[k] = cur[k] /\ scan'[k] = scan[k]
      BY <1>3, <2>1
    <3>2. \A s \in Threads \ {t} : at'[s] = at[s] /\ frame'[s] = frame[s] /\ saved'[s] = saved[s]
      BY <1>3, <2>1
    <3>3. \A l \in 0 .. NPROC : lock'[l] = lock[l] \/ (lock[l] \in {h, Free} /\ lock'[l] \in {h, Free})
      BY <1>3, <2>1
    <3>4. \A q \in Procs : q # p => proc'[q] = proc[q]
      BY <2>2
    <3> QED
      BY <1>6, <2>2, <2>5, <3>1, <3>2, <3>3, <3>4 DEF OnlyHart
  <2>8. p \in Procs /\ t \in Threads \ Procs /\ at[t] = "wait" /\ frame[t] = NoFrame
        /\ proc[p].state = "RUNNABLE" /\ frame' = frame /\ scan' = scan /\ csr' = csr
        /\ cur' = [cur EXCEPT ![h] = p] /\ at'[t] = "back" /\ proc'[p].state = "RUNNING"
    BY <1>1, <1>3, <1>6, <2>1, <2>2, <2>5
  <2> HIDE DEF p
  <2> QED
    BY <2>3, <2>4, <2>6, <2>7, <2>8, Dispatched DEF p
<1>7. CASE at[t] \in {"wait", "back"} /\ ~(at[t] = "wait" /\ proc[p].state = "RUNNABLE")
  <2> DEFINE c == [cpus[h] EXCEPT !.proc = NoProc]
  <2>1. cpus[h].noff = 1 /\ csr[h].sie = FALSE
    BY <1>2, <1>7 DEF LocksOf, RegistersOf, Open
  <2>2. c \in Cpu /\ c.noff = 1 /\ c.proc = NoProc /\ c.intena = cpus[h].intena
    BY <1>3, <2>1 DEF Cpu
  <2>3. at[t] = "wait" => c = cpus[h]
    BY <1>2, <1>3 DEF Cpu
  <2>4. /\ NextProc(h, c) /\ UNCHANGED <<cur, proc>>
        /\ lock' = IF at[t] = "back" THEN [lock EXCEPT ![p] = Free] ELSE lock
    <3>1. CASE at[t] = "wait"
      BY <1>2, <1>7, <2>3, <3>1 DEF scheduler, Here
    <3>2. CASE at[t] = "back"
      <4>1. Releasable(h, p)
        BY <1>2, <1>3, <2>1, <3>2 DEF LocksOf, Releasable, holding
      <4> QED
        BY <1>2, <3>2, <4>1 DEF scheduler, Here, Checked, Drop
    <3> QED
      BY <1>7, <3>1, <3>2
  <2>5. /\ popped(c) \in Cpu /\ popped(c).noff = 0 /\ popped(c).proc = NoProc
        /\ reenabled(h, c) \in Csr
        /\ reenabled(h, c).stvec = csr[h].stvec /\ reenabled(h, c).tp = csr[h].tp
    BY <1>3, <2>1, <2>2, Popped
  <2> HIDE DEF c
  <2>6. PICK r, q : /\ r \in {reenabled(h, c), [csr[h] EXCEPT !.sie = TRUE]} /\ q \in Procs
                    /\ csr' = [csr EXCEPT ![h] = r] /\ cpus' = [cpus EXCEPT ![h] = popped(c)]
                    /\ at' = [at EXCEPT ![t] = "acquire"] /\ scan' = [scan EXCEPT ![h] = q]
                    /\ UNCHANGED <<frame, saved>>
    <3>1. CASE scan[h] + 1 < NPROC
      BY <1>2, <1>3, <2>4, <3>1, Numbers DEF NextProc, SchedGoto, pop_off
    <3>2. CASE ~(scan[h] + 1 < NPROC)
      BY <1>2, <1>3, <2>4, <3>2, Numbers DEF NextProc, SchedGoto
    <3> QED
      BY <3>1, <3>2
  <2>7. r \in Csr /\ r.tp = h /\ r.stvec = "kernelvec"
    <3>1. [csr[h] EXCEPT !.sie = TRUE] \in Csr /\ [csr[h] EXCEPT !.sie = TRUE].tp = csr[h].tp
          /\ [csr[h] EXCEPT !.sie = TRUE].stvec = csr[h].stvec
      BY <1>3 DEF Csr
    <3> QED
      BY <1>4, <2>5, <2>6, <3>1
  <2>8. csr' \in [Harts -> Csr] /\ csr'[h].tp = h /\ csr'[h].stvec = "kernelvec"
    BY <1>3, <2>6, <2>7
  <2>9. cpus' \in [Harts -> Cpu] /\ cpus'[h].noff = 0 /\ cpus'[h].proc = NoProc
    BY <1>3, <2>5, <2>6
  <2>10. at' \in [Threads -> Places] /\ at'[t] = "acquire" /\ scan' \in [Harts -> Procs]
    BY <1>3, <2>6 DEF Places, SchedPlaces
  <2>11. lock' \in [0 .. NPROC -> Harts \cup {Free}] /\ lock'[TicksLock] # h
         /\ \A s \in Procs : lock'[s] # h
    BY <1>2, <1>3, <1>4, <1>7, <2>4, Numbers DEF LocksOf
  <2>12. Types'
    BY <1>1, <2>4, <2>6, <2>8, <2>9, <2>10, <2>11 DEF IndInv, Types
  <2>13. OnlyHart(h, t)
    <3>1. at[t] = "back" => lock[p] = h
      BY <1>2, <1>3 DEF LocksOf
    <3> QED
      BY <1>3, <1>7, <2>4, <2>6, <3>1 DEF OnlyHart
  <2> QED
    BY <1>1, <2>4, <2>6, <2>8, <2>9, <2>10, <2>11, <2>12, <2>13, SchedulerGoes
<1> QED
  BY <1>1, <1>5, <1>6, <1>7

\* yield(): the process is RUNNABLE until a scheduler takes it up again.
LEMMA YieldInv ==
  ASSUME IndInv, NEW h \in Harts, yield(h)
  PROVE  IndInv'
<1> PICK t \in Threads : t = cur[h]
  BY DEF IndInv, Types
<1>1. frame[t].step \in {"yield", "resumed"}
  BY DEF yield, Handler
<1>2. /\ t \in Procs /\ PlaceOf(t) /\ at[t] \in {"trap"} \cup Open /\ at[t] \notin {"user", "dead"}
      /\ csr[h].sie = FALSE /\ csr[h].tp = h /\ csr[h].stvec = "kernelvec" /\ frame[t] # NoFrame
  <2>1. csr[h].sie \in BOOLEAN
    BY TypesOf DEF Csr
  <2>2. PlaceOf(t)
    BY DEF IndInv
  <2>3. t \in Procs
    BY <1>1, <2>2 DEF PlaceOf
  <2> QED
    BY <1>1, <2>1, <2>2, <2>3, InFrame
<1>3. cpuid(h) = h /\ mycpu(h) = cpus[h] /\ myproc(h) = t
  BY <1>2, Current
<1>4. /\ csr[h] \in Csr /\ csr \in [Harts -> Csr] /\ cpus[h] \in Cpu /\ cpus \in [Harts -> Cpu]
      /\ frame \in [Threads -> Frame] /\ frame[t] \in Frame /\ saved \in [Threads -> BOOLEAN]
      /\ lock \in [0 .. NPROC -> Harts \cup {Free}] /\ saved[t] \in BOOLEAN
      /\ proc \in [Procs -> Process] /\ cur \in [Harts -> Threads] /\ LocksAt(h)
  BY TypesOf DEF IndInv, Types
<1>5. CASE frame[t].step = "yield"
  <2>1. /\ lock[TicksLock] # h /\ (\A p \in Procs : lock[p] # h) /\ cpus[h].noff = 0
    BY <1>4, <1>5, InFrame DEF LocksAt, HoldsTicks, HoldsProc, Waiting, Here, Handler
  <2>2. /\ lock[t] = Free /\ lock' = [lock EXCEPT ![t] = h]
        /\ cpus' = [cpus EXCEPT ![h] = pushed(h)] /\ csr' = [csr EXCEPT ![h].sie = FALSE]
        /\ proc' = [proc EXCEPT ![t].state = "RUNNABLE"]
        /\ saved' = [saved EXCEPT ![t] = pushed(h).intena]
        /\ cur' = [cur EXCEPT ![h] = SchedOf(h)]
        /\ frame' = [frame EXCEPT ![t].step = "resumed"]
        /\ UNCHANGED <<at, scan, upc, plic>>
    BY <1>3, <1>5, <2>1 DEF yield, Handler, Checked, Take, push_off, sched, devices
  <2>3. /\ pushed(h) \in Cpu /\ pushed(h).noff = 1 /\ pushed(h).intena = FALSE
        /\ pushed(h).proc = t
    BY <1>2, <1>3, <1>4, <2>1, Pushed, Current
  <2>4. cpus' \in [Harts -> Cpu] /\ cpus'[h].noff = 1 /\ cpus'[h].proc = t
    BY <1>4, <2>2, <2>3
  <2>5. csr' \in [Harts -> Csr] /\ csr'[h].sie = FALSE /\ csr'[h].tp = h
        /\ csr'[h].stvec = "kernelvec"
    BY <1>2, <1>4, <2>2 DEF Csr
  <2>6. frame' \in [Threads -> Frame] /\ frame'[t].step = "resumed"
        /\ frame'[t].sepc = frame[t].sepc
    BY <1>4, <2>2 DEF Frame, HandlerSteps
  <2>7. saved' \in [Threads -> BOOLEAN] /\ saved'[t] = FALSE
    BY <1>4, <2>2, <2>3
  <2>8. proc' \in [Procs -> Process] /\ proc'[t].state = "RUNNABLE"
        /\ \A p \in Procs \ {t} : proc'[p] = proc[p]
    BY <1>2, <1>4, <2>2 DEF Process, States
  <2>9. lock' \in [0 .. NPROC -> Harts \cup {Free}] /\ lock'[t] = h
        /\ (\A p \in Procs \ {t} : lock'[p] # h) /\ lock'[TicksLock] # h
    BY <1>2, <1>4, <2>1, <2>2, Numbers
  <2>10. cur' \in [Harts -> Threads]
    BY <1>4, <2>2, Numbers
  <2>11. Types'
    BY <2>2, <2>4, <2>5, <2>6, <2>7, <2>8, <2>9, <2>10 DEF IndInv, Types
  <2>12. OnlyHart(h, t)
    BY <1>4, <2>2, <2>8 DEF OnlyHart
  <2>13. PlaceOf(t)'
    BY <1>1, <1>2, <2>2, <2>6, <2>7 DEF PlaceOf, Open
  <2>14. StateOf(t)'
    BY <2>6, <2>8 DEF StateOf
  <2> QED
    BY <1>2, <2>2, <2>4, <2>5, <2>9, <2>11, <2>12, <2>13, <2>14, Switches
<1>6. CASE frame[t].step = "resumed"
  <2> DEFINE c == [cpus[h] EXCEPT !.intena = saved[t]]
  <2>1. /\ lock[TicksLock] # h /\ lock[t] = h /\ (\A p \in Procs \ {t} : lock[p] # h)
        /\ cpus[h].noff = 1 /\ cpus[h].proc = t /\ ~saved[t]
    BY <1>2, <1>4, <1>6, InFrame, Current
       DEF LocksAt, HoldsTicks, HoldsProc, Waiting, Here, Handler, PlaceOf
  <2>2. c \in Cpu /\ c.noff = 1 /\ c.proc = t /\ c.intena = FALSE /\ resumed(h) = c
    BY <1>3, <1>4, <2>1 DEF Cpu, resumed
  <2>3. /\ lock' = [lock EXCEPT ![t] = Free]
        /\ cpus' = [cpus EXCEPT ![h] = popped(c)] /\ csr' = [csr EXCEPT ![h] = reenabled(h, c)]
        /\ frame' = [frame EXCEPT ![t].step = "done"]
        /\ saved' = [saved EXCEPT ![t] = FALSE]
        /\ UNCHANGED <<cur, at, scan, proc, upc, plic>>
    BY <1>2, <1>3, <1>6, <2>1, <2>2
       DEF yield, Handler, Checked, Releasable, holding, Drop, pop_off, devices
  <2>4. /\ popped(c) \in Cpu /\ popped(c).noff = 0 /\ popped(c).proc = c.proc
        /\ reenabled(h, c) \in Csr
        /\ reenabled(h, c).sie = (csr[h].sie \/ c.intena)
        /\ reenabled(h, c).stvec = csr[h].stvec /\ reenabled(h, c).tp = csr[h].tp
    BY <1>4, <2>2, Popped
  <2>5. reenabled(h, c).sie = csr[h].sie
    BY <1>2, <2>2, <2>4
  <2> HIDE DEF c
  <2>6. cpus' \in [Harts -> Cpu] /\ cpus'[h].noff = 0 /\ cpus'[h].proc = cpus[h].proc
    BY <1>4, <2>1, <2>2, <2>3, <2>4
  <2>7. csr' \in [Harts -> Csr] /\ csr'[h].sie = csr[h].sie /\ csr'[h].tp = csr[h].tp
        /\ csr'[h].stvec = csr[h].stvec
    BY <1>4, <2>3, <2>4, <2>5
  <2>8. frame' \in [Threads -> Frame] /\ frame'[t].step = "done"
        /\ frame'[t].sepc = frame[t].sepc
    BY <1>4, <2>3 DEF Frame, HandlerSteps
  <2>9. lock' \in [0 .. NPROC -> Harts \cup {Free}] /\ lock'[TicksLock] # h
        /\ \A p \in Procs : lock'[p] # h
    BY <1>2, <1>4, <2>1, <2>3, Numbers
  <2>10. saved' \in [Threads -> BOOLEAN]
    BY <1>4, <2>3
  <2>11. Types'
    BY <2>3, <2>6, <2>7, <2>8, <2>9, <2>10 DEF IndInv, Types
  <2>12. OnlyHart(h, t)
    BY <1>4, <2>1, <2>3 DEF OnlyHart
  <2> QED
    BY <1>1, <2>3, <2>6, <2>7, <2>8, <2>9, <2>11, <2>12, InHandler
<1> QED
  BY <1>1, <1>5, <1>6

\* sys_sleep: tickslock is given back, or given up for the process's own lock.
LEMMA SleepInv ==
  ASSUME IndInv, NEW h \in Harts, sys_sleep(h)
  PROVE  IndInv'
<1> PICK t \in Threads : t = cur[h]
  BY DEF IndInv, Types
<1>1. at[t] \in {"check", "asleep"} /\ frame[t] = NoFrame /\ UNCHANGED <<upc, plic>>
  BY DEF sys_sleep, Here, devices
<1>2. LocksOf(h, t) /\ RegistersOf(h, t) /\ t \in Procs /\ cpuid(h) = h /\ mycpu(h) = cpus[h]
      /\ cpus[h].proc = t
  BY <1>1, AtPlace, Current DEF SchedPlaces
<1>3. /\ csr[h] \in Csr /\ csr \in [Harts -> Csr] /\ cpus[h] \in Cpu /\ cpus \in [Harts -> Cpu]
      /\ saved \in [Threads -> BOOLEAN] /\ saved[t] \in BOOLEAN
      /\ lock \in [0 .. NPROC -> Harts \cup {Free}] /\ at \in [Threads -> Places]
      /\ proc \in [Procs -> Process] /\ cur \in [Harts -> Threads] /\ PlaceOf(t)
  BY TypesOf DEF IndInv, Types
<1>4. csr[h].sie = FALSE /\ csr[h].tp = h /\ csr[h].stvec = "kernelvec" /\ cpus[h].noff = 1
  BY <1>1, <1>2 DEF LocksOf, RegistersOf, Open
\* What release() does when the thread has had interrupts on before.
<1>5. ASSUME NEW c \in Cpu, c.noff = 1, c.proc = t, c.intena = TRUE, NEW l \in {"end", "acquire1"},
             pop_off(h, c), at' = [at EXCEPT ![t] = l],
             lock' \in [0 .. NPROC -> Harts \cup {Free}], OnlyHart(h, t),
             lock'[TicksLock] # h, \A p \in Procs : lock'[p] # h,
             saved' \in [Threads -> BOOLEAN], UNCHANGED <<cur, frame, scan, proc>>
      PROVE  IndInv'
  <2>1. /\ popped(c) \in Cpu /\ popped(c).noff = 0 /\ popped(c).proc = c.proc
        /\ reenabled(h, c) \in Csr /\ reenabled(h, c).sie = (csr[h].sie \/ c.intena)
        /\ reenabled(h, c).stvec = csr[h].stvec /\ reenabled(h, c).tp = csr[h].tp
    BY <1>3, <1>5, Popped
  <2>2. cpus' = [cpus EXCEPT ![h] = popped(c)] /\ csr' = [csr EXCEPT ![h] = reenabled(h, c)]
    BY <1>2, <1>5 DEF pop_off
  <2>3. reenabled(h, c).sie = TRUE
    BY <1>5, <2>1
  <2>4. cpus' \in [Harts -> Cpu] /\ cpus'[h].noff = 0 /\ cpus'[h].proc = cpus[h].proc
    BY <1>2, <1>3, <1>5, <2>1, <2>2
  <2>5. csr' \in [Harts -> Csr] /\ csr'[h].sie = TRUE /\ csr'[h].tp = h
        /\ csr'[h].stvec = "kernelvec"
    BY <1>3, <1>4, <2>1, <2>2, <2>3
  <2>6. at' \in [Threads -> Places] /\ at'[t] = l
    BY <1>3, <1>5 DEF Places, ProcPlaces
  <2>7. Types'
    BY <1>1, <1>5, <2>4, <2>5, <2>6 DEF IndInv, Types
  <2> QED
    BY <1>1, <1>2, <1>5, <2>4, <2>5, <2>6, <2>7, Goes DEF ProcPlaces, Open
<1>6. CASE at[t] = "check" /\ (~(nap[t].passed < nap[t].n) \/ proc[t].killed)
  <2>1. /\ cpus[h].intena = TRUE /\ lock[TicksLock] = h /\ \A p \in Procs : lock[p] # h
    BY <1>2, <1>6 DEF LocksOf
  <2>2. Releasable(h, TicksLock)
    BY <1>2, <1>4, <2>1 DEF Releasable, holding
  <2>3. /\ lock' = [lock EXCEPT ![TicksLock] = Free] /\ pop_off(h, cpus[h])
        /\ at' = [at EXCEPT ![t] = "end"] /\ UNCHANGED <<cur, frame, saved, scan, proc>>
    BY <1>2, <1>6, <2>2 DEF sys_sleep, Here, Checked, Drop, Goto
  <2>4. lock' \in [0 .. NPROC -> Harts \cup {Free}] /\ lock'[TicksLock] # h
        /\ \A p \in Procs : lock'[p] # h
    BY <1>3, <2>1, <2>3, Numbers
  <2>5. OnlyHart(h, t)
    BY <1>2, <1>3, <2>1, <2>3 DEF OnlyHart, pop_off
  <2> QED
    BY <1>2, <1>3, <1>4, <1>5, <2>1, <2>3, <2>4, <2>5
<1>7. CASE at[t] = "check" /\ nap[t].passed < nap[t].n /\ ~proc[t].killed
  <2>1. lock[TicksLock] = h /\ \A p \in Procs : lock[p] # h
    BY <1>2, <1>7 DEF LocksOf
  <2>2. cpus[h].intena = TRUE
    BY <1>2, <1>7 DEF LocksOf
  <2>3. /\ lock[t] = Free /\ lock' = [lock EXCEPT ![t] = h, ![TicksLock] = Free]
        /\ proc' = [proc EXCEPT ![t].state = "SLEEPING"]
        /\ saved' = [saved EXCEPT ![t] = cpus[h].intena]
        /\ cur' = [cur EXCEPT ![h] = SchedOf(h)]
        /\ at' = [at EXCEPT ![t] = "asleep"]
        /\ UNCHANGED <<csr, cpus, frame, scan>>
    BY <1>2, <1>4, <1>7, <2>1 DEF sys_sleep, Here, Checked, holding, sched, machine
  <2>4. saved' \in [Threads -> BOOLEAN] /\ saved'[t] = TRUE
    BY <1>3, <2>2, <2>3
  <2>5. proc' \in [Procs -> Process] /\ proc'[t].state = "SLEEPING"
        /\ \A p \in Procs \ {t} : proc'[p] = proc[p]
    BY <1>2, <1>3, <2>3 DEF Process, States
  <2>6. lock' \in [0 .. NPROC -> Harts \cup {Free}] /\ lock'[t] = h
        /\ (\A p \in Procs \ {t} : lock'[p] # h) /\ lock'[TicksLock] # h
    BY <1>2, <1>3, <2>1, <2>3, Numbers
  <2>7. cur' \in [Harts -> Threads] /\ at' \in [Threads -> Places] /\ at'[t] = "asleep"
    BY <1>3, <2>3, Numbers DEF Places, ProcPlaces
  <2>8. Types'
    BY <1>1, <2>3, <2>4, <2>5, <2>6, <2>7 DEF IndInv, Types
  <2>9. OnlyHart(h, t)
    BY <1>3, <2>1, <2>3, <2>5 DEF OnlyHart
  <2>10. frame'[t] = NoFrame /\ frame'[t].step = "none"
    BY <1>1, <2>3 DEF NoFrame
  <2>11. PlaceOf(t)'
    BY <1>2, <2>4, <2>7, <2>10 DEF PlaceOf, ProcPlaces
  <2>12. StateOf(t)'
    BY <2>5, <2>7, <2>10 DEF StateOf
  <2> QED
    BY <1>2, <1>4, <2>3, <2>6, <2>8, <2>9, <2>11, <2>12, Switches
<1>8. CASE at[t] = "asleep"
  <2> DEFINE c == [cpus[h] EXCEPT !.intena = saved[t]]
  <2>1. lock[TicksLock] # h /\ lock[t] = h /\ \A p \in Procs \ {t} : lock[p] # h
    BY <1>2, <1>8 DEF LocksOf
  <2>2. saved[t] = TRUE
    BY <1>3, <1>8 DEF PlaceOf
  <2>3. c \in Cpu /\ c.noff = 1 /\ c.proc = t /\ c.intena = TRUE /\ resumed(h) = c
    BY <1>2, <1>3, <1>4, <2>2 DEF Cpu, resumed
  <2> HIDE DEF c
  <2>4. Releasable(h, t)
    BY <1>2, <1>4, <2>1 DEF Releasable, holding
  <2>5. /\ lock' = [lock EXCEPT ![t] = Free] /\ pop_off(h, c)
        /\ at' = [at EXCEPT ![t] = "acquire1"] /\ saved' = [saved EXCEPT ![t] = FALSE]
        /\ UNCHANGED <<cur, frame, scan, proc>>
    BY <1>8, <2>3, <2>4 DEF sys_sleep, Here, Checked, Drop
  <2>6. lock' \in [0 .. NPROC -> Harts \cup {Free}] /\ lock'[TicksLock] # h
        /\ \A p \in Procs : lock'[p] # h
    BY <1>2, <1>3, <2>1, <2>5, Numbers
  <2>7. saved' \in [Threads -> BOOLEAN]
    BY <1>3, <2>5
  <2>8. OnlyHart(h, t)
    BY <1>2, <1>3, <2>1, <2>5 DEF OnlyHart, pop_off
  <2> QED
    BY <1>5, <2>3, <2>5, <2>6, <2>7, <2>8
<1> QED
  BY <1>1, <1>6, <1>7, <1>8

\* exit(), from usertrap() or from the end of a system call.
LEMMA ExitInv ==
  ASSUME IndInv, NEW h \in Harts, exit(h)
  PROVE  IndInv'
<1> PICK t \in Threads : t = cur[h]
  BY DEF IndInv, Types
<1>1. frame[t].step = "exit" \/ (frame[t] = NoFrame /\ at[t] \in {"exit", "end"})
  BY DEF exit, Handler, Here
<1>2. /\ csr[h] \in Csr /\ csr \in [Harts -> Csr] /\ cpus[h] \in Cpu /\ cpus \in [Harts -> Cpu]
      /\ frame \in [Threads -> Frame] /\ saved \in [Threads -> BOOLEAN]
      /\ lock \in [0 .. NPROC -> Harts \cup {Free}] /\ at \in [Threads -> Places]
      /\ proc \in [Procs -> Process] /\ cur \in [Harts -> Threads] /\ LocksAt(h)
  BY TypesOf DEF IndInv, Types
<1>3. t \in Procs /\ at[t] # "user" /\ csr[h].tp = h /\ csr[h].stvec = "kernelvec"
      /\ lock[TicksLock] # h /\ (\A p \in Procs : lock[p] # h) /\ cpus[h].noff = 0
  <2>1. CASE frame[t].step = "exit"
    <3>1. at[t] = "trap"
      BY <2>1 DEF IndInv, PlaceOf
    <3> QED
      BY <1>2, <2>1, <3>1, InFrame
         DEF LocksAt, HoldsTicks, HoldsProc, Waiting, Here, Handler
  <2>2. CASE frame[t] = NoFrame /\ at[t] \in {"exit", "end"}
    <3>1. LocksOf(h, t) /\ RegistersOf(h, t)
      BY <2>2, AtPlace
    <3>2. t \in Procs
      BY <2>2, Current DEF SchedPlaces
    <3> QED
      BY <2>2, <3>1, <3>2 DEF LocksOf, RegistersOf
  <2> QED
    BY <1>1, <2>1, <2>2
<1>4. cpuid(h) = h /\ mycpu(h) = cpus[h] /\ myproc(h) = t /\ cpus[h].proc = t
  BY <1>3, Current
<1>5. /\ lock[t] = Free /\ lock' = [lock EXCEPT ![t] = h]
      /\ cpus' = [cpus EXCEPT ![h] = pushed(h)] /\ csr' = [csr EXCEPT ![h].sie = FALSE]
      /\ proc' = [proc EXCEPT ![t].state = "ZOMBIE"]
      /\ saved' = [saved EXCEPT ![t] = pushed(h).intena]
      /\ cur' = [cur EXCEPT ![h] = SchedOf(h)]
      /\ at' = [at EXCEPT ![t] = "dead"] /\ frame' = [frame EXCEPT ![t] = NoFrame]
      /\ UNCHANGED <<scan, upc, plic>>
  BY <1>3, <1>4 DEF exit, Checked, Take, push_off, sched, devices
<1>6. pushed(h) \in Cpu /\ pushed(h).noff = 1 /\ pushed(h).proc = t
  BY <1>2, <1>3, <1>4, Pushed
<1>7. cpus' \in [Harts -> Cpu] /\ cpus'[h].noff = 1 /\ cpus'[h].proc = t
  BY <1>2, <1>5, <1>6
<1>8. csr' \in [Harts -> Csr] /\ csr'[h].sie = FALSE /\ csr'[h].tp = h
      /\ csr'[h].stvec = "kernelvec"
  BY <1>2, <1>3, <1>5 DEF Csr
<1>9. NoFrame \in Frame /\ NoFrame.step = "none"
  BY DEF NoFrame, Frame
<1>10. frame' \in [Threads -> Frame] /\ frame'[t] = NoFrame
  BY <1>2, <1>5, <1>9
<1>11. saved' \in [Threads -> BOOLEAN]
  BY <1>2, <1>5, <1>6 DEF Cpu
<1>12. proc' \in [Procs -> Process] /\ proc'[t].state = "ZOMBIE"
       /\ \A p \in Procs \ {t} : proc'[p] = proc[p]
  BY <1>2, <1>3, <1>5 DEF Process, States
<1>13. lock' \in [0 .. NPROC -> Harts \cup {Free}] /\ lock'[t] = h
       /\ (\A p \in Procs \ {t} : lock'[p] # h) /\ lock'[TicksLock] # h
  BY <1>2, <1>3, <1>5, Numbers
<1>14. cur' \in [Harts -> Threads] /\ at' \in [Threads -> Places] /\ at'[t] = "dead"
  BY <1>2, <1>5, Numbers DEF Places, ProcPlaces
<1>15. Types'
  BY <1>5, <1>7, <1>8, <1>10, <1>11, <1>12, <1>13, <1>14 DEF IndInv, Types
<1>16. OnlyHart(h, t)
  BY <1>2, <1>5, <1>12 DEF OnlyHart
<1>17. PlaceOf(t)'
  BY <1>3, <1>9, <1>10, <1>14 DEF PlaceOf, ProcPlaces
<1>18. StateOf(t)'
  BY <1>10, <1>12, <1>14 DEF StateOf
<1> QED
  BY <1>3, <1>5, <1>7, <1>8, <1>13, <1>15, <1>16, <1>17, <1>18, Switches

-----------------------------------------------------------------------------
(* All of them together.                                                   *)

LEMMA StartInv == start => IndInv
<1> SUFFICES ASSUME start PROVE IndInv
  OBVIOUS
<1> USE DEF start
<1>1. Types
  <2>1. csr \in [Harts -> Csr] /\ cpus \in [Harts -> Cpu]
    BY DEF Csr, Cpu
  <2>2. NoFrame \in Frame
    BY DEF NoFrame, Frame
  <2>3. /\ cur \in [Harts -> Threads] /\ scan \in [Harts -> Procs]
        /\ frame \in [Threads -> Frame] /\ saved \in [Threads -> BOOLEAN]
        /\ upc \in [Procs -> Counters] /\ lock \in [0 .. NPROC -> Harts \cup {Free}]
    BY <2>2, Numbers DEF Counters
  <2>4. at \in [Threads -> Places]
    BY DEF Places, SchedPlaces, ProcPlaces
  <2>5. proc \in [Procs -> Process]
    BY DEF Process, States, Counters
  <2>6. plic \in [pending : SUBSET Devices, claimed : SUBSET Devices]
    OBVIOUS
  <2> QED
    BY <2>1, <2>3, <2>4, <2>5, <2>6 DEF Types
<1>2. ASSUME NEW t \in Threads PROVE PlaceOf(t)
  <2>1. frame[t] = NoFrame /\ frame[t].step = "none"
    BY DEF NoFrame
  <2> QED
    BY <2>1 DEF PlaceOf, SchedPlaces, ProcPlaces
<1>3. ASSUME NEW h \in Harts PROVE RunningAt(h) /\ LocksAt(h) /\ RegistersAt(h)
  <2>1. /\ cur[h] = SchedOf(h) /\ SchedOf(h) \in Threads /\ SchedOf(h) \notin Procs
    BY Numbers
  <2>2. at[cur[h]] = "main" /\ frame[cur[h]] = NoFrame /\ frame[cur[h]].step = "none"
    BY <2>1 DEF NoFrame
  <2>3. RunningAt(h)
    BY <2>1, <2>2 DEF RunningAt
  <2>4. LocksAt(h)
    BY <2>2, Numbers DEF LocksAt, HoldsTicks, HoldsProc, Waiting, Here, Handler
  <2>5. RegistersAt(h)
    BY <2>2 DEF RegistersAt, MustBeOn
  <2> QED
    BY <2>3, <2>4, <2>5
<1>4. ASSUME NEW p \in Procs PROVE StateOf(p)
  <2>1. p \in Threads /\ frame[p] = NoFrame /\ at[p] = "forkret"
    BY Numbers
  <2> QED
    BY <2>1 DEF StateOf
<1>5. \A h, k \in Harts : cur[h] = cur[k] => h = k
  BY Numbers
<1> QED
  BY <1>1, <1>2, <1>3, <1>4, <1>5 DEF IndInv

LEMMA NextInv == IndInv /\ [Next]_vars => IndInv'
<1> SUFFICES ASSUME IndInv, [Next]_vars PROVE IndInv'
  OBVIOUS
<1>1. ASSUME NEW h \in Harts, Step(h) PROVE IndInv'
  BY <1>1, MainInv, SchedulerInv, ClockIntrInv, WakeupInv, ClockDoneInv, AcknowledgeInv,
     PlicClaimInv, PlicCompleteInv, YieldInv, KernelretInv, UsertrapretInv, ToUserInv,
     UserretInv, SyscallInv, AcquireTicksInv, SleepInv, ExitInv, ForkretInv DEF Step
<1>2. ASSUME NEW h \in Harts, NEW kind, Interrupt(h, kind) PROVE IndInv'
  BY <1>2, UsertrapInv, KernelvecInv DEF Interrupt
<1>3. ASSUME UNCHANGED vars PROVE IndInv'
  BY <1>3, StutterInv
<1> QED
  BY <1>1, <1>2, <1>3, TimervecInv, RaiseInv, KillInv DEF Next

(***************************************************************************)
(* Where every thread is, what every hart runs, which locks it holds and   *)
(* what its registers are fit together, with any number of harts and       *)
(* processes: scheduler() and sched() of proc.c, push_off() and pop_off()  *)
(* of spinlock.c, usertrap(), usertrapret() and kerneltrap() of trap.c.    *)
(***************************************************************************)
THEOREM Invariance == Spec => []IndInv
<1>1. start => IndInv
  BY StartInv
<1>2. IndInv /\ [Next]_vars => IndInv'
  BY NextInv
<1> QED
  BY <1>1, <1>2, PTL DEF Spec

-----------------------------------------------------------------------------
(* What a trap finds on every hart.                                        *)

LEMMA InvTraps == IndInv => TrapsSafe
<1> SUFFICES ASSUME IndInv PROVE TrapsSafe
  OBVIOUS
<1>1. \A t \in Threads : at[t] # "panic"
  BY DEF IndInv, Types, Places, SchedPlaces, ProcPlaces
<1>2. ASSUME NEW h \in Harts
      PROVE  IF at[cur[h]] = "user" THEN csr[h].stvec = "uservec"
             ELSE /\ csr[h].sie => csr[h].stvec = "kernelvec" /\ frame[cur[h]] = NoFrame
                  /\ cpuid(h) = h
  BY DEF IndInv, RegistersAt, Open, cpuid
<1>3. \A h, k \in Harts : h # k => cur[h] # cur[k]
  BY DEF IndInv
<1> QED
  BY <1>1, <1>2, <1>3 DEF TrapsSafe

LEMMA InvInterrupts == IndInv => InterruptsMatched
<1> SUFFICES ASSUME IndInv, NEW h \in Harts, at[cur[h]] # "user"
             PROVE  /\ mycpu(h).noff = Cardinality({l \in 0 .. NPROC : holding(h, l)})
                                         + (IF Waiting(h) THEN 1 ELSE 0)
                    /\ csr[h].sie => mycpu(h).noff = 0
                    /\ (\E l \in {"syscall", "acquire0", "acquire1"} : Here(h, l)) => csr[h].sie
                    /\ Here(h, "end") => csr[h].sie
  BY DEF InterruptsMatched
<1> PICK t \in Threads : t = cur[h]
  BY DEF IndInv, Types
<1> DEFINE held == {l \in 0 .. NPROC : holding(h, l)}
<1>1. cpuid(h) = h /\ mycpu(h) = cpus[h] /\ LocksAt(h) /\ RegistersAt(h) /\ PlaceOf(t)
  BY Current DEF IndInv
<1>2. held = {l \in Procs \cup {TicksLock} : lock[l] = h}
  BY <1>1, Numbers DEF holding
<1> HIDE DEF held
<1>3. ASSUME HoldsTicks(h) PROVE mycpu(h).noff = Cardinality(held) + (IF Waiting(h) THEN 1 ELSE 0)
  <2>1. ~HoldsProc(h) /\ ~Waiting(h) /\ cpus[h].noff = 1
    BY <1>1, <1>3 DEF LocksAt, HoldsTicks, HoldsProc, Waiting, Handler, Here, NoFrame
  <2>2. held = {TicksLock}
    BY <1>1, <1>2, <1>3, <2>1 DEF LocksAt
  <2>3. Cardinality(held) = 1
    BY <2>2, FS_Singleton
  <2> QED
    BY <1>1, <2>1, <2>3
<1>4. ASSUME HoldsProc(h) PROVE mycpu(h).noff = Cardinality(held) + (IF Waiting(h) THEN 1 ELSE 0)
  <2>1. ~HoldsTicks(h) /\ ~Waiting(h) /\ cpus[h].noff = 1
    BY <1>1, <1>4 DEF LocksAt, HoldsTicks, HoldsProc, Waiting, Handler, Here, NoFrame
  <2>2. cpus[h].proc \in Procs
    BY <1>1, <1>4, Current, TypesOf DEF HoldsProc, Handler, Here, PlaceOf, SchedPlaces
  <2>3. held = {cpus[h].proc}
    BY <1>1, <1>2, <1>4, <2>1, <2>2 DEF LocksAt
  <2>4. Cardinality(held) = 1
    BY <2>3, FS_Singleton
  <2> QED
    BY <1>1, <2>1, <2>4
<1>5. ASSUME ~HoldsTicks(h), ~HoldsProc(h) PROVE mycpu(h).noff = Cardinality(held) + (IF Waiting(h) THEN 1 ELSE 0)
  <2>1. held = {}
    BY <1>1, <1>2, <1>5 DEF LocksAt
  <2>2. cpus[h].noff = IF Waiting(h) THEN 1 ELSE 0
    BY <1>1, <1>5 DEF LocksAt
  <2>3. Cardinality(held) = 0
    BY <2>1, FS_EmptySet
  <2> QED
    BY <1>1, <2>2, <2>3
<1>6. mycpu(h).noff = Cardinality(held) + (IF Waiting(h) THEN 1 ELSE 0)
  BY <1>3, <1>4, <1>5
<1>7. csr[h].sie => mycpu(h).noff = 0
  <2> SUFFICES ASSUME csr[h].sie PROVE cpus[h].noff = 0
    BY <1>1
  <2>1. frame[t] = NoFrame /\ at[t] \in Open
    BY <1>1 DEF RegistersAt
  <2>2. LocksOf(h, t)
    BY <2>1, AtPlace
  <2> QED
    BY <2>1, <2>2 DEF LocksOf, Open
<1>8. ASSUME NEW l \in MustBeOn, Here(h, l) PROVE csr[h].sie
  BY <1>1, <1>8 DEF RegistersAt, Here
<1> QED
  BY <1>6, <1>7, <1>8 DEF MustBeOn, held

(***************************************************************************)
(* No trap meets the vector of the other mode, the middle of a handler or  *)
(* a hart that takes itself for another; no two harts run on one stack; no *)
(* panic of usertrap, kerneltrap, sched, release or pop_off is reached;    *)
(* and noff counts the locks a hart holds or waits for, with interrupts    *)
(* off meanwhile and back as they were afterwards: trap.c, proc.c and      *)
(* spinlock.c, on any number of harts.                                     *)
(***************************************************************************)
THEOREM HartsAreSafe == Spec => []HartsSafe
<1>1. IndInv => HartsSafe
  BY InvTraps, InvInterrupts DEF HartsSafe
<1> QED
  BY <1>1, Invariance, PTL

-----------------------------------------------------------------------------
(* The refinement: what a thread sees of a step.                           *)

\* No check of the kernel has failed in a step that keeps the invariant.
LEMMA NotPanicked ==
  ASSUME IndInv, IndInv', NEW h \in Harts
  PROVE  ~Goto(h, "panic")
<1> SUFFICES ASSUME Goto(h, "panic") PROVE FALSE
  OBVIOUS
<1> PICK t \in Threads : t = cur[h]
  BY DEF IndInv, Types
<1>1. at'[t] = "panic"
  BY DEF Goto, IndInv, Types
<1> QED
  BY <1>1 DEF IndInv, Types, Places, SchedPlaces, ProcPlaces

SameCounters ==
  \A p \in Procs : (IF at'[p] = "user" THEN upc'[p] ELSE proc'[p].epc)
                     = (IF at[p] = "user" THEN upc[p] ELSE proc[p].epc)

LEMMA NothingSeen ==
  ASSUME at' = at, SameCounters
  PROVE  UNCHANGED Alone!vars
<1>1. Position' = Position
  BY DEF Position
<1>2. ProgramCounter' = ProgramCounter
  BY DEF SameCounters, ProgramCounter
<1> QED
  BY <1>1, <1>2 DEF Alone!vars

Edges(t) == IF t \in Procs THEN Alone!Process ELSE Alone!Scheduler
LEMMA Moved ==
  ASSUME IndInv, NEW t \in Threads, NEW l, at' = [at EXCEPT ![t] = l], l # "trap",
         <<IF at[t] = "trap" THEN "user" ELSE at[t], l>> \in Edges(t), SameCounters
  PROVE  Alone!Next
<1>1. at \in [Threads -> Places]
  BY DEF IndInv, Types
<1>2. Position' = [Position EXCEPT ![t] = l]
  BY <1>1 DEF Position
<1>3. ProgramCounter' = ProgramCounter
  BY DEF SameCounters, ProgramCounter
<1>4. Position[t] = IF at[t] = "trap" THEN "user" ELSE at[t]
  BY DEF Position
<1> DEFINE e == <<IF at[t] = "trap" THEN "user" ELSE at[t], l>>
<1>5. e[1] = Position[t] /\ e[2] = l /\ e \in Edges(t)
  BY <1>4
<1> HIDE DEF e
<1>6. Alone!Moves(t, Edges(t))
  BY <1>2, <1>5 DEF Alone!Moves
<1> QED
  BY <1>3, <1>6 DEF Alone!Next, Edges

\* Steps of handlers: the thread below does not move.
LEMMA HandlerSeen ==
  ASSUME IndInv, IndInv', NEW h \in Harts,
         clockintr(h) \/ wakeup(h) \/ clockdone(h) \/ acknowledge(h)
           \/ plic_claim(h) \/ plic_complete(h) \/ yield(h) \/ kernelret(h)
  PROVE  UNCHANGED Alone!vars
<1> PICK t \in Threads : t = cur[h]
  BY DEF IndInv, Types
<1>1. proc \in [Procs -> Process] /\ at \in [Threads -> Places] /\ ~Goto(h, "panic")
  BY NotPanicked DEF IndInv, Types
<1>2. CASE clockintr(h)
  BY <1>2, NothingSeen DEF clockintr, HandlerGoto, SameCounters
<1>3. CASE wakeup(h)
  <2>1. at' = at /\ upc' = upc
    BY <1>3 DEF wakeup, HandlerGoto
  <2>2. \A p \in Procs : proc'[p].epc = proc[p].epc
    BY <1>1, <1>3 DEF wakeup, Process
  <2> QED
    BY <2>1, <2>2, NothingSeen DEF SameCounters
<1>4. CASE clockdone(h)
  BY <1>1, <1>4, NothingSeen DEF clockdone, Checked, HandlerGoto, SameCounters
<1>5. CASE acknowledge(h)
  BY <1>5, NothingSeen DEF acknowledge, HandlerGoto, SameCounters
<1>6. CASE plic_claim(h)
  BY <1>6, NothingSeen DEF plic_claim, HandlerGoto, SameCounters
<1>7. CASE plic_complete(h)
  BY <1>7, NothingSeen DEF plic_complete, HandlerGoto, SameCounters
<1>8. CASE yield(h)
  <2>1. at' = at /\ upc' = upc
    BY <1>1, <1>8 DEF yield, Checked
  <2>2. \A p \in Procs : proc'[p].epc = proc[p].epc
    BY <1>1, <1>8 DEF yield, Checked, sched, Process
  <2> QED
    BY <2>1, <2>2, NothingSeen DEF SameCounters
<1>9. CASE kernelret(h)
  <2>1. frame[t].step = "done" /\ at[t] # "trap" /\ csr[h] \in Csr
    BY <1>9, TypesOf DEF kernelret, Handler
  <2>2. frame[t].sepc = at[t]
    BY <2>1, InFrame
  <2> DEFINE r == Restored(h, frame[t])
  <2>3. r.spp = "S" /\ r.sepc = at[t]
    BY <2>1, <2>2 DEF Restored, Csr
  <2> HIDE DEF r
  <2>4. at' = [at EXCEPT ![t] = IF r.spp = "S" THEN r.sepc ELSE "panic"]
        /\ UNCHANGED <<proc, upc>>
    BY <1>9 DEF kernelret, r
  <2>5. at' = at
    BY <1>1, <2>3, <2>4
  <2> QED
    BY <2>4, <2>5, NothingSeen DEF SameCounters
<1> QED
  BY <1>2, <1>3, <1>4, <1>5, <1>6, <1>7, <1>8, <1>9

\* Steps from outside.
LEMMA OutsideSeen ==
  ASSUME IndInv, (\E h \in Harts : timervec(h)) \/ (\E d \in Devices : Raise(d))
                   \/ (\E p \in Killable : kill(p)) \/ UNCHANGED vars
  PROVE  UNCHANGED Alone!vars
<1>1. at' = at /\ upc' = upc
  BY DEF timervec, Raise, kill, vars, threads
<1>2. \A p \in Procs : proc'[p].epc = proc[p].epc
  <2>1. proc \in [Procs -> Process]
    BY DEF IndInv, Types
  <2>2. CASE \E p \in Killable : kill(p)
    BY <2>1, <2>2 DEF kill, Process
  <2>3. CASE (\E h \in Harts : timervec(h)) \/ (\E d \in Devices : Raise(d)) \/ UNCHANGED vars
    <3>1. proc' = proc
      BY <2>3 DEF timervec, Raise, vars
    <3> QED
      BY <3>1
  <2> QED
    BY <2>2, <2>3
<1> QED
  BY <1>1, <1>2, NothingSeen DEF SameCounters

LEMMA SchedulerSeen ==
  ASSUME IndInv, IndInv', NEW h \in Harts, main(h) \/ scheduler(h)
  PROVE  Alone!Next
<1> PICK t \in Threads : t = cur[h]
  BY DEF IndInv, Types
<1>1. PICK l : /\ at' = [at EXCEPT ![t] = l] /\ l # "trap" /\ upc' = upc
               /\ <<at[t], l>> \in Alone!Scheduler
  <2>1. CASE main(h)
    BY <2>1 DEF main, Here, Goto, Alone!Scheduler
  <2>2. CASE scheduler(h)
    BY <2>2, NotPanicked
       DEF scheduler, Here, Goto, Checked, NextProc, SchedGoto, Alone!Scheduler
  <2> QED
    BY <2>1, <2>2
<1>2. at[t] # "trap" /\ at[t] # "user" /\ l # "user"
  BY <1>1 DEF Alone!Scheduler
<1>3. t \notin Procs
  BY <1>1, Current DEF Alone!Scheduler, ProcPlaces
<1>4. \A p \in Procs : proc'[p].epc = proc[p].epc
  <2>1. proc \in [Procs -> Process] /\ ~Goto(h, "panic")
    BY NotPanicked DEF IndInv, Types
  <2> QED
    BY <2>1 DEF main, scheduler, Checked, Process
<1>5. SameCounters
  BY <1>1, <1>2, <1>3, <1>4 DEF SameCounters, IndInv, Types
<1> QED
  BY <1>1, <1>2, <1>3, <1>5, Moved DEF Edges

\* Steps of a process in the kernel.
LEMMA ProcessSeen ==
  ASSUME IndInv, IndInv', NEW h \in Harts,
         usertrapret(h) \/ touser(h) \/ syscall(h) \/ acquireticks(h) \/ sys_sleep(h)
           \/ exit(h) \/ forkret(h)
  PROVE  Alone!Next
<1> PICK t \in Threads : t = cur[h]
  BY DEF IndInv, Types
<1> DEFINE from == IF at[t] = "trap" THEN "user" ELSE at[t]
<1>0. ~Goto(h, "panic") /\ at \in [Threads -> Places] /\ proc \in [Procs -> Process]
  BY NotPanicked DEF IndInv, Types
<1>1. t \in Procs /\ at[t] # "user" /\ upc' = upc
      /\ \E l \in {"forked", "ret", "userret", "acquire0", "wait0", "check", "end", "asleep",
                   "acquire1", "wait1", "dead"} :
           at' = [at EXCEPT ![t] = l] /\ <<from, l>> \in Alone!Process
  <2>1. CASE usertrapret(h)
    <3>1. at[t] \in {"trap", "end", "forked"}
      BY <2>1 DEF usertrapret, Here
    <3>2. at' = [at EXCEPT ![t] = "ret"] /\ upc' = upc
      BY <2>1 DEF usertrapret
    <3> QED
      BY <3>1, <3>2, Current DEF SchedPlaces, Alone!Process
  <2>2. CASE touser(h)
    <3>1. at[t] = "ret" /\ at' = [at EXCEPT ![t] = "userret"] /\ upc' = upc
      BY <2>2 DEF touser, Here, Goto
    <3> QED
      BY <3>1, Current DEF SchedPlaces, Alone!Process
  <2>3. CASE syscall(h)
    <3>1. at[t] = "syscall" /\ at' = [at EXCEPT ![t] = "acquire0"] /\ upc' = upc
      BY <2>3 DEF syscall, Here, Goto
    <3> QED
      BY <3>1, Current DEF SchedPlaces, Alone!Process
  <2>4. CASE acquireticks(h)
    <3>1. PICK l : /\ <<at[t], l>> \in {<<"acquire0", "wait0">>, <<"wait0", "check">>,
                                        <<"acquire1", "wait1">>, <<"wait1", "check">>}
                   /\ at' = [at EXCEPT ![t] = l] /\ upc' = upc
      BY <2>4 DEF acquireticks, Here, Goto
    <3> QED
      BY <3>1, Current DEF SchedPlaces, Alone!Process
  <2>5. CASE sys_sleep(h)
    <3>1. PICK l : /\ <<at[t], l>> \in {<<"check", "end">>, <<"check", "asleep">>,
                                        <<"asleep", "acquire1">>}
                   /\ at' = [at EXCEPT ![t] = l] /\ upc' = upc
      BY <1>0, <2>5 DEF sys_sleep, Checked, Here, Goto
    <3> QED
      BY <3>1, Current DEF SchedPlaces, Alone!Process
  <2>6. CASE exit(h)
    <3>1. at[t] \in {"trap", "exit", "end"}
      BY <2>6 DEF exit, Here, Handler, IndInv, PlaceOf
    <3>2. t \in Procs /\ myproc(h) = t
      BY <3>1, Current DEF SchedPlaces
    <3>3. at' = [at EXCEPT ![t] = "dead"] /\ upc' = upc
      BY <1>0, <2>6, <3>2 DEF exit, Checked
    <3> QED
      BY <3>1, <3>2, <3>3 DEF Alone!Process
  <2>7. CASE forkret(h)
    <3>1. at[t] = "forkret" /\ at' = [at EXCEPT ![t] = "forked"] /\ upc' = upc
      BY <1>0, <2>7 DEF forkret, Checked, Here, Goto
    <3> QED
      BY <3>1, Current DEF SchedPlaces, Alone!Process
  <2> QED
    BY <2>1, <2>2, <2>3, <2>4, <2>5, <2>6, <2>7
<1>2. \A p \in Procs : proc'[p].epc = proc[p].epc
  BY <1>0 DEF usertrapret, touser, syscall, acquireticks, sys_sleep, exit, forkret, Checked,
              sched, Process
<1>3. SameCounters
  BY <1>0, <1>1, <1>2 DEF SameCounters
<1> QED
  BY <1>1, <1>3, Moved DEF Edges

\* sret to the program, where it was or behind its system call.
LEMMA UserretSeen ==
  ASSUME IndInv, IndInv', NEW h \in Harts, userret(h)
  PROVE  Alone!Next
<1> PICK t \in Threads : t = cur[h]
  BY DEF IndInv, Types
<1>1. at[t] = "userret" /\ ~Goto(h, "panic") /\ at \in [Threads -> Places]
      /\ upc \in [Procs -> Counters]
  BY NotPanicked DEF userret, Here, IndInv, Types
<1>2. t \in Procs /\ csr[h].sepc = proc[t].epc
  BY <1>1, Current DEF SchedPlaces, IndInv, RegistersAt
<1>3. /\ upc' = [upc EXCEPT ![t] = csr[h].sepc] /\ at' = [at EXCEPT ![t] = "user"]
      /\ proc' = proc
  BY <1>1 DEF userret, Checked, Goto
<1>4. SameCounters
  BY <1>1, <1>2, <1>3 DEF SameCounters
<1>5. <<at[t], "user">> \in Edges(t)
  BY <1>1, <1>2 DEF Edges, Alone!Process
<1> QED
  BY <1>1, <1>3, <1>4, <1>5, Moved

\* A trap of the program: a system call, its end, or nothing that it sees.
LEMMA InterruptSeen ==
  ASSUME IndInv, IndInv', NEW h \in Harts, NEW kind, Interrupt(h, kind)
  PROVE  [Alone!Next]_(Alone!vars)
<1> PICK t \in Threads : t = cur[h]
  BY DEF IndInv, Types
<1>1. ~Goto(h, "panic") /\ at \in [Threads -> Places] /\ upc \in [Procs -> Counters]
      /\ proc \in [Procs -> Process]
  BY NotPanicked DEF IndInv, Types
<1>2. CASE kernelvec(h, kind)
  BY <1>1, <1>2, NothingSeen DEF kernelvec, Checked, SameCounters
<1>3. CASE usertrap(h, kind)
  <2>1. at[t] = "user" /\ t \in Procs
    BY <1>3, Current DEF usertrap, Here, SchedPlaces
  <2>2. PICK pc, k, l :
          /\ proc' = [proc EXCEPT ![t].epc = pc, ![t].killed = @ \/ k, ![t].hartid = Free]
          /\ upc' = upc /\ at' = [at EXCEPT ![t] = l]
          /\ \/ l = "syscall" /\ pc = Following[upc[t]]
             \/ l \in {"exit", "trap"} /\ pc = upc[t]
    BY <1>1, <1>3 DEF usertrap, Checked, Goto
  <2>3. proc'[t].epc = pc /\ \A p \in Procs \ {t} : proc'[p].epc = proc[p].epc
    BY <1>1, <2>1, <2>2 DEF Process
  <2>4. at'[t] = l /\ \A s \in Threads \ {t} : at'[s] = at[s]
    BY <1>1, <2>2
  <2>5. CASE l = "syscall"
    <3>1. Position' = [Position EXCEPT ![t] = "syscall"] /\ Position[t] = "user"
      BY <1>1, <2>1, <2>2, <2>5 DEF Position
    <3>2. ProgramCounter' = [ProgramCounter EXCEPT ![t] = Following[ProgramCounter[t]]]
      <4>1. ProgramCounter[t] = upc[t]
        BY <2>1 DEF ProgramCounter
      <4>2. ASSUME NEW p \in Procs
            PROVE  (IF at'[p] = "user" THEN upc'[p] ELSE proc'[p].epc)
                     = IF p = t THEN Following[upc[t]] ELSE ProgramCounter[p]
        BY <2>1, <2>2, <2>3, <2>4, <2>5, Numbers DEF ProgramCounter
      <4>3. ProgramCounter' = [p \in Procs |-> IF p = t THEN Following[upc[t]]
                                               ELSE ProgramCounter[p]]
        BY <4>2 DEF ProgramCounter
      <4>4. \A F, v : F = [p \in Procs |-> F[p]] =>
              [F EXCEPT ![t] = v] = [p \in Procs |-> IF p = t THEN v ELSE F[p]]
        OBVIOUS
      <4>5. ProgramCounter = [p \in Procs |-> ProgramCounter[p]]
        BY DEF ProgramCounter
      <4> QED
        BY <4>1, <4>3, <4>4, <4>5
    <3>3. Alone!Moves(t, {<<"user", "syscall">>})
      BY <3>1 DEF Alone!Moves
    <3> QED
      BY <2>1, <3>2, <3>3 DEF Alone!Next
  <2>6. CASE l \in {"exit", "trap"}
    <3>1. SameCounters
      BY <2>1, <2>2, <2>3, <2>4, <2>6, Numbers DEF SameCounters
    <3>2. CASE l = "exit"
      <4>1. <<at[t], l>> \in Edges(t)
        BY <2>1, <3>2 DEF Edges, Alone!Process
      <4> QED
        BY <2>1, <2>2, <3>1, <3>2, <4>1, Moved
    <3>3. CASE l = "trap"
      <4>1. Position' = Position
        BY <1>1, <2>1, <2>2, <3>3 DEF Position
      <4>2. ProgramCounter' = ProgramCounter
        BY <3>1 DEF SameCounters, ProgramCounter
      <4> QED
        BY <4>1, <4>2 DEF Alone!vars
    <3> QED
      BY <2>6, <3>2, <3>3
  <2> QED
    BY <2>2, <2>5, <2>6
<1> QED
  BY <1>2, <1>3 DEF Interrupt

(***************************************************************************)
(* Every thread goes through its own steps one by one, whatever interrupts *)
(* it, suspends it or moves it to another hart, and a program goes on      *)
(* where it was or behind its system call: kernelvec.S, trampoline.S,      *)
(* trap.c, swtch.S, sched() and scheduler().                               *)
(***************************************************************************)
THEOREM InterruptsInvisible == Spec => ImplementsUninterrupted
<1>1. start => Alone!Init
  BY Numbers DEF start, Alone!Init, Position, ProgramCounter
<1>2. IndInv /\ IndInv' /\ [Next]_vars => [Alone!Next]_(Alone!vars)
  <2> SUFFICES ASSUME IndInv, IndInv', [Next]_vars PROVE [Alone!Next]_(Alone!vars)
    OBVIOUS
  <2>1. ASSUME NEW h \in Harts, Step(h) PROVE [Alone!Next]_(Alone!vars)
    BY <2>1, HandlerSeen, SchedulerSeen, ProcessSeen, UserretSeen DEF Step
  <2>2. ASSUME NEW h \in Harts, NEW kind, Interrupt(h, kind) PROVE [Alone!Next]_(Alone!vars)
    BY <2>2, InterruptSeen
  <2> QED
    BY <2>1, <2>2, OutsideSeen DEF Next
<1> QED
  BY <1>1, <1>2, Invariance, PTL DEF Spec, ImplementsUninterrupted, Alone!Spec
=============================================================================
