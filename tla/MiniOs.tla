-------------------------------- MODULE MiniOs --------------------------------
(***************************************************************************)
(* Tasks, timer interrupt and spin lock of mini-riscv-os, 06-Spinlock and  *)
(* later, one hart, as compiled by its Makefile (no -O): the locations of  *)
(* a task are those between which an interrupt makes a difference.         *)
(*   r0 call lock_acquire    t0..t1 the critical section, shared_var++     *)
(*   t2 call lock_free       t3 call lib_delay     (user_task2)            *)
(*   a0 prologue of lock_acquire   a1 call atomic_swap   a2 test of a0     *)
(*   a3 epilogue    s0 amoswap   s1 ret    f0 store 0   f1 ret             *)
(*   d0 count   d1 ret                                                     *)
(* The OS itself takes far less than the interval of 20000000 cycles       *)
(* between two of its interrupts, so one only ever arrives in a task.      *)
(***************************************************************************)
EXTENDS Naturals

CONSTANT taskTop     \* the number of tasks, at least 1

VARIABLES
  running,          (* ctx_now: taskTop for ctx_os, or a task              *)
  current_task,     (* of os_main                                          *)
  locked,           (* of lock                                             *)
  pc, ra,           (* of every task: location, return address register    *)
  frame,            (* return address saved by lock_acquire's prologue     *)
  zero              (* register a0 is 0                                    *)

taskvars == <<pc, ra, frame, zero>>
minivars == <<running, current_task, locked, pc, ra, frame, zero>>
Tasks == 0 .. taskTop - 1
Os == taskTop

Goto(i, to) == pc' = [pc EXCEPT ![i] = to]
Call(i, to, back) == Goto(i, to) /\ ra' = [ra EXCEPT ![i] = back] /\ UNCHANGED <<frame, zero, locked>>
Jump(i, to) == Goto(i, to) /\ UNCHANGED <<ra, frame, zero, locked>>

user_task(i) ==
  \/ pc[i] = "r0" /\ Call(i, "a0", "t0")
  \/ pc[i] = "t0" /\ Jump(i, "t1")
  \/ pc[i] = "t1" /\ Jump(i, "t2")
  \/ pc[i] = "t2" /\ Call(i, "f0", "t3")
  \/ pc[i] = "t3" /\ Call(i, "d0", "r0")
atomic_swap(i) ==
  \/ /\ pc[i] = "s0" /\ Goto(i, "s1")
     /\ zero' = [zero EXCEPT ![i] = ~locked] /\ locked' = TRUE
     /\ UNCHANGED <<ra, frame>>
  \/ pc[i] = "s1" /\ Jump(i, ra[i])
lock_acquire(i) ==
  \/ /\ pc[i] = "a0" /\ Goto(i, "a1")
     /\ frame' = [frame EXCEPT ![i] = ra[i]]
     /\ UNCHANGED <<ra, zero, locked>>
  \/ pc[i] = "a1" /\ Call(i, "s0", "a2")
  \/ pc[i] = "a2" /\ Jump(i, IF zero[i] THEN "a3" ELSE "a1")
  \/ /\ pc[i] = "a3" /\ Goto(i, frame[i])
     /\ ra' = [ra EXCEPT ![i] = frame[i]]
     /\ UNCHANGED <<frame, zero, locked>>
lock_free(i) ==
  \/ pc[i] = "f0" /\ locked' = FALSE /\ Goto(i, "f1") /\ UNCHANGED <<ra, frame, zero>>
  \/ pc[i] = "f1" /\ Jump(i, ra[i])
lib_delay(i) ==
  \/ pc[i] = "d0" /\ (Jump(i, "d0") \/ Jump(i, "d1"))
  \/ pc[i] = "d1" /\ Jump(i, ra[i])
Step(i) ==
  /\ running = i
  /\ user_task(i) \/ atomic_swap(i) \/ lock_acquire(i) \/ lock_free(i) \/ lib_delay(i)
  /\ UNCHANGED <<running, current_task>>

\* os_main: the switch goes to the ra of the task's context, which is where
\* task_os, called by os_kernel in the interrupt, returns to.
task_go ==
  /\ running = Os
  /\ running' = current_task
  /\ UNCHANGED <<current_task, locked, taskvars>>
\* os_kernel and task_os: the registers go to the context of the task.  What
\* it resumes with is the ra it was interrupted with; a0 is then the address
\* of ctx_os.  The scheduler proceeds to the next task.
os_kernel(i) ==
  /\ Goto(i, ra[i]) /\ zero' = [zero EXCEPT ![i] = FALSE]
  /\ running' = Os
  /\ current_task' = (current_task + 1) % taskTop
  /\ UNCHANGED <<ra, frame, locked>>
\* The timer interrupt: trap_vector and trap_handler, which asks for the
\* next one (timer_handler) and returns to os_kernel.
trap_handler ==
  /\ running \in Tasks
  /\ os_kernel(running)

MiniInit ==
  /\ running = Os /\ current_task = 0 /\ locked = FALSE
  /\ pc = [i \in Tasks |-> "r0"] /\ ra = [i \in Tasks |-> "r0"]
  /\ frame = [i \in Tasks |-> "none"] /\ zero = [i \in Tasks |-> FALSE]
MiniNext == task_go \/ trap_handler \/ \E i \in Tasks : Step(i)
MiniSpec == MiniInit /\ [][MiniNext]_minivars

(***************************************************************************)
(* One task at a time holds the lock (doc/tw/06-Spinlock.md).              *)
(***************************************************************************)
LockExcludes ==
  \A i, j \in Tasks : i # j => ~({pc[i], pc[j]} \subseteq {"t0", "t1"})
=============================================================================
