----------------------------- MODULE MiniKernel -----------------------------
(***************************************************************************)
(* mini-riscv-os, 10-SystemCall, on hart 0 (the others park): the disk,    *)
(* the UART, the PLIC and the timer interrupt below os_main, and its tasks *)
(* user_task0 and user_task4, the second of which does a system call.      *)
(*                                                                         *)
(* The model starts when os_start is done.  As in MiniOs the OS itself     *)
(* takes far less than the timer's interval, and a preempted task resumes  *)
(* at the address in ra.  The device does one request after another, as    *)
(* virtio_disk_rw spins until its own is done, and may fail in one.        *)
(***************************************************************************)
EXTENDS Naturals, SequencesExt, FiniteSetsExt

CONSTANTS
  Sectors,   (* contents of a sector                                       *)
  Queue,     (* NUM: descriptors, and entries of each ring                 *)
  Uint16,    (* values of a ring index: 2^16                               *)
  MaxTests,  (* bound: calls of virtio_tester (os_main makes one)          *)
  MaxKeys    (* bound: keys typed                                          *)

ASSUME QueueAssumption == /\ Queue \in Nat /\ Queue >= 3
                          /\ Uint16 \in Nat \ {0} /\ Uint16 % Queue = 0

VARIABLES
  cpu,      (* pc, ra and a0                                               *)
  scratch,  (* where mscratch points to: registers of what is interrupted  *)
  ctx, ctx_now, current_task,
  irq,      (* claimed from the PLIC, or None                              *)
  disk,     (* struct disk, with the request's buffer b and its type       *)
  dev,      (* the device: avail entries taken, InterruptStatus, medium    *)
  uart,     (* keys typed, LSR_RX_READY, the keys echoed                   *)
  hid, ret  (* of user_task4                                               *)

osvars == <<ctx, ctx_now, current_task>>
kernelvars == <<cpu, scratch, osvars, irq, disk, dev, uart, hid, ret>>

VIRTIO_IRQ == 1
UART0_IRQ == 10
NoIrq == 0
EndOfChain == Queue
user_task0 == 0
user_task4 == 1
TaskIds == {user_task0, user_task4}
ctx_os == 2
Plus1(i) == (i + 1) % Uint16

KernelInit ==
  /\ cpu = [pc |-> "disk_read", ra |-> "os_main", a0 |-> "any"]
  /\ scratch = cpu
  /\ ctx = [t \in TaskIds \cup {ctx_os} |-> [ra |-> IF t = user_task0 THEN "delay" ELSE "task4", a0 |-> "any"]]
  /\ ctx_now = ctx_os /\ current_task = 0
  /\ irq = NoIrq
  /\ \E v \in Sectors, old \in Sectors :
       /\ disk = [free |-> 0 .. Queue - 1, next |-> [i \in 0 .. Queue - 1 |-> 0],
                  head |-> 0, status |-> 0, write |-> FALSE, busy |-> FALSE, data |-> v, vdisk_lock |-> FALSE,
                  avail |-> [i \in 0 .. Queue - 1 |-> 0], idx |-> 0,
                  used |-> [i \in 0 .. Queue - 1 |-> 0], usedIdx |-> 0, used_idx |-> 0, tests |-> 0]
       /\ dev = [taken |-> 0, interrupt |-> FALSE, block |-> old]
  /\ uart = [typed |-> <<>>, ready |-> FALSE, echo |-> <<>>]
  /\ hid = "-1" /\ ret = "-1"
-----------------------------------------------------------------------------
(* Disk requests.                                                          *)

At(l) == cpu.pc = l
Go(l) == cpu' = [cpu EXCEPT !.pc = l]

\* virtio_tester, and virtio_disk_rw up to its second fence: three descriptors
\* in a chain, the head in the available ring.
virtio_disk_rw(write, v) ==
  /\ At("disk_read") /\ disk.tests < MaxTests
  /\ ~disk.vdisk_lock /\ Cardinality(disk.free) >= 3
  /\ write \/ v = disk.data
  /\ LET i0 == Min(disk.free)
         i1 == Min(disk.free \ {i0})
         i2 == Min(disk.free \ {i0, i1})
     IN disk' = [disk EXCEPT !.free = @ \ {i0, i1, i2}, !.vdisk_lock = TRUE, !.tests = @ + 1,
                             !.next = [@ EXCEPT ![i0] = i1, ![i1] = i2, ![i2] = EndOfChain],
                             !.head = i0, !.status = 0, !.write = write, !.busy = TRUE, !.data = v,
                             !.avail = [@ EXCEPT ![disk.idx % Queue] = i0]]
  /\ Go("notify")
  /\ UNCHANGED <<scratch, osvars, irq, dev, uart, hid, ret>>
notify ==
  /\ At("notify")
  /\ disk' = [disk EXCEPT !.idx = Plus1(@)]
  /\ Go("spin")
  /\ UNCHANGED <<scratch, osvars, irq, dev, uart, hid, ret>>
free_chain(i) == {i, disk.next[i], disk.next[disk.next[i]]}
\* b->disk is 0: the rest of virtio_disk_rw.
spin_end ==
  /\ At("spin") /\ ~disk.busy
  /\ disk' = [disk EXCEPT !.free = @ \cup free_chain(disk.head), !.vdisk_lock = FALSE,
                          !.next = [i \in DOMAIN @ |-> IF i \in free_chain(disk.head) THEN 0 ELSE @[i]]]
  /\ Go("disk_read")
  /\ UNCHANGED <<scratch, osvars, irq, dev, uart, hid, ret>>

\* The device: it finds the head of a chain, does the request or fails,
\* and adds the head to the used ring.
DeviceStatus == {0, 1}
qemu(status) ==
  /\ dev.taken # disk.idx
  /\ LET h == disk.avail[dev.taken % Queue]
     IN disk' = [disk EXCEPT !.status = status,
                             !.data = IF status = 0 /\ ~disk.write THEN dev.block ELSE @,
                             !.used = [@ EXCEPT ![disk.usedIdx % Queue] = h],
                             !.usedIdx = Plus1(@)]
  /\ dev' = [taken |-> Plus1(dev.taken), interrupt |-> TRUE,
             block |-> IF status = 0 /\ disk.write THEN disk.data ELSE dev.block]
  /\ UNCHANGED <<cpu, scratch, osvars, irq, uart, hid, ret>>
-----------------------------------------------------------------------------
(* Tasks and the system call.                                              *)

os_main ==
  /\ \/ At("disk_read") /\ Go("task_go") /\ UNCHANGED current_task
     \/ At("back") /\ Go("task_go") /\ current_task' = (current_task + 1) % Cardinality(TaskIds)
  /\ UNCHANGED <<scratch, ctx, ctx_now, irq, disk, dev, uart, hid, ret>>
\* The first argument of sys_switch is in a0 when it is saved.
ctx_save(t, ra) == ctx' = [ctx EXCEPT ![t] = [ra |-> ra, a0 |-> "context"]]
ctx_load(t) == cpu' = [pc |-> ctx[t].ra, ra |-> ctx[t].ra, a0 |-> ctx[t].a0]
sys_switch(old, ra, new) == ctx_save(old, ra) /\ ctx_load(new) /\ ctx_now' = new
task_go ==
  /\ At("task_go")
  /\ sys_switch(ctx_os, "back", current_task)
  /\ UNCHANGED <<scratch, current_task, irq, disk, dev, uart, hid, ret>>
task_os(ra) == sys_switch(ctx_now, ra, ctx_os)

\* user_task4 calls gethid(&hid); both tasks end up in a loop of delays.
task4 ==
  \/ At("task4") /\ cpu' = [pc |-> "gethid", ra |-> "result", a0 |-> "&hid"] /\ UNCHANGED ret
  \/ At("gethid") /\ Go("ecall") /\ UNCHANGED ret
  \/ At("ret") /\ Go(cpu.ra) /\ UNCHANGED ret
  \/ At("result") /\ ret' = cpu.a0 /\ cpu' = [cpu EXCEPT !.pc = "delay", !.ra = "delay"]
user_task ==
  /\ ctx_now = user_task4 /\ task4
  /\ UNCHANGED <<scratch, osvars, irq, disk, dev, uart, hid>>

\* do_syscall, where a7 is 1: to a0 in the saved registers.
sys_gethid(ptr) == IF ptr = "&hid" THEN [value |-> "mhartid", a0 |-> "0"] ELSE [value |-> hid, a0 |-> "-1"]
do_syscall ==
  /\ At("ecall")
  /\ scratch' = [cpu EXCEPT !.a0 = sys_gethid(cpu.a0).a0]
  /\ hid' = sys_gethid(cpu.a0).value
  /\ cpu' = [scratch' EXCEPT !.pc = "ret"]
  /\ UNCHANGED <<osvars, irq, disk, dev, uart, ret>>
-----------------------------------------------------------------------------
(* Interrupts.                                                             *)

\* Only the handlers run with interrupts off; os_kernel and the rest have
\* them on, as plic_init left them.
Interruptible == cpu.pc \notin {"isr", "used", "getc", "getc2", "complete", "panic"}
reg_save == scratch' = cpu
reg_load == cpu' = scratch
trap_vector(pc) == reg_save /\ cpu' = [pc |-> pc, ra |-> "trap_vector", a0 |-> "any"]
\* The interval ends: timer_handler asks for the next and the trap returns to
\* os_kernel with the registers of the task.
timer_interrupt ==
  /\ ctx_now \in TaskIds /\ Interruptible
  /\ reg_save
  /\ task_os(cpu.ra)
  /\ UNCHANGED <<current_task, irq, disk, dev, uart, hid, ret>>
\* Both sources have one priority: the PLIC gives out the lower number first.
Pending == (IF dev.interrupt THEN {VIRTIO_IRQ} ELSE {}) \cup (IF uart.ready THEN {UART0_IRQ} ELSE {})
plic_claim == irq' = Min(Pending)
external_handler ==
  /\ Interruptible /\ Pending # {}
  /\ plic_claim
  /\ trap_vector(IF irq' = UART0_IRQ THEN "getc" ELSE "isr")
  /\ UNCHANGED <<osvars, disk, dev, uart, hid, ret>>
plic_complete ==
  /\ At("complete")
  /\ irq' = NoIrq
  /\ reg_load
  /\ UNCHANGED <<scratch, osvars, disk, dev, uart, hid, ret>>

\* Mutant of isr_ack: the interrupt is acknowledged, the used ring not looked at.
ack_only == At("isr") /\ dev' = [dev EXCEPT !.interrupt = FALSE] /\ Go("complete")
isr_ack == At("isr") /\ dev' = [dev EXCEPT !.interrupt = FALSE] /\ Go("used")
\* Mutant of isr_used: without the test of the status.
used_anyway ==
  /\ At("used")
  /\ IF disk.used_idx = disk.usedIdx THEN Go("complete") /\ UNCHANGED disk
     ELSE Go("used") /\ disk' = [disk EXCEPT !.busy = FALSE, !.used_idx = Plus1(@)]
isr_used ==
  /\ At("used")
  /\ CASE disk.used_idx = disk.usedIdx -> Go("complete") /\ UNCHANGED disk
       [] disk.used_idx # disk.usedIdx /\ disk.status # 0 -> Go("panic") /\ UNCHANGED disk
       [] OTHER -> Go("used") /\ disk' = [disk EXCEPT !.busy = FALSE, !.used_idx = Plus1(@)]
virtio_disk_isr ==
  /\ \/ isr_ack /\ UNCHANGED disk
     \/ isr_used /\ UNCHANGED dev
  /\ UNCHANGED <<scratch, osvars, irq, uart, hid, ret>>
panic == At("panic") /\ UNCHANGED kernelvars

\* lib_isr: lib_getc reads UART_RHR a second time unless the first read
\* gave '\r'; each read clears LSR_RX_READY.
lib_getc ==
  \/ /\ At("getc") /\ ~uart.ready
     /\ Go("complete") /\ UNCHANGED uart
  \/ /\ At("getc") /\ uart.ready
     /\ \/ /\ Last(uart.typed) # "\r" /\ Go("getc2")
           /\ uart' = [uart EXCEPT !.ready = FALSE]
        \/ /\ Last(uart.typed) = "\r" /\ Go("getc")
           /\ uart' = [uart EXCEPT !.ready = FALSE, !.echo = Append(@, Len(uart.typed))]
  \/ /\ At("getc2")
     /\ Go("getc") /\ uart' = [uart EXCEPT !.ready = FALSE, !.echo = Append(@, Len(uart.typed))]
lib_isr == lib_getc /\ UNCHANGED <<scratch, osvars, irq, disk, dev, hid, ret>>
\* The terminal holds a key back until the last one is read.
type(c) ==
  /\ ~uart.ready /\ Len(uart.typed) < MaxKeys
  /\ uart' = [uart EXCEPT !.typed = Append(@, c), !.ready = TRUE]
  /\ UNCHANGED <<cpu, scratch, osvars, irq, disk, dev, hid, ret>>
-----------------------------------------------------------------------------
KernelNext ==
  \/ \E write \in BOOLEAN, v \in Sectors : virtio_disk_rw(write, v)
  \/ notify \/ spin_end \/ os_main \/ task_go \/ user_task \/ do_syscall
  \/ timer_interrupt \/ external_handler \/ plic_complete \/ virtio_disk_isr \/ lib_isr \/ panic
  \/ \E status \in DeviceStatus : qemu(status)
  \/ \E c \in {"key", "\r"} : type(c)
KernelSpec == KernelInit /\ [][KernelNext]_kernelvars
-----------------------------------------------------------------------------
\* virtio_disk_rw does not spin for ever on a request that is done: an
\* interrupt is pending or the handler has not seen it yet.
SpinEnds ==
  disk.used_idx # disk.usedIdx => dev.interrupt \/ cpu.pc \in {"isr", "used", "panic"}
\* Between requests all descriptors are free: alloc3_desc does not loop.
ChainsFreed == ~disk.vdisk_lock => disk.free = 0 .. Queue - 1
\* When gethid() returns 0, hid has been set: even if it was interrupted.
AnswerTrue == ret = "0" => hid = "mhartid"
\* No key is echoed twice or out of order, though it may be lost.
EchoInOrder == \A i \in 2 .. Len(uart.echo) : uart.echo[i - 1] < uart.echo[i]
\* What may not go wrong between the OS, its tasks and the interrupts.
KernelSound == SpinEnds /\ ChainsFreed /\ AnswerTrue /\ EchoInOrder

Done == ~disk.busy \/ (disk.used_idx # disk.usedIdx /\ disk.status = 0)
RequestStage == [b \in {0} |-> IF ~disk.vdisk_lock THEN "none" ELSE IF Done THEN "done"
                               ELSE IF disk.write THEN "write" ELSE "read"]
SectorOnDisk == [b \in {0} |-> dev.block]
SectorInMemory == [b \in {0} |-> disk.data]
OneBlock == INSTANCE BlockDevice WITH Bufs <- {0}, Data <- Sectors,
  block <- SectorOnDisk, data <- SectorInMemory, req <- RequestStage
\* virtio_disk_rw moves the sector between its call and its return, and
\* returns only when the device has.
ImplementsOneBlock == OneBlock!Spec
=============================================================================
