# riscv2os in TLA+

A specification and verification project for the programs of the *riscv2os*
book: the xv6 kernel of chapter 6, the small operating system of chapter 3 and
the two processors of chapters 4 and 5.  The text of the book (`_book/`,
`README.md`) and the tool chain notes (`00-tool`, `01-riscv`) hold no program.

Paths below are relative to `src/06-unix-on-riscv/` where they start with
`xv6/`, and to `src/06-unix-on-riscv/xv6/kernel/` where they are a bare file
name.

Contents: [1 the system](#1-the-system), [2 what is hard](#2-what-is-hard),
[3 the modules](#3-the-modules), [4 the runs](#4-the-runs),
[5 fairness](#5-fairness), [6 the proofs](#6-the-proofs),
[7 the plan](#7-the-plan), [8 what is not modelled](#8-what-is-not-modelled).

## 1. The system

| part | where | state it keeps | operations |
|------|-------|----------------|------------|
| redo log | `xv6/kernel/log.c` | log header in memory and on disk, `outstanding`, `committing` | `begin_op`, `log_write`, `end_op`, `commit`, recovery |
| buffer cache | `xv6/kernel/bio.c`, `sleeplock.c` | LRU list of NBUF buffers, reference counts, sleep locks | `bread`, `bwrite`, `brelse`, `bpin`, `bunpin` |
| disk driver | `xv6/kernel/virtio_disk.c` | descriptor table, available and used rings, requests in flight | `virtio_disk_rw`, `virtio_disk_intr` |
| inodes, directories, paths | `xv6/kernel/fs.c` | inode table, bitmap, inodes and directories on disk | `ialloc`, `iget`, `ilock`, `iput`, `itrunc`, `readi`, `writei`, `dirlink`, `namei` |
| files and their system calls | `xv6/kernel/file.c`, `sysfile.c` | file table, descriptors | `filealloc`, `filedup`, `fileclose`, `open`, `link`, `unlink` |
| pipes | `xv6/kernel/pipe.c` | ring buffer, two ends | `pipewrite`, `piperead`, `pipeclose` |
| processes | `xv6/kernel/proc.c`, `sysproc.c` | process table, parents, sleep channels | `fork`, `exit`, `wait`, `kill`, `sleep`, `wakeup`, `scheduler` |
| locks | `xv6/kernel/spinlock.c` | lock word, owner, interrupt nesting | `acquire`, `release`, `push_off`, `pop_off` |
| console and UART | `xv6/kernel/console.c`, `uart.c` | input line buffer, output ring | `consoleread`, `consoleintr`, `uartputc`, `uartstart` |
| memory | `xv6/kernel/kalloc.c`, `vm.c`, `exec.c` | free list, page tables | `kalloc`, `kfree`, `mappages`, `uvmalloc`, `copyout`, `exec` |
| traps | `xv6/kernel/trap.c`, `plic.c`, `*.S` | trap frames, `ticks` | `usertrap`, `kerneltrap`, `clockintr` |
| contents of files | `xv6/kernel/fs.c`, `file.c` | bitmap, direct and indirect blocks, offsets | `balloc`, `bfree`, `bmap`, `itrunc`, `readi`, `writei`, `filewrite` |
| shell, init, filters | `xv6/user/sh.c`, `init.c`, `cat.c`, `echo.c`, `wc.c`, `grep.c` | descriptors, grep's buffer | parsing, `runcmd`, `grep` |
| heap of user programs | `xv6/user/umalloc.c` | circular free list | `malloc`, `free`, `morecore` |
| tests of the system calls | `xv6/user/usertests.c`, `grind.c` | variables and descriptors of each test | programs over all system calls, which say what each must return |
| mkfs | `xv6/mkfs` | | the first image of the disk |
| mini-riscv-os | `03-embed-os/mini-riscv-os` | task table, page map, spin lock, timer, virtio disk | task switch, `malloc`, `lock_acquire`, `virtio_disk_rw` |
| pipelined CPU | `05-pipeline-cpu/kleine-riscv/src` | pipeline registers, CSRs, register file | fetch, decode, execute, memory, writeback, hazard unit |
| single-cycle CPU | `04-single-cycle-cpu/mini-riscv-cpu` | PC, registers, SRAM | one instruction per cycle |
| RV32 tools | `02-asm/_road2vm` | | ELF dump, disassembler, simulator |

How the parts of the kernel meet:

* A system call runs in the kernel thread of its process (`trap.c`), with
  interrupts on; a timer interrupt may take the CPU from it (`yield`) whenever
  it has no spin lock.  Several CPUs run the scheduler at once.
* File-system calls bracket their work with `begin_op` and `end_op`; between
  them they read blocks with `bread`, change the buffer and call `log_write`
  where one would call `bwrite`.  Whoever ends the last operation of a group
  commits it, in his own thread: `bread`, `bwrite`, `bunpin`.
* `bread` and `bwrite` of a buffer call `virtio_disk_rw`, which sleeps until
  the interrupt handler has seen the device's answer.
* Everybody waits with `sleep(chan, lock)` and is woken with `wakeup(chan)`,
  or, whatever he waits for, by `kill`.
* A pipe, an inode and a file are reached through descriptors that `fork`
  duplicates and `exit` closes.
* `usertests.c` and `grind.c` are the only places that say what all of this together is
  to do: fork, exec, files, pipes and memory in one program.

## 2. What is hard

| part | what makes it hard | what makes it correct |
|------|--------------------|-----------------------|
| log | a crash between any two disk writes, or in one; operations that start while others end; the space reserved for those under way | a group of operations becomes durable in one step, never in part and never while one is under way; an operation has room for what it reserved |
| buffer cache | a buffer is found under one lock and waited for under another; brelse gives up two locks one after the other; recycling | a block has one buffer; a buffer is its block's as long as somebody counts on it; no update written or pinned is lost, no stale copy read |
| disk driver | device and driver share memory without a lock; interrupts that fall between acknowledgement and check; indices that wrap; descriptors that run out | every request moves its own block, once, between call and return; no descriptor lost; no process left asleep |
| inodes | reference count, link count, valid bit and two locks for one object; names resolved one lock at a time | an inode is freed when its last name and its last reference are gone, and by nobody else; no operation deadlocks |
| contents of files | blocks allocated and freed in one bitmap by several processes, in pieces that fit the log; a write that stops in the middle | every block belongs to one file or to nobody, on disk and in memory; files hold what was written |
| pipes | several readers and writers; wrapping counters; ends that close while others sleep; kill | bytes come out in order, once each; end of file only when the writers are gone; nobody sleeps with work to do; freed once, at the end |
| processes | `wait_lock` and one lock for each slot, released by a thread other than the one that took it; exit racing wait, fork racing kill | a tree in which each child has one parent who can wait for it, and is waited for once; one CPU for each stack; no lost wakeup; no deadlock |
| traps and switches | an interrupt between any two instructions that let it in; a handler that yields and goes on on another hart; per-hart registers kept across switches | no thread notices that it was interrupted; interrupts are off while a lock is held and back as they were after it |
| memory | `kalloc` may fail anywhere in the middle of a call | a call that fails leaves nothing behind; every page has one owner |
| console, UART | an editor that moves an index back while a reader moves another forward; interrupts that feed both | no character lost, doubled or read before its line is ended; all output leaves |
| shell | every fork copies every end of every pipe | no reader waits for an end nobody uses; a line does what it says |
| all system calls together | a call that fails in the middle leaves through several parts of the kernel; descriptors shared by processes that are killed; tables, memory and disk that fill up | every page, block, inode, file and pipe is free or in use, and counted right; the tests pass in every order of their processes |
| grep, heaps | a buffer refilled at any boundary; a free list searched from anywhere | the output does not depend on how reads fall; blocks never overlap, nothing is lost |
| mini-riscv-os | the timer interrupt abandons the interrupted function; a lock without disabled interrupts | a request is answered once; an answer in a register is true |
| CPUs | values read before older instructions have written them; branches, traps and interrupts that meet in the pipeline; memory that takes its time | the hardware computes what one instruction at a time would |

Every hazard, at its line, with the properties that would catch it going wrong,
is in `PROJECT.json`.

## 3. The modules

| module | what it is | refines | theorems |
|--------|-----------|---------|----------|
| `Log` | log.c with crashes and recovery | `AtomicDisk` | `Log_proof` |
| `BufferCache` | bio.c and sleeplock.c | `BlockStore` | `BufferCache_proof` |
| `VirtioDisk` | virtio_disk.c and the device | `BlockDevice` | `Drivers_proof` |
| `Pipe` | pipe.c | `ByteStream` | `Pipe_proof` |
| `Proc` | proc.c: process table and schedulers | `ProcTree` | `Proc_proof` |
| `Trap` | traps, interrupts, spin locks, switches, sys_sleep | `Uninterrupted` | `Trap_proof` |
| `Inode` | fs.c's inodes and directories, sysfile.c's calls | | `Inode_proof` |
| `FileBlocks` | bitmap, blocks of files, offsets, mkfs's image | `Files` | |
| `Memory` | kalloc.c, vm.c, exec.c, the memory of a process | `AddressSpaces` | |
| `Console` | console.c and uart.c | `Terminal` | `Console_proof` |
| `Shell` | sh.c with init, echo, cat, wc | | |
| `Grep` | grep.c, string functions | | |
| `Malloc` | umalloc.c; alloc.c of mini-riscv-os | `Allocator` | |
| `MiniKernel` | 10-SystemCall: disk request, interrupts, tasks, system call | `BlockDevice` | `Drivers_proof` |
| `MiniOs` | 06-Spinlock: tasks, timer, lock | | |
| `Kleine`, `SingleCycle` | the two processors | `RV32` | |
| `SysCalls` | all system calls of xv6, each in one step, on one state | | |
| `UserTests` | the tests of usertests.c and grind.c, as programs for `SysCalls` | | |
| `MCLog` | what the small instance does | | |
| `MCDisk`, `MCTables`, `MCPipe`, `MCMemory`, `MCCpu` | several components side by side: the variable `which` (in `MCCpu`, `core`) says which of them a behaviour is about, and the others stay as they are | | |
| `MCTrap` | three machines of different size, one after the other | | |

The abstract modules say what a component promises its callers.  They stack:
`BlockDevice` is what `BufferCache` uses as one step (a block is read or written
at one moment), `BlockStore` is what `Log` uses as a block that one process at a
time owns, and `AtomicDisk` is what a file-system operation sees: `Inode`, whose
calls each run inside one operation, writes its disk with plain assignments,
and `FileBlocks` keeps three copies of a block (cache, log, disk) that move as
`AtomicDisk` says.  `Proc` and `Pipe` are what `Shell` has for a kernel.  `Trap`
justifies what all the others assume of a spin lock: that its holder is not
interrupted.  `BlockDevice` has two implementations, xv6's driver, which
sleeps, and the one of mini-riscv-os, which spins and may fail; `Allocator` has
two as well, and `RV32` two processors.

**What is one step.**  Everything a CPU does under one hold of one spin lock is
one action, unless someone who does not take the lock can see it half done:
the device (`VirtioDisk`), `kill` (`Pipe`), the holder of another lock
(`Proc`), an interrupt (`Trap`).  `sleep(chan, lk)` gives up `lk` only after it
has taken `p->lock`, and `wakeup` needs `p->lock`, so that to fall asleep and to
release `lk` is one step for everyone who calls `wakeup` with `lk` held; `Proc`
models that very step with both locks in sight (`WaitSleep`, `WakeupSlot`).

### Log

`lh`, `outstanding`, `committing` are the fields of `log`; `dhead` and `dlog`
the header block and the rest of the log area, `home` every other block.
`cache[b]` is the buffer of block b (None if it has none), `pin[b]` the
references the log holds on it, `blk[p]` the block whose sleep lock p owns,
`wrote[p]` the blocks p's operation has logged.  `tail` is the loop variable of
`write_log` and `install_trans`.  `begin_op` is `BeginOp` or `BeginOpSleep`;
`log_write` is `LogWrite` or `LogWritePanic`; `end_op` is `EndOp`, then for the
committer one `WriteLog` for each block, `WriteHead`, one `InstallTrans` for
each block, `EraseTrans` and `EndOpDone`.  `Crash` may fall anywhere, and the
block that was being written then holds anything; the header does not tear,
because its used part is shorter than a sector (4 + 4 x 30 bytes).  After it
come `ReadHead`, `RecoverTrans`, `RecoverDone`, which may crash again.  `Evict`
is the recycling of a buffer nobody has a reference to.

### BufferCache

One action for each hold of `bcache.lock` or of the spin lock in a sleep lock:
`BgetHit`, `BgetMiss`, `BgetPanic`, `AcquireSleep`, `FillBuffer` make up
`bread`; `BrelseUnlock` and `BrelseDrop` are the two halves of `brelse`.  `lru`
is the list from `head.next` to `head.prev`.  The owner of a buffer may change
it, write it, pin and unpin it, and let go of it with a change neither written
nor pinned, as `writei` does after a `copyin` that failed half way (fs.c:500);
it unpins only what it has written.  A process has one buffer at a time.

### VirtioDisk and MiniKernel

In `VirtioDisk` a buffer stands for the process that owns it and for its block.
`desc`, `ring`, `usedRing` are the shared memory; `idx`, `usedIdx`, `seenIdx`
and `takenIdx` the four indices, which wrap.  `Format` is all that
`virtio_disk_rw` does before the memory barrier, `Notify` the increment the
device can see and the sleep.  The handler is `IntrStart` (acknowledge),
`IntrEntry` for each used entry, `IntrEnd`.  The device takes requests in
order, completes them in any, and may complete one between any two of these.

In `MiniKernel` there is one hart and one caller.  `cpu` has its program counter,
`ra` and `a0`, `scratch` what the trap handler saves of them and `ctx` what a
switch saves for the OS and the two tasks; `disk` is the driver's memory with
`vdisk_lock`, `dev` the device, which may answer with a status other than 0,
`uart` the keys typed and echoed.  The timer may hit a task
anywhere in `gethid()` and its stub; `ret` is the result its caller goes on with.

### Pipe, Shell, Grep

In `Pipe`, `data`, `nread`, `nwrite`, `readopen`, `writeopen` are the fields of
`struct pipe`.  A step copies one byte; the lock is held from step to step, and
`Kill` may come between two.  Several processes may have each end open; the
last one to close its descriptor calls `pipeclose`.  A fault in `copyin` or
`copyout` is a nondeterministic choice (`WriteDone`, `ReadByte`); one at the
first byte makes a read return 0 from a pipe that is open (pipe.c:124).

In `Shell`, `proc` has for each slot the program it runs, where in it, and its
descriptors; `files` the contents of files and screen; a command is the tree
`parsecmd` makes of the words, and `runcmd`'s cases are actions: `EXEC`, `REDIR`,
`PIPE`, `LIST`, `BACK`, each with its forks, closes and waits.  `fork` fails when
no slot is free (`ForkFails`), `open` and `pipe` when no descriptor, file or pipe is
(`Room`, `PipeFails`); other programs may hold slots and files (`Others`).  `meant`
is what a reference reading of the words says the files should hold, and `full`
that a call has failed for want of room.

`Grep` is the loop of `grep()` over its buffer, with reads of any length, and the
matcher as a recursive operator; `GrepPrints` compares with the lines of the
whole input that match by definition, and `StringsRight` tries `memmove`,
`strchr`, `strncmp`, `strncpy` and `safestrcpy` on overlapping and on full
arguments.

### Proc and Trap

In `Proc` are the fields of `struct proc` that fork, exit, wait and kill read;
`plock` and `waitLock` with the CPU that has them; `cpu[c]` is `c->proc`.  `k[p]`
is how far p's loop over the table has got: such a loop takes and releases the
lock of each slot, and anything may happen between two turns.  `SwitchIn`,
`Resume`, `SwitchOut` are the three parts of a context switch, in which the
scheduler takes the lock the process releases and the other way round.

In `Trap`, `csr[h]` and `cpus[h]` are what hart h has (`sie`, `spie`, `spp`,
`sepc`, `stvec`, `ssip`, `tp`; `noff`, `intena`, `proc`), `cur[h]` the thread
whose registers are in it: a process or the scheduler of a hart.  `at[t]` is
where t is below any handler, `frame[t]` the handler of the interrupt that hit
it (`kerneltrap` or `usertrap`), with the values it saved.  `cpuid()` is what `tp`
says, and the model would notice if it lied.  `Interrupt` and `timervec` may come
between any two steps with SIE on; `yield`, `swtch`, `sched`, `acquire`,
`release`, `push_off`, `pop_off`, `usertrapret` and `sret` do what the code does
to these registers.  `sys_sleep` and `clockintr` meet over `tickslock`; `nap` is
what of its sleep a process has left.

### Inode and FileBlocks

In `Inode`, `dtype`, `dlink`, `ents`, `up` are the inodes on disk, with a
directory's entries and its `".."`; `inum`, `ref`, `valid`, `type`, `nlink` and the
owner of the sleep lock are the fields of an entry of `icache`.  `cur[p]` and
`ip[p]` are the locals `dp` (or namex's `ip`) and `ip` of p's call, `put[p]` the
argument of the `iput` it is in and `ret[p]` where that returns.  `namex` is
`NamexStart`, then `Ilock` and `WalkOn` for each element of the path, with the
`iput` of the directory it leaves between two of them, or `WalkFails`,
`WalkStops`.  `iput` is `IputDrop`, or `IputLast`, `IputFree`, `IputUnlock`,
`IputDrop` if it frees.  `create` is `CreateFinds`, `Reuse`, `ReuseFails` for a name
that exists, else `ialloc` one inode at a time (`IallocNext`, `IallocFound`,
`IallocIget`) and `Fill`.  `unlink` is `UnlinkFinds`, `UnlinkFails`, `Unlink`,
`DropLink`; `link` is `LinkCount`, then namex again for the new name and `LinkAdd`,
`LinkDone`, or `LinkExists`, `BadDir`, `DropLink`.  `Call` starts a call of the set
`Calls[p]`.  A panic is a program counter that no action leaves; one in `iget`
keeps `icache.lock` (`TableFree`).  `RefsTo(s)` are the `Pointers` to an
entry of the table: working directories, open files, locals of calls.

In `FileBlocks`, `disk` and `cache` are the blocks as they are on disk and as the
processes see them, `logged[p]` those p's operation has logged, `inode` the
inodes in memory.  A `copyin` that fails may have copied any part of the block's piece
into the cache first (`Torn`), where it stays, unlogged, until the buffer is
recycled (`Recycle`); a `copyout` may fail in the middle of a read.  `call[p]` has the locals of p's `read`, `write` or `open` with
`O_TRUNC`; `owner[i]` owns inode i.  `bmap` stops at each block it has to allocate
(`Missing`), `itrunc` at each it frees, because another process may look at the
bitmap in between.  `filewrite` cuts a write into pieces, each an operation of the
log.  The initial disk is what mkfs makes of files of the sizes in `Sizes`.

### Memory, Malloc

`Memory` has pages as a function from addresses to contents, a free list, and
page tables of three levels in these pages; `uvmalloc`, `uvmdealloc`,
`uvmcopy`, `freewalk`, `exec` and the rest are operators that take the memory and
return it with a result.  `luck` is how many calls of `kalloc` succeed before
one fails.  `Malloc` has two heaps.  For umalloc.c it keeps headers in a function from
addresses (`hdr`), `freep` and the break; `alien` is what the program took with `sbrk`
itself.  For alloc.c, `page` is the array of page descriptors.  In both, `block` is
what the program holds; a block of alloc.c is as long as the pages it was given, which
may be less than was asked for (section 4).

### SysCalls, UserTests

The other modules have one part of the kernel each, with its steps; `SysCalls` has
them all, a call in one step.  `sys` is what processes share: inodes, open files, pipes and
the numbers of free pages and blocks; `proc` the fields of `struct proc` and, for its
program, the statements still to run (`prog`), its variables (`env`), what it has read
and how far a `write` has come (`part`).  A call is a function from one `sys` to
the next and a result, with the returns, failures and clean-ups of sysfile.c, fs.c,
pipe.c, proc.c and exec.c in their order: a call that fails in the middle has taken
what it took by then and gives it back piece by piece (`Opens`, `LinkUndone`,
`PipeUndone`, `Freeproc`, `NewImage`, `ArgPages`), so that a piece forgotten shows
in the counts; `write` is cut into pieces where `filewrite` and
`pipewrite` cut it, and `wait`, pipes and the console block.  Memory is counted, in
quarters of a page, without its contents; a fault (`Faults`) kills.  `panic` names the
panic a call runs into.

A `Stmt` is a call, the results the program takes for good, the variable
the result goes to, and how the program goes on after a good and after a bad one; `Ok`,
`Fail`, `Is`, `If`, `While`, `Times` are the ways the tests use it.  Each test
of `tests` is the function of that name in usertests.c, `main` counts the free pages,
runs one of them and counts again; `grind` are moves of grind.c, for one process
alone and for two that meet in the same names.  Loops are shorter and buffers
smaller, with the tables: `createdelete` has one child instead of four, `forkforkfork`
grows by four pages first so that memory ends the forking, `sbrkfail`'s children
ask for eleven pages each.

### Console

`cons` has `buf`, `r`, `w`, `e` and the lock, `tx` the output ring, `uart` the FIFOs
of the device, `intr` where the interrupt handler is; `reader[p]` and
`writer[p]` are the locals of `consoleread` and `uartputc`.  Its echo is
`uartputc_sync`, which waits for the UART without `uart_tx_lock`.

### Kleine, SingleCycle, RV32, MiniOs

Every register of `kleine-riscv` that carries state between clock edges is a
field of `fd`, `de`, `em`, `wb` and a few variables, every wire an operator; one
edge is one `Cycle`, or `Interrupted` when an enabled interrupt is pending in it.  `SingleCycle` has the state machine of CPU.v and the two
memories, which answer one edge late.  The refinement of `Kleine` takes for the
program counter that of the oldest instruction not yet retired (`ArchPc`) and
for the memory that without the store that is not retired yet (`ArchRam`).
`MiniOs` has for its locations the instructions of `lock_acquire`, `atomic_swap`,
`lock_free` and a task between which an interrupt makes a difference.

## 4. The runs

| run | properties | instance | distinct states |
|-----|------------|----------|-----------------|
| `log` | `SpaceReserved`, `WriteAhead`, `ImplementsAtomicDisk`, `SleeperWoken` | 2 processes, 3 blocks, a log of 3 blocks with its header, 1 block reserved and written by an operation | 359,000 |
| `log_full` | `NoPanic`, expected to fail | the same | |
| `pipe` | `FreedLast`, `EOFOnlyWhenClosed`, `SleepersNotified`, `ImplementsByteStream`, `LinesMean`, `PromptReturns`, `GrepRight` | pipe: 1 writer, 2 readers, ring of 2, counters that wrap at 4, calls of 1 and 3 bytes, a reader and the writer may be killed; shell: 7 process slots, 6 descriptors, 9 open files, 3 pipes, two lines, with 3 slots or 6 files taken or none; grep: a buffer of 5 | 476,000 |
| `disk` | `DriverSound`, `CacheSound`, `KernelSound`, `ImplementsBlockDevice`, `ImplementsBlockStore`, `ImplementsOneBlock` | driver: 3 buffers, 7 descriptors, indices that wrap at 7; buffer cache: 3 processes, 3 blocks, 2 buffers; mini-OS: queue of 4, indices modulo 4, 3 requests, 2 keys, 2 sectors | 1,007,000 |
| `tables` | `FsSound`, `LocksOrdered`, `TableSound`, `LockHoldersMove`, `RemovedRight`, `ImplementsProcTree` | inodes: 2 processes, 4 inodes, 3 entries of icache, 2 names, calls that meet in them; processes: 3 slots, 2 CPUs, pids to 3, `kill(2)` | 1,415,000 |
| `cpu` | `BothImplementRV32`, `KeepsRetiring` | about 2300 programs for both processors, 1-bit bytes, 2 registers, memory latency 0, 2 and 3, one interrupt where it is precise | 728,000 |
| `cpu_unfiltered` | `BothImplementRV32`, expected to fail | the same with stores behind a trap, `sra`, loads of an upper byte or half, latency 1, an interrupt in any cycle | |
| `memory` | `MemoryExact`, `NothingLost`, `Accounted`, `ImplementsAddressSpaces`, `HeapsImplementAllocator`, `TestsPass` | xv6: 16 pages, 2 processes, 5 calls; umalloc: heap of 13 units; mini-OS: 8 pages of 4 bytes; tests: 7 processes, 8 descriptors, 10 files, 14 inodes, 40 pages, 14 blocks, pipes of 2 | 89,000 |
| `console` | `SleepersHaveCause`, `ImplementsTerminal`, `OutputInOrder`, `OutputDrains` | 2 readers, 2 writers, input ring of 3 with indices modulo 6 that start at 5, output ring of 1, FIFO of 2 | 192,000 |
| `file_blocks` | `FilesSound`, `ImplementsFiles` | 2 processes, blocks of 2 bytes, 1 direct and 2 indirect pointers, disk of 13 blocks with 2 bitmap blocks, 3 calls | 495,000 |
| `traps` | `HartsSafe`, `ImplementsUninterrupted`, `SleepEnds` | two harts and one process; one hart, a device and kill; one hart and two processes | 141,000 |
| `minios_lock` | `LockExcludes`, expected to fail | 2 tasks | |

`FilesSound` is `BlocksAccounted` and `OpsFit`: blocks and pointers agree, and no operation
overfills the log.  In `pipe`, `disk`,
`tables`, `memory` and `cpu` several machines are checked in one run, each from its own
initial states and untouched by the others.

Three runs are expected to fail: each states what a document or a comment
of the repository says and the code does not do; `PROJECT.json` quotes it under
`findings`.  They check one property each, in the same modules as the passing runs.
Where the code disagrees with its documents and no run says so, the paragraphs
below do.

**Why the bounds are enough.**  What can go wrong here goes wrong between two
actors, a third to be waited for, and a boundary.  So there are two or three of
each actor, and every ring, table, cache and log is as small as lets it be
both empty and full, with indices and counters that go all the way round.  The
pipe has two readers because only then is a byte taken by somebody else after a
wakeup; the log has three blocks because a group commit needs two operations
and the one that waits for space a third; the cache two buffers for three blocks so
that recycling is the rule; the driver seven descriptors, so that one
process finds two free and has to give them back; the disk of `file_blocks` two
bitmap blocks, because `mkfs` and `balloc` step from one to the other.  The tests
have just the processes, pages and blocks with which each can do what it is about:
a table that fills up in one is large enough for the next.  The
proofs of section 6 need none of these bounds.

**Deadlock** is checked in `log`, `disk` and `tables`; a panic that the code can come to
counts there as a step that changes nothing.  Elsewhere the system
may stop: at a panic, when all ends of a pipe are closed or all lines of the
shell are done, with readers of a console at which nobody types, or at the
bound on the number of calls.  What must not stop there is a liveness property.

**`minios_lock`.**  `03-embed-os/mini-riscv-os/doc/tw/06-Spinlock.md:40` says that a lock
excludes all other tasks from the critical section.  `lock_acquire` of
`lock.c` can lose it: the timer switches tasks inside, and the resumed task goes on
at its `ra`, which is behind the call.  TLC shows two tasks inside, both interrupted
before the swap, while the lock is nobody's.

**`log_full`.**  `begin_op` lets operations reserve `LOGSIZE` blocks in all (log.c:134),
and `log_write` panics at `log.size - 1`, one less, because mkfs counts the header in
`nlog`; and it tests this before it looks whether the block is in the log already.  TLC shows
an operation that panics inside its own reservation.  It needs operations that
use up what they have reserved; if each leaves two of its blocks unused, nobody
panics, for any values of the constants (`NoneTooBig` in section 6).

**`cpu_unfiltered`.**  Both processors go wrong in places, and this run leaves none out.
TLC shows the first: an `ecall` behind which a store is performed although the trap cancels
it.  hazard.v:213 says that a trap makes the memory stage invalid, but memory.v:101
has handed the store to the bus by then.  The others, each of which TLC finds as soon
as the ones before it are taken out:

* kleine-riscv takes an interrupt over a bubble too and saves its address (writeback.v:61):
  behind a taken branch or an `mret` that is an address the program never comes to, where
  csr.v:214 says the current program counter is saved; and one that meets a store in
  writeback repeats it;
* with a memory latency of one cycle, which simulator.cpp:13 offers (`--latency`), fetch
  forgets the instruction it must hold (hazard.v:91);
* SRA of mini-riscv-cpu shifts zeros in (CPU.v:61), and LB, LH, LBU and LHU take the
  lowest byte or half of the word (CPU.v:220); its README lists all five.

The run `cpu` checks what is left, and only that: interrupts where writeback holds an
instruction and no store is on its way (`Precise`: a store that is repeated after `mret`
writes the same again), no store behind an instruction that may trap (`Precisely`),
latencies 0, 2 and 3, and for the single-cycle core neither `sra` nor the loads of
upper bytes (`SinglePrograms`).  Its `BothImplementRV32` is not the claim that the cores
implement RV32.

Three more disagreements have no run of their own:

* *A torn write.*  `writei` (fs.c:500) lets go of a block into which a failing `copyin` has
  copied a part, without logging it: whether the bytes are in the file depends on whether
  the buffer is recycled first, though bio.c:10 and log.c:210 say that a changed buffer is
  written or logged.  `FileBlocks` does this (`CopyinFails`, `Recycle`), `BufferCache` has
  it too, and what they promise makes room for it: a write that fails so counts as a change of
  unknown contents up to the recycling (`Tear`, `Mend` of `Files`; `Forget` of `BlockStore`).
* *grind's pipeline.*  grind.c:287 wants both ends of `echo hi | cat` to exit with 0.  The
  reader takes the two letters and closes (lines 281-283), and `cat`, if it writes the
  newline only then, finds the pipe closed and exits with 1.  `UserTests` keeps the
  pipeline and the test of what was read, and leaves out the one of the exit statuses;
  with it `TestsPass` fails.
* *A heap block too short.*  `pageNum` of alloc.c (line 33) is not a rounding up: a request of
  two pages and a byte gets two pages, so that 513 bytes get 512, where the book's own
  example counts three pages (doc/tw/09-MemoryAllocator.md:255-257).
  `Malloc` asks for such sizes too; `Allocator` promises that blocks lie apart with the
  pages they were given, not that they are as long as was asked.

What else the modelling has shown about the code:

* *Log.*  A group commits when `outstanding` reaches 0, and nothing bounds how long
  overlapping operations put that off.
* *Buffer cache.*  `NBUF = LOGSIZE`: with a full log pinned and readers beside
  it, `bget` can panic; `BgetPanic` happens in the run.
* *Pipes.*  A killed writer that has put bytes in returns -1 without waking the
  reader, who sleeps on in front of them.  A kill that falls between the test of
  `killed` and the sleep is noticed at the next wakeup.
* *Processes.*  `kill(0)` (proc.c:586) finds an unused slot, whose pid is 0, and
  leaves `killed` set for the process that gets it next.
* *Inodes.*  `iput` (fs.c:353) lowers `ref` without another look after freeing: an
  `iget` in between can keep an inode in use that has no link.
  `chdir("..")` out of a removed directory whose parent is freed too panics
  with "ilock: no type" (fs.c:310); see `NoneAstray` in section 6.
* *File blocks.*  mkfs rounds the size of the root up by a block
  even when it is a multiple; where it is, a hole is left, and reading it would
  allocate outside an operation.  `O_TRUNC` leaves the offsets of other open
  files behind the end.  The estimate of `filewrite` does not count bitmap
  blocks beyond two, which `FSSIZE` 1000 excludes.
* *Memory.*  `sbrk` below minus the size wraps and succeeds without a change;
  `malloc` near 2^32 wraps the number of units; `exec` refuses an empty first
  segment.
* *Console.*  The echo and `uartstart` write to the UART under different locks, and
  nothing is lost only because `uartinit` enables the FIFOs.  A `copyout` that
  fails loses a character.
* *Shell.*  `echo a & echo b` is a syntax error; `a > x > y` writes to x and empties
  y; `>>` writes from the start; a file truncated under a writer whose offset is ahead
  makes his write fail; an `init` that cannot fork panics the kernel;
  `MAXARGS` allows 9 words.
* *Grep.*  A line as long as the buffer ends it silently, a NUL hides everything
  behind it, a last line without newline is never printed.
* *Tests of the system calls.*  `bsstest`, which looks at the contents of memory, and `fsfull`,
  which is not in the list of tests and checks nothing, are left out.  `writebig` does not notice a file that is short by more than
  a block; the names `createdelete` removes last are other ones than it made.
* *Spin locks.*  `sys_sleep` ends for a process that keeps being scheduled; `acquire`
  of a lock one already has is a panic in the code and a wait for ever in `Trap`, which
  `HartsSafe` excludes.
* *mini-riscv-os.*  Each preemption in a function with a frame leaks the frame;
  `trap_vector` of chapter 10 clobbers `t6`; a key typed between `plic_init` and
  `timer_init` traps with `mscratch` 0; `gethid()` hit by the timer reports
  failure though it may have stored the id; `lib_getc` reads RHR twice; a request
  of `malloc` larger than the heap wraps the bound.
* *kleine-riscv.*  Bit 0 of a JALR target and the low bits of `mepc` are kept; a store waiting behind WFI is
  repeated at a wrong address.
* *mini-riscv-cpu.*  An unknown opcode hangs the machine in state 2.
* *v3-vm.*  The disassembler does not double the offset of `jal` and does not extend the sign of
  branch offsets.

## 5. Fairness

Fairness is on what runs by itself; nobody is made to make a call.

* `Log`: weak fairness of recovery, of a process that waits in `begin_op` and has been
  woken, of `brelse` and of `end_op`; strong fairness of the start of `end_op` and of the
  commit's steps, which need a buffer whose lock others take and give back.  A process
  inside an operation ends it: the kernel's operations do a bounded amount of
  work.
* `Shell`: weak fairness of all programs together, not of any single one: the
  scheduler may be as unjust as it likes among those that can run.  A line ends
  because no program runs for ever.
* `Console`: weak fairness of the UART, its interrupt handler and each process
  inside a call.  xv6 schedules round robin and interrupts are not masked
  for ever.
* `Trap`: weak fairness of every hart's instructions and of `timervec`; strong fairness
  of the timer interrupt, which finds interrupts on again and again, and of a process
  that can be picked again and again.  `start.c` sets an interval of 1,000,000
  cycles, far more than a scheduler's round or a handler takes, so that a
  process does not spend all its time in handlers.
* `SysCalls`: weak fairness of each process (`Scheduled`), the scheduler's round robin.
  It is written with `CanStep` in place of `ENABLED`: a process can go on unless it
  waits for an exit, for a pipe, for the console or for the others to exit.  The pause at the end of a
  test (`settle`) lasts until what the test left behind has exited; a `sleep` in a test takes any time.
* `Kleine` and `SingleCycle`: the clock ticks.

## 6. The proofs

`tlapm` checks the modules `Log_proof`, `BufferCache_proof`, `Pipe_proof`, `Proc_proof`,
`Drivers_proof`, `Trap_proof`, `Console_proof` and `Inode_proof`.  The theorems hold for every value of
the constants that satisfies the named assumptions of the modules: finite sets of
processes and buffers, names such as `None` different from everything else, sizes at
least 1, a counter that wraps at a multiple of its ring's size, and for
`SpaceIsReserved` and `Refinement` of the log what param.h and mkfs say of its size;
`NoneTooBig` states its own hypothesis.
Those of `Inode` need one hypothesis more, which is explained there.
TLC evaluates each of them in the runs.

The pattern is the same everywhere.  The property is not inductive; the proof module
strengthens it to an inductive invariant of named parts, proves that `Init`
implies it and that every action keeps it (a lemma for each action, with a step for
each part the action can disturb), and draws the properties and the step simulation
of the refinement from it.

### Log_proof

| theorem | says |
|---------|------|
| `Invariance` | `Spec => []IndInv` |
| `TypeCorrect` | every index stays inside `lh.block[]` and the log area |
| `WriteAheadHolds` | no home block is written before the header that lists it |
| `Refinement` | the log, with crashes and recovery, implements `AtomicDisk` |
| `SpaceIsReserved` | `lh.block[]` has room for all that is reserved and not used; nothing about the log area, which is a block shorter |
| `NoneTooBig` | if every operation leaves two of the blocks it has reserved unused (`Roomy`), nobody panics in log.c |

What keeps `WriteAhead` true is that the committer is alone: `OneCommitter` (nobody is
between `begin_op` and `end_op` while somebody commits, there is one committer,
`outstanding` counts the operations), `PinnedWhileDirty` (a buffer may differ
from its home block only while its block is in the log and not yet installed,
and is then pinned, hence still in memory), `HeaderOK` (the header on disk
lists the transaction exactly while it is installed), `CopiesOK` (what
`write_log` and `install_trans` have copied agrees with where it came
from), `LockedCached` and `BootOK`.  For the refinement, `Durable` is what a boot
would restore: the logged copy of a block the header lists, its home otherwise.
Then `WriteHead` is the abstract commit, `Crash` the abstract crash, a torn
block is one that recovery overwrites, and installing and erasing change nothing.

`SpaceReserved` counts: the blocks in the header are those that operations under way
have logged and those of operations that have ended, and each of the former has
`MaxOpBlocks` reserved.  `Room` says that the length of the header and what is reserved
but not used fit together; it needs `Written` (what an operation has written is in the
log, so that it uses its reservation at most once for a block) and `Halted` (nobody
commits after a panic).  That is all the accounting gives: the log area holds
one block less, and the run `log_full` shows the panic that follows.  `NoneTooBig`
says how large the gap is: with `Roomy`, `Room` leaves a place in the log area
at every `log_write`, the test before the absorption included.

### BufferCache_proof

| theorem | says |
|---------|------|
| `TypeCorrect` | the list stays a permutation of the buffers; `refcnt` never goes below zero |
| `NoTwoBuffers` | no block has two buffers |
| `NotRecycled` | the buffer a process waits for or owns stays its block's |
| `CountsExact` | `refcnt` is the number of processes at work on a buffer, plus the log's pin |
| `NoSleeperLeft` | who sleeps on a buffer sleeps on a lock somebody holds |
| `CacheIsSound` | `CacheSound`, all of them together |
| `Refinement` | the cache implements `BlockStore` |

`BufferStays` needs `RefcntExact`: only because every process at work on a
buffer is counted does `bget` never recycle it.  `RefcntExact` in turn needs
`HasBuffer` (a process has a buffer exactly from `bget` to the end of
`brelse`), and `SleeperHasOwner` needs `OwnersAgree` (lock words and program
counters agree).  For the refinement, the contents of a block are those of its valid
buffer, or the disk's: recycling a buffer that was written or pinned changes
nothing, and recycling one that was released with a change neither written nor
pinned is the step of `BlockStore` that forgets the whole change.  The counting steps rest on the lemmas `NewUser`, `LostUser`,
`Referenced` and `Unreferenced`, which say what one process more or less does
to the cardinality.

### Pipe_proof

| theorem | says |
|---------|------|
| `FreedAtTheEnd` | `FreedLast`: freed once, used by nobody afterwards; the contents fit the array |
| `NobodyMissesAWakeup` | `SleepersNotified`: with the lock free, a sleeping reader has nothing to read, unless a writer was killed, and a sleeping writer no room |
| `NoFalseEOF` | `EOFOnlyWhenClosed`: read returns 0 only when the pipe is empty and the write end closed, or when the `copyout` of its first byte failed |
| `Refinement` | array and wrapping counters implement `ByteStream` |

The invariant says who is between `acquire` and `release` and that he has the lock, that an end
is open while a descriptor can reach it, and that a sleeper has nothing to see or the
lock's holder is on his way to a `wakeup`.  For the refinement, the
bytes are counted from `nread`.  What that needs of `%` comes first (and again in
`Drivers_proof` and `Console_proof`): a difference of two counters that have wrapped,
full rounds, and that places less than a round apart differ.

### Proc_proof

| theorem | says |
|---------|------|
| `Invariance` | `Spec => []IndInv` |
| `TableIsSound` | `TableSound`: one CPU for a kernel stack, every parent alive, nobody asleep in `wait` with a zombie to wait for |
| `Refinement` | the table, lock by lock and slot by slot, implements `ProcTree` |

`IndInv` has `Stacks` and `LocksHeld` (which thread holds which lock at which place, across
`swtch` too), `Places`, `Forks` (a slot being filled by `fork`), `Family` (`reparent`
has got as far as `k[p]` says), `Wakeups` and `Identities`.  The wakeup of a waiting
parent is its heart: `Scanned` (the part of the table `wait` has gone through has no zombie, because a
child becomes one only with `wait_lock`), `ParentAwake` and `InitToWake` (init is still to be
woken for children it has just been given).  The refinement shows, slot by slot, that
the view of the tree changes in one step of `exit`, one of `fork`, one of `wait`.

### Drivers_proof

| theorem | says |
|---------|------|
| `DriverIsSound` | `DriverSound`: no descriptor lost or shared, rings never overflow, who sleeps for what has happened will be woken |
| `Refinement` | virtio_disk.c and a reordering device implement `BlockDevice` |
| `KernelIsSound` | `KernelSound`: the wait ends only with the request, chains are freed, an answer 0 is true, keys are echoed in order |
| `KernelRefinement` | the polling request of mini-riscv-os implements `BlockDevice` with one caller |

`Invariance` and `KernelInvariance` are the two inductive invariants.  In the first,
every request the device was told of is once in the available ring, in the device's
hands or in the used ring, the distances of the wrapping indices are the cardinalities
of these sets, and every submitter has a chain of three descriptors that are nobody else's; as
there are three for each request, neither ring can overflow.  `NobodyStarves` is the
wakeup of those who wait for descriptors.  Call, completion by the device and return
are the steps of `BlockDevice`.  In the second, the registers of the OS and the tasks have a `Places` for
running, interrupted and switched away, and the stages of the request
(`Quiet`, `Asked`, `Answered`) say what rings and status hold; a `0` is in a register only
when the id has been stored (`Answers`).

### Trap_proof

| theorem | says |
|---------|------|
| `Invariance` | `Spec => []IndInv` |
| `HartsAreSafe` | `HartsSafe`: right vectors, one hart on each stack, no panic, `noff` counts the locks, interrupts off meanwhile and as before afterwards |
| `InterruptsInvisible` | threads implement `Uninterrupted` |

`IndInv` says of every thread where it is, with or without a handler on top (`PlaceOf`,
`RunningAt`), which state its process has (`StateOf`), which locks it holds
(`LocksAt`) and what the registers are there (`RegistersAt`).  A step changes one
hart and the thread on it: `OnlyHart`, `Elsewhere` and `HereToo` say what follows for the
others, and `Stays`, `InHandler`, `Goes`, `Switches`, `SchedulerGoes` and `Dispatched` are the
kinds of steps there are.  No panic is reached because the invariant has no such place.
In the refinement each step moves one thread along an edge of `Uninterrupted`, or is not seen.

### Console_proof

| theorem | says |
|---------|------|
| `NobodySleepsInVain` | `SleepersHaveCause`: a sleeping reader has nothing to read, a sleeping writer no room, and a full input ring is ready |
| `InOrder` | `OutputInOrder`: what leaves the UART is the next character of its writer |
| `Refinement` | the input ring, its wrapping indices and its two locks implement `Terminal` |

`Invariance` has a half for each ring.  The input is told by the distances, modulo `UintMod`, from `r`
to `w` and from `w` to `e`: their sum never exceeds the ring, is the ring only if
the second is zero, and between `w` and `e` no line ends (so control-U takes all of
it).  `KeyIs` says what each key does to the two sequences between the indices and
`FirstTaken` what a reader does to the first; the refinement is little more than
these.  On the output side (`OutputRing`, `OneFlies`, `NoneLost`) every character that
was put but not sent is in the ring or on its way out, the ring has those of a writer in
order, and at most one at a time is on its way, the next of its writer.
`FifoHasRoom` is why the echo, which takes no `uart_tx_lock`, cannot push
one out: whoever writes has seen the FIFO empty, and only one other can have written since.


### Inode_proof

| theorem | says |
|---------|------|
| `Agreement` | `Spec /\ []NoneAstray => []IInv` |
| `SoundUnlessAstray`, `Soundness` | `FsSound`: one entry for an inode, `ref` exact, an unlocked copy is the disk's, a name is always counted, nobody meets a freed inode |
| `OrderedUnlessAstray`, `Ordering` | `LocksOrdered`: no two processes wait for each other's inode lock, none for its own, and `iput` never waits |
| `RemovedUnlessAstray`, `Removal` | `RemovedRight`: an inode is freed at its last name and reference, a directory removed only when empty |
| `DownIsSafe` | paths without `".."` keep `IInv` and never go astray |

`IInv` says of every process what it has in hand at each stage of its call and which of it is
locked (`Shape`, `Owners`, `Loaded`), with `Stage`, which sees through an
`iput` under way to the place it returns to.  Of the table it says that `ref` counts the
pointers (`RefExact`), that an inode has one entry (`OneEntryPerInode`), and that
the copy there is the disk's unless it is being freed (`Copies`, `Freers`).  Of the disk:
an inode behind a pointer is allocated, and has a parent if it is a directory (`Alive`); one
being made is known to its maker alone (`Privates`); the entries of a directory and
`".."` fit together (`Entries`, `RootStays`).  Where both meet is `Counted`: the
link count is at least the names, the `".."` of the directories in it, and what `unlink` and
`link` still have to take off; `FsSound` asks only for the names, but the step that takes a
link off needs all of it.  `Stays` keeps what was seen under a lock true as long as
the lock is held: that the name `create` is about to add is absent, that the one `unlink`
removes is there.  Without it a directory could get two entries for one name, or lose one
it has just been given.

A lemma for each action; most are instances of four kinds of step: `StepQuiet` (only
places in the call change, and perhaps which local has a pointer), `StepTakes` (`iget` or
`idup`), `StepLock` (`ilock`, `iunlock`) and `StepWrites` (the disk).  The counting rests on
`Shuffled`, `MovesCount`, `TakesCount` and `DropCount`, bijections between sets of pointers.

*The hypothesis.*  `NoneAstray` says that a process at the element `".."` of a path is in the
root or in a directory that has a name.  xv6 does not ensure it: a removed directory
that is still somebody's working directory keeps its `".."`, the parent may be freed
and even be another inode by the time it is followed, and then the code panics with
"ilock: no type" or goes on somewhere else.  So the invariant does not hold of every
behaviour of the code, and `IInv` holds exactly as long as nobody does this.
`Soundness`, `Ordering` and `Removal` need no such hypothesis on behaviours, but that no path has
`".."` in it (`DownOnly`), as in the run `tables`; the others are about all calls.

### What is only model-checked

* Liveness: `SleeperWoken`, `PromptReturns`, `SleepEnds` (for one process), `OutputDrains`,
  `KeepsRetiring`, `TestsPass`; and `LockHoldersMove`, which speaks of `ENABLED`.
* What is computed by a recursive definition or a fold over data: `LinesMean`,
  `GrepRight`, `MemoryExact`, `NothingLost`, `ImplementsAddressSpaces`,
  `HeapsImplementAllocator`, `FilesSound`, `ImplementsFiles`, `Accounted`.  Pages, page tables,
  the free lists, the programs of `SysCalls` and the image mkfs makes are sums over
  sets, folds over sequences or recursive functions.  It would take an induction over
  them, whose theorems take operators as parameters.
* `BothImplementRV32`: every combination of four instructions in five stages.
* `Inode` where `NoneAstray` fails.

## 7. The plan

The modules were written from the bottom of the kernel up: log and cache, driver,
pipes and processes, inodes and files, traps, memory, console; then the shell on top, the
mini-OS and the processors; last the tests over all system calls.  The proofs went the
same way, `Console` and `Inode` last.  What is left:

1. `FileBlocks`: the part of `BlocksAccounted` that no fold is needed for, two pointers
   never to one block.
2. `SingleCycle`: its five states against `RV32`, one instruction at a time.
3. `Inode`: what still holds when a path goes astray, device files and `"."`.

## 8. What is not modelled

* Devices that report errors (`virtio_disk_intr` panics), several devices (`dev` is always
  `ROOTDEV`), the probing of the disk, booting before `main`.
* `mknod` and device files, the entry `"."`, `procdump`, the
  kernel's own page table (`kvmmake`), `copyin` and `copyinstr` byte by byte, a
  console read of no characters.  The three characters that wipe one out on the
  screen count as one.
* Crashes in `Inode`: they are the subject of `Log` and `FileBlocks`, and what a
  crash leaves is what one operation or none did.  An orphan (an open file without a
  name) is lost at a crash, in the code too.
* Characters of words, the texts of messages, formats of numbers.
* `bsstest` and `fsfull` of `usertests.c`, and in `SysCalls` what is in memory.
* The simulator around kleine-riscv and its tests, xv6 programs without state of their
  own, the RV32 tools, which are sequential, vendored headers (`elf.h`) and the text of the book.

A reading note: fs.c:137-140 says that `ip->valid` is cleared by `iput` when `ref`
has fallen to zero; the code clears it only when it frees the inode on disk, which is
what `Inode` does.
