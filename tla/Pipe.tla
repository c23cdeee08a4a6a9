-------------------------------- MODULE Pipe --------------------------------
(***************************************************************************)
(* One pipe of kernel/pipe.c, the processes that write to it, those that   *)
(* read from it, and kill(), which takes no pipe lock.  A process calls    *)
(* pipewrite or piperead through a descriptor of its own; the last one to  *)
(* close its end calls pipeclose (fileclose in file.c counts them).        *)
(*                                                                         *)
(* A byte is copied at each step, pi->lock being held from step to step.   *)
(* The counters nread and nwrite wrap around, as uint does.                *)
(***************************************************************************)
EXTENDS Naturals, Sequences

CONSTANTS Writers, Readers,  \* processes with the write, the read end open
          Data,              \* bytes
          PipeSize,          \* PIPESIZE
          Wrap,              \* values of a uint: 2^32
          Lengths,           \* bound: how many bytes one call may ask for
          Killable,          \* processes that kill() may hit
          None               \* not a process

Procs == Writers \cup Readers

ASSUME EndsAssumption == Writers \cap Readers = {} /\ None \notin Procs
ASSUME SizeAssumption == PipeSize \in Nat \ {0} /\ Lengths \subseteq Nat
ASSUME WrapAssumption == /\ Wrap \in Nat /\ Wrap > PipeSize
                         /\ \E k \in 1..Wrap : Wrap = k * PipeSize

VARIABLES data,       \* pi->data
          nread, nwrite, readopen, writeopen,
          lock,       \* pi->lock: its owner, or None
          frees,      \* how often the pipe has been given to kfree
          pc, i, n,   \* each process: where it is, its i and n
          killed,     \* p->killed
          open        \* has it its descriptor still open?

pipeVars == <<data, nread, nwrite, readopen, writeopen>>
vars == <<data, nread, nwrite, readopen, writeopen, lock, frees, pc, i, n,
          killed, open>>

Empty == nread = nwrite
\* Mutant of Full: the sum is not a uint.
FullWithoutWrap == nwrite = nread + PipeSize
Full == nwrite = (nread + PipeSize) % Wrap

Goto(p, l) == pc' = [pc EXCEPT ![p] = l]

\* Mutant of GotoWaking: wakeup() is left out.
GotoSilently(p, l, side) == Goto(p, l) /\ side \subseteq Procs
\* p goes on at l; sleepers of the given side become runnable, and then have
\* to take pi->lock again.
GotoWaking(p, l, side) ==
  pc' = [q \in Procs |-> IF q = p THEN l
                         ELSE IF q \in side /\ pc[q] = "asleep" THEN "relock"
                         ELSE pc[q]]

Init == /\ data \in [0..(PipeSize - 1) -> Data]
        /\ nread = 0 /\ nwrite = 0 /\ readopen = TRUE /\ writeopen = TRUE
        /\ lock = None
        /\ frees = 0
        /\ pc = [p \in Procs |-> "idle"]
        /\ i = [p \in Procs |-> 0]
        /\ n = [p \in Procs |-> 0]
        /\ killed = [p \in Procs |-> FALSE]
        /\ open = [p \in Procs |-> TRUE]
-----------------------------------------------------------------------------
\* read() or write() of k bytes; usertrap() lets no killed process get here.
Call(p, k) ==
  /\ pc[p] = "idle" /\ open[p] /\ ~killed[p]
  /\ Goto(p, "lock")
  /\ n' = [n EXCEPT ![p] = k]
  /\ i' = [i EXCEPT ![p] = 0]
  /\ UNCHANGED <<pipeVars, lock, frees, killed, open>>

\* Mutant of LoopOf: piperead tests once, with if, before it sleeps.
LoopOnce(p) == IF p \in Writers THEN "write"
               ELSE IF pc[p] = "relock" THEN "copy" ELSE "read"
\* Where a process that has got pi->lock goes on: at the test of its loop.
LoopOf(p) == IF p \in Writers THEN "write" ELSE "read"

\* acquire(&pi->lock), at the start of a call and at the end of sleep().
Acquire(p) ==
  /\ pc[p] \in {"lock", "relock"} /\ lock = None
  /\ lock' = p
  /\ Goto(p, LoopOf(p))
  /\ UNCHANGED <<pipeVars, frees, i, n, killed, open>>

\* The call returns; the next one starts from scratch.
Return(p) ==
  /\ lock' = None
  /\ i' = [i EXCEPT ![p] = 0]
  /\ n' = [n EXCEPT ![p] = 0]

\* sleep(): p is SLEEPING before pi->lock is free.
SleepOn(p) ==
  /\ pc[p] = "sleep"
  /\ lock' = None
  /\ Goto(p, "asleep")
  /\ UNCHANGED <<pipeVars, frees, i, n, killed, open>>

\* Reader gone, or killed: -1.
WriteFails(p) ==
  /\ pc[p] = "write" /\ i[p] < n[p]
  /\ ~readopen \/ killed[p]
  /\ Return(p)
  /\ Goto(p, "idle")
  /\ UNCHANGED <<pipeVars, frees, killed, open>>

WriteFull(p) ==
  /\ pc[p] = "write" /\ i[p] < n[p]
  /\ readopen /\ ~killed[p]
  /\ Full
  /\ GotoWaking(p, "sleep", Readers)
  /\ UNCHANGED <<pipeVars, lock, frees, i, n, killed, open>>

WriteByte(p, v) ==
  /\ pc[p] = "write" /\ i[p] < n[p]
  /\ readopen /\ ~killed[p]
  /\ ~Full
  /\ data' = [data EXCEPT ![nwrite % PipeSize] = v]
  /\ nwrite' = (nwrite + 1) % Wrap
  /\ i' = [i EXCEPT ![p] = @ + 1]
  /\ UNCHANGED <<nread, readopen, writeopen, lock, frees, pc, n, killed, open>>

\* All n bytes are in, or copyin() of the next one fails.
WriteDone(p) ==
  /\ pc[p] = "write"
  /\ i[p] = n[p] \/ (readopen /\ ~killed[p] /\ ~Full)
  /\ GotoWaking(p, "idle", Readers)
  /\ Return(p)
  /\ UNCHANGED <<pipeVars, frees, killed, open>>

MustWait == Empty /\ writeopen

ReadKilled(p) ==
  /\ pc[p] = "read"
  /\ MustWait /\ killed[p]
  /\ Return(p)
  /\ Goto(p, "idle")
  /\ UNCHANGED <<pipeVars, frees, killed, open>>

ReadEmpty(p) ==
  /\ pc[p] = "read"
  /\ MustWait /\ ~killed[p]
  /\ Goto(p, "sleep")
  /\ UNCHANGED <<pipeVars, lock, frees, i, n, killed, open>>

ReadStart(p) ==
  /\ pc[p] = "read"
  /\ ~MustWait
  /\ Goto(p, "copy")
  /\ UNCHANGED <<pipeVars, lock, frees, i, n, killed, open>>

\* A byte leaves the pipe even if copyout() to the process then fails.
ReadByte(p) ==
  /\ pc[p] = "copy" /\ i[p] < n[p] /\ ~Empty
  /\ nread' = (nread + 1) % Wrap
  /\ \/ i' = [i EXCEPT ![p] = @ + 1] /\ pc' = pc
     \/ i' = i /\ Goto(p, "copied")
  /\ UNCHANGED <<data, nwrite, readopen, writeopen, lock, frees, n, killed, open>>

ReadDone(p) ==
  /\ pc[p] = "copied" \/ (pc[p] = "copy" /\ (i[p] = n[p] \/ Empty))
  /\ GotoWaking(p, "idle", Writers)
  /\ Return(p)
  /\ UNCHANGED <<pipeVars, frees, killed, open>>
-----------------------------------------------------------------------------
SideOf(p) == IF p \in Writers THEN Writers ELSE Readers

\* close(), or exit(); the last descriptor of an end takes the end with it.
CloseFd(p) ==
  /\ pc[p] = "idle" /\ open[p]
  /\ open' = [open EXCEPT ![p] = FALSE]
  /\ Goto(p, IF \E q \in SideOf(p) \ {p} : open[q] THEN "idle" ELSE "close")
  /\ UNCHANGED <<pipeVars, lock, frees, i, n, killed>>

\* Mutant of BothClosed: || where the code has &&.
OneClosed(r, w) == ~r \/ ~w
BothClosed(r, w) == ~r /\ ~w

PipeClose(p) ==
  /\ pc[p] = "close" /\ lock = None
  /\ IF p \in Writers THEN writeopen' = FALSE /\ readopen' = readopen
                      ELSE readopen' = FALSE /\ writeopen' = writeopen
  /\ GotoWaking(p, IF BothClosed(readopen', writeopen') THEN "free" ELSE "idle",
                IF p \in Writers THEN Readers ELSE Writers)
  /\ UNCHANGED <<data, nread, nwrite, lock, frees, i, n, killed, open>>

\* kfree() is called after the release of pi->lock.
Free(p) ==
  /\ pc[p] = "free"
  /\ frees' = frees + 1
  /\ Goto(p, "idle")
  /\ UNCHANGED <<pipeVars, lock, i, n, killed, open>>

\* kill() from outside: a sleeper runs again, to see that it has been killed.
Kill(p) ==
  /\ p \in Killable /\ ~killed[p]
  /\ killed' = [killed EXCEPT ![p] = TRUE]
  /\ pc' = [pc EXCEPT ![p] = IF @ = "asleep" THEN "relock" ELSE @]
  /\ UNCHANGED <<pipeVars, lock, frees, i, n, open>>

\* The steps of a process that has pi->lock.
WriteStep(p) == p \in Writers /\ (\/ WriteFails(p) \/ WriteFull(p) \/ WriteDone(p)
                                  \/ \E v \in Data : WriteByte(p, v))
ReadStep(p) == p \in Readers /\ (\/ ReadKilled(p) \/ ReadEmpty(p) \/ ReadStart(p)
                                 \/ ReadByte(p) \/ ReadDone(p))

Next == \E p \in Procs : \/ \E k \in Lengths : Call(p, k)
                         \/ Acquire(p)
                         \/ WriteStep(p) \/ ReadStep(p) \/ SleepOn(p)
                         \/ CloseFd(p) \/ PipeClose(p) \/ Free(p)
                         \/ Kill(p)

Spec == Init /\ [][Next]_vars
-----------------------------------------------------------------------------
(* Properties                                                              *)

PCs == {"idle", "lock", "relock", "asleep", "sleep", "write", "read", "copy",
        "copied", "close", "free"}

Used == (nwrite + Wrap - nread) % Wrap

\* The types; the bytes in the pipe fit its array although the counters wrap.
TypeOK == /\ data \in [0..(PipeSize - 1) -> Data]
          /\ nread \in 0..(Wrap - 1) /\ nwrite \in 0..(Wrap - 1)
          /\ Used <= PipeSize
          /\ readopen \in BOOLEAN /\ writeopen \in BOOLEAN
          /\ lock \in Procs \cup {None}
          /\ frees \in 0..1
          /\ pc \in [Procs -> PCs]
          /\ i \in [Procs -> Nat] /\ n \in [Procs -> Lengths \cup {0}]
          /\ \A p \in Procs : i[p] <= n[p]
          /\ killed \in [Procs -> BOOLEAN] /\ open \in [Procs -> BOOLEAN]

\* The pipe is freed once, when nobody can use it any more; until then what is
\* in it fits.
FreedLast == /\ TypeOK
             /\ frees <= 1
             /\ frees = 1 => /\ lock = None
                             /\ \A p \in Procs : pc[p] = "idle" /\ ~open[p]

\* A read of at least one byte that returns 0.
ReturnsZero(p) == pc[p] \in {"copy", "copied"} /\ pc'[p] = "idle" /\ i[p] = 0 /\ n[p] > 0
CopyoutFailed(p) == pc[p] = "copied"

\* read() of at least one byte returns 0 for two reasons only: the stream is at its
\* end, with the write end closed, or the copyout of the first byte failed, which
\* piperead reports as 0 too, whatever the write end (pipe.c:124-129; the test copyout
\* of usertests expects -1 or 0).  A reader whose bytes another reader took
\* meanwhile waits again.
EOFOnlyWhenClosed ==
  [][\A p \in Readers : ReturnsZero(p) => CopyoutFailed(p) \/ (Empty /\ ~writeopen)]_vars

\* When nobody is at work on the pipe, a reader that sleeps has nothing to
\* see, and a writer that sleeps has no room and still a reader: whoever made
\* it otherwise has woken them before the lock was free (the calls of wakeup,
\* and sleep(), which gives pi->lock up only when the sleeper can be found).
\* A writer that is killed is the exception: it returns -1 without a wakeup.
WriterKilled == \E p \in Writers : killed[p]
SleepersNotified ==
  lock = None =>
    /\ \A p \in Readers : pc[p] = "asleep" => (Empty \/ WriterKilled) /\ writeopen
    /\ \A p \in Writers : pc[p] = "asleep" => Full /\ readopen

Stream == INSTANCE ByteStream
            WITH queue <- [k \in 1..Used |-> data[(nread + k - 1) % PipeSize]],
                 Capacity <- PipeSize

\* Bytes come out in the order they went in, none lost, none twice, whoever
\* reads and writes and whenever the counters wrap.
ImplementsByteStream == Stream!Spec
=============================================================================
