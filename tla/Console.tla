------------------------------- MODULE Console -------------------------------
(***************************************************************************)
(* The console and its UART: console.c and uart.c.  Typed characters come  *)
(* by interrupt (uartintr, consoleintr) into a ring with three indices: r, *)
(* what readers have taken, w, what is ready for them, e, what is typed.   *)
(* Written characters go through a second ring, which uartstart empties    *)
(* into the UART; it is called by writers and by the interrupt handler.    *)
(* The handler echoes without that ring, by waiting for the UART.          *)
(*                                                                         *)
(* The UART (external) has a receive and a transmit FIFO; TX_IDLE of its   *)
(* status register says that the transmit FIFO is empty, and an interrupt  *)
(* follows when it becomes so.  The PLIC lets one CPU at a time handle it. *)
(***************************************************************************)
EXTENDS Naturals, Sequences, FiniteSets

CONSTANTS
  Readers, Writers,   (* processes                                         *)
  INPUT_BUF, UART_TX_BUF_SIZE,
  FifoSize, RxSize,   (* of the UART's transmit and receive FIFO           *)
  UintMod,            (* 2^32 in the code                                  *)
  Starts,             (* values r = w = e may have                         *)
  MaxRead,            (* bound: characters asked for by a read             *)
  Loads               (* bounds: the readers at work, the keys, how many   *)
                      (* of them are typed, what a writer writes           *)

\* uartinit enables the FIFOs: there is room for a second character.
ASSUME ConsoleAssumption ==
  /\ {INPUT_BUF, UART_TX_BUF_SIZE, FifoSize} \subseteq Nat \ {0} /\ FifoSize >= 2
  /\ UintMod \in Nat /\ UintMod % INPUT_BUF = 0 /\ UintMod > INPUT_BUF
  /\ Starts \subseteq 0 .. UintMod - 1 /\ MaxRead \in Nat
ASSUME NameAssumption == {"none", "handler", "echo"} \cap (Readers \cup Writers) = {}

VARIABLES
  cons,       (* [buf, r, w, e, lock]                                      *)
  reader,     (* of each reader: [pc, want, got]                           *)
  killed,     (* the readers that have been killed                         *)
  tx,         (* [buf, w, r, lock]                                         *)
  writer,     (* of each writer: [pc, put]; put counts what it has put     *)
  intr,       (* the handler: [pc, echo]                                   *)
  uart,       (* [rx, fifo, irq]                                           *)
  sent,       (* how many characters of each writer have left the UART     *)
  typed,      (* characters typed so far                                   *)
  load        (* the bounds this behaviour keeps, one of Loads             *)

vars == <<cons, reader, killed, tx, writer, intr, uart, sent, typed, load>>
None == "none"
Handler == "handler"
Keys == UNION {l.keys : l \in Loads}

Uint(n) == n % UintMod
Dec(n) == (n + UintMod - 1) % UintMod
Used(c) == Uint(c.e + UintMod - c.r)

(***************************************************************************)
(* The UART.                                                               *)
(***************************************************************************)
TxIdle == uart.fifo = <<>>
\* A character written to a full FIFO is lost.
\* Mutant of Push: the FIFO is not enabled (uartinit), one character fits.
PushHolding(u, c) == IF u.fifo = <<>> THEN [u EXCEPT !.fifo = <<c>>] ELSE u
Push(u, c) == IF Len(u.fifo) < FifoSize THEN [u EXCEPT !.fifo = Append(@, c)] ELSE u
Transmit ==
  /\ uart.fifo # <<>>
  /\ LET c == Head(uart.fifo) IN
     sent' = IF c[1] \in Writers THEN [sent EXCEPT ![c[1]] = c[2]] ELSE sent
  /\ uart' = [uart EXCEPT !.fifo = Tail(@), !.irq = @ \/ Len(uart.fifo) = 1]
  /\ UNCHANGED <<cons, reader, killed, tx, writer, intr, typed, load>>
TypeKey(c) ==
  /\ typed < load.types /\ c \in load.keys /\ Len(uart.rx) < RxSize
  /\ typed' = typed + 1
  /\ uart' = [uart EXCEPT !.rx = Append(@, c), !.irq = TRUE]
  /\ UNCHANGED <<cons, reader, killed, tx, writer, intr, sent, load>>

(***************************************************************************)
(* uartintr and consoleintr.                                               *)
(***************************************************************************)
Claim ==
  /\ intr.pc = "idle" /\ uart.irq
  /\ intr' = [intr EXCEPT !.pc = "get"]
  /\ uart' = [uart EXCEPT !.irq = FALSE]
  /\ UNCHANGED <<cons, reader, killed, tx, writer, sent, typed, load>>

Woken(rd) == [p \in Readers |-> IF rd[p].pc = "sleep" THEN [rd[p] EXCEPT !.pc = "enter"] ELSE rd[p]]
\* What a key does to the ring; the three characters that
\* wipe out an erased one count as one here.
Stop(c) == {k \in 1 .. Uint(c.e + UintMod - c.w) : c.buf[(c.e + UintMod - k) % INPUT_BUF] = "newline"}
KillLine(c) ==
  LET all == Uint(c.e + UintMod - c.w)
      n == IF Stop(c) = {} THEN all ELSE (CHOOSE k \in Stop(c) : \A j \in Stop(c) : k <= j) - 1
  IN [cons |-> [c EXCEPT !.e = Uint(@ + UintMod - n)], echo |-> n, wake |-> FALSE]
Erase(c) ==
  IF c.e = c.w THEN [cons |-> c, echo |-> 0, wake |-> FALSE]
  ELSE [cons |-> [c EXCEPT !.e = Dec(@)], echo |-> 1, wake |-> FALSE]
\* Mutant of Store: a full buffer does not make the line ready.
StoreWaits(c, key) ==
  IF Used(c) >= INPUT_BUF THEN [cons |-> c, echo |-> 0, wake |-> FALSE]
  ELSE LET d == [c EXCEPT !.buf[c.e % INPUT_BUF] = key, !.e = Uint(@ + 1)]
           full == key \in {"newline", "ctrl-D"}
       IN [cons |-> IF full THEN [d EXCEPT !.w = d.e] ELSE d, echo |-> 1, wake |-> full]
\* Mutant of Store: the ring is said to be full one character late.
StoreLate(c, key) ==
  LET d == [c EXCEPT !.buf[c.e % INPUT_BUF] = key, !.e = Uint(@ + 1)]
      full == key \in {"newline", "ctrl-D"} \/ d.e = Uint(d.r + INPUT_BUF)
  IN IF Used(c) > INPUT_BUF THEN [cons |-> c, echo |-> 0, wake |-> FALSE]
     ELSE [cons |-> IF full THEN [d EXCEPT !.w = d.e] ELSE d, echo |-> 1, wake |-> full]
Store(c, key) ==
  IF Used(c) >= INPUT_BUF THEN [cons |-> c, echo |-> 0, wake |-> FALSE]
  ELSE LET d == [c EXCEPT !.buf[c.e % INPUT_BUF] = key, !.e = Uint(@ + 1)]
           full == key \in {"newline", "ctrl-D"} \/ d.e = Uint(d.r + INPUT_BUF)
       IN [cons |-> IF full THEN [d EXCEPT !.w = d.e] ELSE d, echo |-> 1, wake |-> full]

ConsoleIntr ==
  /\ intr.pc = "get" /\ uart.rx # <<>> /\ cons.lock = None
  /\ LET key == Head(uart.rx)
         done == CASE key = "ctrl-U" -> KillLine(cons)
                   [] key = "backspace" -> Erase(cons)
                   [] OTHER -> Store(cons, key)
     IN /\ cons' = [done.cons EXCEPT !.lock = Handler]
        /\ intr' = [pc |-> "echo", echo |-> done.echo]
        /\ reader' = IF done.wake THEN Woken(reader) ELSE reader
  /\ uart' = [uart EXCEPT !.rx = Tail(@)]
  /\ UNCHANGED <<killed, tx, writer, sent, typed, load>>

\* uartputc_sync: the status is read, then the character written.
EchoReady ==
  /\ intr.pc = "echo" /\ intr.echo > 0 /\ TxIdle
  /\ intr' = [intr EXCEPT !.pc = "echo-put"]
  /\ UNCHANGED <<cons, reader, killed, tx, writer, uart, sent, typed, load>>
EchoPut ==
  /\ intr.pc = "echo-put"
  /\ intr' = [pc |-> "echo", echo |-> intr.echo - 1]
  /\ uart' = Push(uart, <<"echo", 0>>)
  /\ UNCHANGED <<cons, reader, killed, tx, writer, sent, typed, load>>
ConsoleIntrDone ==
  /\ intr.pc = "echo" /\ intr.echo = 0
  /\ intr' = [intr EXCEPT !.pc = "get"]
  /\ cons' = [cons EXCEPT !.lock = None]
  /\ UNCHANGED <<reader, killed, tx, writer, uart, sent, typed, load>>
\* Mutant of IntrTx: the handler takes the input only.
IntrTxNone ==
  /\ intr.pc = "get" /\ uart.rx = <<>>
  /\ intr' = [intr EXCEPT !.pc = "idle"]
  /\ UNCHANGED <<cons, reader, killed, tx, writer, uart, sent, typed, load>>
IntrTx ==
  /\ intr.pc = "get" /\ uart.rx = <<>> /\ tx.lock = None
  /\ intr' = [intr EXCEPT !.pc = "start"]
  /\ tx' = [tx EXCEPT !.lock = Handler]
  /\ UNCHANGED <<cons, reader, killed, writer, uart, sent, typed, load>>

(***************************************************************************)
(* uartstart, by whoever holds the lock: it looks at the UART, and if that *)
(* is idle takes a character and writes it.                                *)
(***************************************************************************)
AtStart(who, pc) == tx.lock = who /\ (IF who = Handler THEN intr.pc = pc ELSE writer[who].pc = pc)
GoTo(who, pc, others) ==
  IF who = Handler THEN intr' = [intr EXCEPT !.pc = pc] /\ writer' = others
  ELSE writer' = [others EXCEPT ![who].pc = pc] /\ intr' = intr
StartDone(who) ==
  /\ AtStart(who, "start")
  /\ tx.w = tx.r \/ ~TxIdle
  /\ GoTo(who, "idle", writer)
  /\ tx' = [tx EXCEPT !.lock = None]
  /\ UNCHANGED <<cons, reader, killed, uart, sent, typed, load>>
Wake(wr) == [p \in Writers |-> IF wr[p].pc = "sleep" THEN [wr[p] EXCEPT !.pc = "put"] ELSE wr[p]]
StartTake(who) ==
  /\ AtStart(who, "start")
  /\ tx.w # tx.r /\ TxIdle
  /\ GoTo(who, "start-put", Wake(writer))
  /\ tx' = [tx EXCEPT !.r = @ + 1]
  /\ UNCHANGED <<cons, reader, killed, uart, sent, typed, load>>
StartPut(who) ==
  /\ AtStart(who, "start-put")
  /\ GoTo(who, "start", writer)
  /\ uart' = Push(uart, tx.buf[(tx.r - 1) % UART_TX_BUF_SIZE])
  /\ UNCHANGED <<cons, reader, killed, tx, sent, typed, load>>

(***************************************************************************)
(* consolewrite, a character at a time: uartputc.                          *)
(***************************************************************************)
ConsoleWrite(p) ==
  /\ writer[p].pc = "idle" /\ writer[p].put < load.writes
  /\ writer' = [writer EXCEPT ![p].pc = "put"]
  /\ UNCHANGED <<cons, reader, killed, tx, intr, uart, sent, typed, load>>
TxFull == tx.w = tx.r + UART_TX_BUF_SIZE
PutSleep(p) ==
  /\ writer[p].pc = "put" /\ tx.lock = None /\ TxFull
  /\ writer' = [writer EXCEPT ![p].pc = "sleep"]
  /\ UNCHANGED <<cons, reader, killed, tx, intr, uart, sent, typed, load>>
PutChar(p) ==
  /\ writer[p].pc = "put" /\ tx.lock = None /\ ~TxFull
  /\ writer' = [writer EXCEPT ![p] = [pc |-> "start", put |-> @.put + 1]]
  /\ tx' = [buf |-> [tx.buf EXCEPT ![tx.w % UART_TX_BUF_SIZE] = <<p, writer[p].put + 1>>],
            w |-> tx.w + 1, r |-> tx.r, lock |-> p]
  /\ UNCHANGED <<cons, reader, killed, intr, uart, sent, typed, load>>

(***************************************************************************)
(* consoleread.                                                            *)
(***************************************************************************)
ReadCall(p, n) ==
  /\ reader[p].pc = "idle" /\ p \notin killed /\ p \in load.readers
  /\ reader' = [reader EXCEPT ![p] = [pc |-> "enter", want |-> n, got |-> <<>>]]
  /\ UNCHANGED <<cons, killed, tx, writer, intr, uart, sent, typed, load>>
ReadLock(p) ==
  /\ reader[p].pc = "enter" /\ cons.lock = None
  /\ reader' = [reader EXCEPT ![p].pc = "run"]
  /\ cons' = [cons EXCEPT !.lock = p]
  /\ UNCHANGED <<killed, tx, writer, intr, uart, sent, typed, load>>
Empty == cons.r = cons.w
ReadSleep(p) ==
  /\ reader[p].pc = "run" /\ Empty /\ p \notin killed
  /\ reader' = [reader EXCEPT ![p].pc = "sleep"]
  /\ cons' = [cons EXCEPT !.lock = None]
  /\ UNCHANGED <<killed, tx, writer, intr, uart, sent, typed, load>>
ReadKilled(p) ==
  /\ reader[p].pc = "run" /\ Empty /\ p \in killed
  /\ reader' = [reader EXCEPT ![p].pc = "done"]
  /\ UNCHANGED <<cons, killed, tx, writer, intr, uart, sent, typed, load>>
Next1 == cons.buf[cons.r % INPUT_BUF]
ReadChar(p) ==
  /\ reader[p].pc = "run" /\ ~Empty /\ Next1 # "ctrl-D"
  /\ LET got == Append(reader[p].got, Next1)
         ends == Next1 = "newline" \/ Len(got) = reader[p].want
     IN reader' = [reader EXCEPT ![p].got = got, ![p].pc = IF ends THEN "done" ELSE "run"]
  /\ cons' = [cons EXCEPT !.r = Uint(@ + 1)]
  /\ UNCHANGED <<killed, tx, writer, intr, uart, sent, typed, load>>
ReadEof(p) ==
  /\ reader[p].pc = "run" /\ ~Empty /\ Next1 = "ctrl-D"
  /\ reader' = [reader EXCEPT ![p].pc = "done"]
  /\ cons' = IF reader[p].got = <<>> THEN [cons EXCEPT !.r = Uint(@ + 1)] ELSE cons
  /\ UNCHANGED <<killed, tx, writer, intr, uart, sent, typed, load>>
\* either_copyout fails: the character has been taken all the same.
ReadFault(p) ==
  /\ reader[p].pc = "run" /\ ~Empty /\ Next1 # "ctrl-D"
  /\ reader' = [reader EXCEPT ![p].pc = "done"]
  /\ cons' = [cons EXCEPT !.r = Uint(@ + 1)]
  /\ UNCHANGED <<killed, tx, writer, intr, uart, sent, typed, load>>
ReadReturn(p) ==
  /\ reader[p].pc = "done"
  /\ reader' = [reader EXCEPT ![p] = [pc |-> "idle", want |-> 0, got |-> <<>>]]
  /\ cons' = [cons EXCEPT !.lock = None]
  /\ UNCHANGED <<killed, tx, writer, intr, uart, sent, typed, load>>
\* kill() makes a sleeper run.
Kill(p) ==
  /\ p \notin killed /\ p \in load.readers
  /\ killed' = killed \cup {p}
  /\ reader' = IF reader[p].pc = "sleep" THEN [reader EXCEPT ![p].pc = "enter"] ELSE reader
  /\ UNCHANGED <<cons, tx, writer, intr, uart, sent, typed, load>>

Device == Transmit
Interrupt == Claim \/ ConsoleIntr \/ EchoReady \/ EchoPut \/ ConsoleIntrDone \/ IntrTx
Start(who) == StartDone(who) \/ StartTake(who) \/ StartPut(who)
Write(p) == PutSleep(p) \/ PutChar(p) \/ Start(p)
Read(p) == ReadLock(p) \/ ReadSleep(p) \/ ReadKilled(p) \/ ReadChar(p) \/ ReadEof(p) \/ ReadReturn(p)

Next ==
  \/ Device
  \/ Interrupt \/ Start(Handler)
  \/ \E c \in Keys : TypeKey(c)
  \/ \E p \in Writers : ConsoleWrite(p) \/ Write(p)
  \/ \E p \in Readers : Read(p) \/ ReadFault(p) \/ Kill(p) \/ \E n \in 1 .. MaxRead : ReadCall(p, n)

Init ==
  /\ \E s \in Starts : cons = [buf |-> [i \in 0 .. INPUT_BUF - 1 |-> "newline"],
                               r |-> s, w |-> s, e |-> s, lock |-> None]
  /\ reader = [p \in Readers |-> [pc |-> "idle", want |-> 0, got |-> <<>>]]
  /\ killed = {}
  /\ tx = [buf |-> [i \in 0 .. UART_TX_BUF_SIZE - 1 |-> <<"echo", 0>>], w |-> 0, r |-> 0, lock |-> None]
  /\ writer = [p \in Writers |-> [pc |-> "idle", put |-> 0]]
  /\ intr = [pc |-> "idle", echo |-> 0]
  /\ uart = [rx |-> <<>>, fifo |-> <<>>, irq |-> FALSE]
  /\ sent = [p \in Writers |-> 0]
  /\ typed = 0
  /\ load \in Loads

Spec == Init /\ [][Next]_vars
\* The UART sends, its interrupt is handled, and processes that can go on do.
FairSpec ==
  /\ Spec
  /\ WF_vars(Device) /\ WF_vars(Interrupt) /\ WF_vars(Start(Handler))
  /\ \A p \in Writers : WF_vars(Write(p))
  /\ \A p \in Readers : WF_vars(Read(p))

(***************************************************************************)
(* Properties.                                                             *)
(***************************************************************************)
\* No lost wakeup and no dead end: a reader sleeps only while nothing is
\* ready, a writer only while the ring is full, and a full input ring is
\* ready to be read, or no key could ever be typed again (console.c:91, :168,
\* uart.c:97).
SleepersHaveCause ==
  /\ cons.lock = None => \A p \in Readers : reader[p].pc = "sleep" => Empty
  /\ tx.lock = None => \A p \in Writers : writer[p].pc = "sleep" => TxFull
  /\ Used(cons) = INPUT_BUF => cons.w = cons.e

\* Refinement: with indices that wrap, erasing and a control-D put back,
\* readers see a terminal with an editable line (console.c).
Ring(from, to) == [i \in 1 .. Uint(to + UintMod - from) |-> cons.buf[(from + i - 1) % INPUT_BUF]]
Tty == INSTANCE Terminal WITH
  Capacity <- INPUT_BUF,
  edit <- Ring(cons.w, cons.e),
  ready <- Ring(cons.r, cons.w),
  call <- [p \in Readers |->
    [want |-> reader[p].want, got |-> reader[p].got,
     done |-> reader[p].pc \in {"idle", "done"}]]
ImplementsTerminal == Tty!Spec

\* No character of a write is lost, sent twice or overtaken by a later one of
\* the same writer, though echo and uartstart write to the UART under
\* different locks (uart.c:116, :138).
OutputInOrder == [][\A p \in Writers : sent'[p] \in {sent[p], sent[p] + 1}]_sent

\* What is put into the output ring leaves the UART in the end, and a write
\* that waits for room goes on: the interrupt that empties the ring is never
\* missed (uart.c:149).
MaxWritten == CHOOSE n \in {l.writes : l \in Loads} : \A l \in Loads : l.writes <= n
OutputDrains ==
  \A p \in Writers : \A i \in 1 .. MaxWritten : (writer[p].put >= i) ~> (sent[p] >= i)

(***************************************************************************)
(* For TLC: two readers of lines, one reader of an edited line, two        *)
(* writers who write while characters are echoed.                          *)
(***************************************************************************)
MCLoads == {
  [readers |-> Readers, keys |-> {"a", "newline", "ctrl-D"}, types |-> 2, writes |-> 0],
  [readers |-> {CHOOSE p \in Readers : TRUE}, types |-> 4, writes |-> 0,
   keys |-> {"a", "ctrl-D", "ctrl-U", "backspace"}],
  [readers |-> {}, keys |-> {"a", "backspace"}, types |-> 2, writes |-> 2] }
=============================================================================
