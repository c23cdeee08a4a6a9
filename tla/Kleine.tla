------------------------------- MODULE Kleine -------------------------------
(***************************************************************************)
(* The five-stage pipelined core 05-pipeline-cpu/kleine-riscv: core.v,     *)
(* pipeline/*.v, units/*.v, and the memory its simulator gives it          *)
(* (sim/core.cpp, sim/memory.cpp).                                         *)
(*                                                                         *)
(* Every register of the hardware that carries state between clock edges   *)
(* is a field here, every wire an operator over them, and one clock edge   *)
(* is the action Cycle.  fd, de, em and wb are the registers between       *)
(* fetch, decode, execute, memory and writeback.  The instruction memory   *)
(* is a separate rom: no program of the runs stores into its own text.     *)
(* Counters and the timer comparator are left out of the CSRs; irq is the  *)
(* interrupt the enabled and pending bits ask for in this cycle.           *)
(***************************************************************************)
EXTENDS Integers, FiniteSetsExt, TLC

CONSTANTS
  ByteBits, NReg, ResetPC,  (* see RV32                                    *)
  Programs,   (* the programs that may be in the rom                       *)
  InitRegs,   (* register files the core may be switched on with           *)
  InitRam,    (* data memory at the start                                  *)
  InitVec,    (* values the uninitialised mtvec may have                   *)
  Latencies,  (* memory_latency of the simulator                           *)
  Irqs        (* interrupt causes the environment may raise                *)

ASSUME KleineAssumption ==
  /\ ByteBits \in Nat \ {0}
  /\ NReg \in Nat
  /\ ResetPC \in 0 .. 2^(4 * ByteBits) - 1
  /\ ResetPC % 4 = 0

VARIABLES
  rom, ram, regs, csr,
  pc,         (* fetch.v's pc                                              *)
  fd, de, em, wb,
  alu,        (* the result registers of alu.v and cmp.v                   *)
  rdata,      (* ext_read_data: the word last read from memory             *)
  wait, latency,  (* Core's memory_wait and memory_latency                 *)
  undo        (* history: the word the last cycle's store has replaced     *)

vars == <<rom, ram, regs, csr, pc, fd, de, em, wb, alu, rdata, wait, latency, undo>>

\* The words, instructions and CSR names are those of RV32; only its
\* constant-level definitions are used below.
ISA == INSTANCE RV32

(***************************************************************************)
(* decode.v: what an instruction needs, and its control signals.           *)
(***************************************************************************)
UsesRs1(i) == i.op \in {"JALR", "LOAD", "OPIMM", "BRANCH", "STORE", "OP"} \/ (i.op = "CSR" /\ i.f \in {1, 2, 3})
UsesRs2(i) == i.op \in {"BRANCH", "STORE", "OP"}
UsesCsr(i) == i.op = "CSR" /\ (IF i.f \in {1, 5} THEN i.rd # 0 ELSE i.f \in {2, 3, 6, 7})

\* The defaults of the always block; OR of an immediate with itself.
Idle == [fun |-> 6, mod |-> FALSE, a |-> "IMM", b |-> "IMM", wsel |-> "ALU",
         imm |-> 0, rd |-> 0, cmp |-> 0, size |-> 0, sgn |-> FALSE,
         jump |-> FALSE, branch |-> FALSE, load |-> FALSE, store |-> FALSE,
         byp |-> FALSE, csrr |-> FALSE, csrw |-> FALSE, mret |-> FALSE,
         wfi |-> FALSE, exc |-> FALSE, ecause |-> 0, csr |-> "none"]

\* The signals each opcode sets over the defaults.
SystemSignals(i) ==
  CASE i.op = "CSR" /\ i.f % 4 # 0 ->
         [rd |-> i.rd, byp |-> TRUE, wsel |-> "CSR",
          a |-> IF i.f < 4 THEN "REG" ELSE "IMM",
          b |-> IF i.f % 4 = 1 THEN "IMM" ELSE "CSR",
          imm |-> IF i.f < 4 THEN 0 ELSE i.rs1,
          fun |-> IF i.f % 4 = 3 THEN 7 ELSE 6, mod |-> i.f % 4 = 3,
          csrr |-> IF i.f % 4 = 1 THEN i.rd # 0 ELSE TRUE,
          csrw |-> IF i.f % 4 = 1 THEN TRUE ELSE i.rs1 # 0]
    [] i.op = "ECALL" -> [exc |-> TRUE, ecause |-> 11]
    [] i.op = "EBREAK" -> [exc |-> TRUE, ecause |-> 3]
    [] i.op = "MRET" -> [mret |-> TRUE]
    [] i.op = "WFI" -> [wfi |-> TRUE]
    [] OTHER -> <<>>
Signals(i) ==
  CASE i.op = "LUI" -> [imm |-> i.imm, rd |-> i.rd, byp |-> TRUE]
    [] i.op = "AUIPC" -> [fun |-> 0, a |-> "PC", imm |-> i.imm, rd |-> i.rd, byp |-> TRUE]
    [] i.op \in {"JAL", "JALR"} ->
         [fun |-> 0, a |-> IF i.op = "JAL" THEN "PC" ELSE "REG", imm |-> i.imm,
          wsel |-> "NEXT_PC", branch |-> TRUE, jump |-> TRUE, rd |-> i.rd]
    [] i.op = "BRANCH" -> [fun |-> 0, a |-> "PC", imm |-> i.imm, branch |-> TRUE]
    [] i.op = "LOAD" -> [fun |-> 0, a |-> "REG", imm |-> i.imm, wsel |-> "LOAD",
                         load |-> TRUE, rd |-> i.rd]
    [] i.op = "STORE" -> [fun |-> 0, a |-> "REG", imm |-> i.imm, store |-> TRUE]
    [] i.op = "OPIMM" -> [fun |-> i.f, mod |-> i.f = 5 /\ i.mod, a |-> "REG",
                          imm |-> i.imm, rd |-> i.rd, byp |-> TRUE]
    [] i.op = "OP" -> [fun |-> i.f, mod |-> i.mod, a |-> "REG", b |-> "REG",
                       rd |-> i.rd, byp |-> TRUE]
    [] OTHER -> SystemSignals(i)

\* Encodings decode.v refuses: ecause 2.
Refused(i) ==
  \/ i.bad
  \/ i.op = "JALR" /\ i.f # 0
  \/ i.op = "BRANCH" /\ i.f \div 2 = 1
  \/ i.op = "LOAD" /\ (i.f % 4 = 3 \/ i.f = 6)
  \/ i.op = "STORE" /\ (i.f % 4 = 3 \/ i.f > 3)
  \/ i.op = "CSR" /\ i.f % 4 = 0

Decoded(i) ==
  (IF Refused(i) THEN [exc |-> TRUE, ecause |-> 2] ELSE <<>>)
    @@ Signals(i)
    @@ [Idle EXCEPT !.cmp = i.f, !.size = i.f % 4, !.sgn = i.f < 4, !.csr = i.csr]

(***************************************************************************)
(* memory.v and busio.v: the data access of the instruction in em.         *)
(***************************************************************************)
ValidMemAddress ==
  CASE em.size = 0 -> TRUE
    [] em.size = 1 -> alu.add % 2 = 0
    [] em.size = 2 -> alu.add % 4 = 0
    [] em.size = 3 -> FALSE
MemLoad == em.valid /\ ~em.exc /\ ValidMemAddress /\ em.load
MemStore == em.valid /\ ~em.exc /\ ValidMemAddress /\ em.store
LoadStore == MemLoad \/ MemStore
ShouldBranch == em.branch /\ (em.jump \/ alu.cmp)
BranchTaken == em.valid /\ alu.add % 4 = 0 /\ ShouldBranch

Ready == wait = 0                                   \* ext_ready
FetchReady == Ready /\ ~LoadStore
\* Mutant of MemReady: a store is never acknowledged.
ReadsReady == Ready /\ MemLoad
MemReady == Ready /\ LoadStore

Cell == alu.add \div 4
\* ext_read_data: a read answers at once, a write leaves the last word.
ExtRead ==
  CASE Ready /\ MemLoad -> [instr |-> FALSE, word |-> ram[Cell]]
    [] FetchReady -> [instr |-> TRUE, word |-> rom[pc \div 4]]
    [] OTHER -> rdata
Garbage == [op |-> "DATA", f |-> 0, mod |-> FALSE, bad |-> TRUE, rd |-> 0,
            rs1 |-> 0, rs2 |-> 0, imm |-> 0, csr |-> "none"]
FetchData == IF ExtRead.instr THEN ExtRead.word ELSE Garbage

\* The byte lanes of ext_write_strobe, and the word after the write.
Strobe == {k \in 0 .. 3 : k >= alu.add % 4 /\ k < (alu.add % 4) + 2^em.size}
Lane(w, k) == (w \div 2^(ByteBits * k)) % 2^ByteBits
ExtWriteData == ISA!Trim(em.rs2 * 2^(ByteBits * (alu.add % 4)))
Written ==
  MapThenSumSet(LAMBDA k : 2^(ByteBits * k) *
                  Lane(IF k \in Strobe THEN ExtWriteData ELSE ram[Cell], k), 0 .. 3)
LoadData ==
  LET bits == ByteBits * 2^em.size
      tmp  == ((IF ExtRead.instr THEN 0 ELSE ExtRead.word)
                 \div 2^(ByteBits * (alu.add % 4))) % 2^bits
  IN IF em.sgn /\ tmp >= 2^(bits - 1) THEN ISA!Trim(tmp - 2^bits) ELSE tmp

MemBypass == IF em.valid /\ em.byp THEN em.rd ELSE 0
MemBypassData == IF em.wsel \in {"CSR", "NEXT_PC"} THEN em.csrdata ELSE alu.data

(***************************************************************************)
(* writeback.v, with the interrupt irq (0 for none) from csr.v.            *)
(***************************************************************************)
Traped(irq) == irq # 0 \/ (wb.exc /\ wb.valid)
TrapCause(irq) == CASE irq # 0 -> irq [] irq = 0 /\ wb.exc -> wb.ecause [] OTHER -> 0
Ecp == IF wb.wfi THEN ISA!NextPC(wb.pc) ELSE wb.pc
Wfi == wb.valid /\ wb.wfi
Mret == wb.valid /\ wb.mret
RdAddress(irq) == IF ~wb.valid \/ Traped(irq) THEN 0 ELSE wb.rd
RdData ==
  CASE wb.wsel = "ALU" -> wb.alu
    [] wb.wsel = "CSR" -> wb.csrdata
    [] wb.wsel = "LOAD" -> wb.load
    [] wb.wsel = "NEXT_PC" -> ISA!NextPC(wb.pc)
CsrWriteEnable(irq) == wb.valid /\ ~Traped(irq) /\ wb.csrw

(***************************************************************************)
(* hazard.v.                                                               *)
(***************************************************************************)
\* Mutant of NeedsRd: the second source register is not compared.
NeedsRs1(rd) == rd # 0 /\ UsesRs1(fd.instr) /\ fd.instr.rs1 = rd
NeedsRd(rd) ==
  /\ rd # 0
  /\ \/ UsesRs1(fd.instr) /\ fd.instr.rs1 = rd
     \/ UsesRs2(fd.instr) /\ fd.instr.rs2 = rd
DataHazard(irq) ==
  /\ fd.valid
  /\ \/ de.valid /\ NeedsRd(de.rd)
     \/ em.valid /\ MemBypass = 0 /\ NeedsRd(em.rd)
     \/ /\ UsesCsr(fd.instr)
        /\ \/ de.csrw /\ de.valid
           \/ em.csrw /\ em.valid
           \/ CsrWriteEnable(irq) /\ wb.valid

StallMemory == Wfi
StallExecute == StallMemory \/ (LoadStore /\ ~MemReady) \/ (em.valid /\ em.mret)
StallDecode == StallExecute
StallFetch(irq) == StallDecode \/ DataHazard(irq)

TrapInvalidate(irq) == Mret \/ Traped(irq)
BranchInvalidate(irq) == BranchTaken \/ TrapInvalidate(irq)
InvalidateFetch(irq) == BranchInvalidate(irq) \/ (~FetchReady /\ ~DataHazard(irq))
InvalidateDecode(irq) == BranchInvalidate(irq) \/ DataHazard(irq)
InvalidateExecute(irq) == BranchInvalidate(irq)
InvalidateMemory(irq) == TrapInvalidate(irq) \/ (LoadStore /\ ~MemReady)

(***************************************************************************)
(* The clock edge, register by register.  From<Stage> is the bundle of     *)
(* wires pipeline.v draws from a stage to the next one.                    *)
(***************************************************************************)
Held(stall, reg, invalid, next) ==
  IF stall THEN [reg EXCEPT !.valid = @ /\ ~invalid]
  ELSE [next EXCEPT !.valid = @ /\ ~invalid]

FromFetch == [valid |-> TRUE, pc |-> pc, instr |-> FetchData]

\* fetch.v
FetchEdge(irq) ==
  /\ pc' = IF Traped(irq) THEN csr.mtvec
           ELSE IF Mret THEN csr.mepc
           ELSE IF BranchTaken THEN alu.add
           ELSE IF StallFetch(irq) \/ InvalidateFetch(irq) THEN pc
           ELSE ISA!NextPC(pc)
  /\ fd' = Held(StallFetch(irq), fd, InvalidateFetch(irq), FromFetch)

\* The bypass multiplexers of decode.v over regfile.v.
Operand(r, irq) ==
  IF r = 0 THEN 0
  ELSE IF r = MemBypass THEN MemBypassData
  ELSE IF r = RdAddress(irq) THEN RdData
  ELSE regs[r]

FromDecode(irq) ==
  [valid |-> fd.valid, pc |-> fd.pc,
   rs1 |-> Operand(fd.instr.rs1, irq), rs2 |-> Operand(fd.instr.rs2, irq),
   csrdata |-> ISA!CsrValue(csr, fd.instr.csr)] @@ Decoded(fd.instr)

DecodeEdge(irq) == de' = Held(StallDecode, de, InvalidateDecode(irq), FromDecode(irq))

\* execute.v; alu.v and cmp.v are clocked whether execute stalls or not.
AluInput(sel, reg) ==
  CASE sel = "REG" -> reg
    [] sel = "IMM" -> de.imm
    [] sel = "PC" -> de.pc
    [] sel = "CSR" -> de.csrdata
AluAdd(a, b) == ISA!Trim(IF de.mod THEN a - b ELSE a + b)
AluResult(a, b) ==
  CASE de.fun = 0 -> AluAdd(a, b)
    [] de.fun = 7 -> ISA!BitByBit(LAMBDA x, y : (IF de.mod THEN 1 - x ELSE x) * y, a, b)
    [] OTHER -> ISA!Arith(de.fun, de.mod, a, b)
CmpResult(a, b) ==
  LET usign == (de.cmp \div 2) % 2 = 1
      less  == de.cmp >= 4
      quasi == IF less THEN (IF usign THEN a < b ELSE ISA!Signed(a) < ISA!Signed(b)) ELSE a = b
  IN IF de.cmp % 2 = 1 THEN ~quasi ELSE quasi
AluEdge ==
  LET a == AluInput(de.a, de.rs1) b == AluInput(de.b, de.rs2) IN
  alu' = [add |-> AluAdd(a, b), data |-> AluResult(a, b), cmp |-> CmpResult(de.rs1, de.rs2)]

CsrException == (de.csrr /\ de.csr \notin ISA!Readable) \/ (de.csrw /\ de.csr \notin ISA!Writable)
FromExecute == IF ~de.exc /\ CsrException THEN [de EXCEPT !.exc = TRUE, !.ecause = 2] ELSE de
ExecuteEdge(irq) == em' = Held(StallExecute, em, InvalidateExecute(irq), FromExecute)

\* memory.v and the memory of sim/memory.cpp.
MemoryException ==
  CASE ~em.exc /\ ShouldBranch /\ alu.add % 4 # 0 -> [exc |-> TRUE, ecause |-> 0]
    [] ~em.exc /\ (em.load \/ em.store) /\ ~ValidMemAddress ->
         [exc |-> TRUE, ecause |-> IF em.load THEN 4 ELSE 6]
    [] OTHER -> [exc |-> em.exc, ecause |-> em.ecause]
FromMemory ==
  [valid |-> em.valid, pc |-> em.pc, alu |-> alu.data, csrdata |-> em.csrdata,
   load |-> LoadData, wsel |-> em.wsel, rd |-> em.rd, csr |-> em.csr,
   csrw |-> em.csrw, mret |-> em.mret, wfi |-> em.wfi] @@ MemoryException
MemoryEdge(irq) == wb' = Held(StallMemory, wb, InvalidateMemory(irq), FromMemory)

BusEdge ==
  /\ rdata' = ExtRead
  /\ ram' = IF Ready /\ MemStore THEN [ram EXCEPT ![Cell] = Written] ELSE ram
  /\ undo' = IF Ready /\ MemStore THEN <<Cell, ram[Cell]>> ELSE <<>>
  /\ wait' = IF Ready THEN latency ELSE wait - 1
  /\ latency' = latency

\* regfile.v: a write of x0 is never read back.
RegfileEdge(rd, data) == regs' = IF rd = 0 THEN regs ELSE [regs EXCEPT ![rd] = data]

\* csr.v, with what writeback tells it.
CsrEdge(irq, enable, address, data) ==
  LET c == IF Traped(irq) THEN ISA!CsrTrap(csr, Ecp, TrapCause(irq))
           ELSE IF Mret THEN ISA!CsrMret(csr) ELSE csr
  IN csr' = IF enable THEN ISA!CsrWrite(c, address, data) ELSE c

WritebackEdge(irq) ==
  /\ RegfileEdge(RdAddress(irq), RdData)
  /\ CsrEdge(irq, CsrWriteEnable(irq), wb.csr, wb.alu)
  /\ rom' = rom

Clock(irq) ==
  /\ FetchEdge(irq)
  /\ DecodeEdge(irq)
  /\ AluEdge
  /\ ExecuteEdge(irq)
  /\ MemoryEdge(irq)
  /\ BusEdge
  /\ WritebackEdge(irq)

\* An enabled interrupt may be pending in any cycle; writeback takes it at
\* once, whatever it holds.
Cycle == Clock(0)
Interrupted == \E irq \in Irqs : csr.ie = 1 /\ Clock(irq)

Next == Cycle \/ Interrupted

\* Core::reset(): every valid bit cleared, pc at the reset vector, ie off;
\* the registers and mtvec hold whatever they did.
Empty == [Idle EXCEPT !.cmp = 0] @@ [valid |-> FALSE, pc |-> 0, rs1 |-> 0, rs2 |-> 0, csrdata |-> 0]
Init ==
  /\ rom \in Programs
  /\ ram = InitRam
  /\ regs \in InitRegs
  /\ \E v \in InitVec : csr = [ISA!CsrReset EXCEPT !.mtvec = v]
  /\ pc = ResetPC
  /\ fd = [valid |-> FALSE, pc |-> 0, instr |-> Garbage]
  /\ de = Empty /\ em = Empty
  /\ wb = [valid |-> FALSE, pc |-> 0, alu |-> 0, csrdata |-> 0, load |-> 0,
           wsel |-> "ALU", rd |-> 0, csr |-> "none", csrw |-> FALSE,
           mret |-> FALSE, wfi |-> FALSE, exc |-> FALSE, ecause |-> 0]
  /\ alu = [add |-> 0, data |-> 0, cmp |-> FALSE]
  /\ rdata = [instr |-> FALSE, word |-> 0]
  /\ wait = 0 /\ latency \in Latencies
  /\ undo = <<>>

(***************************************************************************)
(* What the pipeline promises.  The program has come as far as the oldest  *)
(* instruction that has not left writeback.                                *)
(***************************************************************************)
ArchPc ==
  IF wb.valid THEN wb.pc
  ELSE IF em.valid THEN em.pc
  ELSE IF de.valid THEN de.pc
  ELSE IF fd.valid THEN fd.pc ELSE pc
\* A store reaches memory one edge before its instruction leaves writeback.
ArchRam == IF wb.valid /\ undo # <<>> THEN [ram EXCEPT ![undo[1]] = undo[2]] ELSE ram
Arch == INSTANCE RV32 WITH pc <- ArchPc, ram <- ArchRam

\* Refinement: the pipeline, with its bypasses, stalls and flushes, does to
\* the registers, memory and CSRs what executing the program one instruction
\* at a time does (pipeline.v as a whole).
ImplementsRV32 == Arch!Spec

Spec == Init /\ [][Next]_vars
=============================================================================
