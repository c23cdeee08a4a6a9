---------------------------- MODULE SingleCycle ----------------------------
(***************************************************************************)
(* The RV32I core of 04-single-cycle-cpu/mini-riscv-cpu: CPU.v with the    *)
(* two synchronous memories of top.v (SRAM.v).  Despite its name it takes  *)
(* three clock edges for an instruction, five for a load: state counts     *)
(* them.  The memories answer one edge after they see an address, so the   *)
(* core must hold the address until they do; a store is seen by the data   *)
(* memory at the edge that already starts the next instruction.            *)
(*                                                                         *)
(* The core has no traps: an opcode it does not know leaves it in state 2. *)
(***************************************************************************)
EXTENDS Integers, FiniteSetsExt

CONSTANTS ByteBits, NReg, ResetPC

VARIABLES
  rom, pc, regs, ram, csr,
  state,
  iaddr, iread, iout,            (* instr_addr, instr_read, instr_out      *)
  daddr, dread, dwrite, din, dout  (* data_addr .. data_in, data_out       *)

vars == <<rom, pc, regs, ram, csr, state, iaddr, iread, iout,
          daddr, dread, dwrite, din, dout>>

ISA == INSTANCE RV32

X(r) == IF r = 0 THEN 0 ELSE regs[r]
\* A write of register[0] is undone by state 0 before anything reads it.
SetX(r, v) == IF r = 0 THEN regs ELSE [regs EXCEPT ![r] = v]
Lanes(k) == 2^(ByteBits * k)
Half == 2^(2 * ByteBits)

(***************************************************************************)
(* SRAM.v: at every edge the word at the address is latched if read is on, *)
(* and is undefined if it is off; the enabled byte lanes are written.      *)
(***************************************************************************)
Undefined == [op |-> "z"]
Merged(old) ==
  MapThenSumSet(LAMBDA k :
    Lanes(k) * (((IF k \in dwrite THEN din ELSE old) \div Lanes(k)) % 2^ByteBits), 0 .. 3)
InstructionMemory == iout' = IF iread THEN rom[iaddr \div 4] ELSE Undefined
DataMemory ==
  /\ dout' = IF dread THEN ram[daddr \div 4] ELSE 0
  /\ ram' = [ram EXCEPT ![daddr \div 4] = Merged(@)]

(***************************************************************************)
(* CPU.v, state 2: the instruction is executed; f is funct3 and mod bit 30.*)
(***************************************************************************)
Alu(i, a, b) ==
  CASE i.f = 0 -> ISA!Trim(IF i.op = "OP" /\ i.mod THEN a - b ELSE a + b)
    [] i.f = 1 -> ISA!Trim(a * 2^(b % ISA!XLen))
    [] i.f = 2 -> IF ISA!Signed(a) < ISA!Signed(b) THEN 1 ELSE 0
    [] i.f = 3 -> IF a < b THEN 1 ELSE 0
    [] i.f = 4 -> ISA!BitByBit(LAMBDA x, y : (x + y) % 2, a, b)
    \* srai shifts with >>>, sra with >>, which is logical on a signed operand too
    [] i.f = 5 -> ISA!Trim((IF i.mod /\ i.op = "OPIMM" THEN ISA!Signed(a) ELSE a)
                              \div 2^(b % ISA!XLen))
    [] i.f = 6 -> ISA!BitByBit(LAMBDA x, y : x + y - x * y, a, b)
    [] i.f = 7 -> ISA!BitByBit(LAMBDA x, y : x * y, a, b)
Taken(i) ==
  LET a == X(i.rs1) b == X(i.rs2) IN
  CASE i.f = 0 -> a = b
    [] i.f = 1 -> a # b
    [] i.f = 4 -> ISA!Signed(a) < ISA!Signed(b)
    [] i.f = 5 -> ISA!Signed(a) >= ISA!Signed(b)
    [] i.f = 6 -> a < b
    [] i.f = 7 -> a >= b

Quiet == iread' = FALSE /\ dread' = FALSE /\ dwrite' = {}

\* state 0: present the program counter to the instruction memory.
FetchEdge ==
  /\ state = 0
  /\ state' = 1
  /\ iaddr' = pc /\ iread' = TRUE
  /\ dread' = FALSE /\ dwrite' = {}
  /\ UNCHANGED <<pc, regs, daddr, din>>

\* state 1: the memory latches the instruction.
WaitEdge ==
  /\ state = 1
  /\ state' = 2
  /\ UNCHANGED <<pc, regs, iaddr, iread, daddr, dread, dwrite, din>>

Compute(i) ==
  /\ i.op \in {"OP", "OPIMM", "LUI", "AUIPC"}
  /\ regs' = SetX(i.rd, CASE i.op = "OP" -> Alu(i, X(i.rs1), X(i.rs2))
                          [] i.op = "OPIMM" -> Alu(i, X(i.rs1), i.imm)
                          [] i.op = "LUI" -> i.imm
                          [] i.op = "AUIPC" -> ISA!Trim(pc + i.imm))
  /\ pc' = ISA!NextPC(pc)
  /\ state' = 0
  /\ Quiet
  /\ UNCHANGED <<iaddr, daddr, din>>

Jump(i) ==
  /\ i.op \in {"JAL", "JALR", "BRANCH"}
  /\ pc' = CASE i.op = "JALR" -> ISA!Trim(X(i.rs1) + i.imm)
             [] i.op = "JAL" -> ISA!Trim(pc + i.imm)
             [] i.op = "BRANCH" -> IF Taken(i) THEN ISA!Trim(pc + i.imm) ELSE ISA!NextPC(pc)
  /\ regs' = IF i.op = "BRANCH" THEN regs ELSE SetX(i.rd, ISA!NextPC(pc))
  /\ state' = 0
  /\ Quiet
  /\ UNCHANGED <<iaddr, daddr, din>>

\* The data and the strobe are latched; DataMemory sees them in state 0.
Store(i) ==
  /\ i.op = "STORE"
  /\ LET a == ISA!Trim(X(i.rs1) + i.imm)
         v == X(i.rs2)
         b == v % 2^ByteBits
     IN /\ daddr' = a
        /\ din' = CASE i.f = 2 -> v
                    [] i.f = 1 -> (v % Half) * (1 + Half)
                    [] i.f = 0 -> b * (Lanes(0) + Lanes(1) + Lanes(2) + Lanes(3))
        /\ dwrite' = CASE i.f = 2 -> 0 .. 3
                       [] i.f = 1 -> IF a % 4 = 0 THEN {0, 1}
                                     ELSE IF a % 4 = 2 THEN {2, 3} ELSE dwrite
                       [] i.f = 0 -> {a % 4}
  /\ pc' = ISA!NextPC(pc)
  /\ state' = 0
  /\ iread' = TRUE /\ dread' = FALSE
  /\ UNCHANGED <<regs, iaddr>>

\* A load goes on to states 3 and 4 with its address held.
LoadIssue(i) ==
  /\ i.op = "LOAD"
  /\ daddr' = ISA!Trim(X(i.rs1) + i.imm)
  /\ state' = 3
  /\ iaddr' = pc /\ iread' = TRUE /\ dread' = TRUE /\ dwrite' = {}
  /\ UNCHANGED <<pc, regs, din>>

ExecuteEdge ==
  /\ state = 2
  /\ Compute(iout) \/ Jump(iout) \/ Store(iout) \/ LoadIssue(iout)

LoadWaitEdge ==
  /\ state = 3
  /\ state' = 4
  /\ daddr' = ISA!Trim(X(iout.rs1) + iout.imm)
  /\ iread' = TRUE /\ dread' = TRUE /\ dwrite' = {}
  /\ UNCHANGED <<pc, regs, iaddr, din>>

\* The lowest byte or half of the word, whatever the address's low bits.
Extended(f) ==
  LET n == 2^(ByteBits * 2^(f % 4))
      v == dout % n
  IN IF f < 4 /\ v >= n \div 2 THEN ISA!Trim(v - n) ELSE v
LoadEdge ==
  /\ state = 4
  /\ regs' = SetX(iout.rd, Extended(iout.f))
  /\ pc' = ISA!NextPC(pc)
  /\ state' = 0
  /\ Quiet
  /\ UNCHANGED <<iaddr, daddr, din>>

Next ==
  /\ FetchEdge \/ WaitEdge \/ ExecuteEdge \/ LoadWaitEdge \/ LoadEdge
  /\ InstructionMemory
  /\ DataMemory
  /\ UNCHANGED <<rom, csr>>

\* After rst: the program counter and the state are zero.
ResetState ==
  /\ state = 0
  /\ iaddr = 0 /\ iread = FALSE /\ iout = Undefined
  /\ daddr = 0 /\ dread = FALSE /\ dwrite = {} /\ din = 0 /\ dout = 0

(***************************************************************************)
(* The memory as the program sees it: the latched store is already in it.  *)
(***************************************************************************)
VisibleRam == [ram EXCEPT ![daddr \div 4] = Merged(@)]
=============================================================================
