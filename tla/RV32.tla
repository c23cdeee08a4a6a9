-------------------------------- MODULE RV32 --------------------------------
(***************************************************************************)
(* The RV32I instruction set with machine-mode traps, one instruction at a *)
(* time: what the two processors of the book (the five-stage core in       *)
(* 05-pipeline-cpu/kleine-riscv and the multi-cycle core in                *)
(* 04-single-cycle-cpu) promise the program they run.                      *)
(*                                                                         *)
(* The state is what a program can see: the program counter, the           *)
(* registers, the data memory and the CSRs.  An instruction is a record    *)
(* whose fields stand for the fields of the encoded word.  A byte has      *)
(* ByteBits bits and a word four bytes, so that one word of the small      *)
(* instance still has the four byte lanes of the bus.                      *)
(***************************************************************************)
EXTENDS Integers, FiniteSetsExt

CONSTANTS
  ByteBits,   (* bits in a byte: 8 in the hardware, 1 in the runs          *)
  NReg,       (* registers x1 .. xNReg, beside x0                          *)
  ResetPC     (* RESET_VECTOR                                              *)

VARIABLES
  rom,        (* the program: instruction word at each word address        *)
  pc, regs, ram, csr

vars == <<rom, pc, regs, ram, csr>>

XLen == 4 * ByteBits
Wd == 0 .. 2^XLen - 1
Bt == 0 .. 2^ByteBits - 1
WordAddr == 0 .. (2^XLen \div 4) - 1
Reg == 0 .. NReg

\* A number cut to a word, and a word read as two's complement.
Trim(n) == n % 2^XLen
Signed(w) == IF w >= 2^(XLen - 1) THEN w - 2^XLen ELSE w
Bit(w, k) == (w \div 2^k) % 2
\* The word whose bit k is F(Bit(a,k), Bit(b,k)).
BitByBit(F(_, _), a, b) ==
  MapThenSumSet(LAMBDA k : 2^k * F(Bit(a, k), Bit(b, k)), 0 .. XLen - 1)
NextPC(p) == Trim(p + 4)
Aligned(a, n) == a % n = 0

(***************************************************************************)
(* The arithmetic of OP and OP-IMM by funct3; mod is instruction bit 30.   *)
(***************************************************************************)
Shamt(b) == b % XLen
Arith(f, mod, a, b) ==
  CASE f = 0 -> Trim(IF mod THEN a - b ELSE a + b)
    [] f = 1 -> Trim(a * 2^Shamt(b))
    [] f = 2 -> IF Signed(a) < Signed(b) THEN 1 ELSE 0
    [] f = 3 -> IF a < b THEN 1 ELSE 0
    [] f = 4 -> BitByBit(LAMBDA x, y : (x + y) % 2, a, b)
    [] f = 5 -> Trim((IF mod THEN Signed(a) ELSE a) \div 2^Shamt(b))
    [] f = 6 -> BitByBit(LAMBDA x, y : x + y - x * y, a, b)
    [] f = 7 -> BitByBit(LAMBDA x, y : x * y, a, b)

\* The condition of a branch by funct3 (2 and 3 are reserved).
Holds(f, a, b) ==
  CASE f = 0 -> a = b
    [] f = 1 -> a # b
    [] f = 4 -> Signed(a) < Signed(b)
    [] f = 5 -> Signed(a) >= Signed(b)
    [] f = 6 -> a < b
    [] f = 7 -> a >= b
    [] OTHER -> FALSE

(***************************************************************************)
(* Loads and stores: 2^(funct3 % 4) bytes from the byte address a of the   *)
(* little-endian data memory; funct3 4 and 5 do not extend the sign.       *)
(***************************************************************************)
Bytes(f) == 2^(f % 4)
LoadValue(m, f, a) ==
  LET n == Bytes(f) * ByteBits
      v == (m[a \div 4] \div 2^(ByteBits * (a % 4))) % 2^n
  IN IF f < 4 /\ v >= 2^(n - 1) THEN Trim(v - 2^n) ELSE v
StoreInto(m, f, a, v) ==
  LET lo  == 2^(ByteBits * (a % 4))
      n   == 2^(ByteBits * Bytes(f))
      old == (m[a \div 4] \div lo) % n
  IN [m EXCEPT ![a \div 4] = @ + lo * ((v % n) - old)]

(***************************************************************************)
(* CSRs: mstatus holds ie and pie, mcause the last cause.  "ro" stands for *)
(* the read-only zeros (mhartid and the like); any other name faults.      *)
(***************************************************************************)
Writable == {"mstatus", "mtvec", "mscratch", "mepc", "mcause"}
Readable == Writable \cup {"ro"}
CsrValue(c, n) ==
  CASE n = "mstatus" -> c.ie + 2 * c.pie
    [] n \in Writable \ {"mstatus"} -> c[n]
    [] OTHER -> 0
CsrWrite(c, n, v) ==
  CASE n = "mstatus" -> [c EXCEPT !.ie = Bit(v, 0), !.pie = Bit(v, 1)]
    [] n = "mtvec" -> [c EXCEPT !.mtvec = v - (v % 4)]
    [] n = "mcause" -> [c EXCEPT !.mcause = v % 16]
    [] n \in {"mscratch", "mepc"} -> [c EXCEPT ![n] = v]
    [] OTHER -> c
CsrTrap(c, at, cause) ==
  [c EXCEPT !.pie = c.ie, !.ie = 0, !.mepc = at, !.mcause = cause]
CsrMret(c) == [c EXCEPT !.ie = c.pie, !.pie = 1]
CsrReset == [mtvec |-> 0, mscratch |-> 0, mepc |-> 0, mcause |-> 0,
             ie |-> 0, pie |-> 0]

(***************************************************************************)
(* One instruction.                                                        *)
(***************************************************************************)
X(r) == IF r = 0 THEN 0 ELSE regs[r]
SetX(r, v) == IF r = 0 THEN regs ELSE [regs EXCEPT ![r] = v]
\* funct3 of a CSR instruction: 1 write, 2 set, 3 clear, from the register
\* rs1 or (4 more) from the five bits of rs1 themselves.
CsrSource(i) == IF i.f < 4 THEN X(i.rs1) ELSE i.rs1
CsrReads(i) == i.f % 4 # 1 \/ i.rd # 0
CsrWrites(i) == i.f % 4 = 1 \/ i.rs1 # 0
CsrNew(i) ==
  LET old == CsrValue(csr, i.csr) s == CsrSource(i) IN
  CASE i.f % 4 = 1 -> s
    [] i.f % 4 = 2 -> Arith(6, FALSE, old, s)
    [] i.f % 4 = 3 -> BitByBit(LAMBDA x, y : x * (1 - y), old, s)

Target(i) ==
  IF i.op = "JALR" THEN Trim(X(i.rs1) + i.imm) ELSE Trim(pc + i.imm)
Jumps(i) ==
  \/ i.op \in {"JAL", "JALR"}
  \/ i.op = "BRANCH" /\ Holds(i.f, X(i.rs1), X(i.rs2))
DataAddr(i) == Trim(X(i.rs1) + i.imm)

Illegal(i) ==
  \/ i.bad
  \/ i.op = "JALR" /\ i.f # 0
  \/ i.op = "BRANCH" /\ i.f \in {2, 3}
  \/ i.op = "LOAD" /\ i.f \in {3, 6, 7}
  \/ i.op = "STORE" /\ i.f > 2
  \/ i.op = "CSR" /\ (\/ i.f % 4 = 0
                      \/ CsrReads(i) /\ i.csr \notin Readable
                      \/ CsrWrites(i) /\ i.csr \notin Writable)

\* The causes an instruction may trap with, by priority.
Causes(i) ==
  CASE Illegal(i) -> {2}
    [] i.op = "ECALL" -> {11}
    [] i.op = "EBREAK" -> {3}
    [] Jumps(i) /\ ~Aligned(Target(i), 4) -> {0}
    [] i.op = "LOAD" /\ ~Aligned(DataAddr(i), Bytes(i.f)) -> {4}
    [] i.op = "STORE" /\ ~Aligned(DataAddr(i), Bytes(i.f)) -> {6}
    [] OTHER -> {}

Result(i) ==
  CASE i.op = "LUI" -> i.imm
    [] i.op = "AUIPC" -> Trim(pc + i.imm)
    [] i.op \in {"JAL", "JALR"} -> NextPC(pc)
    [] i.op = "LOAD" -> LoadValue(ram, i.f, DataAddr(i))
    [] i.op = "OPIMM" -> Arith(i.f, i.mod /\ i.f = 5, X(i.rs1), i.imm)
    [] i.op = "OP" -> Arith(i.f, i.mod, X(i.rs1), X(i.rs2))
    [] i.op = "CSR" -> CsrValue(csr, i.csr)
Writes(i) == i.op \in {"LUI", "AUIPC", "JAL", "JALR", "LOAD", "OPIMM", "OP", "CSR"}

Trap(i) ==
  \E cause \in Causes(i) :
    /\ csr' = CsrTrap(csr, pc, cause)
    /\ pc' = csr.mtvec
    /\ UNCHANGED <<rom, regs, ram>>

Retire(i) ==
  /\ Causes(i) = {}
  /\ i.op # "WFI"
  /\ pc' = IF i.op = "MRET" THEN csr.mepc
           ELSE IF Jumps(i) THEN Target(i) ELSE NextPC(pc)
  /\ regs' = IF Writes(i) THEN SetX(i.rd, Result(i)) ELSE regs
  /\ ram' = IF i.op = "STORE" THEN StoreInto(ram, i.f, DataAddr(i), X(i.rs2))
            ELSE ram
  /\ csr' = CASE i.op = "MRET" -> CsrMret(csr)
              [] i.op = "CSR" /\ CsrWrites(i) -> CsrWrite(csr, i.csr, CsrNew(i))
              [] OTHER -> csr
  /\ rom' = rom

Step == LET i == rom[pc \div 4] IN Trap(i) \/ Retire(i)

\* An enabled interrupt is taken between two instructions, and is what ends
\* a WFI: the program then continues behind the WFI.
Interrupt ==
  /\ csr.ie = 1
  /\ \E cause \in {3, 7, 11} :
       csr' = CsrTrap(csr, IF rom[pc \div 4].op = "WFI" THEN NextPC(pc) ELSE pc, cause)
  /\ pc' = csr.mtvec
  /\ UNCHANGED <<rom, regs, ram>>

Next == Step \/ Interrupt

Init ==
  /\ pc = ResetPC
  /\ csr.ie = 0

Spec == Init /\ [][Next]_vars
=============================================================================
