------------------------------- MODULE MCCpu -------------------------------
(***************************************************************************)
(* The two processors on the same small programs: in every behaviour one   *)
(* of them is switched on and the other stays as it is.                    *)
(***************************************************************************)
EXTENDS Kleine

VARIABLES core, state, iaddr, iread, iout, daddr, dread, dwrite, din, dout

single == <<state, iaddr, iread, iout, daddr, dread, dwrite, din, dout>>
pipeline == <<fd, de, em, wb, alu, rdata, wait, latency, undo>>

Single == INSTANCE SingleCycle

(***************************************************************************)
(* Programs of four words, after which the program counter wraps: three    *)
(* words of Code before a store, or two of the larger Code2 between two    *)
(* fixed ones.                                                             *)
(***************************************************************************)
Ins(op, f, rd, rs1, rs2, imm) ==
  [op |-> op, f |-> f, mod |-> FALSE, bad |-> FALSE, rd |-> rd, rs1 |-> rs1,
   rs2 |-> rs2, imm |-> imm, csr |-> "none"]
Csr(f, rd, rs1, name) == [Ins("CSR", f, rd, rs1, 0, 0) EXCEPT !.csr = name]
Bad(i) == [i EXCEPT !.bad = TRUE]
Mod(i) == [i EXCEPT !.mod = TRUE]

Addi == Ins("OPIMM", 0, 1, 1, 0, 5)      \* addi x1, x1, 5
Code ==
  { Addi,
    Ins("OP", 0, 2, 1, 2, 0),            \* add  x2, x1, x2
    Ins("LOAD", 2, 1, 0, 0, 4),          \* lw   x1, 4(x0)
    Ins("STORE", 2, 0, 0, 1, 4),         \* sw   x1, 4(x0)
    Ins("BRANCH", 0, 0, 1, 2, 8),        \* beq  x1, x2, +8
    Ins("JAL", 0, 2, 0, 0, 8) }          \* jal  x2, +8
TrapCode ==
  { Csr(2, 2, 0, "mcause"),              \* csrrs x2, mcause, x0
    Ins("ECALL", 0, 0, 0, 0, 0),
    Ins("MRET", 0, 0, 0, 0, 0) }
Code2 ==
  {Ins("OP", f, 2, 1, 2, 0) : f \in 0 .. 7} \cup {Ins("OPIMM", f, 1, 1, 0, 3) : f \in 1 .. 7}
  \cup {Mod(Ins("OP", 0, 1, 1, 2, 0)), Mod(Ins("OPIMM", 5, 1, 1, 0, 1))}
  \cup {Ins("BRANCH", f, 0, 2, 1, 12) : f \in {1, 4, 5, 6, 7}}
  \cup {Ins("LOAD", f, 2, 0, 0, 8) : f \in {0, 1, 4, 5}}
  \cup {Ins("STORE", 0, 0, 0, 1, 5), Ins("STORE", 1, 0, 0, 2, 6)}
  \cup {Ins("LUI", 0, 2, 0, 0, 9), Ins("AUIPC", 0, 1, 0, 0, 3), Ins("JALR", 0, 1, 0, 0, 12)}
TrapCode2 ==
  {Csr(f, 1, 2, "mscratch") : f \in 1 .. 3} \cup {Csr(f, 2, 1, "mstatus") : f \in 5 .. 7}
  \cup {Csr(1, 0, 2, "mtvec"), Csr(2, 1, 0, "mepc"), Csr(1, 1, 0, "mcause"),
        Csr(2, 1, 0, "ro"), Csr(1, 1, 1, "ro"), Csr(2, 1, 0, "none"),
        Ins("EBREAK", 0, 0, 0, 0, 0), Ins("WFI", 0, 0, 0, 0, 0), Ins("MRET", 0, 0, 0, 0, 0),
        Ins("FENCE", 0, 0, 0, 0, 0), Bad(Ins("OP", 0, 1, 1, 2, 0)),
        Ins("JALR", 0, 2, 1, 0, 1), Ins("LOAD", 2, 2, 1, 0, 3), Ins("STORE", 1, 0, 2, 1, 1)}

\* An instruction that may trap or wait.
MayTrap(i) ==
  \/ i.op \in {"ECALL", "EBREAK", "WFI", "CSR"} \/ i.bad
  \/ i.op \in {"LOAD", "STORE", "JALR"} /\ i.rs1 # 0
\* No store right behind such an instruction (TrapStopsStores says why).
Precisely(p) == \A a \in 0 .. 3 : MayTrap(p[a]) => p[(a + 1) % 4].op # "STORE"

Words(first, S, last) ==
  [a \in 0 .. 3 |-> CASE a = 0 -> first [] a = 3 -> last [] OTHER -> S[a]]
Sw == Ins("STORE", 2, 0, 0, 1, 4)
MretWord == Ins("MRET", 0, 0, 0, 0, 0)
Enable == Csr(5, 0, 1, "mstatus")        \* csrrwi x0, mstatus, 1
Around(S) == {Words(Addi, m, Sw) : m \in [1 .. 2 -> S]}
\* Programs that let interrupts in; the handler is their last two words.
InterruptPrograms ==
  {Words(Enable, m, MretWord) : m \in [1 .. 2 -> {Addi, Ins("LOAD", 2, 1, 0, 0, 4),
     Ins("BRANCH", 0, 0, 1, 2, 8), Ins("WFI", 0, 0, 0, 0, 0)}]}
Short(S) == {[q EXCEPT ![3] = Sw] : q \in [0 .. 3 -> S]}
SinglePrograms == Short(Code) \cup Around(Code2)
SlowPrograms == {p \in Around(Code2) \cup Around(TrapCode2) : Precisely(p)}
MCPrograms ==
  {p \in Short(Code \cup TrapCode) : Precisely(p)} \cup SlowPrograms \cup InterruptPrograms
MCRegs == {[r \in 1 .. 2 |-> IF r = 1 THEN 3 ELSE 8]}
MCRam == [a \in 0 .. 3 |-> (7 * a) % 16]
MCVec == {8}

\* What the passing run leaves out: a store behind a trap, an arithmetic
\* shift, loads of a byte and a half that are not the lowest.
StorePrograms == {p \in Short(Code \cup TrapCode) : ~Precisely(p)}
SraPrograms == Around({Addi, Mod(Ins("OP", 5, 1, 2, 1, 0))})    \* sra x1, x2, x1
LoadPrograms == Around({Addi} \cup {Ins("LOAD", f, 2, 0, 0, 10) : f \in {0, 1}})
AllPrograms == MCPrograms \cup StorePrograms \cup SraPrograms \cup LoadPrograms

(***************************************************************************)
(* The passing run lets interrupts in only where they are precise: while   *)
(* writeback holds an instruction and no store is on its way; and the      *)
(* memory takes no, two or three cycles more.  AllSpec has no such limits. *)
(***************************************************************************)
Precise == wb.valid /\ undo = <<>> /\ ~MemStore

MCInit ==
  /\ Init
  /\ Single!ResetState
  /\ core \in {"kleine", "single"}
  /\ core = "single" => rom \in SinglePrograms /\ latency = 0
  /\ latency # 0 => rom \in SlowPrograms

MCNext ==
  \/ core = "kleine" /\ Cycle /\ UNCHANGED <<core, single>>
  \/ core = "kleine" /\ Precise /\ Interrupted /\ UNCHANGED <<core, single>>
  \/ core = "single" /\ Single!Next /\ UNCHANGED <<core, pipeline>>

MCSpec == MCInit /\ [][MCNext]_<<vars, core, single>> /\ WF_<<vars, core, single>>(MCNext)

AllInit ==
  /\ Init
  /\ Single!ResetState
  /\ core \in {"kleine", "single"}
  /\ core = "single" =>
       rom \in SinglePrograms \cup SraPrograms \cup LoadPrograms /\ latency = 0
AllNext ==
  \/ core = "kleine" /\ Next /\ UNCHANGED <<core, single>>
  \/ core = "single" /\ Single!Next /\ UNCHANGED <<core, pipeline>>
AllSpec == AllInit /\ [][AllNext]_<<vars, core, single>> /\ WF_<<vars, core, single>>(AllNext)

(***************************************************************************)
(* Refinement: whatever a core does between its clock edges, registers,    *)
(* memory, CSRs and program counter change as if the program were executed *)
(* one instruction at a time (pipeline.v, CPU.v).  The code does not keep  *)
(* this everywhere.  Run cpu checks it where it does, that is but for an   *)
(* interrupt over a bubble or a store (writeback.v:61), a store right      *)
(* behind a trap (memory.v:101), a latency of one cycle (hazard.v:91),     *)
(* and, in CPU.v, SRA (line 61) and loads of upper bytes (line 220); run   *)
(* cpu_unfiltered has all of these and finds it violated.                  *)
(***************************************************************************)
Promised == INSTANCE RV32 WITH
  pc <- IF core = "kleine" THEN ArchPc ELSE pc,
  ram <- IF core = "kleine" THEN ArchRam ELSE Single!VisibleRam
BothImplementRV32 == Promised!Spec

(***************************************************************************)
(* Liveness: the stalls of hazard.v never hold each other up for ever (an  *)
(* instruction keeps arriving in writeback), and CPU.v's state 0 always    *)
(* comes again.                                                            *)
(***************************************************************************)
KeepsRetiring == []<>(IF core = "kleine" THEN wb.valid ELSE state = 0)
=============================================================================
