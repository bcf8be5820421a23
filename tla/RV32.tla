-------------------------------- MODULE RV32 --------------------------------
(***************************************************************************)
(* The instructions of the CPU and what one of them means.  A word is two  *)
(* lanes of Radix values, a register number is 0..NReg, memory has NWord   *)
(* words and the IROM NPc instructions: the same shape as RV32IM, with the *)
(* sizes left open.  Data addresses are counted in lanes, instruction      *)
(* addresses in instructions, and both wrap as the address decoders do.    *)
(***************************************************************************)
EXTENDS Naturals

CONSTANTS
  NReg, Radix, NWord, NPc,
  Programs,             \* contents the IROM may have
  ResetRegs, ResetMem   \* registers and memory when the program starts

ASSUME SizeAssumption ==
  /\ NReg \in Nat /\ Radix \in Nat \ {0, 1}
  /\ NWord \in Nat \ {0} /\ NPc \in 1..Radix * Radix

Lane == {0, 1}
Byte == 0..Radix - 1
Modulus == Radix * Radix
Value == 0..Modulus - 1
DataWord == [Lane -> Byte]
RegNo == 0..NReg
WordNo == 0..NWord - 1
PC == 0..NPc - 1

-----------------------------------------------------------------------------
(* Instruction classes.  The CSR number shares its bits with the immediate; *)
(* programs name the CSRs that are modelled.                                *)
MTVEC == 0
MEPC == 1
CsrNo == {MTVEC, MEPC}

RType == {"add", "mul", "divu"}
IType == {"addi"}
ILType == {"lw", "lh"}
SType == {"sw", "sh"}
UType == {"lui"}
Op == RType \cup IType \cup ILType \cup SType \cup UType
        \cup {"beq", "jal", "jalr", "csrrw", "ecall", "mret"}

Instr ==
  {i \in [op : Op, rd : RegNo, rs1 : RegNo, rs2 : RegNo, imm : Value] :
     i.op = "csrrw" => i.imm \in CsrNo}

ASSUME ProgramAssumption == Programs \subseteq [PC -> Instr]

ASSUME ResetAssumption ==
  ResetRegs \in [RegNo -> Value] /\ ResetRegs[0] = 0 /\ ResetMem \in [WordNo -> DataWord]

NOP_INSTR == [op |-> "addi", rd |-> 0, rs1 |-> 0, rs2 |-> 0, imm |-> 0]

MemRead(i) == i.op \in ILType
MemWrite(i) == i.op \in SType
instr_is_mem(i) == MemRead(i) \/ MemWrite(i)
instr_is_m_ext(i) == i.op \in {"mul", "divu"}
RegWrite(i) == i.op \notin SType \cup {"beq", "ecall", "mret"}
uses_rs1(i) == i.op \in RType \cup IType \cup ILType \cup SType \cup {"jalr", "beq", "csrrw"}
uses_rs2(i) == i.op \in RType \cup SType \cup {"beq"}

-----------------------------------------------------------------------------
ToWord(v) == [b \in Lane |-> IF b = 0 THEN v % Radix ELSE v \div Radix]
FromWord(w) == w[0] + Radix * w[1]

WordOf(a) == (a \div 2) % NWord
LaneOf(a) == a % 2
PcOf(v) == v % NPc

(* select_load_raw and load_mask: lw takes the word, lh the addressed lane *)
(* extended with its sign.                                                 *)
Load(i, a, w) ==
  IF i.op = "lw" THEN FromWord(w)
  ELSE LET b == w[LaneOf(a)]
       IN IF 2 * b >= Radix THEN b + Radix * (Radix - 1) ELSE b

store_lanes(i, a) == IF i.op = "sw" THEN Lane ELSE {LaneOf(a)}

(* A narrow store puts its low lane on every lane of the bus. *)
store_data(i, v) == IF i.op = "sw" THEN ToWord(v) ELSE [b \in Lane |-> v % Radix]

MergeLanes(w, d, ln) == [b \in Lane |-> IF b \in ln THEN d[b] ELSE w[b]]

(* Mutant: sums are not cut to the register width. *)
NoWrap(i, pc, a, b, csr) == a + b + i.imm

(* What the instruction writes to rd, a load apart (for which it is the    *)
(* address), at pc with operands a and b and CSR contents csr.             *)
ExResult(i, pc, a, b, csr) ==
  CASE i.op = "add" -> (a + b) % Modulus
    [] i.op = "mul" -> (a * b) % Modulus
    [] i.op = "divu" -> IF b = 0 THEN Modulus - 1 ELSE a \div b
    [] i.op \in IType \cup ILType \cup SType -> (a + i.imm) % Modulus
    [] i.op = "lui" -> i.imm
    [] i.op \in {"jal", "jalr"} -> (pc + 1) % Modulus
    [] i.op = "csrrw" -> csr[i.imm]
    [] OTHER -> 0

branch_target(i, pc) == PcOf(pc + i.imm)

(* Where control goes next. *)
NextPc(i, pc, a, b, csr) ==
  CASE i.op = "jal" \/ (i.op = "beq" /\ a = b) -> branch_target(i, pc)
    [] i.op = "jalr" -> PcOf(a + i.imm)
    [] i.op = "ecall" -> PcOf(csr[MTVEC])
    [] i.op = "mret" -> PcOf(csr[MEPC])
    [] OTHER -> PcOf(pc + 1)

CsrNext(i, pc, a, csr) ==
  CASE i.op = "csrrw" -> [csr EXCEPT ![i.imm] = a]
    [] i.op = "ecall" -> [csr EXCEPT ![MEPC] = pc]
    [] OTHER -> csr

WriteReg(regs, i, v) ==
  IF RegWrite(i) /\ i.rd # 0 THEN [regs EXCEPT ![i.rd] = v] ELSE regs
=============================================================================
