----------------------------- MODULE MCPipeline -----------------------------
(***************************************************************************)
(* All programs of three or four instructions over a few templates, closed *)
(* by an instruction that jumps to itself.  Values are 0..15, memory is    *)
(* two words that share their L0 line and their bypass entry.              *)
(***************************************************************************)
EXTENDS Pipeline

R(op, rd, rs1, rs2) == [op |-> op, rd |-> rd, rs1 |-> rs1, rs2 |-> rs2, imm |-> 0]
I(op, rd, rs1, imm) == [op |-> op, rd |-> rd, rs1 |-> rs1, rs2 |-> 0, imm |-> imm]
S(op, rs2, rs1, imm) == [op |-> op, rd |-> 0, rs1 |-> rs1, rs2 |-> rs2, imm |-> imm]

Halt == I("jal", 0, 0, 0)

\* Loads, stores and their consumers, with a division between them.
DataTemplates ==
  {I("lw", 1, 2, 0), I("lh", 2, 2, 1), S("sw", 1, 2, 0), S("sh", 2, 2, 1),
   R("add", 2, 1, 1), R("divu", 1, 1, 2)}

\* Branches, calls and traps around a load.
ControlTemplates ==
  {S("beq", 2, 1, 2), I("jal", 1, 0, 2), I("jalr", 2, 1, 1), I("csrrw", 1, 1, MTVEC),
   I("ecall", 0, 0, 0), I("mret", 0, 0, 0), I("lh", 2, 1, 1)}

\* A few of both.
MixedTemplates ==
  {I("lw", 1, 2, 0), I("lh", 2, 1, 1), S("sw", 1, 2, 0), S("sh", 2, 2, 1),
   R("divu", 1, 1, 2), R("mul", 2, 1, 2), S("beq", 2, 1, 2), I("jalr", 2, 1, 1),
   I("addi", 1, 2, 1), I("lui", 2, 0, 6)}

Bodies ==
  [0..3 -> DataTemplates] \cup [0..3 -> ControlTemplates]
    \cup {b \in [0..3 -> MixedTemplates \cup {Halt}] : \A a \in 0..3 : b[a] = Halt <=> a = 3}

MCPrograms == {[a \in 0..4 |-> IF a = 4 THEN Halt ELSE b[a]] : b \in Bodies}

MCResetRegs == [r \in RegNo |-> IF r = 0 THEN 0 ELSE 5 - r]
MCResetMem == [w \in WordNo |-> ToWord(IF w = 0 THEN 9 ELSE 7)]
=============================================================================
