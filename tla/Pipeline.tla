------------------------------ MODULE Pipeline ------------------------------
(***************************************************************************)
(* The dual-issue in-order pipeline of rtl/core/mycpu.sv behind the fetch  *)
(* stage: IF/ID, ID/EX, EX/MEM, MEM1/MEM2 and MEM/WB registers, the hazard *)
(* unit, the forwarding network that ID selects one cycle ahead, the M     *)
(* unit that freezes EX, and the registered redirect that kills the wrong  *)
(* path.  The data-memory path is the module LoadPath, instantiated here   *)
(* on the same variables.  One step is one clock edge.                     *)
(*                                                                         *)
(* The fetch stage is represented by its contract: the packet at pc is the *)
(* IROM's; a taken prediction is made only at a branch or jal and with its *)
(* static target; a pair is issued only if IF_dual_candidate holds.        *)
(***************************************************************************)
EXTENDS RV32, FiniteSetsExt

CONSTANTS
  L0Lines, SbEntries,   \* lines of the L0 cache, entries of the store bypass
  DivBusy               \* cycles an ordinary division keeps EX busy

ASSUME GeometryAssumption ==
  L0Lines \in Nat \ {0} /\ SbEntries \in Nat \ {0} /\ DivBusy \in Nat \ {0}

VARIABLES
  rom,       \* IROM, constant
  pc,        \* IF_pc
  id,        \* IF/ID: valid (ID_valid), pc, the two instructions, prediction
  ex,        \* ID/EX: EX_pipe_valid, EX_valid, slots, M progress, operand hold
  pm, pm2,   \* EX/MEM and MEM1/MEM2: instruction and alu_result of each slot
  wb,        \* MEM/WB: instruction and write-back value of each slot
  regs,      \* reg_file
  csr,       \* csr_file
  redirect,  \* redirect_valid_q, redirect_target_q
  bram, bram_q, resp_valid, l0, fill_q, bypass, mem, mem2   \* of LoadPath

cpu == <<pc, id, ex, pm, pm2, wb, regs, csr, redirect>>
memory == <<bram, bram_q, resp_valid, l0, fill_q, bypass, mem, mem2>>
vars == <<rom, cpu, memory>>

Slot == {0, 1}
Pair(x, y) == [s \in Slot |-> IF s = 0 THEN x ELSE y]

-----------------------------------------------------------------------------
(* EX: operands.  Only a producer that was in EX one cycle before, hence   *)
(* is in MEM1 now, is still forwarded here; the rest was resolved in ID.   *)
(* What a load that missed has to forward is its address.                  *)
MEM_forward_data(s) ==
  IF MemRead(pm[s].ins) /\ mem.hit THEN Load(pm[s].ins, pm[s].res, mem.data)
  ELSE pm[s].res

select_data(sel, original) ==
  CASE ex.held -> original
    [] ~ex.held /\ sel = "EX_S1" -> MEM_forward_data(1)
    [] ~ex.held /\ sel = "EX" -> MEM_forward_data(0)
    [] OTHER -> original

EX_forward_A(s) == select_data(ex.slot[s].fa, ex.slot[s].a)
EX_forward_B(s) == select_data(ex.slot[s].fb, ex.slot[s].b)

EX_pc(s) == PcOf(ex.pc + s)
EX_ins(s) == IF ex.pipe_valid THEN ex.slot[s].ins ELSE NOP_INSTR

EX_result(s) ==
  ExResult(EX_ins(s), EX_pc(s), EX_forward_A(s), EX_forward_B(s), csr)

-----------------------------------------------------------------------------
(* The access that EX makes, as LoadPath sees it.  The early address is    *)
(* right unless the base is forwarded in EX or comes late from BRAM.       *)
EX_mem_slot == {s \in Slot : instr_is_mem(EX_ins(s))}

EX_access ==
  LET acc == [kind |-> "none", addr |-> CHOOSE w \in WordNo : TRUE, early |-> FALSE,
              lanes |-> Lane, data |-> [b \in Lane |-> CHOOSE v \in Byte : TRUE]]
      s == CHOOSE s \in EX_mem_slot : TRUE
      at == [acc EXCEPT !.addr = WordOf(EX_result(s))]
  IN CASE EX_mem_slot = {} -> acc
       [] EX_mem_slot # {} /\ MemRead(EX_ins(s)) ->
            [at EXCEPT !.kind = "load", !.early = ex.slot[s].early]
       [] OTHER -> [at EXCEPT !.kind = "store",
                      !.lanes = store_lanes(EX_ins(s), EX_result(s)),
                      !.data = store_data(EX_ins(s), EX_forward_B(s))]

LP == INSTANCE LoadPath
  WITH Bram <- WordNo, Mmio <- {}, DevVal <- [a \in {} |-> ToWord(0)],
       L0Line <- 0..L0Lines - 1, L0Tag <- WordNo,
       SbEntry <- 0..SbEntries - 1, SbTag <- WordNo,
       l0Index <- [a \in WordNo |-> a % L0Lines],
       l0Tag <- [a \in WordNo |-> a \div L0Lines],
       sbIndex <- [a \in WordNo |-> a % SbEntries],
       sbTag <- [a \in WordNo |-> a \div SbEntries],
       StoreLanes <- {Lane, {0}, {1}}, StoreData <- DataWord,
       ex <- EX_access

-----------------------------------------------------------------------------
(* ID: the youngest older producer of rs, by where it is now. *)
Producer == <<"EX_S1", "EX", "MEM_S1", "MEM", "MEM2_S1", "MEM2">>
ForwardSel == {"RF", "EX_S1", "EX", "MEM_S1", "MEM", "MEM2_S1", "MEM2"}

producer_ins(k) ==
  <<EX_ins(1), EX_ins(0), pm[1].ins, pm[0].ins, pm2[1].ins, pm2[0].ins>>[k]

select_id_forward(rs) ==
  LET writers == {k \in 1..6 : RegWrite(producer_ins(k)) /\ producer_ins(k).rd = rs}
  IN IF rs = 0 \/ writers = {} THEN "RF" ELSE Producer[Min(writers)]

MEM_resolved_forward_data(s) ==
  IF MemRead(pm[s].ins) /\ LP!MEM_lookup_ready
  THEN Load(pm[s].ins, pm[s].res, LP!MEM_load_ready_word)
  ELSE MEM_forward_data(s)

(* An lw that missed: its word is on the BRAM port during MEM2. *)
MEM2_late_word(s) == pm2[s].ins.op = "lw" /\ ~mem2.hit

MEM2_forward_data(s) ==
  IF MemRead(pm2[s].ins) /\ mem2.hit THEN Load(pm2[s].ins, pm2[s].res, mem2.fwd)
  ELSE pm2[s].res

MEM2_operand(s) ==
  IF MEM2_late_word(s) THEN FromWord(LP!perip_rdata) ELSE MEM2_forward_data(s)

reg_file_write(r, p) == WriteReg(WriteReg(r, p[0].ins, p[0].data), p[1].ins, p[1].data)

(* A register read sees the values being written back. *)
reg_file_read(rs) == reg_file_write(regs, wb)[rs]

resolve_id_operand(sel, rs) ==
  CASE sel = "MEM_S1" -> MEM_resolved_forward_data(1)
    [] sel = "MEM" -> MEM_resolved_forward_data(0)
    [] sel = "MEM2_S1" -> MEM2_operand(1)
    [] sel = "MEM2" -> MEM2_operand(0)
    [] OTHER -> reg_file_read(rs)

probe_base_known(sel) ==
  CASE sel \in {"EX_S1", "EX"} -> FALSE
    [] sel = "MEM2_S1" -> ~MEM2_late_word(1)
    [] sel = "MEM2" -> ~MEM2_late_word(0)
    [] OTHER -> TRUE

ToEX(i) ==
  LET fa == select_id_forward(i.rs1)
      fb == select_id_forward(i.rs2)
  IN [ins |-> i, a |-> resolve_id_operand(fa, i.rs1), b |-> resolve_id_operand(fb, i.rs2),
      fa |-> fa, fb |-> fb, early |-> probe_base_known(fa)]

-----------------------------------------------------------------------------
(* Hazards. *)
ID_uses(rd) ==
  \E s \in Slot : \/ uses_rs1(id.ins[s]) /\ id.ins[s].rs1 = rd
                  \/ uses_rs2(id.ins[s]) /\ id.ins[s].rs2 = rd

AwaitedLoad(i, ready) == MemRead(i) /\ ~ready /\ i.rd # 0 /\ ID_uses(i.rd)

load_use_ex == \E s \in Slot : AwaitedLoad(EX_ins(s), LP!EX_cache_ready)

MEM_load_ready == mem.hit \/ LP!MEM_lookup_ready

load_use_mem == \E s \in Slot : AwaitedLoad(pm[s].ins, MEM_load_ready)

(* Mutant: a missed half-word load is treated like a missed word. *)
NoLateStall == FALSE

Stall_LateSubword ==
  \E s \in Slot : pm2[s].ins.op # "lw" /\ AwaitedLoad(pm2[s].ins, mem2.hit)

Stall_ID == load_use_ex \/ load_use_mem \/ Stall_LateSubword

(* Cycles for which an M instruction holds EX: MUL waits for the product   *)
(* register, division by zero takes the special-result path.               *)
m_cycles(s) ==
  CASE EX_ins(s).op = "mul" -> 1
    [] EX_ins(s).op = "divu" /\ EX_forward_B(s) = 0 -> 2
    [] OTHER -> DivBusy

EX_busy(s) ==
  /\ ~redirect.valid
  /\ instr_is_m_ext(EX_ins(s))
  /\ ~(s = 0 /\ ex.narrow)
  /\ ex.cycle < m_cycles(s)

EX_any_busy == EX_busy(0) \/ EX_busy(1)

Stall_Front == Stall_ID \/ EX_any_busy

-----------------------------------------------------------------------------
(* Control flow resolved in EX.  Only slot 0 carries control or CSR        *)
(* instructions.  The target of a predicted branch or jal is not compared. *)
BranchMispredict_raw ==
  LET i == EX_ins(0)
  IN CASE i.op = "beq" -> ex.pred # (EX_forward_A(0) = EX_forward_B(0))
       [] i.op = "jal" -> ~ex.pred
       [] OTHER -> i.op \in {"jalr", "ecall", "mret"}

IF_npc_redirect_raw ==
  NextPc(EX_ins(0), ex.pc, EX_forward_A(0), EX_forward_B(0), csr)

-----------------------------------------------------------------------------
(* IF: what may be fetched at pc. *)
instr_can_dual(i) == i.op \in RType \cup IType \cup ILType \cup SType \cup UType

(* Mutant: the second source of slot 1 is not compared. *)
Rs2NotCompared(i, j) == RegWrite(i) /\ i.rd # 0 /\ i.rd = j.rs1

IF_slot_raw_hazard(i, j) == RegWrite(i) /\ i.rd # 0 /\ i.rd \in {j.rs1, j.rs2}

IF_dual_candidate(i, j) ==
  /\ instr_can_dual(i) /\ instr_can_dual(j)
  /\ ~(instr_is_mem(i) /\ instr_is_mem(j))
  /\ ~(instr_is_m_ext(i) /\ instr_is_m_ext(j))
  /\ ~IF_slot_raw_hazard(i, j)

MayPair == IF IF_dual_candidate(rom[pc], rom[PcOf(pc + 1)]) THEN BOOLEAN ELSE {FALSE}
MayPredictTaken == IF rom[pc].op \in {"beq", "jal"} THEN BOOLEAN ELSE {FALSE}

IF_next_pc(pair, taken) ==
  CASE taken -> branch_target(rom[pc], pc)
    [] ~taken /\ pair -> PcOf(pc + 2)
    [] OTHER -> PcOf(pc + 1)

-----------------------------------------------------------------------------
(* Pipeline registers. *)
NoPacket == [valid |-> FALSE, pc |-> 0, ins |-> Pair(NOP_INSTR, NOP_INSTR),
             pred |-> FALSE]

Bubble ==
  LET slot == [ins |-> NOP_INSTR, a |-> 0, b |-> 0, fa |-> "RF", fb |-> "RF",
               early |-> FALSE]
  IN [pipe_valid |-> FALSE, valid |-> FALSE, pc |-> 0, slot |-> Pair(slot, slot),
      pred |-> FALSE, narrow |-> FALSE, cycle |-> 0, held |-> FALSE]

NoResult == [s \in Slot |-> [ins |-> NOP_INSTR, res |-> 0]]

Fetch(pair, taken) ==
  /\ id' = [valid |-> TRUE, pc |-> pc,
            ins |-> Pair(rom[pc], IF pair THEN rom[PcOf(pc + 1)] ELSE NOP_INSTR),
            pred |-> taken]
  /\ pc' = IF_next_pc(pair, taken)

Decode(narrow) ==
  ex' = [pipe_valid |-> TRUE, valid |-> id.valid, pc |-> id.pc,
         slot |-> [s \in Slot |-> ToEX(id.ins[s])],
         pred |-> id.pred, narrow |-> narrow, cycle |-> 0, held |-> FALSE]

(* The packet in EX goes to MEM1 and its control effects are registered. *)
Execute ==
  /\ pm' = [s \in Slot |-> [ins |-> EX_ins(s), res |-> EX_result(s)]]
  /\ csr' = CsrNext(EX_ins(0), ex.pc, EX_forward_A(0), csr)
  /\ redirect' = IF BranchMispredict_raw
                 THEN [valid |-> TRUE, target |-> IF_npc_redirect_raw]
                 ELSE redirect
  /\ LP!ToMem

MEM2_wdata(s) ==
  IF MemRead(pm2[s].ins) THEN Load(pm2[s].ins, pm2[s].res, LP!perip_rdata)
  ELSE pm2[s].res

(* MEM1 and everything behind it move on every edge. *)
Drain ==
  /\ pm2' = pm
  /\ wb' = [s \in Slot |-> [ins |-> pm2[s].ins, data |-> MEM2_wdata(s)]]
  /\ regs' = reg_file_write(regs, wb)
  /\ LP!Backend
  /\ UNCHANGED rom

-----------------------------------------------------------------------------
Flow ==
  /\ ~redirect.valid /\ ~Stall_Front
  /\ Drain /\ Execute
  /\ \E n \in (IF id.ins[0].op = "mul" THEN BOOLEAN ELSE {FALSE}) : Decode(n)
  /\ \E p \in MayPair, t \in MayPredictTaken : Fetch(p, t)

(* A load result is awaited: a bubble enters EX. *)
HazardStall ==
  /\ ~redirect.valid /\ ~EX_any_busy /\ Stall_ID
  /\ Drain /\ Execute
  /\ ex' = Bubble
  /\ UNCHANGED <<pc, id>>

(* Mutant: a held M instruction starts its operation again in every cycle. *)
OperationRestarts ==
  /\ EX_any_busy
  /\ Drain
  /\ ex' = [ex EXCEPT !.held = TRUE,
              !.slot = [s \in Slot |-> [@[s] EXCEPT !.a = EX_forward_A(s),
                                                    !.b = EX_forward_B(s)]]]
  /\ UNCHANGED <<pc, id, pm, mem, csr, redirect>>

(* An M instruction is running: everything up to EX/MEM keeps its contents *)
(* and EX latches its forwarded operands.                                  *)
ExecuteBusy ==
  /\ EX_any_busy
  /\ Drain
  /\ ex' = [ex EXCEPT !.cycle = @ + 1, !.held = TRUE,
              !.slot = [s \in Slot |-> [@[s] EXCEPT !.a = EX_forward_A(s),
                                                    !.b = EX_forward_B(s)]]]
  /\ UNCHANGED <<pc, id, pm, mem, csr, redirect>>

(* Mutant: a stall keeps the flush from ID/EX and IF/ID. *)
StallBeatsFlush ==
  /\ redirect.valid
  /\ Drain
  /\ pm' = NoResult /\ LP!FlushMem
  /\ ex' = (IF Stall_Front THEN ex ELSE Bubble)
  /\ id' = (IF Stall_Front THEN id ELSE NoPacket)
  /\ pc' = IF Stall_Front THEN pc ELSE redirect.target
  /\ redirect' = IF Stall_Front THEN redirect ELSE [valid |-> FALSE, target |-> 0]
  /\ UNCHANGED csr

(* A registered redirect kills ID and EX.  It is served, and withdrawn,    *)
(* only when the front end is not stalled.                                 *)
Kill ==
  /\ redirect.valid
  /\ Drain
  /\ pm' = NoResult /\ LP!FlushMem
  /\ ex' = Bubble /\ id' = NoPacket
  /\ pc' = IF Stall_Front THEN pc ELSE redirect.target
  /\ redirect' = IF Stall_Front THEN redirect ELSE [valid |-> FALSE, target |-> 0]
  /\ UNCHANGED csr

Init ==
  /\ rom \in Programs
  /\ pc = 0 /\ id = NoPacket /\ ex = Bubble
  /\ pm = NoResult /\ pm2 = NoResult
  /\ wb = [s \in Slot |-> [ins |-> NOP_INSTR, data |-> 0]]
  /\ regs = ResetRegs /\ csr = [c \in CsrNo |-> 0]
  /\ redirect = [valid |-> FALSE, target |-> 0]
  /\ bram = ResetMem /\ LP!InitBuffers

Next == Flow \/ HazardStall \/ ExecuteBusy \/ Kill

Spec == Init /\ [][Next]_vars

(* The clock never stops. *)
ClockedSpec == Spec /\ WF_vars(Next)

-----------------------------------------------------------------------------
(* The architectural state: an instruction takes effect when it leaves EX. *)
MEM_wdata(s) ==
  IF MemRead(pm[s].ins) THEN Load(pm[s].ins, pm[s].res, bram[WordOf(pm[s].res)])
  ELSE pm[s].res

arch_regs ==
  LET inMEM == [s \in Slot |-> [ins |-> pm[s].ins, data |-> MEM_wdata(s)]]
      inMEM2 == [s \in Slot |-> [ins |-> pm2[s].ins, data |-> MEM2_wdata(s)]]
  IN reg_file_write(reg_file_write(reg_file_write(regs, wb), inMEM2), inMEM)

arch_mem ==
  IF mem.op.kind = "store"
  THEN [bram EXCEPT ![mem.op.addr] = MergeLanes(@, mem.op.data, mem.op.lanes)]
  ELSE bram

arch_pc ==
  CASE redirect.valid -> redirect.target
    [] ~redirect.valid /\ ex.valid -> ex.pc
    [] ~redirect.valid /\ ~ex.valid /\ id.valid -> id.pc
    [] OTHER -> pc

Arch == INSTANCE ISA
  WITH arch <- [pc |-> arch_pc, regs |-> arch_regs, mem |-> arch_mem, csr |-> csr]

(* The registers of the pipeline hold what their stages can produce. *)
TypeOK ==
  /\ rom \in [PC -> Instr] /\ pc \in PC /\ regs \in [RegNo -> Value]
  /\ csr \in [CsrNo -> Value]
  /\ redirect \in [valid : BOOLEAN, target : PC]
  /\ id \in [valid : BOOLEAN, pc : PC, ins : [Slot -> Instr], pred : BOOLEAN]
  /\ ex.slot \in [Slot -> [ins : Instr, a : Value, b : Value, fa : ForwardSel,
                           fb : ForwardSel, early : BOOLEAN]]
  /\ ex.cycle \in 0..DivBusy + 2 /\ (ex.valid => ex.pipe_valid)
  /\ pm \in [Slot -> [ins : Instr, res : Value]]
  /\ pm2 \in [Slot -> [ins : Instr, res : Value]]
  /\ wb \in [Slot -> [ins : Instr, data : Value]]

(* A packet that will not be killed computes with the registers that the   *)
(* instructions before it leave behind, whichever of the eight places its  *)
(* operands come from (mycpu.sv:322, forwarding_unit.sv:22): stalls are    *)
(* long enough, the youngest producer wins, and a held operand stays right.*)
OperandsArchitectural ==
  ex.valid /\ ~redirect.valid =>
    \A s \in Slot :
      /\ uses_rs1(EX_ins(s)) => EX_forward_A(s) = arch_regs[EX_ins(s).rs1]
      /\ uses_rs2(EX_ins(s)) => EX_forward_B(s) = arch_regs[EX_ins(s).rs2]

(* Software sees instructions execute in program order, one or two at a    *)
(* time, and nothing of a killed path (mycpu.sv:630, "双槽实现维持顺序可见"). *)
RefinesISA == Arch!Spec

(* The pipeline drives its memory path as LoadPath assumes: what LoadPath  *)
(* proves of the buffers holds in the pipeline.                            *)
DrivesLoadPath == LP!Spec

(* No load wait, M instruction or pending redirect blocks the front end    *)
(* for ever (mycpu.sv:678).                                                *)
FrontEndMoves == []<>(~Stall_Front /\ ~redirect.valid)

(* What EX computes with is right in kind and in value                     *)
(* (forwarding_unit.sv, mycpu.sv:322): the registers hold what their       *)
(* stages can produce, and operands are those of program order.            *)
PipelineInv == TypeOK /\ OperandsArchitectural
=============================================================================
