--------------------------- MODULE PipelineProofs ---------------------------
(***************************************************************************)
(* The pipeline executes its program: for every program, number of         *)
(* registers, word width, memory size and cache geometry, what EX computes *)
(* with is what program order gives it, the load path is driven as         *)
(* LoadPath assumes, and the instructions take effect one after the other  *)
(* as in ISA.                                                              *)
(***************************************************************************)
EXTENDS Pipeline, TLAPS

LPP == INSTANCE LoadPathProofs
  WITH Bram <- WordNo, Mmio <- {}, DevVal <- [a \in {} |-> ToWord(0)],
       L0Line <- 0..L0Lines - 1, L0Tag <- WordNo,
       SbEntry <- 0..SbEntries - 1, SbTag <- WordNo,
       l0Index <- [a \in WordNo |-> a % L0Lines],
       l0Tag <- [a \in WordNo |-> a \div L0Lines],
       sbIndex <- [a \in WordNo |-> a % SbEntries],
       sbTag <- [a \in WordNo |-> a \div SbEntries],
       StoreLanes <- {Lane, {0}, {1}}, StoreData <- DataWord,
       ex <- EX_access

-----------------------------------------------------------------------------
(* Widths.  What RV32 computes stays in its registers. *)
LEMMA Sizes ==
  /\ NReg \in Nat /\ Radix \in Nat /\ Radix >= 2 /\ NWord \in Nat /\ NWord >= 1
  /\ Modulus \in Nat /\ Modulus >= Radix /\ Modulus >= 4
  /\ NPc \in Nat /\ NPc >= 1 /\ NPc <= Modulus
<1>1. NReg \in Nat /\ Radix \in Nat /\ Radix >= 2 /\ NWord \in Nat /\ NWord >= 1
  BY SizeAssumption
<1>2. \A r \in Nat : r >= 2 => r * r \in Nat /\ r * r >= r /\ r * r >= 4
  OBVIOUS
<1> QED
  BY <1>1, <1>2, SizeAssumption DEF Modulus

LEMMA ModRange ==
  ASSUME NEW a \in Nat, NEW n \in Nat, n >= 1
  PROVE  a % n \in 0..n - 1
OBVIOUS

LEMMA WordOfType ==
  ASSUME NEW a \in Nat
  PROVE  WordOf(a) \in WordNo
<1>1. a \div 2 \in Nat
  OBVIOUS
<1> QED
  BY <1>1, Sizes, ModRange DEF WordOf, WordNo

LEMMA PcOfType ==
  /\ \A a \in Nat : PcOf(a) \in PC
  /\ \A a \in PC : PcOf(a) = a /\ a \in Nat /\ a \in Value
<1>1. \A a \in Nat : PcOf(a) \in PC
  BY Sizes, ModRange DEF PcOf, PC
<1>2. \A a \in PC : PcOf(a) = a /\ a \in Nat /\ a \in Value
  BY Sizes DEF PcOf, PC, Value
<1> QED
  BY <1>1, <1>2

LEMMA FromWordType ==
  ASSUME NEW x \in Byte, NEW y \in Byte
  PROVE  x + Radix * y \in Value
<1>1. y \in Nat /\ x \in Nat /\ y <= Radix - 1 /\ x <= Radix - 1
  BY Sizes DEF Byte
<1>2. Radix * y \in Nat /\ Radix * y <= Radix * (Radix - 1)
  BY <1>1, Sizes
<1>3. Radix * (Radix - 1) = Modulus - Radix
  BY Sizes DEF Modulus
<1> QED
  BY <1>1, <1>2, <1>3, Sizes DEF Value

LEMMA LoadType ==
  ASSUME NEW i, NEW a \in Nat, NEW w \in DataWord
  PROVE  Load(i, a, w) \in Value
<1>1. LaneOf(a) \in Lane
  BY ModRange DEF LaneOf, Lane
<1>2. w[0] \in Byte /\ w[1] \in Byte /\ w[LaneOf(a)] \in Byte
  BY <1>1 DEF DataWord, Lane
<1>3. FromWord(w) \in Value
  BY <1>2, FromWordType DEF FromWord
<1>4. Radix - 1 \in Byte /\ 0 \in Byte
  BY Sizes DEF Byte
<1>5. w[LaneOf(a)] + Radix * (Radix - 1) \in Value /\ w[LaneOf(a)] \in Value
  BY <1>2, <1>4, FromWordType, Sizes DEF Byte, Value
<1> QED
  BY <1>3, <1>5 DEF Load

LEMMA StoreType ==
  ASSUME NEW i, NEW a \in Nat, NEW v \in Value
  PROVE  /\ store_data(i, v) \in DataWord
         /\ store_lanes(i, a) \in {Lane, {0}, {1}}
<1>1. LaneOf(a) \in {0, 1}
  BY ModRange DEF LaneOf
<1>2. v % Radix \in Byte
  BY Sizes, ModRange DEF Value, Byte
<1>3. v \div Radix \in Byte
  <2>1. v \in Nat /\ v < Radix * Radix
    BY Sizes DEF Value, Modulus
  <2>2. v \div Radix \in Nat /\ v >= Radix * (v \div Radix)
    BY <2>1, Sizes
  <2>3. ASSUME v \div Radix >= Radix
        PROVE  FALSE
    <3>1. Radix * (v \div Radix) >= Radix * Radix
      BY <2>2, <2>3, Sizes
    <3> QED
      BY <2>1, <2>2, <3>1, Sizes
  <2> QED
    BY <2>2, <2>3, Sizes DEF Byte
<1> QED
  BY <1>1, <1>2, <1>3 DEF store_data, store_lanes, ToWord, DataWord

LEMMA InstrType ==
  ASSUME NEW i \in Instr
  PROVE  /\ i.op \in Op /\ i.rd \in RegNo /\ i.rs1 \in RegNo /\ i.rs2 \in RegNo
         /\ i.imm \in Value /\ (i.op = "csrrw" => i.imm \in CsrNo)
BY DEF Instr

LEMMA NopType ==
  /\ NOP_INSTR \in Instr /\ ~instr_is_mem(NOP_INSTR) /\ ~instr_is_m_ext(NOP_INSTR)
  /\ NOP_INSTR.op = "addi" /\ NOP_INSTR.rd = 0 /\ NOP_INSTR.rs1 = 0
BY Sizes DEF NOP_INSTR, Instr, Op, RType, IType, ILType, SType, UType, RegNo, Value,
   instr_is_mem, instr_is_m_ext, MemRead, MemWrite

LEMMA ExResultType ==
  ASSUME NEW i \in Instr, NEW p \in PC, NEW a \in Value, NEW b \in Value,
         NEW c \in [CsrNo -> Value]
  PROVE  ExResult(i, p, a, b, c) \in Value
<1>1. \A n \in Nat : n % Modulus \in Value
  BY Sizes, ModRange DEF Value
<1>2. a \in Nat /\ b \in Nat /\ i.imm \in Nat /\ p \in Nat
  BY InstrType, PcOfType, Sizes DEF Value
<1>3. a + b \in Nat /\ a + i.imm \in Nat /\ p + 1 \in Nat /\ a * b \in Nat
  BY <1>2
<1>4. b # 0 => a \div b \in Value
  <2>1. ASSUME b # 0
        PROVE  a \div b \in Nat /\ a \div b <= a
    BY <1>2, <2>1
  <2> QED
    BY <2>1, Sizes DEF Value
<1>5. Modulus - 1 \in Value /\ 0 \in Value
  BY Sizes DEF Value
<1>6. i.op = "csrrw" => c[i.imm] \in Value
  BY InstrType
<1> QED
  BY <1>1, <1>3, <1>4, <1>5, <1>6, InstrType DEF ExResult

LEMMA ControlType ==
  ASSUME NEW i \in Instr, NEW p \in PC, NEW a \in Value, NEW b \in Value,
         NEW c \in [CsrNo -> Value]
  PROVE  NextPc(i, p, a, b, c) \in PC /\ CsrNext(i, p, a, c) \in [CsrNo -> Value]
<1>1. /\ a \in Nat /\ i.imm \in Nat /\ p \in Nat /\ p \in Value
      /\ c[MTVEC] \in Nat /\ c[MEPC] \in Nat
  BY InstrType, PcOfType, Sizes DEF Value, CsrNo, MTVEC, MEPC
<1>2. NextPc(i, p, a, b, c) \in PC
  BY <1>1, PcOfType DEF NextPc, branch_target
<1>3. CsrNext(i, p, a, c) \in [CsrNo -> Value]
  BY <1>1, InstrType DEF CsrNext
<1> QED
  BY <1>2, <1>3

(* What an instruction does depends on the operands it has. *)
LEMMA OnlyOperands ==
  ASSUME NEW i \in Instr, NEW p, NEW a, NEW b, NEW x, NEW y, NEW c,
         uses_rs1(i) => a = x, uses_rs2(i) => b = y
  PROVE  /\ ExResult(i, p, a, b, c) = ExResult(i, p, x, y, c)
         /\ NextPc(i, p, a, b, c) = NextPc(i, p, x, y, c)
         /\ CsrNext(i, p, a, c) = CsrNext(i, p, x, c)
         /\ MemWrite(i) => store_data(i, b) = store_data(i, y)
<1>1. ExResult(i, p, a, b, c) = ExResult(i, p, x, y, c)
  BY DEF ExResult, uses_rs1, uses_rs2, RType, IType, ILType, SType
<1>2. NextPc(i, p, a, b, c) = NextPc(i, p, x, y, c)
  BY DEF NextPc, uses_rs1, uses_rs2
<1>3. CsrNext(i, p, a, c) = CsrNext(i, p, x, c)
  BY DEF CsrNext, uses_rs1
<1>4. MemWrite(i) => store_data(i, b) = store_data(i, y)
  BY DEF MemWrite, uses_rs2
<1> QED
  BY <1>1, <1>2, <1>3, <1>4

-----------------------------------------------------------------------------
(* The load path of the pipeline is one for which LoadPath's proofs hold.  *)
LEMMA DivMod ==
  ASSUME NEW n \in Nat \ {0}, NEW a \in Nat, NEW b \in Nat,
         a % n = b % n, a \div n = b \div n
  PROVE  a = b
OBVIOUS

LEMMA Region == LPP!RegionAssumption
BY DEF LPP!RegionAssumption

LEMMA Fields == LPP!FieldAssumption
BY SizeAssumption, GeometryAssumption DEF LPP!FieldAssumption, LPP!Addr, WordNo

LEMMA WordFields == LPP!WordFieldAssumption
<1>1. WordNo \subseteq Nat
  BY Sizes DEF WordNo
<1>2. ASSUME NEW n \in Nat \ {0}
      PROVE  \A a, b \in WordNo :
               /\ [x \in WordNo |-> x % n][a] = [x \in WordNo |-> x % n][b]
               /\ [x \in WordNo |-> x \div n][a] = [x \in WordNo |-> x \div n][b]
               => a = b
  BY <1>1, DivMod
<1> QED
  BY <1>2, GeometryAssumption DEF LPP!WordFieldAssumption

LEMMA Devices == LPP!DeviceAssumption
BY DEF LPP!DeviceAssumption

LEMMA Stores == LPP!StoreAssumption
BY DEF LPP!StoreAssumption, LPP!DataWord, DataWord, Lane

LEMMA NonEmpty == LPP!NonEmptyAssumption
BY SizeAssumption DEF LPP!NonEmptyAssumption, LPP!Addr, WordNo, Byte

LEMMA SameData ==
  /\ LPP!DataWord = DataWord /\ LPP!Addr = WordNo
  /\ LP!DataWord = DataWord /\ LP!Addr = WordNo
  /\ LP!AnyAddr = LPP!AnyAddr /\ LP!AnyWord = LPP!AnyWord /\ LP!NoAccess = LPP!NoAccess
  /\ LP!NoFill = LPP!NoFill
  /\ \A T : LP!NoEntry(T) = LPP!NoEntry(T)
<1>1. WordNo \cup {} = WordNo
  OBVIOUS
<1>2. LPP!DataWord = DataWord /\ LP!DataWord = DataWord
  BY DEF LPP!DataWord, LP!DataWord, DataWord
<1>3. LPP!Addr = WordNo /\ LP!Addr = WordNo
  BY <1>1 DEF LPP!Addr, LP!Addr
<1>4. LP!AnyAddr = LPP!AnyAddr /\ LP!AnyWord = LPP!AnyWord
  BY <1>3 DEF LP!AnyAddr, LPP!AnyAddr, LP!AnyWord, LPP!AnyWord
<1>5. LP!NoAccess = LPP!NoAccess /\ LP!NoFill = LPP!NoFill
  BY <1>4 DEF LP!NoAccess, LPP!NoAccess, LP!NoFill, LPP!NoFill
<1>6. \A T : LP!NoEntry(T) = LPP!NoEntry(T)
  BY <1>4 DEF LP!NoEntry, LPP!NoEntry
<1> QED
  BY <1>2, <1>3, <1>4, <1>5, <1>6

(* The two instances of LoadPath are one. *)
LEMMA SameLookup ==
  /\ LP!MEM_store_valid <=> LPP!MEM_store_valid
  /\ LP!MEM_store_word <=> LPP!MEM_store_word
  /\ \A a : LP!MEM_store_hits(a) <=> LPP!MEM_store_hits(a)
  /\ \A a : LP!L0Hit(a) <=> LPP!L0Hit(a)
  /\ \A a : LP!BypassHit(a) <=> LPP!BypassHit(a)
  /\ \A a : LP!CacheHit(a) <=> LPP!CacheHit(a)
  /\ \A a : LP!CacheData(a) = LPP!CacheData(a)
  /\ LP!MEM_lookup_ready <=> LPP!MEM_lookup_ready
  /\ LP!MEM_load_ready_word = LPP!MEM_load_ready_word
  /\ LP!perip_rdata = LPP!perip_rdata
<1>1. /\ LP!MEM_store_valid <=> LPP!MEM_store_valid
      /\ LP!MEM_store_word <=> LPP!MEM_store_word
  BY DEF LP!MEM_store_valid, LPP!MEM_store_valid, LP!MEM_store_word, LPP!MEM_store_word,
     LP!MEM_bus_wen, LPP!MEM_bus_wen
<1>2. \A a : LP!MEM_store_hits(a) <=> LPP!MEM_store_hits(a)
  BY <1>1 DEF LP!MEM_store_hits, LPP!MEM_store_hits, LP!SameWord, LPP!SameWord
<1>3. \A a : LP!L0Hit(a) <=> LPP!L0Hit(a)
  BY DEF LP!L0Hit, LPP!L0Hit
<1>4. \A a : LP!BypassHit(a) <=> LPP!BypassHit(a)
  BY DEF LP!BypassHit, LPP!BypassHit
<1>5. \A a : LP!CacheHit(a) <=> LPP!CacheHit(a)
  BY <1>3 DEF LP!CacheHit, LPP!CacheHit, LP!FillShadows, LPP!FillShadows, LP!SameWord,
     LPP!SameWord
<1>6. \A a : LP!CacheData(a) = LPP!CacheData(a)
  BY DEF LP!CacheData, LPP!CacheData, LP!FillShadows, LPP!FillShadows
<1>7. LP!MEM_lookup_ready <=> LPP!MEM_lookup_ready
  BY <1>4, <1>5 DEF LP!MEM_lookup_ready, LPP!MEM_lookup_ready, LP!IsBramLoad, LPP!IsBramLoad,
     LP!IsLoad, LPP!IsLoad
<1>8. LP!MEM_load_ready_word = LPP!MEM_load_ready_word
  BY <1>4, <1>6 DEF LP!MEM_load_ready_word, LPP!MEM_load_ready_word
<1>9. LP!perip_rdata = LPP!perip_rdata
  BY SameData DEF LP!perip_rdata, LPP!perip_rdata
<1> QED
  BY <1>1, <1>2, <1>3, <1>4, <1>5, <1>6, <1>7, <1>8, <1>9

LEMMA SameProbe ==
  /\ LP!EX_cache_ready <=> LPP!EX_cache_ready
  /\ \A a : LP!EX_probe_data(a) = LPP!EX_probe_data(a)
<1>1. \A a : LP!EX_probe_data(a) = LPP!EX_probe_data(a)
  BY SameLookup DEF LP!EX_probe_data, LPP!EX_probe_data
<1>2. \A a : LP!EX_probe_hit(a) <=> LPP!EX_probe_hit(a)
  BY SameLookup DEF LP!EX_probe_hit, LPP!EX_probe_hit
<1>3. \A a : LP!EX_store_bypass_hit(a) <=> LPP!EX_store_bypass_hit(a)
  BY SameLookup DEF LP!EX_store_bypass_hit, LPP!EX_store_bypass_hit
<1>4. \A a : LP!FillEvicts(a) <=> LPP!FillEvicts(a)
  BY DEF LP!FillEvicts, LPP!FillEvicts, LP!MEM_cache_fill_en, LPP!MEM_cache_fill_en,
     LP!MEM_cache_fill_addr, LPP!MEM_cache_fill_addr, LP!IsBramLoad, LPP!IsBramLoad,
     LP!IsLoad, LPP!IsLoad, LP!SameWord, LPP!SameWord
<1>5. LP!EX_cache_ready <=> LPP!EX_cache_ready
  BY <1>2, <1>3, <1>4 DEF LP!EX_cache_ready, LPP!EX_cache_ready, LP!IsBramLoad, LPP!IsBramLoad,
     LP!IsLoad, LPP!IsLoad
<1> QED
  BY <1>1, <1>5

LEMMA SameSteps ==
  /\ LP!Backend <=> LPP!Backend
  /\ LP!ToMem <=> LPP!ToMem
  /\ LP!FlushMem <=> LPP!FlushMem
  /\ LP!InitBuffers <=> LPP!InitBuffers
<1>1. LP!WriteBram <=> LPP!WriteBram
  BY SameLookup DEF LP!WriteBram, LPP!WriteBram, LP!Merge, LPP!Merge
<1>2. LP!ReadBram <=> LPP!ReadBram
  BY SameData DEF LP!ReadBram, LPP!ReadBram, LP!bram_ren, LPP!bram_ren, LP!MEM_bus_wen,
     LPP!MEM_bus_wen
<1>3. LP!UpdateBypass <=> LPP!UpdateBypass
  BY SameLookup, SameData DEF LP!UpdateBypass, LPP!UpdateBypass
<1>4. LP!UpdateL0 <=> LPP!UpdateL0
  <2>1. \A i : LP!FillLine(i) = LPP!FillLine(i)
    BY DEF LP!FillLine, LPP!FillLine
  <2>2. \A i : LP!StoreInvalidates(i) <=> LPP!StoreInvalidates(i)
    BY SameLookup DEF LP!StoreInvalidates, LPP!StoreInvalidates, LP!SameWord, LPP!SameWord
  <2> QED
    BY <2>1, <2>2, SameData DEF LP!UpdateL0, LPP!UpdateL0
<1>5. LP!UpdateFillQ <=> LPP!UpdateFillQ
  BY SameLookup, SameData DEF LP!UpdateFillQ, LPP!UpdateFillQ, LP!MEM_cache_fill_en,
     LPP!MEM_cache_fill_en, LP!MEM_cache_fill_addr, LPP!MEM_cache_fill_addr, LP!IsBramLoad,
     LPP!IsBramLoad, LP!IsLoad, LPP!IsLoad
<1>6. LP!ToMem2 <=> LPP!ToMem2
  <2>1. LP!MEM_resolved_forward_data = LPP!MEM_resolved_forward_data
    BY SameLookup DEF LP!MEM_resolved_forward_data, LPP!MEM_resolved_forward_data
  <2> QED
    BY <2>1, SameLookup, SameData DEF LP!ToMem2, LPP!ToMem2, LP!IsLoad, LPP!IsLoad, LP!InMem2,
       LPP!InMem2
<1>7. LP!ToMem <=> LPP!ToMem
  BY SameProbe, SameData DEF LP!ToMem, LPP!ToMem, LP!InMem, LPP!InMem
<1>8. LP!FlushMem <=> LPP!FlushMem
  BY SameData DEF LP!FlushMem, LPP!FlushMem, LP!InMem, LPP!InMem
<1>9. LP!InitBuffers <=> LPP!InitBuffers
  BY SameData DEF LP!InitBuffers, LPP!InitBuffers, LP!InMem, LPP!InMem, LP!InMem2, LPP!InMem2
<1> QED
  BY <1>1, <1>2, <1>3, <1>4, <1>5, <1>6, <1>7, <1>8, <1>9 DEF LP!Backend, LPP!Backend

-----------------------------------------------------------------------------
(* The invariant.  EX holds what ID handed over. *)
ExSlot ==
  [ins : Instr, a : Value, b : Value, fa : ForwardSel, fb : ForwardSel, early : BOOLEAN]

ExReg ==
  [pipe_valid : BOOLEAN, valid : BOOLEAN, pc : PC, slot : [Slot -> ExSlot],
   pred : BOOLEAN, narrow : BOOLEAN, cycle : 0..DivBusy + 2, held : BOOLEAN]

Typed == TypeOK /\ ex \in ExReg

(* The loads in MEM1 and MEM2 are the accesses that LoadPath holds there. *)
Reads(i, op, a) == MemRead(i) => op.kind = "load" /\ op.addr = WordOf(a)

Linked ==
  \A s \in Slot : /\ Reads(pm[s].ins, mem.op, pm[s].res)
                  /\ Reads(pm2[s].ins, mem2.op, pm2[s].res)

(* A packet is the words at its pc, paired only as IF_dual_candidate       *)
(* allows, and the fetch went on where the prediction said.                *)
Follows(i, p, taken, pair) ==
  CASE taken -> branch_target(i, p)
    [] ~taken /\ pair -> PcOf(p + 2)
    [] OTHER -> PcOf(p + 1)

Issued(p, i, j, taken, next) ==
  \E pair \in BOOLEAN :
    /\ i = rom[p] /\ j = IF pair THEN rom[PcOf(p + 1)] ELSE NOP_INSTR
    /\ pair => IF_dual_candidate(i, j)
    /\ taken => i.op \in {"beq", "jal"}
    /\ next = Follows(i, p, taken, pair)

IdPacket ==
  /\ id.valid => Issued(id.pc, id.ins[0], id.ins[1], id.pred, pc)
  /\ ~id.valid => \A s \in Slot : id.ins[s] = NOP_INSTR

AfterEx == IF id.valid THEN id.pc ELSE pc

ExPacket ==
  /\ ex.valid => Issued(ex.pc, EX_ins(0), EX_ins(1), ex.pred, AfterEx)
  /\ ~ex.valid => \A s \in Slot : EX_ins(s) = NOP_INSTR

Inv ==
  Typed /\ LPP!IInv /\ Linked /\ IdPacket /\ ExPacket /\ OperandsArchitectural

-----------------------------------------------------------------------------
(* EX computes values, and makes at most the access of one slot. *)
MemWord == mem.data \in DataWord

ExTyped ==
  \A s \in Slot :
    /\ MEM_forward_data(s) \in Value /\ EX_ins(s) \in Instr /\ EX_pc(s) \in PC
    /\ EX_forward_A(s) \in Value /\ EX_forward_B(s) \in Value /\ EX_result(s) \in Value

ExAccess ==
  /\ (\A s \in Slot : ~instr_is_mem(EX_ins(s))) => EX_access = LP!NoAccess
  /\ \A s \in Slot :
       instr_is_mem(EX_ins(s)) /\ ~instr_is_mem(EX_ins(1 - s)) =>
         EX_access =
           IF MemRead(EX_ins(s)) THEN LP!LoadOp(WordOf(EX_result(s)), ex.slot[s].early)
           ELSE LP!StoreOp(WordOf(EX_result(s)), store_lanes(EX_ins(s), EX_result(s)),
                           store_data(EX_ins(s), EX_forward_B(s)))

OneAccess == ~(instr_is_mem(EX_ins(0)) /\ instr_is_mem(EX_ins(1)))

LEMMA ExTypes == Typed /\ MemWord => ExTyped
<1> SUFFICES ASSUME Typed, MemWord, NEW s \in Slot
             PROVE  /\ MEM_forward_data(s) \in Value /\ EX_ins(s) \in Instr
                    /\ EX_pc(s) \in PC /\ EX_forward_A(s) \in Value
                    /\ EX_forward_B(s) \in Value /\ EX_result(s) \in Value
  BY DEF ExTyped
<1>1. /\ ex \in ExReg /\ ex.slot[s] \in ExSlot /\ csr \in [CsrNo -> Value]
      /\ \A u \in Slot : pm[u].ins \in Instr /\ pm[u].res \in Value
  BY DEF Typed, TypeOK, ExReg
<1>2. \A u \in Slot : MEM_forward_data(u) \in Value
  <2> SUFFICES ASSUME NEW u \in Slot
               PROVE  MEM_forward_data(u) \in Value
    OBVIOUS
  <2>1. pm[u].res \in Nat
    BY <1>1, Sizes DEF Value
  <2> QED
    BY <1>1, <2>1, LoadType DEF MEM_forward_data, MemWord
<1>3. EX_ins(s) \in Instr
  BY <1>1, NopType DEF EX_ins, ExSlot
<1>4. EX_pc(s) \in PC
  <2>1. ex.pc \in Nat /\ s \in Nat
    BY <1>1, PcOfType DEF ExReg, Slot
  <2> QED
    BY <2>1, PcOfType DEF EX_pc
<1>5. EX_forward_A(s) \in Value /\ EX_forward_B(s) \in Value
  BY <1>1, <1>2 DEF EX_forward_A, EX_forward_B, select_data, ExSlot, Slot
<1>6. EX_result(s) \in Value
  BY <1>1, <1>3, <1>4, <1>5, ExResultType DEF EX_result
<1> QED
  BY <1>2, <1>3, <1>4, <1>5, <1>6

LEMMA AccessIs == Typed /\ MemWord => ExAccess
<1> SUFFICES ASSUME Typed, MemWord
             PROVE  ExAccess
  OBVIOUS
<1>n. LP!NoAccess = [kind |-> "none", addr |-> CHOOSE w \in WordNo : TRUE, early |-> FALSE,
                     lanes |-> Lane, data |-> [b \in Lane |-> CHOOSE v \in Byte : TRUE]]
  BY SameData DEF LP!NoAccess, LP!AnyAddr, LP!AnyWord
<1>1. ASSUME \A s \in Slot : ~instr_is_mem(EX_ins(s))
      PROVE  EX_access = LP!NoAccess
  <2>1. EX_mem_slot = {}
    BY <1>1 DEF EX_mem_slot
  <2> QED
    BY <2>1, <1>n DEF EX_access
<1>2. ASSUME NEW s \in Slot, instr_is_mem(EX_ins(s)), ~instr_is_mem(EX_ins(1 - s))
      PROVE  EX_access =
               IF MemRead(EX_ins(s)) THEN LP!LoadOp(WordOf(EX_result(s)), ex.slot[s].early)
               ELSE LP!StoreOp(WordOf(EX_result(s)), store_lanes(EX_ins(s), EX_result(s)),
                               store_data(EX_ins(s), EX_forward_B(s)))
  <2>1. EX_mem_slot = {s}
    BY <1>2 DEF EX_mem_slot, Slot
  <2>2. (CHOOSE u \in EX_mem_slot : TRUE) = s
    BY <2>1
  <2>3. CASE MemRead(EX_ins(s))
    <3>1. EX_access = [kind |-> "load", addr |-> WordOf(EX_result(s)),
                       early |-> ex.slot[s].early, lanes |-> Lane,
                       data |-> [b \in Lane |-> CHOOSE v \in Byte : TRUE]]
      BY <2>1, <2>2, <2>3 DEF EX_access
    <3> QED
      BY <3>1, <2>3, <1>n DEF LP!LoadOp
  <2>4. CASE ~MemRead(EX_ins(s))
    <3>1. EX_access = [kind |-> "store", addr |-> WordOf(EX_result(s)), early |-> FALSE,
                       lanes |-> store_lanes(EX_ins(s), EX_result(s)),
                       data |-> store_data(EX_ins(s), EX_forward_B(s))]
      BY <2>1, <2>2, <2>4 DEF EX_access
    <3> QED
      BY <3>1, <2>4, <1>n DEF LP!StoreOp
  <2> QED
    BY <2>3, <2>4
<1> QED
  BY <1>1, <1>2 DEF ExAccess

LEMMA AnyWordType == LP!AnyWord \in DataWord
BY SizeAssumption DEF LP!AnyWord, DataWord, Byte

LEMMA AccessOf ==
  /\ LP!NoAccess \in LPP!Access /\ LP!NoAccess.kind = "none"
  /\ \A a \in WordNo, e \in BOOLEAN : LP!LoadOp(a, e) \in LPP!Access
  /\ \A a \in WordNo, ln \in {Lane, {0}, {1}}, d \in DataWord :
       LP!StoreOp(a, ln, d) \in LPP!Access
<1>1. LP!AnyAddr \in WordNo
  BY SameData, SizeAssumption DEF LP!AnyAddr, WordNo
<1>2. LP!AnyWord \in DataWord
  BY AnyWordType
<1>3. LP!NoAccess \in LPP!Access /\ LP!NoAccess.kind = "none"
  BY <1>1, <1>2, SameData DEF LP!NoAccess, LPP!Access
<1>4. \A a \in WordNo, e \in BOOLEAN : LP!LoadOp(a, e) \in LPP!Access
  BY <1>3, SameData DEF LP!LoadOp, LPP!Access
<1>5. \A a \in WordNo, ln \in {Lane, {0}, {1}}, d \in DataWord :
        LP!StoreOp(a, ln, d) \in LPP!Access
  BY <1>3, SameData DEF LP!StoreOp, LPP!Access, Lane
<1> QED
  BY <1>3, <1>4, <1>5

(* What LoadPath's Next allows EX to hold. *)
Offered ==
  \/ EX_access = LP!NoAccess
  \/ \E a \in WordNo, e \in BOOLEAN : EX_access = LP!LoadOp(a, e)
  \/ \E a \in WordNo, ln \in {Lane, {0}, {1}}, d \in DataWord :
       EX_access = LP!StoreOp(a, ln, d)

LEMMA AccessOffered ==
  Typed /\ MemWord /\ OneAccess => Offered /\ EX_access \in LPP!Access
<1> SUFFICES ASSUME Typed, MemWord, OneAccess
             PROVE  Offered /\ EX_access \in LPP!Access
  OBVIOUS
<1>1. ExTyped /\ ExAccess
  BY ExTypes, AccessIs
<1>2. CASE \A s \in Slot : ~instr_is_mem(EX_ins(s))
  BY <1>1, <1>2, AccessOf DEF ExAccess, Offered
<1>3. ASSUME NEW s \in Slot, instr_is_mem(EX_ins(s))
      PROVE  Offered /\ EX_access \in LPP!Access
  <2>1. ~instr_is_mem(EX_ins(1 - s))
    BY <1>3 DEF OneAccess, Slot
  <2>2. /\ EX_result(s) \in Nat /\ WordOf(EX_result(s)) \in WordNo
        /\ EX_forward_B(s) \in Value /\ ex.slot[s].early \in BOOLEAN
    BY <1>1, WordOfType, Sizes DEF ExTyped, Value, Typed, TypeOK
  <2>3. /\ store_lanes(EX_ins(s), EX_result(s)) \in {Lane, {0}, {1}}
        /\ store_data(EX_ins(s), EX_forward_B(s)) \in DataWord
    BY <2>2, StoreType
  <2>4. CASE MemRead(EX_ins(s))
    <3>1. EX_access = LP!LoadOp(WordOf(EX_result(s)), ex.slot[s].early)
      BY <1>1, <1>3, <2>1, <2>4 DEF ExAccess
    <3> QED
      BY <3>1, <2>2, AccessOf DEF Offered
  <2>5. CASE ~MemRead(EX_ins(s))
    <3>1. EX_access = LP!StoreOp(WordOf(EX_result(s)), store_lanes(EX_ins(s), EX_result(s)),
                                 store_data(EX_ins(s), EX_forward_B(s)))
      BY <1>1, <1>3, <2>1, <2>5 DEF ExAccess
    <3> QED
      BY <3>1, <2>2, <2>3, AccessOf DEF Offered
  <2> QED
    BY <2>4, <2>5
<1> QED
  BY <1>2, <1>3

-----------------------------------------------------------------------------
(* What the proofs about LoadPath say here. *)
LoadPathAssumptions ==
  /\ LPP!RegionAssumption /\ LPP!FieldAssumption /\ LPP!WordFieldAssumption
  /\ LPP!DeviceAssumption /\ LPP!StoreAssumption /\ LPP!NonEmptyAssumption

LEMMA LoadPathFits == LoadPathAssumptions
BY Region, Fields, WordFields, Devices, Stores, NonEmpty DEF LoadPathAssumptions

USE DEF LoadPathAssumptions, LPP!RegionAssumption, LPP!FieldAssumption,
  LPP!WordFieldAssumption, LPP!DeviceAssumption, LPP!StoreAssumption, LPP!NonEmptyAssumption

MemTyped ==
  /\ bram \in [WordNo -> DataWord] /\ mem.op \in LPP!Access /\ mem2.op \in LPP!Access
  /\ mem.hit \in BOOLEAN /\ mem.data \in DataWord
  /\ mem2.hit \in BOOLEAN /\ mem2.fwd \in DataWord
  /\ mem.op.addr \in WordNo /\ mem2.op.addr \in WordNo
  /\ mem.op.data \in DataWord /\ mem.op.lanes \subseteq Lane
  /\ LP!perip_rdata \in DataWord

(* Every copy of a word is the word. *)
Current ==
  /\ mem.hit => mem.data = bram[mem.op.addr]
  /\ LP!MEM_lookup_ready => LP!MEM_load_ready_word = bram[mem.op.addr]
  /\ mem2.op.kind = "load" =>
       /\ LP!perip_rdata = bram[mem2.op.addr]
       /\ mem2.hit => mem2.fwd = bram[mem2.op.addr]

LEMMA LoadPathTyped == LPP!IInv => MemTyped
<1> SUFFICES ASSUME LPP!IInv
             PROVE  MemTyped
  OBVIOUS
<1>1. LPP!TypeOK
  BY DEF LPP!IInv
<1>2. LPP!perip_rdata \in LPP!DataWord
  BY <1>1, LPP!PeripType, LoadPathFits
<1> QED
  BY <1>1, <1>2, SameData, SameLookup DEF LPP!TypeOK, MemTyped, LPP!Access

LEMMA LoadPathCurrent == LPP!IInv => Current
<1> SUFFICES ASSUME LPP!IInv
             PROVE  Current
  OBVIOUS
<1>1. MemTyped /\ LPP!TypeOK /\ LPP!BuffersCoherent
  BY LoadPathTyped DEF LPP!IInv
<1>2. mem.hit => mem.data = bram[mem.op.addr]
  BY DEF LPP!IInv, LPP!EarlyDataCurrent
<1>3. LPP!MEM_lookup_ready => LPP!MEM_load_ready_word = bram[mem.op.addr]
  <2>1. mem.op.addr \in WordNo
    BY <1>1 DEF MemTyped
  <2>2. /\ LPP!CacheHit(mem.op.addr) => LPP!CacheData(mem.op.addr) = bram[mem.op.addr]
        /\ LPP!BypassHit(mem.op.addr) =>
             bypass[[a \in WordNo |-> a % SbEntries][mem.op.addr]].data = bram[mem.op.addr]
    BY <1>1, <2>1, LPP!LookupCurrent, LoadPathFits
  <2> QED
    BY <2>2 DEF LPP!MEM_lookup_ready, LPP!MEM_load_ready_word
<1>4. mem2.op.kind = "load" =>
        /\ LPP!perip_rdata = bram[mem2.op.addr]
        /\ mem2.hit => mem2.fwd = bram[mem2.op.addr]
  BY <1>1 DEF LPP!IInv, LPP!FastPathAgrees, LPP!IsBramLoad, LPP!IsLoad, MemTyped
<1> QED
  BY <1>2, <1>3, <1>4, SameLookup DEF Current

(* The memory that program order gives is the one after the edge. *)
LEMMA BackendMoves ==
  ASSUME LPP!IInv, LP!Backend
  PROVE  /\ bram' = arch_mem
         /\ mem.op.kind = "load" => mem2'.op = mem.op /\ bram' = bram
<1>1. MemTyped
  BY LoadPathTyped
<1>2. LP!WriteBram /\ LP!ToMem2
  BY DEF LP!Backend
<1>3. LP!MEM_store_valid <=> mem.op.kind = "store"
  BY <1>1 DEF LP!MEM_store_valid, LP!MEM_bus_wen, MemTyped
<1>4. bram' = arch_mem
  BY <1>2, <1>3 DEF LP!WriteBram, arch_mem, LP!Merge, MergeLanes
<1>5. mem.op.kind = "load" => mem2'.op = mem.op
  BY <1>2 DEF LP!ToMem2, LP!IsLoad, LP!InMem2
<1>6. mem.op.kind = "load" => bram' = bram
  BY <1>4 DEF arch_mem
<1> QED
  BY <1>4, <1>5, <1>6

LEMMA MemWordNext ==
  ASSUME LPP!IInv, LP!Backend, LP!ToMem \/ mem' = mem \/ LP!FlushMem
  PROVE  MemWord'
<1>1. MemTyped /\ LP!AnyWord \in DataWord
  BY LoadPathTyped, AnyWordType
<1>2. CASE mem' = mem
  BY <1>1, <1>2 DEF MemTyped, MemWord
<1>3. CASE LP!FlushMem
  BY <1>1, <1>3 DEF LP!FlushMem, LP!InMem, MemWord
<1>4. CASE LP!ToMem
  <2>1. ASSUME LPP!EX_cache_ready
        PROVE  LPP!EX_probe_data(EX_access.addr) \in DataWord
    <3>1. LPP!WriteBram
      BY SameSteps DEF LPP!Backend
    <3>2. LPP!EX_probe_data(EX_access.addr) = bram'[EX_access.addr]
      BY <2>1, <3>1, LPP!ProbeCurrent, LoadPathFits
    <3>3. bram' \in [WordNo -> LPP!DataWord]
      <4>1. LPP!TypeOK
        BY DEF LPP!IInv
      <4> QED
        BY <3>1, <4>1, LPP!BramNext, LoadPathFits
    <3>4. EX_access.addr \in WordNo
      BY <2>1 DEF LPP!EX_cache_ready, LPP!IsBramLoad
    <3> QED
      BY <3>2, <3>3, <3>4, SameData
  <2> QED
    BY <1>1, <1>4, <2>1, SameProbe DEF LP!ToMem, LP!InMem, MemWord
<1> QED
  BY <1>2, <1>3, <1>4

LEMMA LoadPathNext ==
  ASSUME LPP!IInv, LP!Backend,
         \/ LP!ToMem /\ EX_access' \in LPP!Access
         \/ mem' = mem /\ EX_access' = EX_access
         \/ LP!FlushMem /\ EX_access' = LP!NoAccess
  PROVE  LPP!IInv'
<1>1. LPP!Backend
  BY SameSteps
<1>2. CASE LP!ToMem /\ EX_access' \in LPP!Access
  <2>1. \E op \in LPP!Access : LPP!Advance(op)
    BY <1>1, <1>2, SameSteps DEF LPP!Advance
  <2> QED
    BY <2>1, LPP!AdvanceIInv, LoadPathFits
<1>3. CASE mem' = mem /\ EX_access' = EX_access
  <2>1. LPP!Busy
    BY <1>1, <1>3 DEF LPP!Busy
  <2> QED
    BY <2>1, LPP!BusyIInv, LoadPathFits
<1>4. CASE LP!FlushMem /\ EX_access' = LP!NoAccess
  <2>1. LPP!Redirect
    BY <1>1, <1>4, SameSteps, SameData DEF LPP!Redirect
  <2> QED
    BY <2>1, LPP!RedirectIInv, LoadPathFits
<1> QED
  BY <1>2, <1>3, <1>4

LEMMA LoadPathStart ==
  ASSUME LP!InitBuffers, bram \in [WordNo -> DataWord], EX_access = LP!NoAccess
  PROVE  LPP!IInv
<1>1. LPP!Init
  BY SameSteps, SameData DEF LPP!Init
<1> QED
  BY <1>1, LPP!InitIInv, LoadPathFits

HIDE DEF LoadPathAssumptions, LPP!RegionAssumption, LPP!FieldAssumption,
  LPP!WordFieldAssumption, LPP!DeviceAssumption, LPP!StoreAssumption, LPP!NonEmptyAssumption

-----------------------------------------------------------------------------
(* The registers that a packet writes: slot 1 is the younger one.  Dest is *)
(* 0 for an instruction that writes none.                                  *)
Dest(i) == IF RegWrite(i) THEN i.rd ELSE 0

Retire(r, i, v, j, w) == WriteReg(WriteReg(r, i, v), j, w)

LEMMA WriteRegType ==
  ASSUME NEW r \in [RegNo -> Value], NEW i \in Instr, NEW v \in Value
  PROVE  WriteReg(r, i, v) \in [RegNo -> Value]
BY InstrType DEF WriteReg

LEMMA WriteRegAt ==
  ASSUME NEW r \in [RegNo -> Value], NEW i \in Instr, NEW v \in Value, NEW x \in RegNo
  PROVE  WriteReg(r, i, v)[x] = IF x # 0 /\ Dest(i) = x THEN v ELSE r[x]
BY InstrType DEF WriteReg, Dest

LEMMA RetireType ==
  ASSUME NEW r \in [RegNo -> Value], NEW i \in Instr, NEW j \in Instr,
         NEW v \in Value, NEW w \in Value
  PROVE  Retire(r, i, v, j, w) \in [RegNo -> Value]
BY WriteRegType DEF Retire

LEMMA RetireAt ==
  ASSUME NEW r \in [RegNo -> Value], NEW i \in Instr, NEW j \in Instr,
         NEW v \in Value, NEW w \in Value, NEW x \in RegNo
  PROVE  Retire(r, i, v, j, w)[x] =
           IF x # 0 /\ Dest(j) = x THEN w
           ELSE IF x # 0 /\ Dest(i) = x THEN v ELSE r[x]
<1>1. WriteReg(r, i, v) \in [RegNo -> Value]
  BY WriteRegType
<1>2. WriteReg(r, i, v)[x] = IF x # 0 /\ Dest(i) = x THEN v ELSE r[x]
  BY WriteRegAt
<1>3. WriteReg(WriteReg(r, i, v), j, w)[x] =
        IF x # 0 /\ Dest(j) = x THEN w ELSE WriteReg(r, i, v)[x]
  BY <1>1, WriteRegAt
<1> QED
  BY <1>2, <1>3 DEF Retire

LEMMA RetireAgain ==
  ASSUME NEW r \in [RegNo -> Value], NEW i \in Instr, NEW j \in Instr,
         NEW v \in Value, NEW w \in Value
  PROVE  Retire(Retire(r, i, v, j, w), i, v, j, w) = Retire(r, i, v, j, w)
<1> DEFINE once == Retire(r, i, v, j, w)
           twice == Retire(once, i, v, j, w)
<1>1. once \in [RegNo -> Value]
  BY RetireType
<1>2. \A x \in RegNo : once[x] = IF x # 0 /\ Dest(j) = x THEN w
                               ELSE IF x # 0 /\ Dest(i) = x THEN v ELSE r[x]
  BY RetireAt
<1> HIDE DEF once
<1>3. twice \in [RegNo -> Value]
  BY <1>1, RetireType
<1>4. \A x \in RegNo : twice[x] = IF x # 0 /\ Dest(j) = x THEN w
                                ELSE IF x # 0 /\ Dest(i) = x THEN v ELSE once[x]
  BY <1>1, RetireAt
<1> HIDE DEF twice
<1>5. \A x \in RegNo : twice[x] = once[x]
  BY <1>2, <1>4
<1>6. twice = once
  BY <1>1, <1>3, <1>5
<1> QED
  BY <1>6 DEF once, twice

LEMMA RetireNothing ==
  ASSUME NEW r, NEW v, NEW w
  PROVE  Retire(r, NOP_INSTR, v, NOP_INSTR, w) = r
BY NopType DEF Retire, WriteReg

LEMMA RegFile ==
  ASSUME NEW r, NEW p
  PROVE  reg_file_write(r, p) = Retire(r, p[0].ins, p[0].data, p[1].ins, p[1].data)
BY DEF reg_file_write, Retire

(* The registers before the packets in MEM2 and in MEM1. *)
WbRegs == Retire(regs, wb[0].ins, wb[0].data, wb[1].ins, wb[1].data)
Mem2Regs == Retire(WbRegs, pm2[0].ins, MEM2_wdata(0), pm2[1].ins, MEM2_wdata(1))

LEMMA ArchRegs ==
  arch_regs = Retire(Mem2Regs, pm[0].ins, MEM_wdata(0), pm[1].ins, MEM_wdata(1))
BY DEF arch_regs, Mem2Regs, WbRegs, reg_file_write, Retire, Slot

Written ==
  /\ \A s \in Slot : MEM_wdata(s) \in Value /\ MEM2_wdata(s) \in Value
  /\ WbRegs \in [RegNo -> Value] /\ Mem2Regs \in [RegNo -> Value]
  /\ arch_regs \in [RegNo -> Value]

LEMMA WrittenTyped == Typed /\ LPP!IInv => Written
<1> SUFFICES ASSUME Typed, LPP!IInv
             PROVE  Written
  OBVIOUS
<1>1. MemTyped
  BY LoadPathTyped
<1>2. /\ regs \in [RegNo -> Value]
      /\ \A s \in Slot : /\ pm[s].ins \in Instr /\ pm[s].res \in Value
                         /\ pm2[s].ins \in Instr /\ pm2[s].res \in Value
                         /\ wb[s].ins \in Instr /\ wb[s].data \in Value
  BY DEF Typed, TypeOK
<1>3. \A v \in Value : v \in Nat
  BY Sizes DEF Value
<1>4. ASSUME NEW s \in Slot
      PROVE  MEM_wdata(s) \in Value /\ MEM2_wdata(s) \in Value
  <2>1. bram[WordOf(pm[s].res)] \in DataWord /\ LP!perip_rdata \in DataWord
    BY <1>1, <1>2, <1>3, WordOfType DEF MemTyped
  <2> QED
    BY <1>2, <1>3, <2>1, LoadType DEF MEM_wdata, MEM2_wdata
<1>5. 0 \in Slot /\ 1 \in Slot
  BY DEF Slot
<1>6. WbRegs \in [RegNo -> Value]
  BY <1>2, <1>5, RetireType DEF WbRegs
<1>7. Mem2Regs \in [RegNo -> Value]
  BY <1>2, <1>4, <1>5, <1>6, RetireType DEF Mem2Regs
<1>8. arch_regs \in [RegNo -> Value]
  BY <1>2, <1>4, <1>5, <1>7, RetireType, ArchRegs
<1> QED
  BY <1>4, <1>6, <1>7, <1>8 DEF Written

(* The packets behind EX move on without changing what program order sees. *)
LEMMA Drained ==
  ASSUME Typed, LPP!IInv, Linked, Drain, LPP!IInv'
  PROVE  Mem2Regs' = arch_regs
<1>1. Current' /\ MemTyped
  <2>1. LPP!IInv' => Current'
    BY LoadPathCurrent, PTL
  <2> QED
    BY <2>1, LoadPathTyped
<1>2. /\ pm2' = pm /\ regs' = reg_file_write(regs, wb)
      /\ wb' = [s \in Slot |-> [ins |-> pm2[s].ins, data |-> MEM2_wdata(s)]]
  BY DEF Drain
<1>3. \A s \in Slot : MEM2_wdata(s)' = MEM_wdata(s)
  <2> SUFFICES ASSUME NEW s \in Slot
               PROVE  MEM2_wdata(s)' = MEM_wdata(s)
    OBVIOUS
  <2>1. CASE MemRead(pm[s].ins)
    <3>1. mem.op.kind = "load" /\ mem.op.addr = WordOf(pm[s].res)
      BY <2>1 DEF Linked, Reads
    <3>2. mem2'.op = mem.op /\ bram' = bram
      BY <3>1, BackendMoves DEF Drain
    <3>3. LP!perip_rdata' = bram[WordOf(pm[s].res)]
      BY <1>1, <3>1, <3>2 DEF Current
    <3> QED
      BY <1>2, <2>1, <3>3 DEF MEM2_wdata, MEM_wdata
  <2>2. CASE ~MemRead(pm[s].ins)
    BY <1>2, <2>2 DEF MEM2_wdata, MEM_wdata
  <2> QED
    BY <2>1, <2>2
<1>4. 0 \in Slot /\ 1 \in Slot
  BY DEF Slot
<1>5. regs' = WbRegs
  BY <1>2, RegFile DEF WbRegs
<1>6. WbRegs' = Mem2Regs
  BY <1>2, <1>4, <1>5 DEF WbRegs, Mem2Regs
<1>7. Mem2Regs' = Retire(WbRegs', pm[0].ins, MEM_wdata(0), pm[1].ins, MEM_wdata(1))
  BY <1>2, <1>3, <1>4 DEF Mem2Regs
<1> QED
  BY <1>6, <1>7, ArchRegs

-----------------------------------------------------------------------------
(* Forwarding.  What ID takes for an operand is what program order gives   *)
(* it, from wherever it takes it.                                          *)
LEMMA Selected ==
  ASSUME NEW rs \in RegNo
  PROVE  select_id_forward(rs) =
           IF rs = 0 THEN "RF"
           ELSE IF Dest(EX_ins(1)) = rs THEN "EX_S1"
           ELSE IF Dest(EX_ins(0)) = rs THEN "EX"
           ELSE IF Dest(pm[1].ins) = rs THEN "MEM_S1"
           ELSE IF Dest(pm[0].ins) = rs THEN "MEM"
           ELSE IF Dest(pm2[1].ins) = rs THEN "MEM2_S1"
           ELSE IF Dest(pm2[0].ins) = rs THEN "MEM2" ELSE "RF"
<1> DEFINE writers == {k \in 1..6 : RegWrite(producer_ins(k)) /\ producer_ins(k).rd = rs}
<1>1. CASE rs = 0
  BY <1>1 DEF select_id_forward
<1>2. CASE rs # 0
  <2>1. /\ producer_ins(1) = EX_ins(1) /\ producer_ins(2) = EX_ins(0)
        /\ producer_ins(3) = pm[1].ins /\ producer_ins(4) = pm[0].ins
        /\ producer_ins(5) = pm2[1].ins /\ producer_ins(6) = pm2[0].ins
    BY DEF producer_ins
  <2>2. \A k \in 1..6 : k \in writers <=> Dest(producer_ins(k)) = rs
    BY <1>2 DEF Dest
  <2>3. select_id_forward(rs) = IF writers = {} THEN "RF" ELSE Producer[Min(writers)]
    BY <1>2 DEF select_id_forward
  <2>4. writers \subseteq 1..6
    OBVIOUS
  <2> HIDE DEF writers
  <2>5. ASSUME NEW k \in 1..6, k \in writers, \A n \in 1..k - 1 : n \notin writers
        PROVE  Min(writers) = k /\ writers # {}
    <3>1. \A y \in writers : k <= y
      BY <2>4, <2>5
    <3>2. \A x \in writers : (\A y \in writers : x <= y) => x = k
      BY <2>4, <2>5, <3>1
    <3> QED
      BY <2>5, <3>1, <3>2 DEF Min
  <2>6. /\ Producer[1] = "EX_S1" /\ Producer[2] = "EX" /\ Producer[3] = "MEM_S1"
        /\ Producer[4] = "MEM" /\ Producer[5] = "MEM2_S1" /\ Producer[6] = "MEM2"
    BY DEF Producer
  <2>7. CASE 1 \in writers
    <3>1. Min(writers) = 1
      BY <2>5, <2>7
    <3> QED
      BY <1>2, <2>1, <2>2, <2>3, <2>6, <2>7, <3>1
  <2>8. CASE 1 \notin writers /\ 2 \in writers
    <3>1. Min(writers) = 2
      BY <2>5, <2>8
    <3> QED
      BY <1>2, <2>1, <2>2, <2>3, <2>6, <2>8, <3>1
  <2>9. CASE 1 \notin writers /\ 2 \notin writers /\ 3 \in writers
    <3>1. Min(writers) = 3
      BY <2>5, <2>9
    <3> QED
      BY <1>2, <2>1, <2>2, <2>3, <2>6, <2>9, <3>1
  <2>10. CASE 1 \notin writers /\ 2 \notin writers /\ 3 \notin writers /\ 4 \in writers
    <3>1. Min(writers) = 4
      BY <2>5, <2>10
    <3> QED
      BY <1>2, <2>1, <2>2, <2>3, <2>6, <2>10, <3>1
  <2>11. CASE /\ 1 \notin writers /\ 2 \notin writers /\ 3 \notin writers /\ 4 \notin writers
              /\ 5 \in writers
    <3>1. Min(writers) = 5
      BY <2>5, <2>11
    <3> QED
      BY <1>2, <2>1, <2>2, <2>3, <2>6, <2>11, <3>1
  <2>12. CASE /\ 1 \notin writers /\ 2 \notin writers /\ 3 \notin writers /\ 4 \notin writers
              /\ 5 \notin writers /\ 6 \in writers
    <3>1. Min(writers) = 6
      BY <2>5, <2>12
    <3> QED
      BY <1>2, <2>1, <2>2, <2>3, <2>6, <2>12, <3>1
  <2>13. CASE /\ 1 \notin writers /\ 2 \notin writers /\ 3 \notin writers /\ 4 \notin writers
              /\ 5 \notin writers /\ 6 \notin writers
    <3>1. writers = {}
      BY <2>4, <2>13
    <3> QED
      BY <1>2, <2>1, <2>2, <2>3, <2>13, <3>1
  <2> QED
    BY <2>7, <2>8, <2>9, <2>10, <2>11, <2>12, <2>13
<1> QED
  BY <1>1, <1>2

LEMMA ArchAt ==
  ASSUME Typed, LPP!IInv, NEW x \in RegNo
  PROVE  arch_regs[x] =
           IF x = 0 THEN WbRegs[x]
           ELSE IF Dest(pm[1].ins) = x THEN MEM_wdata(1)
           ELSE IF Dest(pm[0].ins) = x THEN MEM_wdata(0)
           ELSE IF Dest(pm2[1].ins) = x THEN MEM2_wdata(1)
           ELSE IF Dest(pm2[0].ins) = x THEN MEM2_wdata(0) ELSE WbRegs[x]
<1>1. Written
  BY WrittenTyped
<1>2. pm2[0].ins \in Instr /\ pm2[1].ins \in Instr
  BY DEF Typed, TypeOK, Slot
<1>3. pm[0].ins \in Instr /\ pm[1].ins \in Instr
  BY DEF Typed, TypeOK, Slot
<1>4. MEM2_wdata(0) \in Value /\ MEM2_wdata(1) \in Value /\ WbRegs \in [RegNo -> Value]
  BY <1>1 DEF Written, Slot
<1>5. MEM_wdata(0) \in Value /\ MEM_wdata(1) \in Value /\ Mem2Regs \in [RegNo -> Value]
  BY <1>1 DEF Written, Slot
<1>6. Retire(WbRegs, pm2[0].ins, MEM2_wdata(0), pm2[1].ins, MEM2_wdata(1))[x] =
        IF x # 0 /\ Dest(pm2[1].ins) = x THEN MEM2_wdata(1)
        ELSE IF x # 0 /\ Dest(pm2[0].ins) = x THEN MEM2_wdata(0) ELSE WbRegs[x]
  BY ONLY <1>2, <1>4, RetireAt, x \in RegNo
<1>7. Retire(Mem2Regs, pm[0].ins, MEM_wdata(0), pm[1].ins, MEM_wdata(1))[x] =
        IF x # 0 /\ Dest(pm[1].ins) = x THEN MEM_wdata(1)
        ELSE IF x # 0 /\ Dest(pm[0].ins) = x THEN MEM_wdata(0) ELSE Mem2Regs[x]
  BY ONLY <1>3, <1>5, RetireAt, x \in RegNo
<1> QED
  BY <1>6, <1>7, ArchRegs DEF Mem2Regs

(* A load that is awaited and not ready stops ID. *)
LEMMA NotAwaited ==
  ASSUME NEW i, NEW ready, NEW rs, ~AwaitedLoad(i, ready), ID_uses(rs), rs # 0,
         Dest(i) = rs, MemRead(i)
  PROVE  ready
<1>1. i.rd = rs
  BY DEF Dest
<1> QED
  BY <1>1 DEF AwaitedLoad

LEMMA ForwardFromEx ==
  ASSUME Execute, Linked', LPP!IInv', ~load_use_ex, NEW s \in Slot, NEW rs, ID_uses(rs),
         rs # 0, Dest(EX_ins(s)) = rs
  PROVE  MEM_forward_data(s)' = MEM_wdata(s)'
<1>1. pm'[s].ins = EX_ins(s) /\ pm'[s].res = EX_result(s)
  BY DEF Execute
<1>2. Current'
  <2>1. LPP!IInv' => Current'
    BY LoadPathCurrent, PTL
  <2> QED
    BY <2>1
<1>3. CASE ~MemRead(EX_ins(s))
  BY <1>1, <1>3 DEF MEM_forward_data, MEM_wdata
<1>4. CASE MemRead(EX_ins(s))
  <2>1. LP!EX_cache_ready
    BY <1>4, NotAwaited DEF load_use_ex
  <2>2. mem'.hit
    BY <2>1 DEF Execute, LP!ToMem, LP!InMem
  <2>3. mem'.op.addr = WordOf(pm'[s].res)
    BY <1>1, <1>4 DEF Linked, Reads
  <2>4. mem'.data = bram'[WordOf(pm'[s].res)]
    BY <1>2, <2>2, <2>3 DEF Current
  <2> QED
    BY <1>1, <1>4, <2>2, <2>4 DEF MEM_forward_data, MEM_wdata
<1> QED
  BY <1>3, <1>4

LEMMA ForwardFromMem ==
  ASSUME LPP!IInv, Linked, ~load_use_mem, NEW s \in Slot, NEW rs, ID_uses(rs), rs # 0,
         Dest(pm[s].ins) = rs
  PROVE  MEM_resolved_forward_data(s) = MEM_wdata(s)
<1>1. CASE ~MemRead(pm[s].ins)
  BY <1>1 DEF MEM_resolved_forward_data, MEM_forward_data, MEM_wdata
<1>2. CASE MemRead(pm[s].ins)
  <2>1. MEM_load_ready
    BY <1>2, NotAwaited DEF load_use_mem
  <2>2. mem.op.addr = WordOf(pm[s].res)
    BY <1>2 DEF Linked, Reads
  <2>3. Current
    BY LoadPathCurrent
  <2> QED
    BY <1>2, <2>1, <2>2, <2>3
    DEF MEM_load_ready, Current, MEM_resolved_forward_data, MEM_forward_data, MEM_wdata
<1> QED
  BY <1>1, <1>2

LEMMA ForwardFromMem2 ==
  ASSUME LPP!IInv, Linked, ~Stall_LateSubword, NEW s \in Slot, NEW rs, ID_uses(rs), rs # 0,
         Dest(pm2[s].ins) = rs
  PROVE  MEM2_operand(s) = MEM2_wdata(s)
<1>1. CASE ~MemRead(pm2[s].ins)
  BY <1>1 DEF MEM2_operand, MEM2_late_word, MEM2_forward_data, MEM2_wdata, MemRead, ILType
<1>2. CASE MemRead(pm2[s].ins)
  <2>1. pm2[s].ins.op # "lw" => mem2.hit
    BY <1>2, NotAwaited DEF Stall_LateSubword
  <2>2. mem2.op.kind = "load"
    BY <1>2 DEF Linked, Reads
  <2>3. mem2.hit => mem2.fwd = LP!perip_rdata
    BY <2>2, LoadPathCurrent DEF Current
  <2>4. CASE mem2.hit
    BY <1>2, <2>3, <2>4 DEF MEM2_operand, MEM2_late_word, MEM2_forward_data, MEM2_wdata
  <2>5. CASE ~mem2.hit
    BY <1>2, <2>1, <2>5 DEF MEM2_operand, MEM2_late_word, MEM2_wdata, Load
  <2> QED
    BY <2>4, <2>5
<1> QED
  BY <1>1, <1>2


-----------------------------------------------------------------------------
(* What the registers hold after an edge is of their type. *)
LEMMA OperandType ==
  ASSUME Typed, LPP!IInv, NEW sel, NEW rs \in RegNo
  PROVE  resolve_id_operand(sel, rs) \in Value
<1>1. MemTyped /\ Current /\ Written
  BY LoadPathTyped, LoadPathCurrent, WrittenTyped
<1>2. ExTyped
  BY <1>1, ExTypes DEF MemTyped, MemWord
<1>3. \A s \in Slot : pm[s].res \in Nat /\ pm2[s].res \in Value /\ pm2[s].res \in Nat
  BY Sizes DEF Typed, TypeOK, Value
<1>4. \A s \in Slot : MEM_resolved_forward_data(s) \in Value
  <2> SUFFICES ASSUME NEW s \in Slot
               PROVE  MEM_resolved_forward_data(s) \in Value
    OBVIOUS
  <2>1. LP!MEM_lookup_ready => LP!MEM_load_ready_word \in DataWord
    BY <1>1 DEF MemTyped, Current
  <2>2. MEM_forward_data(s) \in Value
    BY <1>2 DEF ExTyped
  <2> QED
    BY <1>3, <2>1, <2>2, LoadType DEF MEM_resolved_forward_data
<1>5. \A s \in Slot : MEM2_operand(s) \in Value
  <2> SUFFICES ASSUME NEW s \in Slot
               PROVE  MEM2_operand(s) \in Value
    OBVIOUS
  <2>1. LP!perip_rdata \in DataWord /\ mem2.fwd \in DataWord
    BY <1>1 DEF MemTyped
  <2>2. MEM2_forward_data(s) \in Value
    BY <1>3, <2>1, LoadType DEF MEM2_forward_data
  <2>3. FromWord(LP!perip_rdata) \in Value
    BY <2>1, FromWordType DEF FromWord, DataWord, Lane
  <2> QED
    BY <2>2, <2>3 DEF MEM2_operand
<1>6. reg_file_read(rs) \in Value
  <2>1. reg_file_read(rs) = WbRegs[rs]
    BY RegFile DEF reg_file_read, WbRegs
  <2> QED
    BY <1>1, <2>1 DEF Written
<1>7. 0 \in Slot /\ 1 \in Slot
  BY DEF Slot
<1> QED
  BY <1>4, <1>5, <1>6, <1>7 DEF resolve_id_operand

LEMMA ToExType ==
  ASSUME Typed, LPP!IInv, NEW i \in Instr
  PROVE  ToEX(i) \in ExSlot
<1>1. i.rs1 \in RegNo /\ i.rs2 \in RegNo
  BY InstrType
<1>2. \A rs \in RegNo : select_id_forward(rs) \in ForwardSel
  BY Selected DEF ForwardSel
<1>3. \A sel : probe_base_known(sel) \in BOOLEAN
  BY DEF probe_base_known, MEM2_late_word
<1>4. /\ resolve_id_operand(select_id_forward(i.rs1), i.rs1) \in Value
      /\ resolve_id_operand(select_id_forward(i.rs2), i.rs2) \in Value
  BY <1>1, OperandType
<1> QED
  BY <1>1, <1>2, <1>3, <1>4 DEF ToEX, ExSlot

LEMMA DecodeType ==
  ASSUME Typed, LPP!IInv, NEW n \in BOOLEAN, Decode(n)
  PROVE  ex' \in ExReg
<1>1. /\ id.valid \in BOOLEAN /\ id.pc \in PC /\ id.pred \in BOOLEAN
      /\ \A s \in Slot : id.ins[s] \in Instr
  BY DEF Typed, TypeOK
<1>2. [s \in Slot |-> ToEX(id.ins[s])] \in [Slot -> ExSlot]
  BY <1>1, ToExType
<1>3. 0 \in 0..DivBusy + 2
  BY GeometryAssumption
<1> QED
  BY <1>1, <1>2, <1>3 DEF Decode, ExReg

LEMMA FetchType ==
  ASSUME Typed, NEW p \in MayPair, NEW t \in MayPredictTaken, Fetch(p, t)
  PROVE  /\ pc' \in PC
         /\ id' \in [valid : BOOLEAN, pc : PC, ins : [Slot -> Instr], pred : BOOLEAN]
<1>1. rom \in [PC -> Instr] /\ pc \in PC
  BY DEF Typed, TypeOK
<1>2. p \in BOOLEAN /\ t \in BOOLEAN
  BY DEF MayPair, MayPredictTaken
<1>3. pc \in Nat /\ rom[pc] \in Instr /\ rom[pc].imm \in Nat
  BY <1>1, PcOfType, InstrType, Sizes DEF Value
<1>4. pc + 1 \in Nat /\ pc + 2 \in Nat /\ pc + rom[pc].imm \in Nat
  BY <1>3
<1>5. PcOf(pc + 1) \in PC /\ PcOf(pc + 2) \in PC /\ PcOf(pc + rom[pc].imm) \in PC
  BY <1>4, PcOfType
<1>6. rom[PcOf(pc + 1)] \in Instr
  BY <1>1, <1>5
<1>7. pc' \in PC
  BY <1>5 DEF Fetch, IF_next_pc, branch_target
<1>8. Pair(rom[pc], IF p THEN rom[PcOf(pc + 1)] ELSE NOP_INSTR) \in [Slot -> Instr]
  BY <1>3, <1>6, NopType DEF Pair
<1> QED
  BY <1>1, <1>2, <1>7, <1>8 DEF Fetch

LEMMA ExecuteType ==
  ASSUME Typed, LPP!IInv, Execute
  PROVE  /\ pm' \in [Slot -> [ins : Instr, res : Value]]
         /\ csr' \in [CsrNo -> Value] /\ redirect' \in [valid : BOOLEAN, target : PC]
<1>1. ExTyped
  BY LoadPathTyped, ExTypes DEF MemTyped, MemWord
<1>2. \A s \in Slot : EX_ins(s) \in Instr /\ EX_result(s) \in Value
  BY <1>1 DEF ExTyped
<1>3. /\ EX_ins(0) \in Instr /\ ex.pc \in PC /\ EX_forward_A(0) \in Value
      /\ EX_forward_B(0) \in Value
  BY <1>1 DEF ExTyped, Slot, Typed, ExReg
<1>4. csr \in [CsrNo -> Value] /\ redirect \in [valid : BOOLEAN, target : PC]
  BY DEF Typed, TypeOK
<1>5. /\ IF_npc_redirect_raw \in PC
      /\ CsrNext(EX_ins(0), ex.pc, EX_forward_A(0), csr) \in [CsrNo -> Value]
  BY <1>3, <1>4, ControlType DEF IF_npc_redirect_raw
<1> QED
  BY <1>2, <1>4, <1>5 DEF Execute

LEMMA DrainType ==
  ASSUME Typed, LPP!IInv, Drain
  PROVE  /\ rom' \in [PC -> Instr] /\ regs' \in [RegNo -> Value]
         /\ pm2' \in [Slot -> [ins : Instr, res : Value]]
         /\ wb' \in [Slot -> [ins : Instr, data : Value]]
<1>1. Written
  BY WrittenTyped
<1>2. rom \in [PC -> Instr] /\ pm \in [Slot -> [ins : Instr, res : Value]]
  BY DEF Typed, TypeOK
<1>3. \A s \in Slot : pm2[s].ins \in Instr /\ MEM2_wdata(s) \in Value
  BY <1>1 DEF Typed, TypeOK, Written
<1>4. regs' = WbRegs
  BY RegFile DEF WbRegs, Drain
<1> QED
  BY <1>1, <1>2, <1>3, <1>4 DEF Drain, Written


LEMMA BubbleType == Bubble \in ExReg
<1>1. 0 \in Value /\ 0 \in PC /\ 0 \in 0..DivBusy + 2
  BY Sizes, GeometryAssumption DEF Value, PC
<1>2. [ins |-> NOP_INSTR, a |-> 0, b |-> 0, fa |-> "RF", fb |-> "RF", early |-> FALSE]
        \in ExSlot
  BY <1>1, NopType DEF ExSlot, ForwardSel
<1> QED
  BY <1>1, <1>2 DEF Bubble, ExReg, Pair

LEMMA TypedFlow ==
  ASSUME Typed, LPP!IInv, Flow
  PROVE  Typed'
<1>1. PICK n \in BOOLEAN : Decode(n)
  BY DEF Flow
<1>2. PICK p \in MayPair, t \in MayPredictTaken : Fetch(p, t)
  BY DEF Flow
<1>3. Drain /\ Execute
  BY DEF Flow
<1>4. ex' \in ExReg
  BY <1>1, DecodeType
<1>5. ex'.valid => ex'.pipe_valid
  BY <1>1 DEF Decode
<1>6. /\ pc' \in PC
      /\ id' \in [valid : BOOLEAN, pc : PC, ins : [Slot -> Instr], pred : BOOLEAN]
  BY <1>2, FetchType
<1>7. /\ pm' \in [Slot -> [ins : Instr, res : Value]]
      /\ csr' \in [CsrNo -> Value] /\ redirect' \in [valid : BOOLEAN, target : PC]
  BY <1>3, ExecuteType
<1>8. /\ rom' \in [PC -> Instr] /\ regs' \in [RegNo -> Value]
      /\ pm2' \in [Slot -> [ins : Instr, res : Value]]
      /\ wb' \in [Slot -> [ins : Instr, data : Value]]
  BY <1>3, DrainType
<1> QED
  BY <1>4, <1>5, <1>6, <1>7, <1>8 DEF Typed, TypeOK, ExReg, ExSlot

LEMMA TypedHazardStall ==
  ASSUME Typed, LPP!IInv, HazardStall
  PROVE  Typed'
<1>1. Drain /\ Execute /\ ex' = Bubble /\ pc' = pc /\ id' = id
  BY DEF HazardStall
<1>2. ex' \in ExReg /\ ~ex'.valid
  BY <1>1, BubbleType DEF Bubble
<1>3. /\ pc' \in PC
      /\ id' \in [valid : BOOLEAN, pc : PC, ins : [Slot -> Instr], pred : BOOLEAN]
  BY <1>1 DEF Typed, TypeOK
<1>4. /\ pm' \in [Slot -> [ins : Instr, res : Value]]
      /\ csr' \in [CsrNo -> Value] /\ redirect' \in [valid : BOOLEAN, target : PC]
  BY <1>1, ExecuteType
<1>5. /\ rom' \in [PC -> Instr] /\ regs' \in [RegNo -> Value]
      /\ pm2' \in [Slot -> [ins : Instr, res : Value]]
      /\ wb' \in [Slot -> [ins : Instr, data : Value]]
  BY <1>1, DrainType
<1> QED
  BY <1>2, <1>3, <1>4, <1>5 DEF Typed, TypeOK, ExReg, ExSlot

LEMMA TypedKill ==
  ASSUME Typed, LPP!IInv, Kill
  PROVE  Typed'
<1>1. Drain /\ ex' = Bubble /\ id' = NoPacket /\ pm' = NoResult /\ csr' = csr
  BY DEF Kill
<1>2. ex' \in ExReg /\ ~ex'.valid
  BY <1>1, BubbleType DEF Bubble
<1>3. 0 \in Value /\ 0 \in PC
  BY Sizes DEF Value, PC
<1>4. id' \in [valid : BOOLEAN, pc : PC, ins : [Slot -> Instr], pred : BOOLEAN]
  BY <1>1, <1>3, NopType DEF NoPacket, Pair
<1>5. pm' \in [Slot -> [ins : Instr, res : Value]]
  BY <1>1, <1>3, NopType DEF NoResult
<1>6. pc' \in PC /\ redirect' \in [valid : BOOLEAN, target : PC]
  BY <1>3 DEF Kill, Typed, TypeOK
<1>7. csr' \in [CsrNo -> Value]
  BY <1>1 DEF Typed, TypeOK
<1>8. /\ rom' \in [PC -> Instr] /\ regs' \in [RegNo -> Value]
      /\ pm2' \in [Slot -> [ins : Instr, res : Value]]
      /\ wb' \in [Slot -> [ins : Instr, data : Value]]
  BY <1>1, DrainType
<1> QED
  BY <1>2, <1>4, <1>5, <1>6, <1>7, <1>8 DEF Typed, TypeOK, ExReg, ExSlot

(* EX stays busy for at most DivBusy cycles, or the two of a division by   *)
(* zero.                                                                   *)
LEMMA HeldType ==
  ASSUME Typed, LPP!IInv, ExecuteBusy
  PROVE  /\ ex' \in ExReg
         /\ ex'.pipe_valid = ex.pipe_valid /\ ex'.valid = ex.valid /\ ex'.pc = ex.pc
         /\ ex'.pred = ex.pred /\ ex'.held
         /\ \A s \in Slot : /\ ex'.slot[s].ins = ex.slot[s].ins
                            /\ ex'.slot[s].early = ex.slot[s].early
                            /\ ex'.slot[s].a = EX_forward_A(s)
                            /\ ex'.slot[s].b = EX_forward_B(s)
<1> DEFINE slot == [s \in Slot |-> [ex.slot[s] EXCEPT !.a = EX_forward_A(s),
                                                      !.b = EX_forward_B(s)]]
<1>1. ex \in ExReg /\ ex.slot \in [Slot -> ExSlot]
  BY DEF Typed, ExReg
<1>2. ex' = [ex EXCEPT !.cycle = @ + 1, !.held = TRUE, !.slot = slot]
  BY DEF ExecuteBusy
<1>3. \A s \in Slot : EX_forward_A(s) \in Value /\ EX_forward_B(s) \in Value
  BY LoadPathTyped, ExTypes DEF MemTyped, MemWord, ExTyped
<1>4. slot \in [Slot -> ExSlot]
  BY <1>1, <1>3 DEF ExSlot
<1>5. \A s \in Slot : /\ slot[s].ins = ex.slot[s].ins
                      /\ slot[s].early = ex.slot[s].early
                      /\ slot[s].a = EX_forward_A(s)
                      /\ slot[s].b = EX_forward_B(s)
  BY <1>1 DEF ExSlot
<1>6. ex.cycle + 1 \in 0..DivBusy + 2
  <2>1. ex.cycle \in Nat
    BY <1>1, GeometryAssumption DEF ExReg
  <2>2. \A s \in Slot : m_cycles(s) \in Nat /\ m_cycles(s) <= DivBusy + 2
    BY GeometryAssumption DEF m_cycles
  <2>3. \E s \in Slot : ex.cycle < m_cycles(s)
    BY DEF ExecuteBusy, EX_any_busy, EX_busy, Slot
  <2> QED
    BY <2>1, <2>2, <2>3, GeometryAssumption
<1> HIDE DEF slot
<1>7. ex' \in ExReg /\ ex'.slot = slot
  BY <1>1, <1>2, <1>4, <1>6 DEF ExReg
<1>8. /\ ex'.pipe_valid = ex.pipe_valid /\ ex'.valid = ex.valid /\ ex'.pc = ex.pc
      /\ ex'.pred = ex.pred /\ ex'.held
  BY <1>1, <1>2 DEF ExReg
<1> QED
  BY <1>5, <1>7, <1>8

LEMMA TypedExecuteBusy ==
  ASSUME Typed, LPP!IInv, ExecuteBusy
  PROVE  Typed'
<1>1. Drain /\ pc' = pc /\ id' = id /\ pm' = pm /\ csr' = csr /\ redirect' = redirect
  BY DEF ExecuteBusy
<1>2. ex' \in ExReg /\ (ex'.valid => ex'.pipe_valid)
  BY HeldType DEF Typed, TypeOK
<1>3. /\ rom' \in [PC -> Instr] /\ regs' \in [RegNo -> Value]
      /\ pm2' \in [Slot -> [ins : Instr, res : Value]]
      /\ wb' \in [Slot -> [ins : Instr, data : Value]]
  BY <1>1, DrainType
<1> QED
  BY <1>1, <1>2, <1>3 DEF Typed, TypeOK, ExReg, ExSlot


-----------------------------------------------------------------------------
(* Packets move from IF to EX whole and in the order of the fetch. *)
LEMMA PacketAccess == ExPacket => OneAccess
<1> SUFFICES ASSUME ExPacket, instr_is_mem(EX_ins(0)), instr_is_mem(EX_ins(1))
             PROVE  FALSE
  BY DEF OneAccess
<1>1. CASE ex.valid
  BY <1>1, NopType DEF ExPacket, Issued, IF_dual_candidate
<1>2. CASE ~ex.valid
  BY <1>2, NopType DEF ExPacket, Slot
<1> QED
  BY <1>1, <1>2

LEMMA Decoded ==
  ASSUME NEW n, Decode(n), NEW s \in Slot
  PROVE  ex'.slot[s] = ToEX(id.ins[s]) /\ EX_ins(s)' = id.ins[s]
BY DEF Decode, EX_ins, ToEX

LEMMA Emptied ==
  ASSUME ex' = Bubble
  PROVE  ~ex'.valid /\ \A s \in Slot : EX_ins(s)' = NOP_INSTR
BY DEF Bubble, EX_ins

LEMMA Fetched ==
  ASSUME NEW p \in MayPair, NEW t \in MayPredictTaken, Fetch(p, t)
  PROVE  /\ id'.valid /\ id'.pc = pc
         /\ \E pair \in BOOLEAN :
              /\ id'.ins[0] = rom[pc]
              /\ id'.ins[1] = IF pair THEN rom[PcOf(pc + 1)] ELSE NOP_INSTR
              /\ pair => IF_dual_candidate(id'.ins[0], id'.ins[1])
              /\ id'.pred => rom[pc].op \in {"beq", "jal"}
              /\ pc' = Follows(rom[pc], pc, id'.pred, pair)
<1>1. p \in BOOLEAN /\ (p => IF_dual_candidate(rom[pc], rom[PcOf(pc + 1)]))
  BY DEF MayPair
<1>2. t \in BOOLEAN /\ (t => rom[pc].op \in {"beq", "jal"})
  BY DEF MayPredictTaken
<1>3. /\ id'.valid /\ id'.pc = pc /\ id'.pred = t /\ id'.ins[0] = rom[pc]
      /\ id'.ins[1] = IF p THEN rom[PcOf(pc + 1)] ELSE NOP_INSTR
  BY DEF Fetch, Pair, Slot
<1>4. pc' = Follows(rom[pc], pc, t, p)
  BY DEF Fetch, IF_next_pc, Follows
<1> QED
  BY <1>1, <1>2, <1>3, <1>4

LEMMA PacketsFlow ==
  ASSUME IdPacket, Flow
  PROVE  IdPacket' /\ ExPacket'
<1>1. PICK n : Decode(n)
  BY DEF Flow
<1>2. PICK p \in MayPair, t \in MayPredictTaken : Fetch(p, t)
  BY DEF Flow
<1>3. rom' = rom
  BY DEF Flow, Drain
<1>4. IdPacket'
  BY <1>2, <1>3, Fetched DEF IdPacket, Issued
<1>5. 0 \in Slot /\ 1 \in Slot
  BY DEF Slot
<1>6. /\ EX_ins(0)' = id.ins[0] /\ EX_ins(1)' = id.ins[1]
      /\ ex'.valid = id.valid /\ ex'.pc = id.pc /\ ex'.pred = id.pred
  BY <1>1, <1>5, Decoded DEF Decode
<1>7. AfterEx' = pc
  BY <1>2, Fetched DEF AfterEx
<1>8. ASSUME ex'.valid
      PROVE  Issued(ex.pc, EX_ins(0), EX_ins(1), ex.pred, AfterEx)'
  <2>1. Issued(id.pc, id.ins[0], id.ins[1], id.pred, pc)
    BY <1>6, <1>8 DEF IdPacket
  <2> QED
    BY <1>3, <1>6, <1>7, <2>1 DEF Issued
<1>9. ASSUME ~ex'.valid
      PROVE  \A s \in Slot : EX_ins(s)' = NOP_INSTR
  BY <1>5, <1>6, <1>9 DEF IdPacket, Slot
<1> QED
  BY <1>4, <1>8, <1>9 DEF ExPacket

LEMMA PacketsStay ==
  ASSUME IdPacket, rom' = rom, pc' = pc, id' = id, ex' = Bubble
  PROVE  IdPacket' /\ ExPacket'
<1>1. IdPacket'
  BY DEF IdPacket, Issued
<1>2. ExPacket'
  BY Emptied DEF ExPacket
<1> QED
  BY <1>1, <1>2

LEMMA PacketsKilled ==
  ASSUME id' = NoPacket, ex' = Bubble
  PROVE  IdPacket' /\ ExPacket'
<1>1. ~id'.valid /\ \A s \in Slot : id'.ins[s] = NOP_INSTR
  BY DEF NoPacket, Pair
<1>2. IdPacket'
  BY <1>1 DEF IdPacket
<1>3. ExPacket'
  BY Emptied DEF ExPacket
<1> QED
  BY <1>2, <1>3

LEMMA PacketsHeld ==
  ASSUME Typed, LPP!IInv, IdPacket, ExPacket, ExecuteBusy
  PROVE  /\ IdPacket' /\ ExPacket'
         /\ \A s \in Slot : /\ EX_ins(s)' = EX_ins(s) /\ EX_pc(s)' = EX_pc(s)
                            /\ EX_forward_A(s)' = EX_forward_A(s)
                            /\ EX_forward_B(s)' = EX_forward_B(s)
                            /\ EX_result(s)' = EX_result(s)
<1>1. rom' = rom /\ pc' = pc /\ id' = id /\ csr' = csr
  BY DEF ExecuteBusy, Drain
<1>2. /\ ex'.pipe_valid = ex.pipe_valid /\ ex'.valid = ex.valid /\ ex'.pc = ex.pc
      /\ ex'.pred = ex.pred /\ ex'.held
      /\ \A s \in Slot : /\ ex'.slot[s].ins = ex.slot[s].ins
                         /\ ex'.slot[s].a = EX_forward_A(s)
                         /\ ex'.slot[s].b = EX_forward_B(s)
  BY HeldType
<1>3. \A s \in Slot : EX_ins(s)' = EX_ins(s) /\ EX_pc(s)' = EX_pc(s)
  BY <1>2 DEF EX_ins, EX_pc
<1>4. \A s \in Slot : /\ EX_forward_A(s)' = EX_forward_A(s)
                      /\ EX_forward_B(s)' = EX_forward_B(s)
  <2>1. \A s \in Slot : EX_forward_A(s)' = ex'.slot[s].a /\ EX_forward_B(s)' = ex'.slot[s].b
    BY <1>2 DEF EX_forward_A, EX_forward_B, select_data
  <2> QED
    BY <1>2, <2>1
<1>5. \A s \in Slot : EX_result(s)' = EX_result(s)
  BY <1>1, <1>3, <1>4 DEF EX_result
<1>6. IdPacket'
  BY <1>1 DEF IdPacket, Issued
<1>7. ExPacket'
  <2>1. EX_ins(0)' = EX_ins(0) /\ EX_ins(1)' = EX_ins(1) /\ AfterEx' = AfterEx
    BY <1>1, <1>3 DEF Slot, AfterEx
  <2>2. ex.valid => Issued(ex.pc, EX_ins(0), EX_ins(1), ex.pred, AfterEx)'
    BY <1>1, <1>2, <2>1 DEF ExPacket, Issued
  <2> QED
    BY <1>2, <1>3, <2>2 DEF ExPacket
<1> QED
  BY <1>3, <1>4, <1>5, <1>6, <1>7


-----------------------------------------------------------------------------
(* The load path follows the pipeline. *)
LEMMA LinkedBehind ==
  ASSUME LPP!IInv, Linked, Drain
  PROVE  \A s \in Slot : Reads(pm2'[s].ins, mem2'.op, pm2'[s].res)
<1>1. pm2' = pm /\ LP!Backend
  BY DEF Drain
<1> QED
  BY <1>1, BackendMoves DEF Linked, Reads

LEMMA LinkedExecute ==
  ASSUME Typed, LPP!IInv, Linked, ExPacket, Drain, Execute
  PROVE  Linked'
<1>1. ExAccess /\ OneAccess
  BY LoadPathTyped, AccessIs, PacketAccess DEF MemTyped, MemWord
<1>2. mem'.op = EX_access
  BY DEF Execute, LP!ToMem, LP!InMem
<1>3. ASSUME NEW s \in Slot, MemRead(EX_ins(s))
      PROVE  EX_access.kind = "load" /\ EX_access.addr = WordOf(EX_result(s))
  <2>1. instr_is_mem(EX_ins(s)) /\ ~instr_is_mem(EX_ins(1 - s))
    BY <1>1, <1>3 DEF OneAccess, instr_is_mem, Slot
  <2>2. EX_access = LP!LoadOp(WordOf(EX_result(s)), ex.slot[s].early)
    BY <1>1, <1>3, <2>1 DEF ExAccess
  <2> QED
    BY <2>2 DEF LP!LoadOp, LP!NoAccess
<1>4. \A s \in Slot : Reads(pm'[s].ins, mem'.op, pm'[s].res)
  BY <1>2, <1>3 DEF Execute, Reads
<1> QED
  BY <1>4, LinkedBehind DEF Linked

LEMMA LinkedHeld ==
  ASSUME LPP!IInv, Linked, ExecuteBusy
  PROVE  Linked'
<1>1. Drain /\ pm' = pm /\ mem' = mem
  BY DEF ExecuteBusy
<1> QED
  BY <1>1, LinkedBehind DEF Linked

LEMMA LinkedKill ==
  ASSUME LPP!IInv, Linked, Kill
  PROVE  Linked'
<1>1. Drain /\ \A s \in Slot : pm'[s].ins = NOP_INSTR
  BY DEF Kill, NoResult
<1>2. ~MemRead(NOP_INSTR)
  BY NopType DEF instr_is_mem
<1> QED
  BY <1>1, <1>2, LinkedBehind DEF Linked, Reads

LEMMA EmptyAccess ==
  ASSUME Typed', MemWord', ex' = Bubble
  PROVE  EX_access' = LP!NoAccess
<1>1. ExAccess'
  <2>1. Typed' /\ MemWord' => ExAccess'
    BY AccessIs, PTL
  <2> QED
    BY <2>1
<1>2. \A s \in Slot : ~instr_is_mem(EX_ins(s)')
  BY Emptied, NopType
<1> QED
  BY <1>1, <1>2 DEF ExAccess

LEMMA LoadPathFlow ==
  ASSUME Typed, LPP!IInv, Drain, Execute, Typed', ExPacket'
  PROVE  LPP!IInv'
<1>1. LP!Backend /\ LP!ToMem
  BY DEF Drain, Execute
<1>2. MemWord'
  BY <1>1, MemWordNext
<1>3. ExPacket' => OneAccess'
  BY PacketAccess, PTL
<1>4. Typed' /\ MemWord' /\ OneAccess' => Offered' /\ (EX_access \in LPP!Access)'
  BY AccessOffered, PTL
<1>5. EX_access' \in LPP!Access
  BY <1>2, <1>3, <1>4 DEF LPP!Access, LPP!Addr, LPP!DataWord
<1> QED
  BY <1>1, <1>5, LoadPathNext

LEMMA LoadPathKill ==
  ASSUME Typed, LPP!IInv, Kill, Typed'
  PROVE  LPP!IInv'
<1>1. LP!Backend /\ LP!FlushMem /\ ex' = Bubble
  BY DEF Kill, Drain
<1>2. MemWord'
  BY <1>1, MemWordNext
<1>3. EX_access' = LP!NoAccess
  BY <1>1, <1>2, EmptyAccess
<1> QED
  BY <1>1, <1>3, LoadPathNext

LEMMA AccessHeld ==
  ASSUME Typed, LPP!IInv, IdPacket, ExPacket, ExecuteBusy, Typed'
  PROVE  EX_access' = EX_access
<1>1. LP!Backend /\ mem' = mem
  BY DEF ExecuteBusy, Drain
<1>2. MemWord /\ MemWord'
  BY <1>1, MemWordNext, LoadPathTyped DEF MemTyped, MemWord
<1>3. ExAccess /\ ExAccess' /\ OneAccess
  <2>1. Typed' /\ MemWord' => ExAccess'
    BY AccessIs, PTL
  <2> QED
    BY <1>2, <2>1, AccessIs, PacketAccess
<1>4. \A s \in Slot : /\ EX_ins(s)' = EX_ins(s) /\ EX_result(s)' = EX_result(s)
                      /\ EX_forward_B(s)' = EX_forward_B(s)
                      /\ ex'.slot[s].early = ex.slot[s].early
  BY PacketsHeld, HeldType
<1>5. CASE \A s \in Slot : ~instr_is_mem(EX_ins(s))
  BY <1>3, <1>4, <1>5 DEF ExAccess
<1>6. ASSUME NEW s \in Slot, instr_is_mem(EX_ins(s))
      PROVE  EX_access' = EX_access
  <2>1. 1 - s \in Slot /\ ~instr_is_mem(EX_ins(1 - s))
    BY <1>3, <1>6 DEF OneAccess, Slot
  <2> QED
    BY <1>3, <1>4, <1>6, <2>1 DEF ExAccess
<1> QED
  BY <1>5, <1>6

LEMMA LoadPathHeld ==
  ASSUME Typed, LPP!IInv, IdPacket, ExPacket, ExecuteBusy, Typed'
  PROVE  LPP!IInv'
<1>1. LP!Backend /\ mem' = mem
  BY DEF ExecuteBusy, Drain
<1> QED
  BY <1>1, AccessHeld, LoadPathNext


-----------------------------------------------------------------------------
(* The operand that ID selects is the one of program order when the packet *)
(* is in EX.                                                               *)
Operand(rs) ==
  LET sel == select_id_forward(rs)
  IN IF sel = "EX_S1" THEN MEM_forward_data(1)'
     ELSE IF sel = "EX" THEN MEM_forward_data(0)' ELSE resolve_id_operand(sel, rs)

LEMMA ArchNext ==
  ASSUME Typed, LPP!IInv, Linked, Drain, Typed', LPP!IInv', NEW x \in RegNo
  PROVE  arch_regs'[x] =
           IF x # 0 /\ Dest(pm'[1].ins) = x THEN MEM_wdata(1)'
           ELSE IF x # 0 /\ Dest(pm'[0].ins) = x THEN MEM_wdata(0)' ELSE arch_regs[x]
<1>1. Mem2Regs' = arch_regs
  BY Drained
<1>2. arch_regs' = Retire(Mem2Regs', pm'[0].ins, MEM_wdata(0)', pm'[1].ins, MEM_wdata(1)')
  <2>1. (arch_regs = Retire(Mem2Regs, pm[0].ins, MEM_wdata(0), pm[1].ins, MEM_wdata(1)))'
    BY ArchRegs, PTL
  <2> QED
    BY <2>1
<1>3. Written'
  <2>1. Typed' /\ LPP!IInv' => Written'
    BY WrittenTyped, PTL
  <2> QED
    BY <2>1
<1>4. MEM_wdata(0)' \in Value /\ MEM_wdata(1)' \in Value /\ arch_regs \in [RegNo -> Value]
  BY <1>3, WrittenTyped DEF Written, Slot
<1>5. pm'[0].ins \in Instr /\ pm'[1].ins \in Instr
  BY DEF Typed, TypeOK, Slot
<1>6. Retire(arch_regs, pm'[0].ins, MEM_wdata(0)', pm'[1].ins, MEM_wdata(1)')[x] =
        IF x # 0 /\ Dest(pm'[1].ins) = x THEN MEM_wdata(1)'
        ELSE IF x # 0 /\ Dest(pm'[0].ins) = x THEN MEM_wdata(0)' ELSE arch_regs[x]
  BY ONLY <1>4, <1>5, RetireAt, x \in RegNo
<1> QED
  BY <1>1, <1>2, <1>6

LEMMA Forwarded ==
  ASSUME Typed, LPP!IInv, Linked, Drain, Execute, Typed', LPP!IInv', Linked', ~Stall_ID,
         NEW rs \in RegNo, ID_uses(rs)
  PROVE  arch_regs'[rs] = Operand(rs)
<1>1. ~load_use_ex /\ ~load_use_mem /\ ~Stall_LateSubword
  BY DEF Stall_ID
<1>2. 0 \in Slot /\ 1 \in Slot /\ pm'[0].ins = EX_ins(0) /\ pm'[1].ins = EX_ins(1)
  BY DEF Execute, Slot
<1>3. arch_regs'[rs] =
        IF rs # 0 /\ Dest(EX_ins(1)) = rs THEN MEM_wdata(1)'
        ELSE IF rs # 0 /\ Dest(EX_ins(0)) = rs THEN MEM_wdata(0)' ELSE arch_regs[rs]
  BY <1>2, ArchNext
<1>4. reg_file_read(rs) = WbRegs[rs]
  BY RegFile DEF reg_file_read, WbRegs
<1>5. CASE rs = 0
  <2>1. select_id_forward(rs) = "RF" /\ arch_regs[rs] = WbRegs[rs]
    BY <1>5, Selected, ArchAt
  <2> QED
    BY <1>3, <1>4, <1>5, <2>1 DEF Operand, resolve_id_operand
<1>6. CASE rs # 0 /\ Dest(EX_ins(1)) = rs
  <2>1. select_id_forward(rs) = "EX_S1"
    BY <1>6, Selected
  <2>2. MEM_forward_data(1)' = MEM_wdata(1)'
    BY <1>1, <1>2, <1>6, ForwardFromEx
  <2> QED
    BY <1>3, <1>6, <2>1, <2>2 DEF Operand
<1>7. CASE rs # 0 /\ Dest(EX_ins(1)) # rs /\ Dest(EX_ins(0)) = rs
  <2>1. select_id_forward(rs) = "EX"
    BY <1>7, Selected
  <2>2. MEM_forward_data(0)' = MEM_wdata(0)'
    BY <1>1, <1>2, <1>7, ForwardFromEx
  <2> QED
    BY <1>3, <1>7, <2>1, <2>2 DEF Operand
<1>8. CASE rs # 0 /\ Dest(EX_ins(1)) # rs /\ Dest(EX_ins(0)) # rs
  <2>1. arch_regs'[rs] = arch_regs[rs]
    BY <1>3, <1>8
  <2>2. CASE Dest(pm[1].ins) = rs
    <3>1. select_id_forward(rs) = "MEM_S1" /\ arch_regs[rs] = MEM_wdata(1)
      BY <1>8, <2>2, Selected, ArchAt
    <3>2. MEM_resolved_forward_data(1) = MEM_wdata(1)
      BY <1>1, <1>2, <1>8, <2>2, ForwardFromMem
    <3> QED
      BY <2>1, <3>1, <3>2 DEF Operand, resolve_id_operand
  <2>3. CASE Dest(pm[1].ins) # rs /\ Dest(pm[0].ins) = rs
    <3>1. select_id_forward(rs) = "MEM" /\ arch_regs[rs] = MEM_wdata(0)
      BY <1>8, <2>3, Selected, ArchAt
    <3>2. MEM_resolved_forward_data(0) = MEM_wdata(0)
      BY <1>1, <1>2, <1>8, <2>3, ForwardFromMem
    <3> QED
      BY <2>1, <3>1, <3>2 DEF Operand, resolve_id_operand
  <2>4. CASE Dest(pm[1].ins) # rs /\ Dest(pm[0].ins) # rs /\ Dest(pm2[1].ins) = rs
    <3>1. select_id_forward(rs) = "MEM2_S1" /\ arch_regs[rs] = MEM2_wdata(1)
      BY <1>8, <2>4, Selected, ArchAt
    <3>2. MEM2_operand(1) = MEM2_wdata(1)
      BY <1>1, <1>2, <1>8, <2>4, ForwardFromMem2
    <3> QED
      BY <2>1, <3>1, <3>2 DEF Operand, resolve_id_operand
  <2>5. CASE /\ Dest(pm[1].ins) # rs /\ Dest(pm[0].ins) # rs
             /\ Dest(pm2[1].ins) # rs /\ Dest(pm2[0].ins) = rs
    <3>1. select_id_forward(rs) = "MEM2" /\ arch_regs[rs] = MEM2_wdata(0)
      BY <1>8, <2>5, Selected, ArchAt
    <3>2. MEM2_operand(0) = MEM2_wdata(0)
      BY <1>1, <1>2, <1>8, <2>5, ForwardFromMem2
    <3> QED
      BY <2>1, <3>1, <3>2 DEF Operand, resolve_id_operand
  <2>6. CASE /\ Dest(pm[1].ins) # rs /\ Dest(pm[0].ins) # rs
             /\ Dest(pm2[1].ins) # rs /\ Dest(pm2[0].ins) # rs
    <3>1. select_id_forward(rs) = "RF" /\ arch_regs[rs] = WbRegs[rs]
      BY <1>8, <2>6, Selected, ArchAt
    <3> QED
      BY <1>4, <2>1, <3>1 DEF Operand, resolve_id_operand
  <2> QED
    BY <2>2, <2>3, <2>4, <2>5, <2>6
<1> QED
  BY <1>5, <1>6, <1>7, <1>8

LEMMA OperandsFlow ==
  ASSUME Typed, LPP!IInv, Linked, Flow, Typed', LPP!IInv', Linked'
  PROVE  OperandsArchitectural'
<1>1. PICK n : Decode(n)
  BY DEF Flow
<1>2. Drain /\ Execute /\ ~Stall_ID
  BY DEF Flow, Stall_Front
<1>3. ~ex'.held /\ \A s \in Slot : ex'.slot[s] = ToEX(id.ins[s]) /\ EX_ins(s)' = id.ins[s]
  BY <1>1, Decoded DEF Decode
<1>4. ASSUME NEW s \in Slot
      PROVE  /\ EX_forward_A(s)' = Operand(id.ins[s].rs1)
             /\ EX_forward_B(s)' = Operand(id.ins[s].rs2)
  <2> DEFINE x == id.ins[s].rs1
             y == id.ins[s].rs2
  <2>1. /\ ex'.slot[s].fa = select_id_forward(x)
        /\ ex'.slot[s].a = resolve_id_operand(select_id_forward(x), x)
        /\ ex'.slot[s].fb = select_id_forward(y)
        /\ ex'.slot[s].b = resolve_id_operand(select_id_forward(y), y)
    <3>1. ex'.slot[s] = ToEX(id.ins[s])
      BY <1>3
    <3>2. /\ ToEX(id.ins[s]).fa = select_id_forward(x)
          /\ ToEX(id.ins[s]).a = resolve_id_operand(select_id_forward(x), x)
          /\ ToEX(id.ins[s]).fb = select_id_forward(y)
          /\ ToEX(id.ins[s]).b = resolve_id_operand(select_id_forward(y), y)
      BY DEF ToEX
    <3> QED
      BY <3>1, <3>2
  <2> HIDE DEF x, y
  <2>2. EX_forward_A(s)' = Operand(x)
    BY <1>3, <2>1 DEF EX_forward_A, select_data, Operand
  <2>3. EX_forward_B(s)' = Operand(y)
    BY <1>3, <2>1 DEF EX_forward_B, select_data, Operand
  <2> QED
    BY <2>2, <2>3 DEF x, y
<1>5. ASSUME NEW s \in Slot
      PROVE  /\ uses_rs1(id.ins[s]) => arch_regs'[id.ins[s].rs1] = Operand(id.ins[s].rs1)
             /\ uses_rs2(id.ins[s]) => arch_regs'[id.ins[s].rs2] = Operand(id.ins[s].rs2)
  <2>1. id.ins[s] \in Instr
    BY DEF Typed, TypeOK
  <2>2. id.ins[s].rs1 \in RegNo /\ id.ins[s].rs2 \in RegNo
    BY <2>1, InstrType
  <2>3. /\ uses_rs1(id.ins[s]) => ID_uses(id.ins[s].rs1)
        /\ uses_rs2(id.ins[s]) => ID_uses(id.ins[s].rs2)
    BY DEF ID_uses
  <2> QED
    BY <1>2, <2>2, <2>3, Forwarded
<1> QED
  BY <1>3, <1>4, <1>5 DEF OperandsArchitectural


LEMMA OperandsHeld ==
  ASSUME Typed, LPP!IInv, Linked, IdPacket, ExPacket, OperandsArchitectural, ExecuteBusy,
         Typed', LPP!IInv'
  PROVE  OperandsArchitectural' /\ arch_regs' = arch_regs
<1>1. Drain /\ pm' = pm /\ mem' = mem /\ redirect' = redirect /\ ~redirect.valid
  BY DEF ExecuteBusy, EX_any_busy, EX_busy
<1>2. bram' = bram \/ \A s \in Slot : ~MemRead(pm[s].ins)
  BY <1>1, BackendMoves DEF Drain, Linked, Reads
<1>3. \A s \in Slot : MEM_wdata(s)' = MEM_wdata(s)
  BY <1>1, <1>2 DEF MEM_wdata
<1>4. \A x \in RegNo : arch_regs'[x] = arch_regs[x]
  <2> SUFFICES ASSUME NEW x \in RegNo
               PROVE  arch_regs'[x] = arch_regs[x]
    OBVIOUS
  <2>1. arch_regs'[x] = IF x # 0 /\ Dest(pm[1].ins) = x THEN MEM_wdata(1)
                        ELSE IF x # 0 /\ Dest(pm[0].ins) = x THEN MEM_wdata(0)
                        ELSE arch_regs[x]
    BY <1>1, <1>3, ArchNext DEF Slot
  <2> QED
    BY <2>1, ArchAt
<1>5. arch_regs \in [RegNo -> Value] /\ arch_regs' \in [RegNo -> Value]
  <2>1. Typed' /\ LPP!IInv' => Written'
    BY WrittenTyped, PTL
  <2> QED
    BY <2>1, WrittenTyped DEF Written
<1>6. arch_regs' = arch_regs
  BY <1>4, <1>5
<1>7. /\ ex'.valid = ex.valid
      /\ \A s \in Slot : /\ EX_ins(s)' = EX_ins(s)
                         /\ EX_forward_A(s)' = EX_forward_A(s)
                         /\ EX_forward_B(s)' = EX_forward_B(s)
  BY HeldType, PacketsHeld
<1>8. OperandsArchitectural'
  BY <1>1, <1>6, <1>7 DEF OperandsArchitectural
<1> QED
  BY <1>6, <1>8

LEMMA OperandsEmpty ==
  ASSUME ex' = Bubble
  PROVE  OperandsArchitectural'
BY Emptied DEF OperandsArchitectural

-----------------------------------------------------------------------------
(* The invariant is inductive. *)
LEMMA InvFlow ==
  ASSUME Inv, Flow
  PROVE  Inv'
<1>1. Typed /\ LPP!IInv /\ Linked /\ IdPacket /\ ExPacket /\ Drain /\ Execute
  BY DEF Inv, Flow
<1>2. Typed' /\ IdPacket' /\ ExPacket'
  BY <1>1, TypedFlow, PacketsFlow
<1>3. LPP!IInv' /\ Linked'
  BY <1>1, <1>2, LoadPathFlow, LinkedExecute
<1>4. OperandsArchitectural'
  BY <1>1, <1>2, <1>3, OperandsFlow
<1> QED
  BY <1>2, <1>3, <1>4 DEF Inv

LEMMA InvHazardStall ==
  ASSUME Inv, HazardStall
  PROVE  Inv'
<1>1. Typed /\ LPP!IInv /\ Linked /\ IdPacket /\ ExPacket
  BY DEF Inv
<1>2. Drain /\ Execute /\ rom' = rom /\ pc' = pc /\ id' = id /\ ex' = Bubble
  BY DEF HazardStall, Drain
<1>3. Typed' /\ IdPacket' /\ ExPacket'
  BY <1>1, <1>2, TypedHazardStall, PacketsStay
<1>4. LPP!IInv' /\ Linked'
  BY <1>1, <1>2, <1>3, LoadPathFlow, LinkedExecute
<1>5. OperandsArchitectural'
  BY <1>2, OperandsEmpty
<1> QED
  BY <1>3, <1>4, <1>5 DEF Inv

LEMMA InvExecuteBusy ==
  ASSUME Inv, ExecuteBusy
  PROVE  Inv'
<1>1. Typed /\ LPP!IInv /\ Linked /\ IdPacket /\ ExPacket /\ OperandsArchitectural
  BY DEF Inv
<1>2. Typed' /\ IdPacket' /\ ExPacket'
  BY <1>1, TypedExecuteBusy, PacketsHeld
<1>3. LPP!IInv' /\ Linked'
  BY <1>1, <1>2, LoadPathHeld, LinkedHeld
<1>4. OperandsArchitectural'
  BY <1>1, <1>2, <1>3, OperandsHeld
<1> QED
  BY <1>2, <1>3, <1>4 DEF Inv

LEMMA InvKill ==
  ASSUME Inv, Kill
  PROVE  Inv'
<1>1. Typed /\ LPP!IInv /\ Linked
  BY DEF Inv
<1>2. ex' = Bubble /\ id' = NoPacket
  BY DEF Kill
<1>3. Typed' /\ IdPacket' /\ ExPacket'
  BY <1>1, <1>2, TypedKill, PacketsKilled
<1>4. LPP!IInv' /\ Linked'
  BY <1>1, <1>3, LoadPathKill, LinkedKill
<1>5. OperandsArchitectural'
  BY <1>2, OperandsEmpty
<1> QED
  BY <1>3, <1>4, <1>5 DEF Inv


LEMMA InitInv == Init => Inv
<1> SUFFICES ASSUME Init
             PROVE  Inv
  OBVIOUS
<1>1. 0 \in Value /\ 0 \in PC
  BY Sizes DEF Value, PC
<1>2. ex = Bubble /\ id = NoPacket /\ pm = NoResult /\ pm2 = NoResult
  BY DEF Init
<1>3. Typed
  <2>1. rom \in [PC -> Instr] /\ pc \in PC /\ regs \in [RegNo -> Value]
    BY <1>1, ProgramAssumption, ResetAssumption DEF Init
  <2>2. csr \in [CsrNo -> Value] /\ redirect \in [valid : BOOLEAN, target : PC]
    BY <1>1 DEF Init
  <2>3. id \in [valid : BOOLEAN, pc : PC, ins : [Slot -> Instr], pred : BOOLEAN]
    BY <1>1, <1>2, NopType DEF NoPacket, Pair
  <2>4. ex \in ExReg /\ ~ex.valid
    BY <1>2, BubbleType DEF Bubble
  <2>5. pm \in [Slot -> [ins : Instr, res : Value]] /\ pm2 \in [Slot -> [ins : Instr, res : Value]]
    BY <1>1, <1>2, NopType DEF NoResult
  <2>6. wb \in [Slot -> [ins : Instr, data : Value]]
    BY <1>1, NopType DEF Init
  <2> QED
    BY <2>1, <2>2, <2>3, <2>4, <2>5, <2>6 DEF Typed, TypeOK, ExReg, ExSlot
<1>4. ~ex.valid /\ \A s \in Slot : EX_ins(s) = NOP_INSTR
  BY <1>2 DEF Bubble, EX_ins
<1>5. LPP!IInv
  <2>1. LP!InitBuffers /\ bram \in [WordNo -> DataWord]
    BY ResetAssumption DEF Init
  <2>2. MemWord
    BY <2>1, AnyWordType DEF LP!InitBuffers, LP!InMem, MemWord
  <2>3. EX_access = LP!NoAccess
    BY <1>3, <1>4, <2>2, AccessIs, NopType DEF ExAccess
  <2> QED
    BY <2>1, <2>3, LoadPathStart
<1>6. Linked
  <2>1. \A s \in Slot : pm[s].ins = NOP_INSTR /\ pm2[s].ins = NOP_INSTR
    BY <1>2 DEF NoResult
  <2>2. ~MemRead(NOP_INSTR)
    BY NopType DEF instr_is_mem
  <2> QED
    BY <2>1, <2>2 DEF Linked, Reads
<1>7. IdPacket
  BY <1>2 DEF NoPacket, Pair, IdPacket
<1>8. ExPacket /\ OperandsArchitectural
  BY <1>4 DEF ExPacket, OperandsArchitectural
<1> QED
  BY <1>3, <1>5, <1>6, <1>7, <1>8 DEF Inv

LEMMA ExUnchanged ==
  ASSUME UNCHANGED vars
  PROVE  /\ \A s \in Slot : /\ EX_ins(s)' = EX_ins(s) /\ EX_forward_A(s)' = EX_forward_A(s)
                            /\ EX_forward_B(s)' = EX_forward_B(s)
         /\ EX_access' = EX_access /\ arch_regs' = arch_regs
<1>1. /\ pc' = pc /\ id' = id /\ ex' = ex /\ pm' = pm /\ pm2' = pm2 /\ wb' = wb
      /\ regs' = regs /\ csr' = csr /\ bram' = bram /\ bram_q' = bram_q
      /\ resp_valid' = resp_valid /\ mem' = mem
  BY DEF vars, cpu, memory
<1>2. \A s \in Slot : EX_ins(s)' = EX_ins(s) /\ MEM_forward_data(s)' = MEM_forward_data(s)
  BY <1>1 DEF EX_ins, MEM_forward_data
<1>3. \A s \in Slot : EX_forward_A(s)' = EX_forward_A(s) /\ EX_forward_B(s)' = EX_forward_B(s)
  BY <1>1, <1>2 DEF EX_forward_A, EX_forward_B, select_data, Slot
<1>4. \A s \in Slot : EX_result(s)' = EX_result(s)
  BY <1>1, <1>2, <1>3 DEF EX_result, EX_pc
<1>5. EX_mem_slot' = EX_mem_slot
  BY <1>2 DEF EX_mem_slot
<1>6. EX_access' = EX_access
  <2>1. CASE EX_mem_slot = {}
    BY <1>5, <2>1 DEF EX_access
  <2>2. CASE EX_mem_slot # {}
    <3>1. PICK u \in Slot : u = CHOOSE s \in EX_mem_slot : TRUE
      BY <2>2 DEF EX_mem_slot
    <3>2. u = CHOOSE s \in EX_mem_slot' : TRUE
      BY <1>5, <3>1
    <3>3. /\ EX_ins(u)' = EX_ins(u) /\ EX_result(u)' = EX_result(u)
          /\ EX_forward_B(u)' = EX_forward_B(u)
      BY <1>2, <1>3, <1>4
    <3> QED
      BY <1>1, <1>5, <3>1, <3>2, <3>3 DEF EX_access
  <2> QED
    BY <2>1, <2>2
<1>7. arch_regs' = arch_regs
  <2>1. \A s \in Slot : MEM_wdata(s)' = MEM_wdata(s) /\ MEM2_wdata(s)' = MEM2_wdata(s)
    BY <1>1 DEF MEM_wdata, MEM2_wdata, LP!perip_rdata
  <2> QED
    BY <1>1, <2>1 DEF arch_regs, reg_file_write
<1> QED
  BY <1>2, <1>3, <1>6, <1>7

LEMMA InvStutter ==
  ASSUME Inv, UNCHANGED vars
  PROVE  Inv'
<1>1. /\ rom' = rom /\ pc' = pc /\ id' = id /\ ex' = ex /\ pm' = pm /\ pm2' = pm2 /\ wb' = wb
      /\ regs' = regs /\ csr' = csr /\ redirect' = redirect /\ mem' = mem /\ mem2' = mem2
  BY DEF vars, cpu, memory
<1>2. Typed'
  BY <1>1 DEF Inv, Typed, TypeOK
<1>3. LPP!IInv'
  <2>1. UNCHANGED LPP!vars
    BY ExUnchanged DEF LPP!vars, vars, memory
  <2> QED
    BY <2>1, LPP!NextIInv, LoadPathFits DEF Inv, LoadPathAssumptions,
       LPP!RegionAssumption, LPP!FieldAssumption, LPP!WordFieldAssumption,
       LPP!DeviceAssumption, LPP!StoreAssumption, LPP!NonEmptyAssumption
<1>4. Linked'
  BY <1>1 DEF Inv, Linked, Reads
<1>5. IdPacket'
  BY <1>1 DEF Inv, IdPacket, Issued
<1>6. ExPacket'
  <2>1. EX_ins(0)' = EX_ins(0) /\ EX_ins(1)' = EX_ins(1)
    BY ExUnchanged DEF Slot
  <2>2. ExPacket
    BY DEF Inv
  <2> QED
    BY <1>1, <2>1, <2>2, ExUnchanged DEF ExPacket, Issued, AfterEx
<1>7. OperandsArchitectural'
  BY <1>1, ExUnchanged DEF Inv, OperandsArchitectural
<1> QED
  BY <1>2, <1>3, <1>4, <1>5, <1>6, <1>7 DEF Inv

LEMMA SpecInv == Spec => []Inv
<1>1. Inv /\ [Next]_vars => Inv'
  BY InvFlow, InvHazardStall, InvExecuteBusy, InvKill, InvStutter DEF Next
<1> QED
  BY <1>1, InitInv, PTL DEF Spec

(* For every program, register file, word width, memory and cache          *)
(* geometry: a packet that will not be killed computes with the registers  *)
(* that program order gives it (mycpu.sv:322, forwarding_unit.sv:22).      *)
THEOREM OperandsAlways == Spec => []PipelineInv
<1>1. Inv => PipelineInv
  BY DEF Inv, Typed, PipelineInv
<1> QED
  BY <1>1, SpecInv, PTL


-----------------------------------------------------------------------------
(* The load path sees an environment that LoadPath allows. *)
LEMMA AdvanceAllowed ==
  ASSUME LP!Backend, LP!ToMem, Typed', LPP!IInv', ExPacket'
  PROVE  LP!Next
<1>1. Offered'
  <2>1. LPP!IInv' => MemTyped'
    BY LoadPathTyped, PTL
  <2>2. ExPacket' => OneAccess'
    BY PacketAccess, PTL
  <2>3. Typed' /\ MemWord' /\ OneAccess' => Offered' /\ (EX_access \in LPP!Access)'
    BY AccessOffered, PTL
  <2>4. MemWord'
    BY <2>1 DEF MemTyped, MemWord
  <2> QED
    BY <2>2, <2>3, <2>4
<1>2. CASE EX_access' = LP!NoAccess
  <2>1. LP!Advance(LP!NoAccess)
    BY <1>2 DEF LP!Advance
  <2> QED
    BY <2>1 DEF LP!Next
<1>3. ASSUME NEW a \in WordNo, NEW e \in BOOLEAN, EX_access' = LP!LoadOp(a, e)
      PROVE  LP!Next
  <2>1. a \in LP!Addr /\ LP!Advance(LP!LoadOp(a, e))
    BY <1>3, SameData DEF LP!Advance
  <2> QED
    BY <2>1 DEF LP!Next
<1>4. ASSUME NEW a \in WordNo, NEW ln \in {Lane, {0}, {1}}, NEW d \in DataWord,
             EX_access' = LP!StoreOp(a, ln, d)
      PROVE  LP!Next
  <2>1. a \in LP!Addr /\ LP!Advance(LP!StoreOp(a, ln, d))
    BY <1>4, SameData DEF LP!Advance
  <2> QED
    BY <2>1 DEF LP!Next
<1> QED
  BY <1>1, <1>2, <1>3, <1>4 DEF Offered

LEMMA StepAllowed ==
  ASSUME Inv, Inv', [Next]_vars
  PROVE  LP!Next \/ UNCHANGED LP!vars
<1>1. Typed' /\ LPP!IInv' /\ ExPacket' /\ LPP!IInv
  BY DEF Inv
<1>2. CASE Flow
  <2>1. LP!Backend /\ LP!ToMem
    BY <1>2 DEF Flow, Drain, Execute
  <2> QED
    BY <1>1, <2>1, AdvanceAllowed
<1>3. CASE HazardStall
  <2>1. LP!Backend /\ LP!ToMem
    BY <1>3 DEF HazardStall, Drain, Execute
  <2> QED
    BY <1>1, <2>1, AdvanceAllowed
<1>4. CASE ExecuteBusy
  <2>1. LP!Backend /\ mem' = mem
    BY <1>4 DEF ExecuteBusy, Drain
  <2>2. EX_access' = EX_access
    BY <1>4, AccessHeld DEF Inv
  <2>3. LP!Busy
    BY <2>1, <2>2 DEF LP!Busy
  <2> QED
    BY <2>3 DEF LP!Next
<1>5. CASE Kill
  <2>1. LP!Backend /\ LP!FlushMem /\ ex' = Bubble
    BY <1>5 DEF Kill, Drain
  <2>2. MemWord'
    BY <1>1, <2>1, MemWordNext
  <2>3. EX_access' = LP!NoAccess
    BY <1>1, <2>1, <2>2, EmptyAccess
  <2>4. LP!Redirect
    BY <2>1, <2>3 DEF LP!Redirect
  <2> QED
    BY <2>4 DEF LP!Next
<1>6. CASE UNCHANGED vars
  <2>1. UNCHANGED LP!vars
    BY <1>6, ExUnchanged DEF LP!vars, vars, memory
  <2> QED
    BY <2>1
<1> QED
  BY <1>2, <1>3, <1>4, <1>5, <1>6 DEF Next

LEMMA StartAllowed == Init => LP!Init
<1> SUFFICES ASSUME Init
             PROVE  LP!Init
  OBVIOUS
<1>1. Typed /\ LPP!IInv
  BY InitInv DEF Inv
<1>2. MemWord
  BY <1>1, LoadPathTyped DEF MemTyped, MemWord
<1>3. \A s \in Slot : EX_ins(s) = NOP_INSTR
  BY DEF Init, Bubble, EX_ins
<1>4. EX_access = LP!NoAccess
  BY <1>1, <1>2, <1>3, AccessIs, NopType DEF ExAccess
<1> QED
  BY <1>4, ResetAssumption, SameData DEF Init, LP!Init

(* The pipeline is an environment of the load path such as LoadPath        *)
(* assumes: EX holds one access, an access that waits behind an M          *)
(* instruction is repeated unchanged and a killed one leaves nothing.      *)
THEOREM LoadPathDriven == Spec => DrivesLoadPath
<1>1. Inv /\ Inv' /\ [Next]_vars => [LP!Next]_(LP!vars)
  BY StepAllowed
<1> QED
  BY <1>1, StartAllowed, SpecInv, PTL DEF Spec, DrivesLoadPath, LP!Spec


-----------------------------------------------------------------------------
(* What one instruction does, as the definitions of RV32 give it. *)
Loaded(m, i, r) == IF MemRead(i) THEN Load(i, r, m[WordOf(r)]) ELSE r

Stored(m, i, r, b) ==
  IF MemWrite(i)
  THEN [m EXCEPT ![WordOf(r)] = MergeLanes(@, store_data(i, b), store_lanes(i, r))]
  ELSE m

Effect(st, i, a, b) ==
  LET r == ExResult(i, st.pc, a, b, st.csr)
  IN [pc   |-> NextPc(i, st.pc, a, b, st.csr),
      regs |-> WriteReg(st.regs, i, Loaded(st.mem, i, r)),
      mem  |-> Stored(st.mem, i, r, b),
      csr  |-> CsrNext(i, st.pc, a, st.csr)]

(* The definitions of RV32 that ISA uses are those of the pipeline. *)
LEMMA SameSizes ==
  /\ Arch!Modulus = Modulus /\ Arch!Lane = Lane /\ Arch!MTVEC = MTVEC /\ Arch!MEPC = MEPC
  /\ Arch!IType = IType /\ Arch!ILType = ILType /\ Arch!SType = SType
  /\ Arch!PC = PC /\ Arch!Instr = Instr /\ Arch!CsrNo = CsrNo
  /\ \A a : Arch!WordOf(a) = WordOf(a) /\ Arch!PcOf(a) = PcOf(a) /\ Arch!LaneOf(a) = LaneOf(a)
<1>1. /\ Arch!Modulus = Modulus /\ Arch!Lane = Lane /\ Arch!MTVEC = MTVEC /\ Arch!MEPC = MEPC
      /\ Arch!PC = PC
  BY DEF Arch!Modulus, Modulus, Arch!Lane, Lane, Arch!MTVEC, MTVEC, Arch!MEPC, MEPC, Arch!PC, PC
<1>2. Arch!IType = IType /\ Arch!ILType = ILType /\ Arch!SType = SType
  BY DEF Arch!IType, IType, Arch!ILType, ILType, Arch!SType, SType
<1>3. Arch!CsrNo = CsrNo
  BY <1>1 DEF Arch!CsrNo, CsrNo
<1>4. Arch!Instr = Instr
  <2>1. Arch!Op = Op
    BY <1>2 DEF Arch!Op, Op, Arch!RType, RType, Arch!UType, UType
  <2>2. Arch!RegNo = RegNo /\ Arch!Value = Value
    BY <1>1 DEF Arch!RegNo, RegNo, Arch!Value, Value
  <2> QED
    BY <1>3, <2>1, <2>2 DEF Arch!Instr, Instr
<1>5. \A a : Arch!WordOf(a) = WordOf(a) /\ Arch!PcOf(a) = PcOf(a) /\ Arch!LaneOf(a) = LaneOf(a)
  BY DEF Arch!WordOf, WordOf, Arch!PcOf, PcOf, Arch!LaneOf, LaneOf
<1> QED
  BY <1>1, <1>2, <1>3, <1>4, <1>5

LEMMA SameAccess ==
  ASSUME NEW i, NEW a, NEW b, NEW w, NEW ln
  PROVE  /\ Arch!MemRead(i) <=> MemRead(i)
         /\ Arch!MemWrite(i) <=> MemWrite(i)
         /\ Arch!RegWrite(i) <=> RegWrite(i)
         /\ Arch!Load(i, a, w) = Load(i, a, w)
         /\ Arch!store_lanes(i, a) = store_lanes(i, a)
         /\ Arch!store_data(i, b) = store_data(i, b)
         /\ Arch!MergeLanes(w, b, ln) = MergeLanes(w, b, ln)
<1>1. /\ Arch!MemRead(i) <=> MemRead(i)
      /\ Arch!MemWrite(i) <=> MemWrite(i)
      /\ Arch!RegWrite(i) <=> RegWrite(i)
  BY SameSizes DEF Arch!MemRead, MemRead, Arch!MemWrite, MemWrite, Arch!RegWrite, RegWrite
<1>2. Arch!Load(i, a, w) = Load(i, a, w)
  BY SameSizes DEF Arch!Load, Load, Arch!FromWord, FromWord
<1>3. Arch!store_lanes(i, a) = store_lanes(i, a)
  BY SameSizes DEF Arch!store_lanes, store_lanes
<1>4. Arch!store_data(i, b) = store_data(i, b)
  BY SameSizes DEF Arch!store_data, store_data, Arch!ToWord, ToWord
<1>5. Arch!MergeLanes(w, b, ln) = MergeLanes(w, b, ln)
  BY SameSizes DEF Arch!MergeLanes, MergeLanes
<1> QED
  BY <1>1, <1>2, <1>3, <1>4, <1>5

LEMMA SameEffects ==
  ASSUME NEW i, NEW p, NEW a, NEW b, NEW c, NEW r, NEW v
  PROVE  /\ Arch!ExResult(i, p, a, b, c) = ExResult(i, p, a, b, c)
         /\ Arch!NextPc(i, p, a, b, c) = NextPc(i, p, a, b, c)
         /\ Arch!CsrNext(i, p, a, c) = CsrNext(i, p, a, c)
         /\ Arch!WriteReg(r, i, v) = WriteReg(r, i, v)
<1>1. Arch!ExResult(i, p, a, b, c) = ExResult(i, p, a, b, c)
  BY SameSizes DEF Arch!ExResult, ExResult
<1>2. Arch!NextPc(i, p, a, b, c) = NextPc(i, p, a, b, c)
  BY SameSizes DEF Arch!NextPc, NextPc, Arch!branch_target, branch_target
<1>3. Arch!CsrNext(i, p, a, c) = CsrNext(i, p, a, c)
  BY SameSizes DEF Arch!CsrNext, CsrNext
<1>4. Arch!WriteReg(r, i, v) = WriteReg(r, i, v)
  BY SameAccess DEF Arch!WriteReg, WriteReg
<1> QED
  BY <1>1, <1>2, <1>3, <1>4

LEMMA StepIs ==
  ASSUME NEW st
  PROVE  Arch!Step(st) =
           Effect(st, rom[st.pc], st.regs[rom[st.pc].rs1], st.regs[rom[st.pc].rs2])
<1> DEFINE i == rom[st.pc]
           a == st.regs[i.rs1]
           b == st.regs[i.rs2]
           r == ExResult(i, st.pc, a, b, st.csr)
<1>1. Arch!ExResult(i, st.pc, a, b, st.csr) = r
  BY SameEffects
<1>2. /\ Arch!NextPc(i, st.pc, a, b, st.csr) = NextPc(i, st.pc, a, b, st.csr)
      /\ Arch!CsrNext(i, st.pc, a, st.csr) = CsrNext(i, st.pc, a, st.csr)
  BY SameEffects
<1> HIDE DEF i, a, b, r
<1>3. Arch!WordOf(r) = WordOf(r)
  BY SameSizes
<1>4. (IF Arch!MemRead(i) THEN Arch!Load(i, r, st.mem[WordOf(r)]) ELSE r) = Loaded(st.mem, i, r)
  BY SameAccess DEF Loaded
<1>5. Arch!WriteReg(st.regs, i, Loaded(st.mem, i, r)) =
        WriteReg(st.regs, i, Loaded(st.mem, i, r))
  BY SameEffects
<1>6. (IF Arch!MemWrite(i)
       THEN [st.mem EXCEPT ![WordOf(r)] =
               Arch!MergeLanes(@, Arch!store_data(i, b), Arch!store_lanes(i, r))]
       ELSE st.mem) = Stored(st.mem, i, r, b)
  BY SameAccess DEF Stored
<1>7. Arch!Step(st) =
        [pc   |-> Arch!NextPc(i, st.pc, a, b, st.csr),
         regs |-> Arch!WriteReg(st.regs, i,
                    IF Arch!MemRead(i) THEN Arch!Load(i, r, st.mem[WordOf(r)]) ELSE r),
         mem  |-> IF Arch!MemWrite(i)
                  THEN [st.mem EXCEPT ![WordOf(r)] =
                          Arch!MergeLanes(@, Arch!store_data(i, b), Arch!store_lanes(i, r))]
                  ELSE st.mem,
         csr  |-> Arch!CsrNext(i, st.pc, a, st.csr)]
  BY <1>1, <1>3 DEF Arch!Step, i, a, b
<1>8. Effect(st, i, a, b) =
        [pc   |-> NextPc(i, st.pc, a, b, st.csr),
         regs |-> WriteReg(st.regs, i, Loaded(st.mem, i, r)),
         mem  |-> Stored(st.mem, i, r, b),
         csr  |-> CsrNext(i, st.pc, a, st.csr)]
  BY DEF Effect, r
<1>9. Arch!Step(st) = Effect(st, i, a, b)
  BY <1>2, <1>4, <1>5, <1>6, <1>7, <1>8
<1> QED
  BY <1>9 DEF i, a, b

LEMMA EffectOperands ==
  ASSUME NEW st, NEW i \in Instr, NEW a, NEW b, NEW x, NEW y,
         uses_rs1(i) => a = x, uses_rs2(i) => b = y
  PROVE  Effect(st, i, a, b) = Effect(st, i, x, y)
<1>1. /\ ExResult(i, st.pc, a, b, st.csr) = ExResult(i, st.pc, x, y, st.csr)
      /\ NextPc(i, st.pc, a, b, st.csr) = NextPc(i, st.pc, x, y, st.csr)
      /\ CsrNext(i, st.pc, a, st.csr) = CsrNext(i, st.pc, x, st.csr)
      /\ MemWrite(i) => store_data(i, b) = store_data(i, y)
  BY OnlyOperands
<1>2. \A m, r : Stored(m, i, r, b) = Stored(m, i, r, y)
  BY <1>1 DEF Stored
<1> QED
  BY <1>1, <1>2 DEF Effect


-----------------------------------------------------------------------------
(* What leaving EX does to the state that program order sees. *)
LEMMA ArchRegsNext ==
  ASSUME Typed, LPP!IInv, Linked, Drain, LPP!IInv'
  PROVE  arch_regs' =
           Retire(arch_regs, pm'[0].ins, Loaded(bram', pm'[0].ins, pm'[0].res),
                             pm'[1].ins, Loaded(bram', pm'[1].ins, pm'[1].res))
<1>1. Mem2Regs' = arch_regs
  BY Drained
<1>2. (arch_regs = Retire(Mem2Regs, pm[0].ins, MEM_wdata(0), pm[1].ins, MEM_wdata(1)))'
  BY ArchRegs, PTL
<1>3. /\ MEM_wdata(0)' = Loaded(bram', pm'[0].ins, pm'[0].res)
      /\ MEM_wdata(1)' = Loaded(bram', pm'[1].ins, pm'[1].res)
  BY DEF MEM_wdata, Loaded
<1> QED
  BY <1>1, <1>2, <1>3

LEMMA ArchMemNext ==
  ASSUME Typed, LPP!IInv, ExPacket, Drain, Execute
  PROVE  arch_mem' = Stored(Stored(arch_mem, EX_ins(0), EX_result(0), EX_forward_B(0)),
                            EX_ins(1), EX_result(1), EX_forward_B(1))
<1>1. ExAccess /\ OneAccess
  BY LoadPathTyped, AccessIs, PacketAccess DEF MemTyped, MemWord
<1>2. mem'.op = EX_access
  BY DEF Execute, LP!ToMem, LP!InMem
<1>3. bram' = arch_mem
  BY BackendMoves DEF Drain
<1>4. CASE \A s \in Slot : ~MemWrite(EX_ins(s))
  <2>1. EX_access.kind # "store"
    <3>1. CASE \A s \in Slot : ~instr_is_mem(EX_ins(s))
      BY <1>1, <3>1, AccessOf DEF ExAccess
    <3>2. ASSUME NEW s \in Slot, instr_is_mem(EX_ins(s))
          PROVE  EX_access.kind # "store"
      <4>1. MemRead(EX_ins(s)) /\ ~instr_is_mem(EX_ins(1 - s))
        BY <1>1, <1>4, <3>2 DEF OneAccess, instr_is_mem, Slot
      <4>2. EX_access = LP!LoadOp(WordOf(EX_result(s)), ex.slot[s].early)
        BY <1>1, <3>2, <4>1 DEF ExAccess
      <4> QED
        BY <4>2 DEF LP!LoadOp, LP!NoAccess
    <3> QED
      BY <3>1, <3>2
  <2>2. arch_mem' = arch_mem
    BY <1>2, <1>3, <2>1 DEF arch_mem
  <2> QED
    BY <1>4, <2>2 DEF Stored, Slot
<1>5. ASSUME NEW s \in Slot, MemWrite(EX_ins(s))
      PROVE  arch_mem' = Stored(arch_mem, EX_ins(s), EX_result(s), EX_forward_B(s))
  <2>1. instr_is_mem(EX_ins(s)) /\ ~MemRead(EX_ins(s)) /\ ~instr_is_mem(EX_ins(1 - s))
    BY <1>1, <1>5 DEF OneAccess, instr_is_mem, MemRead, MemWrite, ILType, SType, Slot
  <2>2. EX_access = LP!StoreOp(WordOf(EX_result(s)), store_lanes(EX_ins(s), EX_result(s)),
                               store_data(EX_ins(s), EX_forward_B(s)))
    BY <1>1, <2>1 DEF ExAccess
  <2>3. /\ EX_access.kind = "store" /\ EX_access.addr = WordOf(EX_result(s))
        /\ EX_access.lanes = store_lanes(EX_ins(s), EX_result(s))
        /\ EX_access.data = store_data(EX_ins(s), EX_forward_B(s))
    BY <2>2 DEF LP!StoreOp, LP!NoAccess
  <2>4. arch_mem' = [bram' EXCEPT ![EX_access.addr] =
                       MergeLanes(@, EX_access.data, EX_access.lanes)]
    BY <1>2, <2>3 DEF arch_mem
  <2> QED
    BY <1>3, <1>5, <2>3, <2>4 DEF Stored
<1>6. CASE MemWrite(EX_ins(0))
  <2>1. ~MemWrite(EX_ins(1))
    BY <1>1, <1>6 DEF OneAccess, instr_is_mem
  <2> QED
    BY <1>5, <1>6, <2>1 DEF Stored, Slot
<1>7. CASE ~MemWrite(EX_ins(0)) /\ MemWrite(EX_ins(1))
  <2>1. Stored(arch_mem, EX_ins(0), EX_result(0), EX_forward_B(0)) = arch_mem
    BY <1>7 DEF Stored
  <2> QED
    BY <1>5, <1>7, <2>1 DEF Slot
<1> QED
  BY <1>4, <1>6, <1>7 DEF Slot

LEMMA Executed ==
  ASSUME Typed, LPP!IInv, Linked, ExPacket, Drain, Execute, LPP!IInv'
  PROVE  arch_regs' =
           Retire(arch_regs, EX_ins(0), Loaded(arch_mem, EX_ins(0), EX_result(0)),
                             EX_ins(1), Loaded(arch_mem, EX_ins(1), EX_result(1)))
<1>1. bram' = arch_mem
  BY BackendMoves DEF Drain
<1>2. /\ pm'[0].ins = EX_ins(0) /\ pm'[0].res = EX_result(0)
      /\ pm'[1].ins = EX_ins(1) /\ pm'[1].res = EX_result(1)
  BY DEF Execute, Slot
<1> QED
  BY <1>1, <1>2, ArchRegsNext

(* The packet after the one in EX is the next one in program order. *)
LEMMA AfterFlow ==
  ASSUME Flow \/ HazardStall, ~redirect'.valid
  PROVE  arch_pc' = AfterEx
<1>1. CASE Flow
  <2>1. PICK n : Decode(n)
    BY <1>1 DEF Flow
  <2>2. PICK p \in MayPair, t \in MayPredictTaken : Fetch(p, t)
    BY <1>1 DEF Flow
  <2>3. /\ ex'.valid = id.valid /\ ex'.pc = id.pc /\ id'.valid /\ id'.pc = pc
    BY <2>1, <2>2 DEF Decode, Fetch
  <2> QED
    BY <2>3 DEF arch_pc, AfterEx
<1>2. CASE HazardStall
  <2>1. ~ex'.valid /\ id' = id /\ pc' = pc
    BY <1>2 DEF HazardStall, Bubble
  <2> QED
    BY <2>1 DEF arch_pc, AfterEx
<1> QED
  BY <1>1, <1>2

ArchState == [pc |-> arch_pc, regs |-> arch_regs, mem |-> arch_mem, csr |-> csr]

(* A bubble leaves no trace. *)
LEMMA BubbleExecuted ==
  ASSUME Inv, Inv', Flow \/ HazardStall, ~ex.valid
  PROVE  ArchState' = ArchState
<1>1. /\ Typed /\ LPP!IInv /\ Linked /\ ExPacket /\ LPP!IInv'
      /\ Drain /\ Execute /\ ~redirect.valid
  BY DEF Inv, Flow, HazardStall
<1>2. EX_ins(0) = NOP_INSTR /\ EX_ins(1) = NOP_INSTR
  BY <1>1 DEF ExPacket, Slot
<1>3. arch_regs' = arch_regs
  BY <1>1, <1>2, Executed, RetireNothing
<1>4. ~MemWrite(NOP_INSTR) /\ ~BranchMispredict_raw
  BY <1>2, NopType DEF instr_is_mem, BranchMispredict_raw
<1>5. arch_mem' = arch_mem
  BY <1>1, <1>2, <1>4, ArchMemNext DEF Stored
<1>6. csr' = csr /\ redirect' = redirect
  BY <1>1, <1>2, <1>4, NopType DEF Execute, CsrNext
<1>7. arch_pc' = arch_pc
  BY <1>1, <1>6, AfterFlow DEF arch_pc, AfterEx
<1> QED
  BY <1>3, <1>5, <1>6, <1>7 DEF ArchState


(* The first instruction of a packet is the next one of the program. *)
AfterFirst ==
  [pc   |-> IF_npc_redirect_raw,
   regs |-> WriteReg(arch_regs, EX_ins(0), Loaded(arch_mem, EX_ins(0), EX_result(0))),
   mem  |-> Stored(arch_mem, EX_ins(0), EX_result(0), EX_forward_B(0)),
   csr  |-> CsrNext(EX_ins(0), ex.pc, EX_forward_A(0), csr)]

LEMMA FirstStep ==
  ASSUME Inv, ex.valid, ~redirect.valid
  PROVE  Arch!Step(ArchState) = AfterFirst
<1>1. /\ Typed /\ ExPacket /\ OperandsArchitectural /\ MemWord
  BY LoadPathTyped DEF Inv, MemTyped, MemWord
<1>2. 0 \in Slot /\ EX_ins(0) \in Instr
  BY <1>1, ExTypes DEF ExTyped, Slot
<1>3. EX_pc(0) = ex.pc
  <2>1. ex.pc \in PC
    BY <1>1 DEF Typed, ExReg
  <2>2. ex.pc + 0 = ex.pc /\ PcOf(ex.pc) = ex.pc
    BY <2>1, PcOfType
  <2> QED
    BY <2>2 DEF EX_pc
<1>4. EX_result(0) = ExResult(EX_ins(0), ex.pc, EX_forward_A(0), EX_forward_B(0), csr)
  BY <1>3 DEF EX_result
<1>5. arch_pc = ex.pc /\ EX_ins(0) = rom[ex.pc]
  BY <1>1 DEF arch_pc, ExPacket, Issued
<1>6. Arch!Step(ArchState) =
        Effect(ArchState, EX_ins(0), arch_regs[EX_ins(0).rs1], arch_regs[EX_ins(0).rs2])
  <2>1. ArchState.pc = ex.pc /\ ArchState.regs = arch_regs
    BY <1>5 DEF ArchState
  <2>2. Arch!Step(ArchState) =
          Effect(ArchState, rom[ArchState.pc], ArchState.regs[rom[ArchState.pc].rs1],
                 ArchState.regs[rom[ArchState.pc].rs2])
    BY StepIs
  <2> QED
    BY <1>5, <2>1, <2>2
<1>7. /\ uses_rs1(EX_ins(0)) => arch_regs[EX_ins(0).rs1] = EX_forward_A(0)
      /\ uses_rs2(EX_ins(0)) => arch_regs[EX_ins(0).rs2] = EX_forward_B(0)
  BY <1>1, <1>2 DEF OperandsArchitectural
<1>8. Effect(ArchState, EX_ins(0), arch_regs[EX_ins(0).rs1], arch_regs[EX_ins(0).rs2]) =
        Effect(ArchState, EX_ins(0), EX_forward_A(0), EX_forward_B(0))
  BY <1>2, <1>7, EffectOperands
<1>9. Effect(ArchState, EX_ins(0), EX_forward_A(0), EX_forward_B(0)) = AfterFirst
  <2>1. /\ ArchState.pc = ex.pc /\ ArchState.regs = arch_regs
        /\ ArchState.mem = arch_mem /\ ArchState.csr = csr
    BY <1>5 DEF ArchState
  <2> QED
    BY <1>4, <2>1 DEF Effect, AfterFirst, IF_npc_redirect_raw
<1> QED
  BY <1>6, <1>8, <1>9

(* Alone in its packet, it is what the packet does. *)
LEMMA SingleExecuted ==
  ASSUME Inv, Inv', Flow \/ HazardStall, ex.valid, EX_ins(1) = NOP_INSTR,
         AfterEx = Follows(EX_ins(0), ex.pc, ex.pred, FALSE),
         ex.pred => EX_ins(0).op \in {"beq", "jal"}
  PROVE  ArchState' = Arch!Step(ArchState)
<1>1. /\ Typed /\ LPP!IInv /\ Linked /\ ExPacket /\ LPP!IInv'
      /\ Drain /\ Execute /\ ~redirect.valid
  BY DEF Inv, Flow, HazardStall
<1>2. arch_regs' = AfterFirst.regs
  <2>1. arch_regs' =
          Retire(arch_regs, EX_ins(0), Loaded(arch_mem, EX_ins(0), EX_result(0)),
                 NOP_INSTR, Loaded(arch_mem, NOP_INSTR, EX_result(1)))
    BY <1>1, Executed
  <2> QED
    BY <2>1, NopType DEF Retire, WriteReg, AfterFirst
<1>3. arch_mem' = AfterFirst.mem
  <2>1. ~MemWrite(NOP_INSTR)
    BY NopType DEF instr_is_mem
  <2> QED
    BY <1>1, <2>1, ArchMemNext DEF Stored, AfterFirst
<1>4. csr' = AfterFirst.csr
  BY <1>1 DEF Execute, AfterFirst
<1>5. arch_pc' = AfterFirst.pc
  <2>1. CASE BranchMispredict_raw
    <3>1. redirect'.valid /\ redirect'.target = IF_npc_redirect_raw
      BY <1>1, <2>1 DEF Execute
    <3> QED
      BY <3>1 DEF arch_pc, AfterFirst
  <2>2. CASE ~BranchMispredict_raw
    <3>1. arch_pc' = AfterEx
      BY <1>1, <2>2, AfterFlow DEF Execute
    <3>2. ex.pred \in BOOLEAN
      BY <1>1 DEF Typed, ExReg
    <3>3. Follows(EX_ins(0), ex.pc, ex.pred, FALSE) = IF_npc_redirect_raw
      BY <2>2, <3>2 DEF BranchMispredict_raw, IF_npc_redirect_raw, Follows, NextPc
    <3> QED
      BY <3>1, <3>3 DEF AfterFirst
  <2> QED
    BY <2>1, <2>2
<1>6. ArchState' = AfterFirst
  BY <1>2, <1>3, <1>4, <1>5 DEF ArchState, AfterFirst
<1> QED
  BY <1>1, <1>6, FirstStep


(* Two steps forward are the packet's one. *)
LEMMA SmallMod ==
  ASSUME NEW n \in Nat, n >= 1, NEW a \in Nat
  PROVE  /\ a < n => a % n = a
         /\ a >= n /\ a < 2 * n => a % n = a - n
         /\ n = 1 => a % n = 0
<1>1. a < n => a % n = a
  OBVIOUS
<1>2. a >= n /\ a < 2 * n => a % n = a - n
  OBVIOUS
<1>3. n = 1 => a % n = 0
  OBVIOUS
<1> QED
  BY <1>1, <1>2, <1>3

LEMMA PcTwice ==
  ASSUME NEW p \in PC
  PROVE  PcOf(PcOf(p + 1) + 1) = PcOf(p + 2)
<1>1. p \in Nat /\ p < NPc /\ NPc \in Nat /\ NPc >= 1
  BY Sizes DEF PC
<1>2. CASE NPc = 1
  <2>1. p = 0
    BY <1>1, <1>2
  <2>2. (0 + 1) % 1 = 0 /\ (0 + 2) % 1 = 0
    OBVIOUS
  <2> QED
    BY <1>2, <2>1, <2>2 DEF PcOf
<1>3. CASE NPc > 1 /\ p + 2 <= NPc
  <2>1. (p + 1) % NPc = p + 1
    BY <1>1, <1>3, SmallMod
  <2>2. (p + 1) + 1 = p + 2
    BY <1>1
  <2> QED
    BY <2>1, <2>2 DEF PcOf
<1>4. CASE NPc > 1 /\ p + 1 = NPc
  <2>1. (p + 1) % NPc = 0 /\ (0 + 1) % NPc = 1
    BY <1>1, <1>4, SmallMod
  <2>2. (p + 2) % NPc = 1
    BY <1>1, <1>4, SmallMod
  <2> QED
    BY <2>1, <2>2 DEF PcOf
<1> QED
  BY <1>1, <1>2, <1>3, <1>4

LEMMA OtherKept ==
  ASSUME NEW r \in [RegNo -> Value], NEW i, NEW v, NEW x \in RegNo,
         ~(RegWrite(i) /\ i.rd # 0 /\ i.rd = x)
  PROVE  WriteReg(r, i, v)[x] = r[x]
BY DEF WriteReg

LEMMA DualGoesOn ==
  ASSUME NEW i, instr_can_dual(i), NEW p, NEW a, NEW b, NEW c
  PROVE  /\ NextPc(i, p, a, b, c) = PcOf(p + 1) /\ CsrNext(i, p, a, c) = c
         /\ i.op \notin {"beq", "jal", "jalr", "ecall", "mret"}
<1>1. i.op \notin {"beq", "jal", "jalr", "ecall", "mret", "csrrw"}
  BY DEF instr_can_dual, RType, IType, ILType, SType, UType
<1> QED
  BY <1>1 DEF NextPc, CsrNext

LEMMA PairExecuted ==
  ASSUME Inv, Inv', Flow \/ HazardStall, ex.valid,
         EX_ins(1) = rom[PcOf(ex.pc + 1)], IF_dual_candidate(EX_ins(0), EX_ins(1)),
         AfterEx = Follows(EX_ins(0), ex.pc, ex.pred, TRUE),
         ex.pred => EX_ins(0).op \in {"beq", "jal"}
  PROVE  ArchState' = Arch!Step(Arch!Step(ArchState))
<1> DEFINE i == EX_ins(0)
           j == EX_ins(1)
           p1 == PcOf(ex.pc + 1)
<1>1. /\ Typed /\ LPP!IInv /\ Linked /\ ExPacket /\ LPP!IInv' /\ OperandsArchitectural
      /\ Drain /\ Execute /\ ~redirect.valid
  BY DEF Inv, Flow, HazardStall
<1>2. MemWord /\ Written
  BY <1>1, LoadPathTyped, WrittenTyped DEF MemTyped, MemWord
<1>3. 1 \in Slot /\ i \in Instr /\ j \in Instr /\ ex.pc \in PC
  BY <1>1, <1>2, ExTypes DEF ExTyped, Slot, Typed, ExReg
<1>4. /\ instr_can_dual(i) /\ instr_can_dual(j)
      /\ ~(instr_is_mem(i) /\ instr_is_mem(j)) /\ ~IF_slot_raw_hazard(i, j)
  BY DEF IF_dual_candidate
<1>5. IF_npc_redirect_raw = p1 /\ AfterFirst.csr = csr /\ ~BranchMispredict_raw /\ ~ex.pred
  BY <1>4, DualGoesOn DEF IF_npc_redirect_raw, AfterFirst, BranchMispredict_raw
<1>6. /\ AfterFirst.pc = p1 /\ AfterFirst.csr = csr
      /\ AfterFirst.regs = WriteReg(arch_regs, i, Loaded(arch_mem, i, EX_result(0)))
      /\ AfterFirst.mem = Stored(arch_mem, i, EX_result(0), EX_forward_B(0))
  BY <1>5 DEF AfterFirst
<1>7. Arch!Step(AfterFirst) =
        Effect(AfterFirst, j, AfterFirst.regs[j.rs1], AfterFirst.regs[j.rs2])
  BY <1>6, StepIs
<1>8. AfterFirst.regs[j.rs1] = arch_regs[j.rs1] /\ AfterFirst.regs[j.rs2] = arch_regs[j.rs2]
  <2>1. j.rs1 \in RegNo /\ j.rs2 \in RegNo /\ arch_regs \in [RegNo -> Value]
    BY <1>2, <1>3, InstrType DEF Written
  <2> QED
    BY <1>4, <1>6, <2>1, OtherKept DEF IF_slot_raw_hazard
<1>9. /\ uses_rs1(j) => AfterFirst.regs[j.rs1] = EX_forward_A(1)
      /\ uses_rs2(j) => AfterFirst.regs[j.rs2] = EX_forward_B(1)
  BY <1>1, <1>3, <1>8 DEF OperandsArchitectural
<1>10. Arch!Step(AfterFirst) = Effect(AfterFirst, j, EX_forward_A(1), EX_forward_B(1))
  BY <1>3, <1>7, <1>9, EffectOperands
<1>11. EX_result(1) = ExResult(j, p1, EX_forward_A(1), EX_forward_B(1), csr)
  BY DEF EX_result, EX_pc
<1>12. Loaded(AfterFirst.mem, j, EX_result(1)) = Loaded(arch_mem, j, EX_result(1))
  BY <1>4, <1>6 DEF Loaded, Stored, instr_is_mem
<1>13. arch_regs' = WriteReg(AfterFirst.regs, j, Loaded(AfterFirst.mem, j, EX_result(1)))
  BY <1>1, <1>6, <1>12, Executed DEF Retire
<1>14. arch_mem' = Stored(AfterFirst.mem, j, EX_result(1), EX_forward_B(1))
  BY <1>1, <1>6, ArchMemNext
<1>15. csr' = csr /\ redirect' = redirect
  BY <1>1, <1>4, <1>5, DualGoesOn DEF Execute
<1>16. arch_pc' = PcOf(p1 + 1)
  <2>1. arch_pc' = AfterEx
    BY <1>1, <1>15, AfterFlow
  <2>2. AfterEx = PcOf(ex.pc + 2)
    BY <1>5 DEF Follows
  <2> QED
    BY <1>3, <2>1, <2>2, PcTwice
<1>17. /\ NextPc(j, p1, EX_forward_A(1), EX_forward_B(1), csr) = PcOf(p1 + 1)
       /\ CsrNext(j, p1, EX_forward_A(1), csr) = csr
  BY <1>4, DualGoesOn
<1> HIDE DEF i, j, p1
<1>18. Effect(AfterFirst, j, EX_forward_A(1), EX_forward_B(1)) =
         [pc |-> arch_pc', regs |-> arch_regs', mem |-> arch_mem', csr |-> csr']
  BY <1>6, <1>11, <1>13, <1>14, <1>15, <1>16, <1>17 DEF Effect
<1>19. Arch!Step(ArchState) = AfterFirst
  BY <1>1, FirstStep
<1> QED
  BY <1>10, <1>18, <1>19 DEF ArchState


LEMMA PacketExecuted ==
  ASSUME Inv, Inv', Flow \/ HazardStall, ex.valid
  PROVE  \/ ArchState' = Arch!Step(ArchState)
         \/ ArchState' = Arch!Step(Arch!Step(ArchState))
<1>1. Issued(ex.pc, EX_ins(0), EX_ins(1), ex.pred, AfterEx)
  BY DEF Inv, ExPacket
<1>2. PICK pair \in BOOLEAN :
        /\ EX_ins(0) = rom[ex.pc]
        /\ EX_ins(1) = IF pair THEN rom[PcOf(ex.pc + 1)] ELSE NOP_INSTR
        /\ pair => IF_dual_candidate(EX_ins(0), EX_ins(1))
        /\ ex.pred => EX_ins(0).op \in {"beq", "jal"}
        /\ AfterEx = Follows(EX_ins(0), ex.pc, ex.pred, pair)
  BY <1>1 DEF Issued
<1>3. CASE pair = FALSE
  <2>1. /\ EX_ins(1) = NOP_INSTR
        /\ AfterEx = Follows(EX_ins(0), ex.pc, ex.pred, FALSE)
    BY <1>2, <1>3
  <2> QED
    BY <1>2, <2>1, SingleExecuted
<1>4. CASE pair = TRUE
  <2>1. /\ EX_ins(1) = rom[PcOf(ex.pc + 1)] /\ IF_dual_candidate(EX_ins(0), EX_ins(1))
        /\ AfterEx = Follows(EX_ins(0), ex.pc, ex.pred, TRUE)
    BY <1>2, <1>4
  <2> QED
    BY <1>2, <2>1, PairExecuted
<1> QED
  BY <1>3, <1>4

(* A packet that waits in EX takes no effect twice. *)
LEMMA NothingExecuted ==
  ASSUME Inv, Inv', ExecuteBusy
  PROVE  ArchState' = ArchState
<1>1. /\ Typed /\ LPP!IInv /\ Linked /\ IdPacket /\ ExPacket /\ OperandsArchitectural
      /\ Typed' /\ LPP!IInv'
  BY DEF Inv
<1>2. /\ mem' = mem /\ id' = id /\ pc' = pc /\ csr' = csr /\ redirect' = redirect
      /\ LP!Backend
  BY DEF ExecuteBusy, Drain
<1>3. arch_regs' = arch_regs
  BY <1>1, OperandsHeld
<1>4. arch_mem' = arch_mem
  <2>1. bram' = arch_mem
    BY <1>1, <1>2, BackendMoves
  <2>2. CASE mem.op.kind = "store"
    <3>1. /\ bram \in [WordNo -> DataWord] /\ mem.op.addr \in WordNo
          /\ mem.op.data \in DataWord /\ mem.op.lanes \subseteq Lane
      BY <1>1, LoadPathTyped DEF MemTyped
    <3>2. ASSUME NEW w, NEW d, NEW ln
          PROVE  MergeLanes(MergeLanes(w, d, ln), d, ln) = MergeLanes(w, d, ln)
      BY DEF MergeLanes
    <3>3. bram' = [bram EXCEPT ![mem.op.addr] =
                     MergeLanes(bram[mem.op.addr], mem.op.data, mem.op.lanes)]
      BY <2>1, <2>2 DEF arch_mem
    <3>4. bram'[mem.op.addr] = MergeLanes(bram[mem.op.addr], mem.op.data, mem.op.lanes)
      BY <3>1, <3>3
    <3>5. arch_mem' = [bram' EXCEPT ![mem.op.addr] =
                         MergeLanes(bram'[mem.op.addr], mem.op.data, mem.op.lanes)]
      BY <1>2, <2>2 DEF arch_mem
    <3>6. arch_mem' = [bram' EXCEPT ![mem.op.addr] = bram'[mem.op.addr]]
      <4>1. MergeLanes(MergeLanes(bram[mem.op.addr], mem.op.data, mem.op.lanes),
                       mem.op.data, mem.op.lanes) =
              MergeLanes(bram[mem.op.addr], mem.op.data, mem.op.lanes)
        BY <3>2
      <4>2. MergeLanes(bram'[mem.op.addr], mem.op.data, mem.op.lanes) = bram'[mem.op.addr]
        BY ONLY <3>4, <4>1
      <4> QED
        BY <3>5, <4>2
    <3>7. arch_mem' = bram'
      BY <3>1, <3>3, <3>6
    <3> QED
      BY <2>1, <3>7
  <2>3. CASE mem.op.kind # "store"
    BY <1>2, <2>1, <2>3 DEF arch_mem
  <2> QED
    BY <2>2, <2>3
<1>5. ex'.valid = ex.valid /\ ex'.pc = ex.pc
  BY <1>1, HeldType
<1>6. arch_pc' = arch_pc
  BY <1>2, <1>5 DEF arch_pc
<1> QED
  BY <1>2, <1>3, <1>4, <1>6 DEF ArchState

(* Nothing of a killed path is seen, and the program goes on at the target. *)
LEMMA KillExecuted ==
  ASSUME Inv, Inv', Kill
  PROVE  ArchState' = ArchState
<1>1. Typed /\ LPP!IInv /\ Linked /\ LPP!IInv'
  BY DEF Inv
<1>2. /\ redirect.valid /\ Drain /\ LP!Backend /\ pm' = NoResult /\ LP!FlushMem
      /\ ex' = Bubble /\ id' = NoPacket /\ csr' = csr
  BY DEF Kill, Drain
<1>3. arch_regs' = arch_regs
  <2>1. pm'[0].ins = NOP_INSTR /\ pm'[1].ins = NOP_INSTR
    BY <1>2 DEF NoResult, Slot
  <2> QED
    BY <1>1, <1>2, <2>1, ArchRegsNext, RetireNothing
<1>4. arch_mem' = arch_mem
  <2>1. mem'.op.kind = "none"
    BY <1>2, AccessOf DEF LP!FlushMem, LP!InMem
  <2>2. bram' = arch_mem
    BY <1>1, <1>2, BackendMoves
  <2> QED
    BY <2>1, <2>2 DEF arch_mem
<1>5. arch_pc' = arch_pc
  <2>1. ~ex'.valid /\ ~id'.valid
    BY <1>2 DEF Bubble, NoPacket
  <2>2. CASE Stall_Front
    BY <1>2, <2>2 DEF Kill, arch_pc
  <2>3. CASE ~Stall_Front
    <3>1. ~redirect'.valid /\ pc' = redirect.target
      BY <2>3 DEF Kill
    <3> QED
      BY <1>2, <2>1, <3>1 DEF arch_pc
  <2> QED
    BY <2>2, <2>3
<1> QED
  BY <1>2, <1>3, <1>4, <1>5 DEF ArchState

LEMMA ArchStutter ==
  ASSUME UNCHANGED vars
  PROVE  ArchState' = ArchState
<1>1. /\ pc' = pc /\ id' = id /\ ex' = ex /\ csr' = csr /\ redirect' = redirect
      /\ bram' = bram /\ mem' = mem
  BY DEF vars, cpu, memory
<1>2. arch_pc' = arch_pc /\ arch_mem' = arch_mem /\ arch_regs' = arch_regs
  BY <1>1, ExUnchanged DEF arch_pc, arch_mem
<1> QED
  BY <1>1, <1>2 DEF ArchState

LEMMA ArchStep ==
  ASSUME Inv, Inv', [Next]_vars
  PROVE  [Arch!Next]_<<rom, ArchState>>
<1>1. rom' = rom
  BY DEF Next, Flow, HazardStall, ExecuteBusy, Kill, Drain, vars
<1>2. CASE Flow \/ HazardStall
  <2>1. CASE ex.valid
    <3>1. \/ ArchState' = Arch!Step(ArchState)
          \/ ArchState' = Arch!Step(Arch!Step(ArchState))
      BY <1>2, <2>1, PacketExecuted
    <3>2. Arch!RetireOne \/ Arch!RetirePair
      BY <1>1, <3>1 DEF Arch!RetireOne, Arch!RetirePair, ArchState
    <3> QED
      BY <3>2 DEF Arch!Next
  <2>2. CASE ~ex.valid
    BY <1>1, <1>2, <2>2, BubbleExecuted
  <2> QED
    BY <2>1, <2>2
<1>3. CASE ExecuteBusy
  BY <1>1, <1>3, NothingExecuted
<1>4. CASE Kill
  BY <1>1, <1>4, KillExecuted
<1>5. CASE UNCHANGED vars
  BY <1>1, <1>5, ArchStutter
<1> QED
  BY <1>2, <1>3, <1>4, <1>5 DEF Next

LEMMA ArchStart == Init => Arch!Init
<1> SUFFICES ASSUME Init
             PROVE  Arch!Init
  OBVIOUS
<1>1. rom \in [Arch!PC -> Arch!Instr]
  BY ProgramAssumption, SameSizes DEF Init
<1>2. arch_pc = 0
  BY DEF Init, Bubble, NoPacket, arch_pc
<1>3. arch_regs = ResetRegs
  <2>1. /\ regs = ResetRegs
        /\ wb[0].ins = NOP_INSTR /\ wb[1].ins = NOP_INSTR
        /\ pm[0].ins = NOP_INSTR /\ pm[1].ins = NOP_INSTR
        /\ pm2[0].ins = NOP_INSTR /\ pm2[1].ins = NOP_INSTR
    BY DEF Init, NoResult, Slot
  <2>2. WbRegs = ResetRegs
    BY <2>1, RetireNothing DEF WbRegs
  <2>3. Mem2Regs = ResetRegs
    BY <2>1, <2>2, RetireNothing DEF Mem2Regs
  <2> QED
    BY <2>1, <2>3, RetireNothing, ArchRegs
<1>4. arch_mem = ResetMem
  <2>1. mem.op.kind = "none"
    BY AccessOf DEF Init, LP!InitBuffers, LP!InMem
  <2> QED
    BY <2>1 DEF Init, arch_mem
<1>5. csr = [c \in CsrNo |-> 0]
  BY DEF Init
<1> QED
  BY <1>1, <1>2, <1>3, <1>4, <1>5, SameSizes DEF Arch!Init, Arch!ResetState

(* For every program, register file, word width, memory and cache          *)
(* geometry: software sees the instructions execute in program order, one  *)
(* or two at a time, whatever is forwarded, awaited, held, predicted or    *)
(* killed (mycpu.sv:630).                                                  *)
THEOREM PipelineRefinesISA == Spec => RefinesISA
<1>1. Inv /\ Inv' /\ [Next]_vars => [Arch!Next]_<<rom, ArchState>>
  BY ArchStep
<1>2. Inv /\ Inv' /\ [Next]_vars =>
        [Arch!Next]_<<rom, [pc |-> arch_pc, regs |-> arch_regs, mem |-> arch_mem, csr |-> csr]>>
  BY <1>1 DEF ArchState
<1> QED
  BY <1>2, ArchStart, SpecInv, PTL DEF Spec, RefinesISA, Arch!Spec
=============================================================================
