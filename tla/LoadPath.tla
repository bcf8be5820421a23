------------------------------ MODULE LoadPath ------------------------------
(***************************************************************************)
(* The data-memory path of the CPU (rtl/core/mycpu.sv, MEM1 and MEM2): the *)
(* write-through BRAM with its one-cycle synchronous read, the 64-line     *)
(* load-result cache L0 (rtl/memory/load_l0_cache.sv), the registered fill *)
(* that feeds it, the four-entry store bypass, the early probe that EX     *)
(* makes one cycle before the access, and the read multiplexer of          *)
(* rtl/bus/perip_bridge.sv.                                                *)
(*                                                                         *)
(* One step is one clock edge.  A packet holds at most one memory access   *)
(* (IF never pairs two), so each stage holds one access or none, and the   *)
(* two slots need not be told apart here.                                  *)
(***************************************************************************)
CONSTANTS
  Bram,      \* word addresses 0x8010_0000..0x8013_FFFF
  Mmio,      \* device registers
  Lane,      \* byte lanes of a word
  Byte,      \* what a lane holds
  L0Line,    \* indices of the L0 cache, addr[7:2]
  L0Tag,     \* its tags, addr[17:8]
  SbEntry,   \* indices of the store bypass, addr[3:2]
  SbTag,     \* its tags, addr[17:4]
  l0Index, l0Tag,   \* the address fields, as functions of the address
  sbIndex, sbTag,
  DevVal,    \* what a device register returns when it is read
  StoreLanes, \* lane sets that sb, sh and sw write
  StoreData   \* operands of stores

Addr == Bram \cup Mmio
DataWord == [Lane -> Byte]

(* A device address can agree with a BRAM address in every bit below the   *)
(* region tag addr[31:18]; two BRAM addresses cannot.                      *)
ASSUME RegionAssumption == Bram \cap Mmio = {}

ASSUME FieldAssumption ==
  /\ l0Index \in [Addr -> L0Line] /\ l0Tag \in [Addr -> L0Tag]
  /\ sbIndex \in [Addr -> SbEntry] /\ sbTag \in [Addr -> SbTag]

ASSUME WordFieldAssumption ==
  \A a, b \in Bram :
    /\ l0Index[a] = l0Index[b] /\ l0Tag[a] = l0Tag[b] => a = b
    /\ sbIndex[a] = sbIndex[b] /\ sbTag[a] = sbTag[b] => a = b

ASSUME DeviceAssumption == DevVal \in [Mmio -> DataWord]

ASSUME StoreAssumption == StoreLanes \subseteq SUBSET Lane /\ StoreData \subseteq DataWord

ASSUME NonEmptyAssumption == Addr # {} /\ Byte # {}

VARIABLES
  bram,       \* memory contents
  bram_q,     \* BRAM output register (douta)
  resp_valid, \* bram_resp_valid of the bridge
  l0,         \* valid_array, tag_array, data_array
  fill_q,     \* MEM_cache_fill_q_{en,addr,data}
  bypass,     \* store_bypass_{valid,tag,data}_q
  ex,         \* access in EX, with whether its address is known early
  mem,        \* access in MEM1, with MEM_early_cache_{hit,data}
  mem2        \* load in MEM2, with MEM2_cache_hit, forward and MMIO data

vars == <<bram, bram_q, resp_valid, l0, fill_q, bypass, ex, mem, mem2>>

-----------------------------------------------------------------------------
AnyAddr == CHOOSE a \in Addr : TRUE
AnyWord == [b \in Lane |-> CHOOSE v \in Byte : TRUE]

NoAccess == [kind |-> "none", addr |-> AnyAddr, early |-> FALSE,
             lanes |-> Lane, data |-> AnyWord]

(* A load whose base comes from EX forwarding (ForwardA # 0), or from a    *)
(* late BRAM word (probe base 0), has early = FALSE.                       *)
LoadOp(a, e) == [NoAccess EXCEPT !.kind = "load", !.addr = a, !.early = e]

StoreOp(a, ln, d) ==
  [NoAccess EXCEPT !.kind = "store", !.addr = a, !.lanes = ln, !.data = d]

Access == [kind : {"none", "load", "store"}, addr : Addr, early : BOOLEAN,
           lanes : SUBSET Lane, data : DataWord]

Entry(T) == [valid : BOOLEAN, tag : T, data : DataWord]

(* An entry that is not valid: its tag and data are don't-cares. *)
NoEntry(T) == [valid |-> FALSE, tag |-> CHOOSE t \in T : TRUE, data |-> AnyWord]

InMem(op, h, d) == [op |-> op, hit |-> h, data |-> d]

InMem2(op, h, f, m) == [op |-> op, hit |-> h, fwd |-> f, mmio |-> m]

(* The registers of the load path hold what they are declared to: a store  *)
(* of some lanes (bram_driver.sv) still leaves a whole word.               *)
TypeOK ==
  /\ bram \in [Bram -> DataWord]
  /\ bram_q \in DataWord
  /\ resp_valid \in BOOLEAN
  /\ l0 \in [L0Line -> Entry(L0Tag)]
  /\ fill_q \in [en : BOOLEAN, addr : Addr, data : DataWord]
  /\ bypass \in [SbEntry -> Entry(SbTag)]
  /\ ex \in Access
  /\ mem \in [op : Access, hit : BOOLEAN, data : DataWord]
  /\ mem2 \in [op : Access, hit : BOOLEAN, fwd : DataWord, mmio : DataWord]

-----------------------------------------------------------------------------
(* addr[17:2] = addr[17:2]: index and tag agree. *)
SameWord(a, b) == l0Index[a] = l0Index[b] /\ l0Tag[a] = l0Tag[b]

IsLoad(op) == op.kind = "load"
IsBramLoad(op) == IsLoad(op) /\ op.addr \in Bram

MEM_bus_wen == mem.op.kind = "store"
MEM_store_valid == MEM_bus_wen /\ mem.op.addr \in Bram
MEM_store_word == MEM_store_valid /\ mem.op.lanes = Lane
MEM_store_hits(a) == MEM_store_valid /\ SameWord(mem.op.addr, a)

bram_ren == ~MEM_bus_wen /\ mem.op.kind # "none" /\ mem.op.addr \in Bram

(* The bridge's read multiplexer: a BRAM response hides every device. *)
perip_rdata ==
  IF resp_valid THEN bram_q
  ELSE IF mem.op.addr \in Mmio THEN DevVal[mem.op.addr]
  ELSE AnyWord

-----------------------------------------------------------------------------
(* Lookup by the load in MEM1: L0, with the pending fill standing in for   *)
(* the line it is about to replace, and the store bypass before either.    *)
L0Hit(a) == l0[l0Index[a]].valid /\ l0[l0Index[a]].tag = l0Tag[a]

FillShadows(a) == fill_q.en /\ l0Index[fill_q.addr] = l0Index[a]

CacheHit(a) == IF FillShadows(a) THEN SameWord(fill_q.addr, a) ELSE L0Hit(a)

CacheData(a) == IF FillShadows(a) THEN fill_q.data ELSE l0[l0Index[a]].data

BypassHit(a) ==
  bypass[sbIndex[a]].valid /\ bypass[sbIndex[a]].tag = sbTag[a]

MEM_lookup_ready ==
  IsBramLoad(mem.op) /\ (CacheHit(mem.op.addr) \/ BypassHit(mem.op.addr))

MEM_load_ready_word ==
  IF BypassHit(mem.op.addr) THEN bypass[sbIndex[mem.op.addr]].data
  ELSE CacheData(mem.op.addr)

(* Mutant: the late lookup hits but its word is not selected. *)
LookupNotSelected == mem.data

MEM_resolved_forward_data ==
  IF MEM_lookup_ready THEN MEM_load_ready_word ELSE mem.data

-----------------------------------------------------------------------------
(* Early probe by the load in EX.  The store now in MEM1 is older than the *)
(* load and not yet in any buffer, so it is taken into account first.      *)
(* Mutant: the store in MEM1 does not mask an older bypass entry. *)
StoreInMemForgotten(a) == BypassHit(a)

EX_store_bypass_hit(a) ==
  IF MEM_store_hits(a) THEN MEM_store_word ELSE BypassHit(a)

EX_probe_hit(a) ==
  IF MEM_store_hits(a) THEN MEM_store_word ELSE BypassHit(a) \/ CacheHit(a)

EX_probe_data(a) ==
  IF MEM_store_hits(a) THEN mem.op.data
  ELSE IF BypassHit(a) THEN bypass[sbIndex[a]].data
  ELSE CacheData(a)

MEM_cache_fill_en == IsBramLoad(mem2.op)
MEM_cache_fill_addr == mem2.op.addr

FillEvicts(a) ==
  /\ MEM_cache_fill_en
  /\ l0Index[MEM_cache_fill_addr] = l0Index[a]
  /\ ~SameWord(MEM_cache_fill_addr, a)

EX_cache_ready ==
  /\ IsBramLoad(ex)
  /\ ex.early
  /\ \/ EX_store_bypass_hit(ex.addr)
     \/ EX_probe_hit(ex.addr) /\ ~FillEvicts(ex.addr)

-----------------------------------------------------------------------------
(* What every clock edge does behind the EX/MEM register. *)
(* Mutant: the lanes a store does not write are not taken over. *)
LanesDropped(w, d, ln) == [b \in ln |-> d[b]]

Merge(w, d, ln) == [b \in Lane |-> IF b \in ln THEN d[b] ELSE w[b]]

WriteBram ==
  bram' = IF MEM_store_valid
          THEN [bram EXCEPT ![mem.op.addr] = Merge(@, mem.op.data, mem.op.lanes)]
          ELSE bram

(* The output register keeps its word when the port is not enabled, but   *)
(* with resp_valid off nobody looks at it.                                *)
ReadBram ==
  /\ bram_q' = IF bram_ren THEN bram[mem.op.addr] ELSE AnyWord
  /\ resp_valid' = bram_ren

UpdateBypass ==
  bypass' =
    IF MEM_store_word
    THEN [bypass EXCEPT ![sbIndex[mem.op.addr]] =
            [valid |-> TRUE, tag |-> sbTag[mem.op.addr], data |-> mem.op.data]]
    ELSE IF MEM_store_valid /\ BypassHit(mem.op.addr)
    THEN [bypass EXCEPT ![sbIndex[mem.op.addr]] = NoEntry(SbTag)]
    ELSE bypass

StoreInvalidates(i) ==
  /\ MEM_store_valid
  /\ i = l0Index[mem.op.addr]
  /\ \/ L0Hit(mem.op.addr)
     \/ fill_q.en /\ SameWord(fill_q.addr, mem.op.addr)

FillLine(i) ==
  IF fill_q.en /\ i = l0Index[fill_q.addr]
  THEN [valid |-> TRUE, tag |-> l0Tag[fill_q.addr], data |-> fill_q.data]
  ELSE l0[i]

UpdateL0 ==
  l0' = [i \in L0Line |->
           IF StoreInvalidates(i) THEN NoEntry(L0Tag)
           ELSE FillLine(i)]

NoFill == [en |-> FALSE, addr |-> AnyAddr, data |-> AnyWord]

(* Mutant: a store that meets the returning load does not cancel its fill. *)
FillDespiteStore ==
  fill_q' = IF MEM_cache_fill_en
            THEN [en |-> TRUE, addr |-> MEM_cache_fill_addr, data |-> perip_rdata]
            ELSE NoFill

(* Address and data are don't-cares while en is off. *)
UpdateFillQ ==
  fill_q' = IF MEM_cache_fill_en /\ ~MEM_store_hits(MEM_cache_fill_addr)
            THEN [en |-> TRUE, addr |-> MEM_cache_fill_addr, data |-> perip_rdata]
            ELSE NoFill

(* MEM2 uses the captured bus word of a device load only (MEM2_mdata). *)
ToMem2 ==
  mem2' = IF IsLoad(mem.op)
          THEN InMem2(mem.op, mem.hit \/ MEM_lookup_ready,
                      MEM_resolved_forward_data,
                      IF mem.op.addr \in Mmio THEN perip_rdata ELSE AnyWord)
          ELSE InMem2(NoAccess, FALSE, AnyWord, AnyWord)

Backend ==
  WriteBram /\ ReadBram /\ UpdateBypass /\ UpdateL0 /\ UpdateFillQ /\ ToMem2

-----------------------------------------------------------------------------
(* EX hands its access to MEM1 and ID issues the next one (or a bubble). *)
ToMem ==
  mem' = InMem(ex, EX_cache_ready,
               IF EX_cache_ready THEN EX_probe_data(ex.addr) ELSE AnyWord)

FlushMem == mem' = InMem(NoAccess, FALSE, AnyWord)

Advance(op) == Backend /\ ToMem /\ ex' = op

(* A multi-cycle M instruction keeps EX busy: EX/MEM holds its contents, so *)
(* the access in MEM1 is presented to the bus again.                       *)
Busy == Backend /\ UNCHANGED <<mem, ex>>

(* A committed redirect kills the packet in EX and the one entering it. *)
Redirect == Backend /\ FlushMem /\ ex' = NoAccess

InitBuffers ==
  /\ bram_q = AnyWord
  /\ resp_valid = FALSE
  /\ l0 = [i \in L0Line |-> NoEntry(L0Tag)]
  /\ fill_q = NoFill
  /\ bypass = [i \in SbEntry |-> NoEntry(SbTag)]
  /\ mem = InMem(NoAccess, FALSE, AnyWord)
  /\ mem2 = InMem2(NoAccess, FALSE, AnyWord, AnyWord)

Init == bram \in [Bram -> DataWord] /\ ex = NoAccess /\ InitBuffers

Next ==
  \/ Advance(NoAccess)
  \/ \E a \in Addr, e \in BOOLEAN : Advance(LoadOp(a, e))
  \/ \E a \in Addr, ln \in StoreLanes, d \in StoreData : Advance(StoreOp(a, ln, d))
  \/ Busy
  \/ Redirect

Spec == Init /\ [][Next]_vars

-----------------------------------------------------------------------------
(* Whatever the probe, the lookup or the fill can still find is the current *)
(* memory word: a store leaves no older copy behind in an L0 line           *)
(* (load_l0_cache.sv:73), in the fill waiting to be written to one          *)
(* (mycpu.sv:1315) or in the store bypass (mycpu.sv:1334).                  *)
L0Coherent == \A a \in Bram : L0Hit(a) => l0[l0Index[a]].data = bram[a]

FillCoherent ==
  fill_q.en => fill_q.addr \in Bram /\ fill_q.data = bram[fill_q.addr]

BypassCoherent ==
  \A a \in Bram : BypassHit(a) => bypass[sbIndex[a]].data = bram[a]

BuffersCoherent == L0Coherent /\ FillCoherent /\ BypassCoherent

(* A load that EX declared ready carries into MEM1 the word that the stores *)
(* before it left in memory, the one in MEM1 at the time of the probe       *)
(* included (mycpu.sv:1442, "must be treated as a miss").                   *)
EarlyDataCurrent ==
  mem.hit => IsBramLoad(mem.op) /\ mem.data = bram[mem.op.addr]

(* The word forwarded from MEM2 to a waiting consumer and the word that the *)
(* same load writes back one cycle later from the BRAM port are the same,   *)
(* and both are the word its place in program order gives it.               *)
FastPathAgrees ==
  IsBramLoad(mem2.op) =>
    /\ perip_rdata = bram[mem2.op.addr]
    /\ mem2.hit => mem2.fwd = perip_rdata

(* A device read is captured in MEM1, "the cycle of the request"            *)
(* (mycpu_mem1_mem2_reg.sv:7): the captured word is the device's.           *)
MmioLoadReturnsDevice ==
  IsLoad(mem2.op) /\ mem2.op.addr \in Mmio => mem2.mmio = DevVal[mem2.op.addr]
=============================================================================
