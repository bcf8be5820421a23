--------------------------- MODULE LoadPathProofs ---------------------------
(***************************************************************************)
(* Type correctness and coherence of the load path, for every memory size, *)
(* cache geometry and data width.                                          *)
(***************************************************************************)
EXTENDS LoadPath, TLAPS

IInv == TypeOK /\ BuffersCoherent /\ EarlyDataCurrent /\ FastPathAgrees

(* The placeholders used for don't-care fields have the right type. *)
LEMMA PlaceholderType == AnyAddr \in Addr /\ AnyWord \in DataWord
BY NonEmptyAssumption DEF AnyAddr, AnyWord, DataWord

LEMMA TagSetsNonEmpty ==
  (CHOOSE t \in L0Tag : TRUE) \in L0Tag /\ (CHOOSE t \in SbTag : TRUE) \in SbTag
<1>1. PICK a \in Addr : TRUE
  BY NonEmptyAssumption
<1>2. l0Tag[a] \in L0Tag /\ sbTag[a] \in SbTag
  BY FieldAssumption
<1>3. QED
  BY <1>2

LEMMA NoEntryType ==
  NoEntry(L0Tag) \in Entry(L0Tag) /\ NoEntry(SbTag) \in Entry(SbTag)
BY PlaceholderType, TagSetsNonEmpty DEF NoEntry, Entry

LEMMA AccessType ==
  /\ NoAccess \in Access
  /\ \A a \in Addr, e \in BOOLEAN : LoadOp(a, e) \in Access
  /\ \A a \in Addr, ln \in StoreLanes, d \in StoreData : StoreOp(a, ln, d) \in Access
BY PlaceholderType, StoreAssumption DEF NoAccess, LoadOp, StoreOp, Access

(* What the bus returns, and what a store makes of a word, are words. *)
LEMMA PeripType == TypeOK => perip_rdata \in DataWord
BY PlaceholderType, DeviceAssumption DEF TypeOK, perip_rdata

LEMMA MergeType ==
  ASSUME NEW w \in DataWord, NEW d \in DataWord, NEW ln \in SUBSET Lane
  PROVE  Merge(w, d, ln) \in DataWord
BY DEF Merge, DataWord

(* A word store replaces the word. *)
LEMMA MergeAll ==
  ASSUME NEW w \in DataWord, NEW d \in DataWord
  PROVE  Merge(w, d, Lane) = d
BY DEF Merge, DataWord

LEMMA InitIInv == Init => IInv
<1> SUFFICES ASSUME Init PROVE IInv
  OBVIOUS
<1>1. TypeOK
  BY PlaceholderType, NoEntryType, AccessType
  DEF Init, InitBuffers, TypeOK, NoFill, InMem, InMem2
<1>2. BuffersCoherent
  BY FieldAssumption
  DEF Init, InitBuffers, BuffersCoherent, L0Coherent, FillCoherent, BypassCoherent, L0Hit,
      BypassHit, NoEntry, NoFill, Addr
<1>3. EarlyDataCurrent /\ FastPathAgrees
  BY DEF Init, InitBuffers, EarlyDataCurrent, FastPathAgrees, IsBramLoad, IsLoad, InMem, InMem2,
      NoAccess
<1>4. QED
  BY <1>1, <1>2, <1>3 DEF IInv

-----------------------------------------------------------------------------
(* Two BRAM addresses that agree in addr[17:2] are the same address. *)
LEMMA SameWordIsEqual ==
  ASSUME NEW a \in Bram, NEW b \in Bram, SameWord(a, b)
  PROVE  a = b
BY WordFieldAssumption DEF SameWord

(* The BRAM after the edge. *)
LEMMA BramNext ==
  ASSUME TypeOK, WriteBram
  PROVE  /\ bram' \in [Bram -> DataWord]
         /\ \A a \in Bram : ~MEM_store_hits(a) => bram'[a] = bram[a]
         /\ MEM_store_word => bram'[mem.op.addr] = mem.op.data
<1>0. mem.op \in Access /\ bram \in [Bram -> DataWord]
  BY DEF TypeOK
<1>1. bram' \in [Bram -> DataWord]
  BY <1>0, MergeType DEF WriteBram, Access
<1>2. ASSUME NEW a \in Bram, ~MEM_store_hits(a)
      PROVE  bram'[a] = bram[a]
  BY <1>0, <1>2 DEF WriteBram, MEM_store_hits, MEM_store_valid, SameWord
<1>3. ASSUME MEM_store_word
      PROVE  bram'[mem.op.addr] = mem.op.data
  BY <1>0, <1>3, MergeAll DEF WriteBram, MEM_store_word, MEM_store_valid, Access
<1>4. QED
  BY <1>1, <1>2, <1>3

(* What a probe or a lookup finds is the current word. *)
LEMMA LookupCurrent ==
  ASSUME TypeOK, BuffersCoherent, NEW a \in Bram
  PROVE  /\ CacheHit(a) => CacheData(a) = bram[a]
         /\ BypassHit(a) => bypass[sbIndex[a]].data = bram[a]
<1>1. ASSUME FillShadows(a), CacheHit(a)
      PROVE  CacheData(a) = bram[a]
  <2>1. SameWord(fill_q.addr, a) /\ fill_q.en
    BY <1>1 DEF CacheHit, FillShadows
  <2>2. fill_q.addr \in Bram /\ fill_q.data = bram[fill_q.addr]
    BY <2>1 DEF BuffersCoherent, FillCoherent
  <2>3. fill_q.addr = a
    BY <2>1, <2>2, SameWordIsEqual
  <2>4. QED
    BY <1>1, <2>2, <2>3 DEF CacheData
<1>2. ASSUME ~FillShadows(a), CacheHit(a)
      PROVE  CacheData(a) = bram[a]
  BY <1>2 DEF CacheHit, CacheData, BuffersCoherent, L0Coherent
<1>3. QED
  BY <1>1, <1>2 DEF BuffersCoherent, BypassCoherent

(* An early hit carries the word memory holds after the edge that moves the *)
(* load from EX to MEM1.                                                    *)
LEMMA ProbeCurrent ==
  ASSUME IInv, WriteBram, EX_cache_ready
  PROVE  EX_probe_data(ex.addr) = bram'[ex.addr]
<1>0. ex.addr \in Bram /\ TypeOK /\ BuffersCoherent
  BY DEF EX_cache_ready, IsBramLoad, IInv
<1>1. CASE MEM_store_hits(ex.addr)
  <2>1. MEM_store_word
    BY <1>1 DEF EX_cache_ready, EX_store_bypass_hit, EX_probe_hit
  <2>2. mem.op.addr = ex.addr
    BY <1>0, <1>1, SameWordIsEqual DEF MEM_store_hits, MEM_store_valid
  <2>3. QED
    BY <1>0, <1>1, <2>1, <2>2, BramNext DEF EX_probe_data
<1>2. CASE ~MEM_store_hits(ex.addr)
  <2>1. BypassHit(ex.addr) \/ CacheHit(ex.addr)
    BY <1>2 DEF EX_cache_ready, EX_store_bypass_hit, EX_probe_hit
  <2>2. bram'[ex.addr] = bram[ex.addr]
    BY <1>0, <1>2, BramNext
  <2>3. QED
    BY <1>0, <1>2, <2>1, <2>2, LookupCurrent DEF EX_probe_data
<1>3. QED
  BY <1>1, <1>2

-----------------------------------------------------------------------------
(* The clock edge keeps the types of everything behind EX/MEM. *)
LEMMA BackendType ==
  ASSUME TypeOK, Backend
  PROVE  /\ bram' \in [Bram -> DataWord] /\ bram_q' \in DataWord
         /\ resp_valid' \in BOOLEAN
         /\ l0' \in [L0Line -> Entry(L0Tag)]
         /\ fill_q' \in [en : BOOLEAN, addr : Addr, data : DataWord]
         /\ bypass' \in [SbEntry -> Entry(SbTag)]
         /\ mem2' \in [op : Access, hit : BOOLEAN, fwd : DataWord, mmio : DataWord]
<1>0. /\ mem.op \in Access /\ mem.op.addr \in Addr /\ mem.op.data \in DataWord
      /\ mem.hit \in BOOLEAN /\ mem.data \in DataWord
      /\ mem2.op.addr \in Addr
      /\ fill_q.addr \in Addr /\ fill_q.data \in DataWord
  BY DEF TypeOK, Access
<1>1. bram' \in [Bram -> DataWord]
  BY BramNext DEF Backend
<1>2. bram_q' \in DataWord
  BY PlaceholderType DEF Backend, ReadBram, TypeOK, bram_ren
<1>3. resp_valid' \in BOOLEAN
  BY DEF Backend, ReadBram, bram_ren
<1>4. bypass' \in [SbEntry -> Entry(SbTag)]
  <2>1. sbIndex[mem.op.addr] \in SbEntry /\ sbTag[mem.op.addr] \in SbTag
    BY <1>0, FieldAssumption
  <2>2. [valid |-> TRUE, tag |-> sbTag[mem.op.addr], data |-> mem.op.data] \in Entry(SbTag)
    BY <1>0, <2>1 DEF Entry
  <2>3. bypass \in [SbEntry -> Entry(SbTag)]
    BY DEF TypeOK
  <2>4. QED
    BY <2>1, <2>2, <2>3, NoEntryType DEF Backend, UpdateBypass
<1>5. l0' \in [L0Line -> Entry(L0Tag)]
  <2>1. l0Index[fill_q.addr] \in L0Line /\ l0Tag[fill_q.addr] \in L0Tag
    BY <1>0, FieldAssumption
  <2>2. \A i \in L0Line : FillLine(i) \in Entry(L0Tag)
    BY <1>0, <2>1 DEF FillLine, Entry, TypeOK
  <2>3. QED
    BY <2>2, NoEntryType DEF Backend, UpdateL0
<1>6. fill_q' \in [en : BOOLEAN, addr : Addr, data : DataWord]
  BY <1>0, PlaceholderType, PeripType
  DEF Backend, UpdateFillQ, NoFill, MEM_cache_fill_addr
<1>7. mem2' \in [op : Access, hit : BOOLEAN, fwd : DataWord, mmio : DataWord]
  <2>1. MEM_lookup_ready \in BOOLEAN
    BY DEF MEM_lookup_ready, IsBramLoad, IsLoad
  <2>2. MEM_resolved_forward_data \in DataWord
    <3>1. l0Index[mem.op.addr] \in L0Line /\ sbIndex[mem.op.addr] \in SbEntry
      BY <1>0, FieldAssumption
    <3>2. /\ bypass[sbIndex[mem.op.addr]].data \in DataWord
          /\ l0[l0Index[mem.op.addr]].data \in DataWord
      BY <3>1 DEF TypeOK, Entry
    <3>3. QED
      BY <1>0, <3>2 DEF MEM_resolved_forward_data, MEM_load_ready_word, CacheData
  <2>3. QED
    BY <1>0, <2>1, <2>2, PlaceholderType, PeripType, AccessType
    DEF Backend, ToMem2, InMem2
<1>8. QED
  BY <1>1, <1>2, <1>3, <1>4, <1>5, <1>6, <1>7

(* The clock edge leaves no stale copy. *)
LEMMA BackendCoherent ==
  ASSUME IInv, Backend
  PROVE  BuffersCoherent'
<1>0. TypeOK /\ BuffersCoherent /\ FastPathAgrees /\ WriteBram
  BY DEF IInv, Backend
<1>a. \A a \in Bram : ~MEM_store_hits(a) => bram'[a] = bram[a]
  BY <1>0, BramNext
<1>b. MEM_store_valid => mem.op.addr \in Bram
  BY DEF MEM_store_valid
<1>1. L0Coherent'
  <2> SUFFICES ASSUME NEW a \in Bram, L0Hit(a)'
               PROVE  l0'[l0Index[a]].data = bram'[a]
    BY DEF L0Coherent
  <2>i. l0Index[a] \in L0Line
    BY FieldAssumption DEF Addr
  <2>1. ~StoreInvalidates(l0Index[a]) /\ l0'[l0Index[a]] = FillLine(l0Index[a])
    BY <2>i DEF L0Hit, Backend, UpdateL0, NoEntry
  <2>2. CASE fill_q.en /\ l0Index[a] = l0Index[fill_q.addr]
    <3>1. l0Tag[fill_q.addr] = l0Tag[a] /\ l0'[l0Index[a]].data = fill_q.data
      BY <2>1, <2>2 DEF L0Hit, FillLine
    <3>2. fill_q.addr \in Bram /\ fill_q.data = bram[fill_q.addr]
      BY <1>0, <2>2 DEF BuffersCoherent, FillCoherent
    <3>3. fill_q.addr = a
      BY <2>2, <3>1, <3>2, SameWordIsEqual DEF SameWord
    <3>4. ~MEM_store_hits(a)
      BY <2>1, <2>2, <3>3 DEF StoreInvalidates, MEM_store_hits, SameWord
    <3>5. QED
      BY <1>a, <3>1, <3>2, <3>3, <3>4
  <2>3. CASE ~(fill_q.en /\ l0Index[a] = l0Index[fill_q.addr])
    <3>1. L0Hit(a) /\ l0'[l0Index[a]] = l0[l0Index[a]]
      BY <2>1, <2>3 DEF L0Hit, FillLine
    <3>2. ~MEM_store_hits(a)
      BY <2>1, <3>1 DEF StoreInvalidates, MEM_store_hits, SameWord, L0Hit
    <3>3. QED
      BY <1>0, <1>a, <3>1, <3>2 DEF BuffersCoherent, L0Coherent
  <2>4. QED
    BY <2>2, <2>3
<1>2. FillCoherent'
  <2> SUFFICES ASSUME fill_q'.en
               PROVE  fill_q'.addr \in Bram /\ fill_q'.data = bram'[fill_q'.addr]
    BY DEF FillCoherent
  <2>1. /\ IsBramLoad(mem2.op) /\ ~MEM_store_hits(mem2.op.addr)
        /\ fill_q'.addr = mem2.op.addr /\ fill_q'.data = perip_rdata
    BY DEF Backend, UpdateFillQ, NoFill, MEM_cache_fill_en, MEM_cache_fill_addr
  <2>2. mem2.op.addr \in Bram /\ perip_rdata = bram[mem2.op.addr]
    BY <1>0, <2>1 DEF FastPathAgrees, IsBramLoad
  <2>3. QED
    BY <1>a, <2>1, <2>2
<1>3. BypassCoherent'
  <2> SUFFICES ASSUME NEW a \in Bram, BypassHit(a)'
               PROVE  bypass'[sbIndex[a]].data = bram'[a]
    BY DEF BypassCoherent
  <2>i. sbIndex[a] \in SbEntry /\ bypass \in [SbEntry -> Entry(SbTag)]
    BY <1>0, FieldAssumption DEF Addr, TypeOK
  <2>1. CASE MEM_store_word /\ sbIndex[mem.op.addr] = sbIndex[a]
    <3>1. mem.op.addr \in Bram
      BY <2>1, <1>b DEF MEM_store_word
    <3>2. bypass'[sbIndex[a]] =
            [valid |-> TRUE, tag |-> sbTag[mem.op.addr], data |-> mem.op.data]
      BY <2>1, <2>i DEF Backend, UpdateBypass
    <3>3. mem.op.addr = a
      BY <2>1, <3>1, <3>2, WordFieldAssumption DEF BypassHit
    <3>4. QED
      BY <1>0, <2>1, <3>2, <3>3, BramNext
  <2>2. CASE ~(MEM_store_word /\ sbIndex[mem.op.addr] = sbIndex[a])
    <3>1. bypass'[sbIndex[a]] = bypass[sbIndex[a]] /\ BypassHit(a)
      BY <2>2, <2>i DEF Backend, UpdateBypass, BypassHit, NoEntry
    <3>2. ~MEM_store_hits(a)
      <4> SUFFICES ASSUME MEM_store_hits(a) PROVE FALSE
        OBVIOUS
      <4>1. MEM_store_valid /\ mem.op.addr = a
        BY <1>b, SameWordIsEqual DEF MEM_store_hits
      <4>2. ~MEM_store_word /\ BypassHit(mem.op.addr)
        BY <2>2, <3>1, <4>1
      <4>3. bypass'[sbIndex[a]] = NoEntry(SbTag)
        BY <2>i, <4>1, <4>2 DEF Backend, UpdateBypass
      <4>4. QED
        BY <4>3 DEF BypassHit, NoEntry
    <3>3. QED
      BY <1>0, <1>a, <3>1, <3>2 DEF BuffersCoherent, BypassCoherent
  <2>3. QED
    BY <2>1, <2>2
<1>4. QED
  BY <1>1, <1>2, <1>3 DEF BuffersCoherent

(* The load that enters MEM2 has its word on both paths. *)
LEMMA BackendFastPath ==
  ASSUME IInv, Backend
  PROVE  FastPathAgrees'
<1>0. /\ TypeOK /\ BuffersCoherent /\ EarlyDataCurrent /\ WriteBram
      /\ ReadBram /\ ToMem2
  BY DEF IInv, Backend
<1> SUFFICES ASSUME IsBramLoad(mem2.op)'
             PROVE  /\ perip_rdata' = bram'[mem2'.op.addr]
                    /\ mem2'.hit => mem2'.fwd = perip_rdata'
  BY DEF FastPathAgrees
<1>1. IsBramLoad(mem.op) /\ mem2'.op = mem.op
  BY <1>0 DEF ToMem2, InMem2, IsBramLoad, IsLoad, NoAccess
<1>2. /\ mem2'.hit = (mem.hit \/ MEM_lookup_ready)
      /\ mem2'.fwd = MEM_resolved_forward_data
  BY <1>0, <1>1 DEF ToMem2, InMem2, IsBramLoad
<1>3. bram_ren /\ ~MEM_store_hits(mem.op.addr) /\ mem.op.addr \in Bram
  BY <1>1 DEF IsBramLoad, IsLoad, bram_ren, MEM_store_hits, MEM_store_valid,
      MEM_bus_wen
<1>4. bram'[mem.op.addr] = bram[mem.op.addr]
  BY <1>0, <1>3, BramNext
<1>5. perip_rdata' = bram[mem.op.addr]
  BY <1>0, <1>3 DEF ReadBram, perip_rdata
<1>6. ASSUME mem2'.hit PROVE mem2'.fwd = bram[mem.op.addr]
  <2>1. CASE MEM_lookup_ready
    BY <1>0, <1>2, <1>3, <2>1, LookupCurrent
    DEF MEM_lookup_ready, MEM_resolved_forward_data, MEM_load_ready_word
  <2>2. CASE ~MEM_lookup_ready
    BY <1>0, <1>2, <1>6, <2>2 DEF EarlyDataCurrent, MEM_resolved_forward_data
  <2>3. QED
    BY <2>1, <2>2
<1>7. QED
  BY <1>1, <1>4, <1>5, <1>6

-----------------------------------------------------------------------------
(* The three kinds of clock edge: EX advances, is busy, or is killed. *)
LEMMA AdvanceIInv ==
  ASSUME IInv, NEW op \in Access, Advance(op)
  PROVE  IInv'
<1>0. TypeOK /\ Backend /\ WriteBram
  BY DEF IInv, Advance, Backend
<1>1. mem' \in [op : Access, hit : BOOLEAN, data : DataWord]
  <2>1. EX_cache_ready \in BOOLEAN
    BY DEF EX_cache_ready, IsBramLoad, IsLoad
  <2>2. EX_cache_ready => EX_probe_data(ex.addr) \in DataWord
    BY <1>0, ProbeCurrent, BackendType DEF EX_cache_ready, IsBramLoad
  <2>3. QED
    BY <1>0, <2>1, <2>2, PlaceholderType DEF Advance, ToMem, InMem, TypeOK
<1>2. TypeOK'
  BY <1>0, <1>1, BackendType DEF TypeOK, Advance
<1>3. EarlyDataCurrent'
  <2> SUFFICES ASSUME mem'.hit
               PROVE  IsBramLoad(mem'.op) /\ mem'.data = bram'[mem'.op.addr]
    BY DEF EarlyDataCurrent, IsBramLoad, IsLoad
  <2>1. EX_cache_ready /\ mem'.op = ex /\ mem'.data = EX_probe_data(ex.addr)
    BY DEF Advance, ToMem, InMem
  <2>2. QED
    BY <1>0, <2>1, ProbeCurrent DEF EX_cache_ready
<1>4. QED
  BY <1>0, <1>2, <1>3, BackendCoherent, BackendFastPath DEF IInv

LEMMA BusyIInv ==
  ASSUME IInv, Busy
  PROVE  IInv'
<1>0. TypeOK /\ Backend /\ WriteBram /\ mem' = mem /\ ex' = ex
  BY DEF IInv, Busy, Backend
<1>1. TypeOK'
  BY <1>0, BackendType DEF TypeOK
<1>2. EarlyDataCurrent'
  <2> SUFFICES ASSUME mem.hit
               PROVE  IsBramLoad(mem.op) /\ mem.data = bram'[mem.op.addr]
    BY <1>0 DEF EarlyDataCurrent, IsBramLoad, IsLoad
  <2>1. IsBramLoad(mem.op) /\ mem.data = bram[mem.op.addr]
    BY DEF IInv, EarlyDataCurrent
  <2>2. ~MEM_store_hits(mem.op.addr) /\ mem.op.addr \in Bram
    BY <2>1 DEF IsBramLoad, IsLoad, MEM_store_hits, MEM_store_valid, MEM_bus_wen
  <2>3. QED
    BY <1>0, <2>1, <2>2, BramNext
<1>3. QED
  BY <1>0, <1>1, <1>2, BackendCoherent, BackendFastPath DEF IInv

LEMMA RedirectIInv ==
  ASSUME IInv, Redirect
  PROVE  IInv'
<1>0. /\ TypeOK /\ Backend /\ mem' = InMem(NoAccess, FALSE, AnyWord)
      /\ ex' = NoAccess
  BY DEF IInv, Redirect, FlushMem
<1>1. TypeOK'
  BY <1>0, BackendType, AccessType, PlaceholderType DEF TypeOK, InMem
<1>2. EarlyDataCurrent'
  BY <1>0 DEF EarlyDataCurrent, InMem
<1>3. QED
  BY <1>0, <1>1, <1>2, BackendCoherent, BackendFastPath DEF IInv

LEMMA NextIInv == IInv /\ [Next]_vars => IInv'
<1> SUFFICES ASSUME IInv, [Next]_vars PROVE IInv'
  OBVIOUS
<1>1. CASE Advance(NoAccess)
  BY <1>1, AdvanceIInv, AccessType
<1>2. ASSUME NEW a \in Addr, NEW e \in BOOLEAN, Advance(LoadOp(a, e))
      PROVE  IInv'
  BY <1>2, AdvanceIInv, AccessType
<1>3. ASSUME NEW a \in Addr, NEW ln \in StoreLanes, NEW d \in StoreData,
             Advance(StoreOp(a, ln, d))
      PROVE  IInv'
  BY <1>3, AdvanceIInv, AccessType
<1>4. CASE Busy
  BY <1>4, BusyIInv
<1>5. CASE Redirect
  BY <1>5, RedirectIInv
<1>6. CASE UNCHANGED vars
  BY <1>6
  DEF vars, IInv, TypeOK, BuffersCoherent, L0Coherent, FillCoherent,
      BypassCoherent, L0Hit, BypassHit, EarlyDataCurrent, FastPathAgrees,
      IsBramLoad, IsLoad, perip_rdata
<1>7. QED
  BY <1>1, <1>2, <1>3, <1>4, <1>5, <1>6 DEF Next

LEMMA SpecIInv == Spec => []IInv
<1>1. QED
  BY InitIInv, NextIInv, PTL DEF Spec

-----------------------------------------------------------------------------
(* Every register of the load path keeps its type. *)
THEOREM LoadPathType == Spec => []TypeOK
<1>1. IInv => TypeOK
  BY DEF IInv
<1>2. QED
  BY <1>1, SpecIInv, PTL

(* No L0 line, pending fill or bypass entry is ever older than memory. *)
THEOREM LoadPathCoherent == Spec => []BuffersCoherent
<1>1. IInv => BuffersCoherent
  BY DEF IInv
<1>2. QED
  BY <1>1, SpecIInv, PTL

(* The early probe never hands over a word an older store has replaced. *)
THEOREM LoadPathEarlyData == Spec => []EarlyDataCurrent
<1>1. IInv => EarlyDataCurrent
  BY DEF IInv
<1>2. QED
  BY <1>1, SpecIInv, PTL

(* The forwarded word of a BRAM load is the word it writes back. *)
THEOREM LoadPathFastPath == Spec => []FastPathAgrees
<1>1. IInv => FastPathAgrees
  BY DEF IInv
<1>2. QED
  BY <1>1, SpecIInv, PTL
=============================================================================
