--------------------------- MODULE FrontEndProofs ---------------------------
(***************************************************************************)
(* The front end keeps to the program, for every IROM, every program and   *)
(* every size of the two tables.                                           *)
(***************************************************************************)
EXTENDS FrontEnd, TLAPS

Word(p) == <<p, plus4[p]>>

Controls(p) == prog.kind[p] \in {"branch", "jal"}

(* What the two tables, and the registers in front of them, have learnt. *)
HintsLegal ==
  \A p \in Pc :
    LET e == hint[hintIndex[p]]
    IN e.valid /\ e.tag = hintTag[p] /\ e.value => Word(p) \in prog.dual

PendingLegal ==
  \A p \in Pc :
    pending.valid /\ pending.index = hintIndex[p] /\ pending.tag = hintTag[p]
      /\ pending.value => Word(p) \in prog.dual

BtbStatic ==
  \A p \in Pc :
    LET e == btb[btbIndex[p]]
    IN e.valid /\ e.tag = btbTag[p] => Controls(p) /\ e.target = prog.target[p]

UpdateStatic ==
  bp_update.en =>
    Controls(bp_update.pc) /\ bp_update.target = prog.target[bp_update.pc]

Learnt == HintsLegal /\ PendingLegal /\ BtbStatic /\ UpdateStatic

(* A packet is made of the words at its address, and its pairing and       *)
(* prediction are possible for them.                                       *)
WellFormed(p) ==
  p.valid =>
    /\ p.instr = Word(p.pc)
    /\ p.dual => Word(p.pc) \in prog.dual /\ ~p.pred_taken
    /\ p.pred_taken => Controls(p.pc) /\ p.pred_target = prog.target[p.pc]

PacketsWellFormed == WellFormed(id) /\ WellFormed(ex)

(* Where fetching went after a packet. *)
PathAhead(p) ==
  IF p.pred_taken THEN p.pred_target
  ELSE IF p.dual THEN plus4[plus4[p.pc]]
  ELSE plus4[p.pc]

(* From arch_pc on, EX, ID and IF follow each other; a pending redirect    *)
(* goes to arch_pc.                                                        *)
Chain ==
  /\ redirect.valid => redirect.target = arch_pc
  /\ ~redirect.valid =>
       /\ ex.valid => ex.pc = arch_pc
       /\ id.valid => id.pc = IF ex.valid THEN PathAhead(ex) ELSE arch_pc
       /\ IF_pc = IF id.valid THEN PathAhead(id)
                  ELSE IF ex.valid THEN PathAhead(ex)
                  ELSE arch_pc

IndInv == TypeOK /\ FetchMatchesPc /\ Learnt /\ PacketsWellFormed /\ Chain

-----------------------------------------------------------------------------
(* What IF offers is typed. *)
LEMMA OfferType ==
  ASSUME TypeOK
  PROVE  /\ IF_fetch \in Pc \X Pc
         /\ IF_pred_taken \in BOOLEAN /\ IF_pred_target \in Pc
         /\ IF_issue_dual \in BOOLEAN
         /\ IF_next_pc \in Pc
<1>1. btb[btbIndex[IF_pc]] \in BtbEntry /\ hint[hintIndex[IF_pc]] \in HintEntry
  BY FrontEndAssumption DEF TypeOK
<1>2. IF_fetch \in Pc \X Pc
  BY DEF TypeOK, IF_fetch
<1>3. IF_pred_taken \in BOOLEAN /\ IF_pred_target \in Pc
  BY <1>1 DEF IF_pred_taken, btb_hit, IF_pred_target, BtbEntry
<1>4. dual_hint_ready \in BOOLEAN
  BY <1>1 DEF dual_hint_ready, HintEntry
<1>5. IF_seq_pc \in Pc
  BY <1>4, FrontEndAssumption DEF TypeOK, IF_seq_pc
<1>6. IF_next_pc \in Pc
  BY <1>3, <1>5 DEF TypeOK, IF_next_pc
<1> QED
  BY <1>2, <1>3, <1>4, <1>6 DEF IF_issue_dual

(* What IF offers is possible at its address. *)
LEMMA OfferStatic ==
  ASSUME TypeOK, Learnt
  PROVE  PairLegal /\ PredictionStatic
<1>1. IF_pc \in Pc
  BY DEF TypeOK
<1>2. PairLegal
  BY <1>1 DEF PairLegal, dual_hint_ready, Learnt, HintsLegal, Word
<1>3. PredictionStatic
  BY <1>1 DEF PredictionStatic, IF_pred_taken, btb_hit, IF_pred_target, Learnt,
              BtbStatic, Controls
<1> QED
  BY <1>2, <1>3

-----------------------------------------------------------------------------
(* An edge of the IF registers keeps their types. *)
LEMMA FetchType ==
  ASSUME TypeOK, NEW stall \in BOOLEAN, FetchEdge(stall)
  PROVE  /\ prog' \in Programs /\ IF_pc' \in Pc /\ irom' \in Pc \X Pc
         /\ hold' \in [valid : BOOLEAN, data : Pc \X Pc]
         /\ btb' \in [BtbIndex -> BtbEntry] /\ hint' \in [HintIndex -> HintEntry]
         /\ pending' \in [valid : BOOLEAN, index : HintIndex, tag : HintTag,
                           value : BOOLEAN]
<1>1. prog' \in Programs /\ IF_pc' \in Pc /\ irom' \in Pc \X Pc
  BY OfferType, FrontEndAssumption DEF FetchEdge, TypeOK
<1>2. hold' \in [valid : BOOLEAN, data : Pc \X Pc]
  BY DEF FetchEdge, UpdateHold, TypeOK
<1>3. btb' \in [BtbIndex -> BtbEntry]
  <2> DEFINE e == btb[btbIndex[bp_update.pc]]
  <2>1. e \in BtbEntry
    BY FrontEndAssumption DEF TypeOK
  <2>2. bht_next(e) \in 0..3
    BY <2>1 DEF bht_next, BtbEntry, TypeOK
  <2> HIDE DEF e
  <2>3. [valid |-> TRUE, tag |-> btbTag[bp_update.pc], target |-> bp_update.target,
         is_jal |-> bp_update.is_jal, bht |-> bht_next(e)] \in BtbEntry
    BY <2>2, FrontEndAssumption DEF BtbEntry, TypeOK
  <2> QED
    BY <2>3 DEF e, FetchEdge, UpdateBtb, TypeOK
<1>4. hint' \in [HintIndex -> HintEntry]
  BY DEF FetchEdge, UpdateHint, TypeOK, HintEntry
<1>5. pending' \in [valid : BOOLEAN, index : HintIndex, tag : HintTag, value : BOOLEAN]
  BY FrontEndAssumption DEF FetchEdge, UpdateHint, TypeOK, IF_dual_candidate
<1> QED
  BY <1>1, <1>2, <1>3, <1>4, <1>5

(* It fetches the words at the new address, or keeps those of the old one. *)
LEMMA FetchMatches ==
  ASSUME TypeOK, FetchMatchesPc, NEW stall \in BOOLEAN, FetchEdge(stall)
  PROVE  FetchMatchesPc'
<1>1. CASE ~stall
  BY <1>1, OfferType DEF FetchMatchesPc, IF_fetch, FetchEdge, UpdateHold, TypeOK
<1>2. CASE stall
  BY <1>2, OfferType DEF FetchMatchesPc, IF_fetch, FetchEdge, UpdateHold, TypeOK
<1> QED
  BY <1>1, <1>2

(* It teaches the tables only what is true of the program. *)
LEMMA FetchLearns ==
  ASSUME TypeOK, FetchMatchesPc, Learnt, NEW stall \in BOOLEAN, FetchEdge(stall)
  PROVE  HintsLegal' /\ PendingLegal' /\ BtbStatic'
<1>1. HintsLegal'
  <2> SUFFICES ASSUME NEW p \in Pc, hint'[hintIndex[p]].valid,
                      hint'[hintIndex[p]].tag = hintTag[p], hint'[hintIndex[p]].value
               PROVE  Word(p) \in prog.dual
    BY DEF HintsLegal, Word, FetchEdge
  <2>1. hintIndex[p] \in HintIndex
    BY FrontEndAssumption
  <2>2. CASE pending.valid /\ pending.index = hintIndex[p]
    BY <2>1, <2>2 DEF FetchEdge, UpdateHint, TypeOK, Learnt, PendingLegal
  <2>3. CASE ~(pending.valid /\ pending.index = hintIndex[p])
    <3>1. hint'[hintIndex[p]] = hint[hintIndex[p]]
      BY <2>1, <2>3 DEF FetchEdge, UpdateHint, TypeOK
    <3> QED
      BY <3>1 DEF Learnt, HintsLegal
  <2> QED
    BY <2>2, <2>3
<1>2. PendingLegal'
  BY TagAssumption
     DEF PendingLegal, FetchEdge, UpdateHint, FetchMatchesPc, IF_dual_candidate, Word, TypeOK
<1>3. BtbStatic'
  <2> SUFFICES ASSUME NEW p \in Pc, btb'[btbIndex[p]].valid,
                      btb'[btbIndex[p]].tag = btbTag[p]
               PROVE  Controls(p) /\ btb'[btbIndex[p]].target = prog.target[p]
    BY DEF BtbStatic, Controls, FetchEdge
  <2>1. btbIndex[p] \in BtbIndex /\ bp_update.pc \in Pc
    BY FrontEndAssumption DEF TypeOK
  <2>2. CASE bp_update.en /\ btbIndex[bp_update.pc] = btbIndex[p]
    <3>1. /\ btb'[btbIndex[p]].tag = btbTag[bp_update.pc]
          /\ btb'[btbIndex[p]].target = bp_update.target
      BY <2>1, <2>2 DEF FetchEdge, UpdateBtb, TypeOK
    <3>2. p = bp_update.pc
      BY <2>1, <2>2, <3>1, TagAssumption
    <3> QED
      BY <2>2, <3>1, <3>2 DEF Learnt, UpdateStatic
  <2>3. CASE ~(bp_update.en /\ btbIndex[bp_update.pc] = btbIndex[p])
    <3>1. btb'[btbIndex[p]] = btb[btbIndex[p]]
      BY <2>1, <2>3 DEF FetchEdge, UpdateBtb, TypeOK
    <3> QED
      BY <3>1 DEF Learnt, BtbStatic
  <2> QED
    BY <2>2, <2>3
<1> QED
  BY <1>1, <1>2, <1>3

-----------------------------------------------------------------------------
(* A packet that enters ID is well formed, and fetching goes on behind it. *)
LEMMA PacketEntersID ==
  ASSUME IndInv, ~redirect.valid, FetchEdge(FALSE), ToID
  PROVE  /\ id' \in Packet /\ WellFormed(id)'
         /\ id'.valid /\ id'.pc = IF_pc /\ IF_pc' = PathAhead(id')
<1>1. PairLegal /\ PredictionStatic
  BY OfferStatic DEF IndInv
<1>2. id' \in Packet
  BY OfferType DEF ToID, Packet, IndInv, TypeOK
<1>3. WellFormed(id)'
  BY <1>1 DEF WellFormed, ToID, FetchEdge, IndInv, FetchMatchesPc, PairLegal,
              PredictionStatic, IF_issue_dual, Word, Controls
<1>4. id'.valid /\ id'.pc = IF_pc
  BY DEF ToID
<1>5. IF_pc' = PathAhead(id')
  BY OfferType DEF ToID, FetchEdge, PathAhead, IF_next_pc, IF_seq_pc, IF_issue_dual, IndInv
<1> QED
  BY <1>2, <1>3, <1>4, <1>5

(* EX moves the program to where fetching went, or redirects to it. *)
LEMMA ResolveFollows ==
  ASSUME IndInv, ~redirect.valid, NEW taken \in BOOLEAN, NEW dest \in Pc,
         Resolve(taken, dest), prog' = prog
  PROVE  /\ redirect' \in [valid : BOOLEAN, target : Pc] /\ arch_pc' \in Pc
         /\ bp_update' \in [en : BOOLEAN, pc : Pc, target : Pc, is_jal : BOOLEAN,
                             taken : BOOLEAN]
         /\ UpdateStatic'
         /\ redirect'.valid => redirect'.target = arch_pc'
         /\ ~redirect'.valid /\ ex.valid => arch_pc' = PathAhead(ex)
         /\ ~ex.valid => ~redirect'.valid /\ arch_pc' = arch_pc
<1>1. /\ prog \in Program /\ ex \in Packet
      /\ \A a, b \in Pc : <<a, b>> \in prog.dual => prog.kind[a] = "plain"
  BY FrontEndAssumption DEF IndInv, TypeOK
<1>2. /\ ex.pc \in Pc /\ ex.instr \in Pc \X Pc /\ ex.instr[1] \in Pc
      /\ ex.pred_target \in Pc /\ ex.valid \in BOOLEAN /\ ex.pred_taken \in BOOLEAN
      /\ ex.dual \in BOOLEAN
  BY <1>1 DEF Packet
<1>3. EX_kind \in Kind /\ EX_target \in Pc
  BY <1>1, <1>2 DEF EX_kind, EX_target, Program, Kind
<1>4. plus4[ex.pc] \in Pc /\ plus4[plus4[ex.pc]] \in Pc
  BY <1>2, FrontEndAssumption
<1>5. IF_npc_redirect_raw(taken, dest) \in Pc
  BY <1>3, <1>4 DEF IF_npc_redirect_raw
<1>6. ex.valid => /\ ex.instr[1] = ex.pc
                  /\ ex.dual => EX_kind = "plain" /\ ~ex.pred_taken
                  /\ ex.pred_taken => EX_kind \in {"branch", "jal"} /\ ex.pred_target = EX_target
  BY <1>1, <1>2, FrontEndAssumption
     DEF IndInv, PacketsWellFormed, WellFormed, Word, Controls, EX_kind, EX_target
<1>7. redirect' \in [valid : BOOLEAN, target : Pc] /\ arch_pc' \in Pc
  BY <1>4, <1>5 DEF Resolve, BranchMispredict, IndInv, TypeOK
<1>8. bp_update' \in [en : BOOLEAN, pc : Pc, target : Pc, is_jal : BOOLEAN, taken : BOOLEAN]
  BY <1>2, <1>3 DEF Resolve, Train, BranchTaken
<1>9. UpdateStatic'
  BY <1>6 DEF Resolve, Train, UpdateStatic, Controls, EX_kind, EX_target
<1>10. redirect'.valid => redirect'.target = arch_pc'
  BY <1>6 DEF Resolve, BranchMispredict, EX_kind
<1>11. ~redirect'.valid /\ ex.valid => arch_pc' = PathAhead(ex)
  BY <1>2, <1>3, <1>6
     DEF Resolve, BranchMispredict, IF_npc_redirect_raw, BranchTaken, PathAhead, Kind
<1>12. ~ex.valid => ~redirect'.valid /\ arch_pc' = arch_pc
  BY DEF Resolve, BranchMispredict, EX_kind
<1> QED
  BY <1>7, <1>8, <1>9, <1>10, <1>11, <1>12

-----------------------------------------------------------------------------
LEMMA NoPacketFacts ==
  NoPacket \in Packet /\ ~NoPacket.valid
BY FrontEndAssumption DEF NoPacket, Packet

LEMMA InitEstablishes ==
  Init => IndInv
<1> SUFFICES ASSUME Init PROVE IndInv
  OBVIOUS
<1> USE FrontEndAssumption, NoPacketFacts
<1>1. TypeOK
  <2>1. /\ prog \in Programs /\ IF_pc \in Pc /\ irom \in Pc \X Pc
        /\ hold \in [valid : BOOLEAN, data : Pc \X Pc]
    BY DEF Init
  <2>2. btb \in [BtbIndex -> BtbEntry]
    BY DEF Init, BtbEntry
  <2>3. /\ hint \in [HintIndex -> HintEntry]
        /\ pending \in [valid : BOOLEAN, index : HintIndex, tag : HintTag, value : BOOLEAN]
    BY DEF Init, HintEntry
  <2>4. /\ id \in Packet /\ ex \in Packet /\ arch_pc \in Pc
        /\ redirect \in [valid : BOOLEAN, target : Pc]
        /\ bp_update \in [en : BOOLEAN, pc : Pc, target : Pc, is_jal : BOOLEAN,
                           taken : BOOLEAN]
    BY DEF Init
  <2> QED
    BY <2>1, <2>2, <2>3, <2>4 DEF TypeOK
<1>2. FetchMatchesPc
  BY DEF Init, FetchMatchesPc, IF_fetch
<1>3. Learnt
  BY DEF Init, Learnt, HintsLegal, PendingLegal, BtbStatic, UpdateStatic
<1>4. PacketsWellFormed /\ Chain
  BY DEF Init, PacketsWellFormed, WellFormed, Chain
<1> QED
  BY <1>1, <1>2, <1>3, <1>4 DEF IndInv

LEMMA FlowKeeps ==
  IndInv /\ Flow => IndInv'
<1> SUFFICES ASSUME IndInv, Flow PROVE IndInv'
  OBVIOUS
<1>1. PICK taken \in BOOLEAN, dest \in Pc : Resolve(taken, dest)
  BY DEF Flow
<1>2. ~redirect.valid /\ FetchEdge(FALSE) /\ ToID /\ ex' = id /\ prog' = prog
  BY DEF Flow, FetchEdge
<1>3. TypeOK'
  BY <1>1, <1>2, FetchType, PacketEntersID, ResolveFollows DEF TypeOK, IndInv
<1>4. FetchMatchesPc'
  BY <1>2, FetchMatches DEF IndInv
<1>5. Learnt'
  BY <1>1, <1>2, FetchLearns, ResolveFollows DEF Learnt, IndInv
<1>6. PacketsWellFormed'
  BY <1>2, PacketEntersID DEF PacketsWellFormed, WellFormed, Controls, IndInv
<1>7. Chain'
  <2>1. id'.valid /\ id'.pc = IF_pc /\ IF_pc' = PathAhead(id')
    BY <1>2, PacketEntersID
  <2>2. /\ redirect'.valid => redirect'.target = arch_pc'
        /\ ~redirect'.valid /\ ex.valid => arch_pc' = PathAhead(ex)
        /\ ~ex.valid => ~redirect'.valid /\ arch_pc' = arch_pc
    BY <1>1, <1>2, ResolveFollows
  <2> QED
    BY <1>2, <2>1, <2>2 DEF Chain, PathAhead, IndInv
<1> QED
  BY <1>3, <1>4, <1>5, <1>6, <1>7 DEF IndInv

LEMMA HazardStallKeeps ==
  IndInv /\ HazardStall => IndInv'
<1> SUFFICES ASSUME IndInv, HazardStall PROVE IndInv'
  OBVIOUS
<1>1. PICK taken \in BOOLEAN, dest \in Pc : Resolve(taken, dest)
  BY DEF HazardStall
<1>2. /\ ~redirect.valid /\ id.valid /\ FetchEdge(TRUE) /\ ex' = NoPacket
      /\ id' = id /\ prog' = prog /\ IF_pc' = IF_pc
  BY DEF HazardStall, FetchEdge
<1>3. TypeOK'
  BY <1>1, <1>2, FetchType, NoPacketFacts, ResolveFollows DEF TypeOK, IndInv
<1>4. FetchMatchesPc'
  BY <1>2, FetchMatches DEF IndInv
<1>5. Learnt'
  BY <1>1, <1>2, FetchLearns, ResolveFollows DEF Learnt, IndInv
<1>6. PacketsWellFormed'
  BY <1>2, NoPacketFacts DEF PacketsWellFormed, WellFormed, Controls, IndInv
<1>7. Chain'
  <2>1. /\ redirect'.valid => redirect'.target = arch_pc'
        /\ ~redirect'.valid /\ ex.valid => arch_pc' = PathAhead(ex)
        /\ ~ex.valid => ~redirect'.valid /\ arch_pc' = arch_pc
    BY <1>1, <1>2, ResolveFollows
  <2> QED
    BY <1>2, <2>1, NoPacketFacts DEF Chain, PathAhead, IndInv
<1> QED
  BY <1>3, <1>4, <1>5, <1>6, <1>7 DEF IndInv

LEMMA ExecuteBusyKeeps ==
  IndInv /\ ExecuteBusy => IndInv'
<1> SUFFICES ASSUME IndInv, ExecuteBusy PROVE IndInv'
  OBVIOUS
<1>1. /\ FetchEdge(TRUE) /\ prog' = prog /\ IF_pc' = IF_pc
      /\ id' = id /\ ex' = ex /\ redirect' = redirect /\ arch_pc' = arch_pc
      /\ bp_update' = [bp_update EXCEPT !.en = FALSE]
  BY DEF ExecuteBusy, FetchEdge
<1>2. TypeOK'
  BY <1>1, FetchType DEF TypeOK, IndInv
<1>3. FetchMatchesPc'
  BY <1>1, FetchMatches DEF IndInv
<1>4. UpdateStatic'
  BY <1>1 DEF UpdateStatic, IndInv, TypeOK
<1>5. Learnt'
  BY <1>1, <1>4, FetchLearns DEF Learnt, IndInv
<1>6. PacketsWellFormed' /\ Chain'
  BY <1>1 DEF PacketsWellFormed, WellFormed, Controls, Chain, PathAhead, IndInv
<1> QED
  BY <1>2, <1>3, <1>5, <1>6 DEF IndInv

LEMMA KillKeeps ==
  IndInv /\ Kill => IndInv'
<1> SUFFICES ASSUME IndInv, Kill PROVE IndInv'
  OBVIOUS
<1>1. PICK stall \in BOOLEAN : /\ FetchEdge(stall)
                              /\ redirect' = [redirect EXCEPT !.valid = stall]
  BY DEF Kill
<1>2. /\ redirect.valid /\ prog' = prog /\ id' = NoPacket /\ ex' = NoPacket
      /\ arch_pc' = arch_pc /\ bp_update' = [bp_update EXCEPT !.en = FALSE]
  BY DEF Kill, FetchEdge
<1>3. redirect' \in [valid : BOOLEAN, target : Pc] /\ redirect'.valid = stall
      /\ redirect'.target = redirect.target
  BY <1>1 DEF IndInv, TypeOK
<1>4. TypeOK'
  BY <1>1, <1>2, <1>3, FetchType, NoPacketFacts DEF TypeOK, IndInv
<1>5. FetchMatchesPc'
  BY <1>1, FetchMatches DEF IndInv
<1>6. UpdateStatic'
  BY <1>2 DEF UpdateStatic, IndInv, TypeOK
<1>7. Learnt'
  BY <1>1, <1>6, FetchLearns DEF Learnt, IndInv
<1>8. PacketsWellFormed'
  BY <1>2, NoPacketFacts DEF PacketsWellFormed, WellFormed
<1>9. Chain'
  <2>1. ~stall => IF_pc' = redirect.target
    BY <1>1, <1>2 DEF FetchEdge, IF_next_pc
  <2> QED
    BY <1>2, <1>3, <2>1, NoPacketFacts DEF Chain, IndInv
<1> QED
  BY <1>4, <1>5, <1>7, <1>8, <1>9 DEF IndInv

LEMMA StutterKeeps ==
  IndInv /\ UNCHANGED vars => IndInv'
BY DEF vars, fetch, IndInv, TypeOK, FetchMatchesPc, IF_fetch, Learnt, HintsLegal,
       PendingLegal, BtbStatic, UpdateStatic, PacketsWellFormed, WellFormed, Word,
       Controls, Chain, PathAhead

(* What makes the front end right is kept by every edge. *)
THEOREM FrontEndInvariant == Spec => []IndInv
<1>1. IndInv /\ [Next]_vars => IndInv'
  BY FlowKeeps, HazardStallKeeps, ExecuteBusyKeeps, KillKeeps, StutterKeeps DEF Next
<1> QED
  BY <1>1, InitEstablishes, PTL DEF Spec

(* Registers keep to their width (TypeOK). *)
THEOREM FrontEndType == Spec => []TypeOK
<1>1. IndInv => TypeOK
  BY DEF IndInv
<1> QED
  BY <1>1, FrontEndInvariant, PTL

(* The words IF offers are those at IF_pc, for every pattern of stalls.    *)
THEOREM FrontEndFetch == Spec => []FetchMatchesPc
<1>1. IndInv => FetchMatchesPc
  BY DEF IndInv
<1> QED
  BY <1>1, FrontEndInvariant, PTL

(* The hint table, however small, never pairs words that must not be.      *)
THEOREM FrontEndPairs == Spec => []PairLegal
<1>1. IndInv => PairLegal
  BY OfferStatic DEF IndInv
<1> QED
  BY <1>1, FrontEndInvariant, PTL

(* The branch target buffer never predicts a word that is not a branch,    *)
(* nor a target that is not the branch's own.                              *)
THEOREM FrontEndPrediction == Spec => []PredictionStatic
<1>1. IndInv => PredictionStatic
  BY OfferStatic DEF IndInv
<1> QED
  BY <1>1, FrontEndInvariant, PTL

(* EX executes the packets of the program in order and no others.          *)
THEOREM FrontEndPath == Spec => []CommittedPath
<1>1. IndInv => CommittedPath
  BY DEF IndInv, Chain, CommittedPath, PacketsWellFormed, WellFormed, Word
<1> QED
  BY <1>1, FrontEndInvariant, PTL
=============================================================================
