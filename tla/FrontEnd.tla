------------------------------ MODULE FrontEnd ------------------------------
(***************************************************************************)
(* Instruction fetch (rtl/pipeline/stage/mycpu_if_stage.sv) with its       *)
(* synchronous IROM, branch predictor and pairing hints, and as much of    *)
(* ID, EX and the redirect registers of rtl/core/mycpu.sv as decides where *)
(* it fetches next.  One step is one clock edge.                           *)
(*                                                                         *)
(* A word of the IROM is named by its address: what it holds is `prog`.    *)
(***************************************************************************)
EXTENDS Naturals

CONSTANTS
  Pc,                   \* word addresses of the IROM
  RESET_VAL,
  plus4,                \* the address of the next word
  Programs,
  BtbIndex, BtbTag, btbIndex, btbTag,       \* pc[7:2], pc[15:8]
  HintIndex, HintTag, hintIndex, hintTag    \* pc[9:2], pc[15:8]

Kind == {"plain", "branch", "jal", "jalr_csr"}

(* dual: the pairs of words that IF_dual_candidate accepts. *)
Program == [kind : [Pc -> Kind], target : [Pc -> Pc], dual : SUBSET (Pc \X Pc)]

ASSUME FrontEndAssumption ==
  /\ RESET_VAL \in Pc /\ plus4 \in [Pc -> Pc]
  /\ Programs \subseteq Program
  /\ btbIndex \in [Pc -> BtbIndex] /\ btbTag \in [Pc -> BtbTag]
  /\ hintIndex \in [Pc -> HintIndex] /\ hintTag \in [Pc -> HintTag]
  /\ \A p \in Programs : \A a, b \in Pc : 
       <<a, b>> \in p.dual => p.kind[a] = "plain" /\ p.kind[b] = "plain"

(* Index and tag together name one word of the IROM. *)
ASSUME TagAssumption ==
  \A a, b \in Pc :
    /\ btbIndex[a] = btbIndex[b] /\ btbTag[a] = btbTag[b] => a = b
    /\ hintIndex[a] = hintIndex[b] /\ hintTag[a] = hintTag[b] => a = b

VARIABLES
  prog,        \* the program in the IROM
  IF_pc,
  irom,        \* <<irom_data, irom_data1>>
  hold,        \* IF_fetch_hold_*
  btb, hint, pending,
  id, ex,      \* the packets in ID and EX
  redirect,    \* redirect_valid_q, redirect_target_q
  bp_update,   \* redirect_bp_*_q, redirect_taken_q
  arch_pc      \* history: where the program is, in program order

fetch == <<IF_pc, irom, hold, btb, hint, pending>>
vars == <<prog, fetch, id, ex, redirect, bp_update, arch_pc>>

Packet == [valid : BOOLEAN, pc : Pc, instr : Pc \X Pc, dual : BOOLEAN,
           pred_taken : BOOLEAN, pred_target : Pc]

NoPacket == [valid |-> FALSE, pc |-> RESET_VAL, instr |-> <<RESET_VAL, RESET_VAL>>,
             dual |-> FALSE, pred_taken |-> FALSE, pred_target |-> RESET_VAL]

-----------------------------------------------------------------------------
(* What IF offers in this cycle. *)
IF_fetch == IF hold.valid THEN hold.data ELSE irom

IF_dual_candidate == IF_fetch \in prog.dual

btb_hit ==
  LET e == btb[btbIndex[IF_pc]] IN e.valid /\ e.tag = btbTag[IF_pc]

IF_pred_taken ==
  LET e == btb[btbIndex[IF_pc]] IN btb_hit /\ (e.is_jal \/ e.bht \in {2, 3})

IF_pred_target == btb[btbIndex[IF_pc]].target

(* Mutant: the tag is not compared. *)
HintUntagged ==
  LET e == hint[hintIndex[IF_pc]] IN e.valid /\ e.value

dual_hint_ready ==
  LET e == hint[hintIndex[IF_pc]] IN e.valid /\ e.tag = hintTag[IF_pc] /\ e.value

IF_issue_dual == ~IF_pred_taken /\ dual_hint_ready

IF_seq_pc == IF dual_hint_ready THEN plus4[plus4[IF_pc]] ELSE plus4[IF_pc]

IF_next_pc ==
  IF redirect.valid THEN redirect.target
  ELSE IF IF_pred_taken THEN IF_pred_target
  ELSE IF_seq_pc

-----------------------------------------------------------------------------
(* One edge of the IF registers.  The IROM is always asked for the next    *)
(* word; a stall saves the one that was there.                             *)

(* Mutant: the hold registers are loaded in every stalled cycle. *)
HoldReloaded(stall) ==
  hold' = [valid |-> stall, data |-> irom]

UpdateHold(stall) ==
  hold' = IF ~stall THEN [hold EXCEPT !.valid = FALSE]
          ELSE IF ~hold.valid THEN [valid |-> TRUE, data |-> irom]
          ELSE hold

UpdateHint ==
  /\ hint' = IF pending.valid
             THEN [hint EXCEPT ![pending.index] =
                     [valid |-> TRUE, tag |-> pending.tag, value |-> pending.value]]
             ELSE hint
  /\ pending' = [valid |-> TRUE, index |-> hintIndex[IF_pc], tag |-> hintTag[IF_pc],
                 value |-> IF_dual_candidate]

(* Mutant: the counter does not saturate. *)
BhtWraps(e) == IF bp_update.taken THEN e.bht + 1 ELSE e.bht

bht_next(e) ==
  IF ~e.valid THEN (IF bp_update.is_jal THEN 1 ELSE IF bp_update.taken THEN 2 ELSE 0)
  ELSE IF bp_update.is_jal THEN e.bht
  ELSE IF bp_update.taken THEN (IF e.bht = 3 THEN 3 ELSE e.bht + 1)
  ELSE (IF e.bht = 0 THEN 0 ELSE e.bht - 1)

UpdateBtb ==
  btb' = IF bp_update.en
         THEN [btb EXCEPT ![btbIndex[bp_update.pc]] =
                 [valid |-> TRUE, tag |-> btbTag[bp_update.pc],
                  target |-> bp_update.target, is_jal |-> bp_update.is_jal,
                  bht |-> bht_next(btb[btbIndex[bp_update.pc]])]]
         ELSE btb

FetchEdge(stall) ==
  /\ IF_pc' = IF stall THEN IF_pc ELSE IF_next_pc
  /\ irom' = <<IF_next_pc, plus4[IF_next_pc]>>
  /\ UpdateHold(stall) /\ UpdateHint /\ UpdateBtb
  /\ UNCHANGED prog

(* IF/ID takes the packet. *)
ToID ==
  id' = [valid |-> TRUE, pc |-> IF_pc, instr |-> IF_fetch, dual |-> IF_issue_dual,
         pred_taken |-> IF_pred_taken, pred_target |-> IF_pred_target]

-----------------------------------------------------------------------------
(* EX resolves the first instruction of its packet.  taken and dest are    *)
(* what its operands make of a branch and of an indirect jump.             *)
EX_kind == IF ex.valid THEN prog.kind[ex.instr[1]] ELSE "plain"
EX_target == prog.target[ex.instr[1]]

BranchTaken(taken) == EX_kind \in {"jal", "jalr_csr"} \/ (EX_kind = "branch" /\ taken)

(* Mutant: a branch predicted taken is not looked at. *)
TakenTrusted(taken, dest) ==
  \/ EX_kind = "branch" /\ ~ex.pred_taken /\ taken
  \/ EX_kind = "jal" /\ ~ex.pred_taken
  \/ EX_kind = "jalr_csr" /\ (~ex.pred_taken \/ ex.pred_target # dest)

BranchMispredict(taken, dest) ==
  \/ EX_kind = "branch" /\ ex.pred_taken # taken
  \/ EX_kind = "jal" /\ ~ex.pred_taken
  \/ EX_kind = "jalr_csr" /\ (~ex.pred_taken \/ ex.pred_target # dest)

IF_npc_redirect_raw(taken, dest) ==
  IF EX_kind = "jalr_csr" THEN dest
  ELSE IF BranchTaken(taken) THEN EX_target
  ELSE plus4[ex.pc]

(* Mutant: the predictor learns where the branch went this time. *)
TrainWithNpc(taken, dest) ==
  bp_update' = [en |-> EX_kind \in {"branch", "jal"}, pc |-> ex.pc,
                target |-> IF_npc_redirect_raw(taken, dest),
                is_jal |-> EX_kind = "jal", taken |-> BranchTaken(taken)]

Train(taken, dest) ==
  bp_update' = [en |-> EX_kind \in {"branch", "jal"}, pc |-> ex.pc, target |-> EX_target,
                is_jal |-> EX_kind = "jal", taken |-> BranchTaken(taken)]

Resolve(taken, dest) ==
  /\ Train(taken, dest)
  /\ redirect' = [valid |-> BranchMispredict(taken, dest),
                  target |-> IF_npc_redirect_raw(taken, dest)]
  /\ arch_pc' = IF ~ex.valid THEN arch_pc
                ELSE IF ex.dual THEN plus4[plus4[ex.pc]]
                ELSE IF_npc_redirect_raw(taken, dest)

-----------------------------------------------------------------------------
(* The four things an edge can do, as in Pipeline. *)
Flow ==
  /\ ~redirect.valid
  /\ \E taken \in BOOLEAN, dest \in Pc : Resolve(taken, dest)
  /\ FetchEdge(FALSE) /\ ToID /\ ex' = id

(* ID waits for a load. *)
HazardStall ==
  /\ ~redirect.valid /\ id.valid
  /\ \E taken \in BOOLEAN, dest \in Pc : Resolve(taken, dest)
  /\ FetchEdge(TRUE) /\ ex' = NoPacket
  /\ UNCHANGED id

(* EX runs a multi-cycle operation. *)
ExecuteBusy ==
  /\ ~redirect.valid /\ ex.valid /\ EX_kind = "plain"
  /\ FetchEdge(TRUE)
  /\ bp_update' = [bp_update EXCEPT !.en = FALSE]
  /\ UNCHANGED <<id, ex, redirect, arch_pc>>

(* The registered redirect flushes; it is withdrawn when IF is not stalled, *)
(* and only a packet in ID or EX can stall it.                              *)
Kill ==
  /\ redirect.valid
  /\ \E stall \in (IF id.valid THEN BOOLEAN ELSE {FALSE}) :
       /\ FetchEdge(stall)
       /\ redirect' = [redirect EXCEPT !.valid = stall]
  /\ id' = NoPacket /\ ex' = NoPacket
  /\ bp_update' = [bp_update EXCEPT !.en = FALSE]
  /\ UNCHANGED arch_pc

(* The BHT is not reset. *)
Init ==
  /\ prog \in Programs
  /\ IF_pc = RESET_VAL /\ irom = <<RESET_VAL, plus4[RESET_VAL]>>
  /\ hold = [valid |-> FALSE, data |-> irom]
  /\ \E c \in 0..3, t \in BtbTag :
       btb = [i \in BtbIndex |-> [valid |-> FALSE, tag |-> t, target |-> RESET_VAL,
                                  is_jal |-> FALSE, bht |-> c]]
  /\ \E t \in HintTag, v \in BOOLEAN :
       /\ hint = [i \in HintIndex |-> [valid |-> FALSE, tag |-> t, value |-> v]]
       /\ pending = [valid |-> FALSE, index |-> hintIndex[RESET_VAL], tag |-> t, value |-> v]
  /\ id = NoPacket /\ ex = NoPacket
  /\ redirect = [valid |-> FALSE, target |-> RESET_VAL]
  /\ bp_update = [en |-> FALSE, pc |-> RESET_VAL, target |-> RESET_VAL,
                  is_jal |-> FALSE, taken |-> FALSE]
  /\ arch_pc = RESET_VAL

Next == Flow \/ HazardStall \/ ExecuteBusy \/ Kill

Spec == Init /\ [][Next]_vars

-----------------------------------------------------------------------------
BtbEntry == [valid : BOOLEAN, tag : BtbTag, target : Pc, is_jal : BOOLEAN, bht : 0..3]
HintEntry == [valid : BOOLEAN, tag : HintTag, value : BOOLEAN]

(* Registers keep to their width; the two-bit branch history saturates     *)
(* (mycpu_if_stage.sv:407).                                                *)
TypeOK ==
  /\ prog \in Programs /\ IF_pc \in Pc /\ irom \in Pc \X Pc
  /\ hold \in [valid : BOOLEAN, data : Pc \X Pc]
  /\ btb \in [BtbIndex -> BtbEntry] /\ hint \in [HintIndex -> HintEntry]
  /\ pending \in [valid : BOOLEAN, index : HintIndex, tag : HintTag, value : BOOLEAN]
  /\ id \in Packet /\ ex \in Packet
  /\ redirect \in [valid : BOOLEAN, target : Pc]
  /\ bp_update \in [en : BOOLEAN, pc : Pc, target : Pc, is_jal : BOOLEAN, taken : BOOLEAN]
  /\ arch_pc \in Pc

(* The words IF offers are those at IF_pc and behind it, through stalls in *)
(* which the IROM runs ahead (mycpu_if_stage.sv:126).                      *)
FetchMatchesPc == IF_fetch = <<IF_pc, plus4[IF_pc]>>

(* A pairing hint learnt at another time, or for another word, never makes *)
(* an illegal packet (mycpu_if_stage.sv:257, "a hit is always valid").     *)
PairLegal == dual_hint_ready => <<IF_pc, plus4[IF_pc]>> \in prog.dual

(* Only a branch or jal is predicted taken, and always to its own target:  *)
(* EX does not compare it (mycpu_redirect_ctrl.sv:36).                     *)
PredictionStatic ==
  IF_pred_taken => /\ prog.kind[IF_pc] \in {"branch", "jal"}
                   /\ IF_pred_target = prog.target[IF_pc]

(* A packet that EX executes is the next one of the program: nothing is    *)
(* skipped, repeated or left over from the wrong path (mycpu.sv:622).      *)
CommittedPath ==
  ex.valid /\ ~redirect.valid =>
    ex.pc = arch_pc /\ ex.instr = <<ex.pc, plus4[ex.pc]>>
=============================================================================
