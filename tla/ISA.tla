--------------------------------- MODULE ISA --------------------------------
(***************************************************************************)
(* What the CPU promises software: instructions take effect one after the  *)
(* other, in program order, each one completely.  Two may do so in one     *)
(* step, as a dual-issue packet does.                                      *)
(***************************************************************************)
EXTENDS RV32

VARIABLES rom, arch   \* arch: pc, registers, memory and CSRs

ResetState ==
  [pc |-> 0, regs |-> ResetRegs, mem |-> ResetMem, csr |-> [c \in CsrNo |-> 0]]

Step(st) ==
  LET i == rom[st.pc]
      a == st.regs[i.rs1]
      b == st.regs[i.rs2]
      r == ExResult(i, st.pc, a, b, st.csr)
      w == WordOf(r)
  IN [pc   |-> NextPc(i, st.pc, a, b, st.csr),
      regs |-> WriteReg(st.regs, i, IF MemRead(i) THEN Load(i, r, st.mem[w]) ELSE r),
      mem  |-> IF MemWrite(i)
               THEN [st.mem EXCEPT ![w] =
                       MergeLanes(@, store_data(i, b), store_lanes(i, r))]
               ELSE st.mem,
      csr  |-> CsrNext(i, st.pc, a, st.csr)]

Init == rom \in [PC -> Instr] /\ arch = ResetState

RetireOne == arch' = Step(arch) /\ UNCHANGED rom

RetirePair == arch' = Step(Step(arch)) /\ UNCHANGED rom

Next == RetireOne \/ RetirePair

Spec == Init /\ [][Next]_<<rom, arch>>
=============================================================================
