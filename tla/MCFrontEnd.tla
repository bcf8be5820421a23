----------------------------- MODULE MCFrontEnd -----------------------------
(***************************************************************************)
(* Four words of IROM that share one BTB entry and two hint entries.       *)
(***************************************************************************)
EXTENDS FrontEnd

MCPc == 0..3
MCPlus4 == [a \in MCPc |-> (a + 1) % 4]
MCOne == {0}
MCTwo == {0, 1}
MCSameIndex == [a \in MCPc |-> 0]
MCWordTag == [a \in MCPc |-> a]
MCHintIndex == [a \in MCPc |-> a % 2]
MCHintTag == [a \in MCPc |-> a \div 2]

\* Two plain words may be paired.  Branches go two words on, in every
\* arrangement of the kinds of instruction, or back to a plain word at the
\* reset address.
Targets == {[a \in MCPc |-> 0], [a \in MCPc |-> (a + 2) % 4]}

Layouts == {<<k, t>> \in [MCPc -> Kind] \X Targets : t[0] = 0 => k[0] = "plain"}

Pairs(k) == {<<a, b>> \in MCPc \X MCPc : k[a] = "plain" /\ k[b] = "plain"}

MCPrograms == {[kind |-> l[1], target |-> l[2], dual |-> Pairs(l[1])] : l \in Layouts}
=============================================================================
