----------------------------- MODULE MCLoadPath -----------------------------
(***************************************************************************)
(* Two BRAM words that share their L0 line and their bypass entry, and one *)
(* device register whose low address bits alias the first of them.         *)
(***************************************************************************)
EXTENDS LoadPath, Naturals

\* Word address 4 * region + offset: region 0 is BRAM, region 1 the devices.
MCBram == {0, 1}
MCMmio == {4}
MCLane == {"lo", "hi"}
MCByte == {0, 1}
MCL0Line == {0}
MCSbEntry == {0}
MCTag == 0..3
MCIndex == [a \in MCBram \cup MCMmio |-> 0]
MCTagOf == [a \in MCBram \cup MCMmio |-> a % 4]
MCStoreLanes == {MCLane, {"hi"}}
MCStoreData == {[b \in MCLane |-> v] : v \in MCByte}
MCDevVal == [a \in MCMmio |-> [b \in MCLane |-> IF b = "lo" THEN 1 ELSE 0]]
=============================================================================
