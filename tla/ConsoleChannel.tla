--------------------------- MODULE ConsoleChannel ---------------------------
(***************************************************************************)
(* What the console output path promises: the bytes the CPU writes leave   *)
(* on the serial line, each once and in order, and a byte is accepted only *)
(* when the one before it has left.                                        *)
(***************************************************************************)
EXTENDS Naturals, Sequences

CONSTANT Byte

VARIABLES written, sent

Init == written = <<>> /\ sent = <<>>

Write(b) ==
  /\ written = sent
  /\ written' = Append(written, b)
  /\ UNCHANGED sent

Send ==
  /\ Len(sent) < Len(written)
  /\ sent' = Append(sent, written[Len(sent) + 1])
  /\ UNCHANGED written

Next == Send \/ \E b \in Byte : Write(b)

Spec == Init /\ [][Next]_<<written, sent>> /\ WF_<<written, sent>>(Send)
=============================================================================
