---------------------------- MODULE BoundedQueue -----------------------------
(***************************************************************************)
(* What a mailbox or a message queue promises: messages wait in order, at  *)
(* most Capacity of them; they are added at the end, an urgent one at the  *)
(* front, taken from the front, and dropped together by a reset.           *)
(***************************************************************************)
EXTENDS Naturals, Sequences

CONSTANTS Message, Capacity, Urgent

VARIABLE q

Send == Len(q) < Capacity /\ \E m \in Message : q' = Append(q, m)

SendUrgent == Urgent /\ Len(q) < Capacity /\ \E m \in Message : q' = <<m>> \o q

Receive == q # <<>> /\ q' = Tail(q)

Reset == q' = <<>>

Spec == q = <<>> /\ [][Send \/ SendUrgent \/ Receive \/ Reset]_q
=============================================================================
