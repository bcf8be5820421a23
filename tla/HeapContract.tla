---------------------------- MODULE HeapContract ----------------------------
(***************************************************************************)
(* What the callers of rt_malloc, rt_realloc and rt_free may rely on: the  *)
(* blocks that are out are pieces of the heap that do not overlap, each at *)
(* least as long as was asked, and a call changes none but the one it is   *)
(* about.                                                                  *)
(***************************************************************************)
EXTENDS Integers

VARIABLES
  room,         \* the addresses of the heap's data, once and for all
  blocks        \* [start, size, asked] of the blocks that are out

Cells(b) == b.start..(b.start + b.size - 1)

Fits(b, others) ==
  /\ b.asked \in 1..b.size /\ Cells(b) \subseteq room
  /\ \A o \in others : Cells(b) \cap Cells(o) = {}

Init == blocks = {}

Allocate == \E b \in blocks' : Fits(b, blocks) /\ blocks' = blocks \cup {b}

Free == \E b \in blocks : blocks' = blocks \ {b}

(* In place: no longer than before. *)
Resize ==
  \E b \in blocks : \E n \in 1..b.size : \E k \in 1..n :
    blocks' = (blocks \ {b}) \cup {[start |-> b.start, size |-> n, asked |-> k]}

(* The old block is there until what it holds is copied. *)
Move == \E b \in blocks, c \in blocks' : Fits(c, blocks) /\ blocks' = (blocks \ {b}) \cup {c}

Next == (Allocate \/ Free \/ Resize \/ Move) /\ UNCHANGED room

Spec == Init /\ [][Next]_<<room, blocks>>
=============================================================================
