------------------------------ MODULE MCMessage ------------------------------
EXTENDS RtMessage

CONSTANTS ta, tb, tc, os, od, blk1, blk2

MCPriority == ta :> 1 @@ tb :> 0 @@ tc :> 1 @@ Idle :> 2
MCTimer == Thread \cup {Idle}
MCWaitList == IpcWaitList
MCFlags == os :> {"FIFO"} @@ od :> {"PRIO"}
MCOrder == <<blk1, blk2>>
MCSetups == Object \X {"event", "mailbox", "mq", "pool"}
MCPatience ==
  [o \in Object, kind \in {"event", "mailbox", "mq", "pool"} |->
     IF o = os THEN {0, Forever} ELSE IF kind = "event" THEN {0} ELSE {2}]
MCOptions == {[mode |-> "AND", clear |-> FALSE], [mode |-> "OR", clear |-> TRUE]}
=============================================================================
