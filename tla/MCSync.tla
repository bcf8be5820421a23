------------------------------- MODULE MCSync --------------------------------
EXTENDS RtSync

CONSTANTS ta, tb, tc, os, od

MCPriority == ta :> 1 @@ tb :> 0 @@ tc :> 2 @@ Idle :> 2
MCTimer == Thread \cup {Idle}
MCWaitList == IpcWaitList
MCFlags == os :> {"FIFO"} @@ od :> {"PRIO"}
Alone(o, kind) == [x \in Object |-> IF x = o THEN kind ELSE "none"]
MCSetups == {Alone(os, "none"), Alone(os, "sem"), Alone(od, "sem"), Alone(os, "mutex"), Alone(od, "mutex")}
=============================================================================
