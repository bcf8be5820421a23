------------------------------- MODULE MCTime -------------------------------
EXTENDS RtTime

CONSTANTS ta, tw, th, ts

MCTimer == All \cup AppTimer
MCPriority == ta :> 1 @@ tw :> 0 @@ Idle :> 2
MCTimes == th :> {1, 2} @@ ts :> {1, 2}
=============================================================================
