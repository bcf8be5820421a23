CONSTANTS
  ta = ta  tb = tb  tc = tc  os = os  od = od  blk1 = blk1  blk2 = blk2
  Thread = {ta, tb, tc}  Idle = Idle  Main = ta  NoThread = NoThread
  StaticThread = {}  Object = {os, od}  StaticObject = {os}
  Timer <- MCTimer  SoftTimer = {}  WaitList <- MCWaitList  ThreadPriority <- MCPriority
  Setups <- MCSetups  FlagsOf <- MCFlags  Options <- MCOptions
  Priority = {0, 1, 2}  NewPriority = {}
  Times = {2}  Naps = {1}  Producer = {ta, tc}  Consumer = {tb, tc}  Patience <- MCPatience  Forever = Forever  RT_TICK_MAX = 6  IdleSlice = 1  MaxNest = 0
  EventBit = {1, 2}  Mail = {1, 2}  NoMail = NoMail  PoolBlock = {blk1, blk2}  PoolOrder <- MCOrder
  Message = {1, 2}  NoMessage = NoMessage  MailboxSize = 2
  Block = {blk1, blk2}  NoBlock = NoBlock  FreeOrder <- MCOrder
SPECIFICATION Spec
INVARIANTS ObjectInv NobodySleepsOn WaitEndsInTime
PROPERTY IsBoundedQueue
