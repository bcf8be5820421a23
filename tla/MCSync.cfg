CONSTANTS
  ta = ta  tb = tb  tc = tc  os = os  od = od
  Thread = {ta, tb, tc}  Idle = Idle  Main = ta  NoThread = NoThread
  StaticThread = {tc}  Object = {os, od}  StaticObject = {os}
  Timer <- MCTimer  SoftTimer = {}  WaitList <- MCWaitList  ThreadPriority <- MCPriority  Setups <- MCSetups  FlagsOf <- MCFlags  Handled = {"none"}  Mortal = {tb, tc}
  Priority = {0, 1, 2}  NewPriority = {0}
  Times = {1}  Forever = Forever  RT_TICK_MAX = 4  IdleSlice = 1  MaxNest = 1
  RT_SEM_VALUE_MAX = 1  RT_MUTEX_HOLD_MAX = 2
SPECIFICATION Spec
INVARIANTS KernelInv PermitsKept MutualExclusion PriorityInheritance
