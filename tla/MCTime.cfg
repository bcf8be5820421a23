CONSTANTS
  ta = ta  tw = tw  th = th  ts = ts
  Thread = {ta, tw}  Idle = Idle  Main = ta  NoThread = NoThread
  TimerThread = tw  StaticThread = {tw}  Object = {th, ts}  StaticObject = {}
  Timer <- MCTimer  AppTimer = {th, ts}  SoftTimer = {ts}
  WaitList = {}  ThreadPriority <- MCPriority
  Priority = {0, 1, 2}  NewPriority = {}
  Times = {1}  TimesOf <- MCTimes  RT_TICK_MAX = 7  IdleSlice = 1  MaxNest = 0
  Bits = 3  CatchUp = 2  MaxDropped = 1  OneShotInTimeout = FALSE
SPECIFICATION Spec
INVARIANTS TickFollowsTime TimersServed
PROPERTY NapsUndisturbed
