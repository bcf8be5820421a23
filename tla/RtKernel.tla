------------------------------ MODULE RtKernel ------------------------------
(***************************************************************************)
(* Threads, scheduler and tick of RT-Thread (rt-thread/kernel/src:         *)
(* scheduler.c, thread.c, clock.c, idle.c) as the mycpu board runs them:   *)
(* there is no interrupt, the tick is made by a hook of the idle thread,   *)
(* and the CPU changes hands in rt_schedule only.  The timeout functions   *)
(* of timers therefore run in the idle thread, which may be left in the    *)
(* middle of rt_timer_check.                                               *)
(*                                                                         *)
(* An operator named as a C function takes the kernel's state and returns  *)
(* it as the function leaves it; an action is what the running thread does *)
(* up to the next switch.                                                  *)
(***************************************************************************)
EXTENDS RtTimer, FiniteSets

CONSTANTS
  Thread, Idle,
  Main,               \* the thread that rt_application_init starts
  StaticThread,       \* made by rt_thread_init, not by rt_thread_create
  Priority,           \* 0..RT_THREAD_PRIORITY_MAX-1, 0 the highest
  ThreadPriority,     \* the priority a thread is created with
  StaticObject, Object, \* IPC objects; those made by an _init function
  NoThread,
  NewPriority,        \* priorities for RT_THREAD_CTRL_CHANGE_PRIORITY
  WaitList,           \* the lists of suspended threads in IPC objects
  Times,              \* ticks a thread may ask to wait
  IdleSlice,          \* init_tick of the idle thread
  MaxNest             \* bound of rt_scheduler_lock_nest

All == Thread \cup {Idle}

ASSUME KernelAssumption ==
  /\ Idle \notin Thread /\ Main \in Thread /\ StaticThread \subseteq Thread \ {Main}
  /\ All \subseteq Timer \ SoftTimer /\ NoThread \notin All
  /\ Priority = 0..ThreadPriority[Idle] /\ ThreadPriority \in [All -> Priority]
  /\ NewPriority \subseteq Priority
  /\ Times \subseteq 1..(RT_TICK_MAX \div 2 - 1)
  /\ IdleSlice \in Nat \ {0} /\ MaxNest \in Nat

VARIABLES
  k,      \* the kernel's state
  call,   \* the call in which a thread waits, or Running
  idle    \* where the idle thread is: in its loop or inside rt_tick_increase

kernelVars == <<k, call, idle>>

Stat == {"NONE", "INIT", "READY", "SUSPEND", "CLOSE"}
Error == {"EOK", "ETIMEOUT", "ERROR"}

ThreadRecord == [stat : Stat, current_priority : Priority, number_mask : SUBSET Priority,
                 error : Error]

Running == [op |-> "none"]
Looping == [at |-> "loop"]

-----------------------------------------------------------------------------
(* Lists.  A thread has one node, tlist, for all of them. *)
ListRemove(s, t) ==
  [s EXCEPT !.ready = [p \in Priority |-> rt_list_remove(@[p], t)],
            !.wait = [l \in WaitList |-> rt_list_remove(@[l], t)],
            !.defunct = rt_list_remove(@, t)]

rt_schedule_insert_thread(s, t) ==
  LET p == s.thread[t].current_priority
  IN  [s EXCEPT !.thread[t].stat = "READY",
                !.ready[p] = Append(@, t),
                !.group = @ \cup s.thread[t].number_mask]

rt_schedule_remove_thread(s, t) ==
  LET u == ListRemove(s, t)
  IN  IF u.ready[s.thread[t].current_priority] = <<>>
      THEN [u EXCEPT !.group = @ \ s.thread[t].number_mask]
      ELSE u

HighestReady(s) == CHOOSE p \in s.group : \A q \in s.group : p <= q

rt_schedule(s) ==
  IF s.lock_nest = 0 THEN [s EXCEPT !.current = Head(s.ready[HighestReady(s)])] ELSE s

rt_enter_critical(s) == [s EXCEPT !.lock_nest = @ + 1]

rt_exit_critical(s) ==
  LET u == [s EXCEPT !.lock_nest = @ - 1]
  IN  IF u.lock_nest = 0 THEN rt_schedule(u) ELSE u

-----------------------------------------------------------------------------
(* object.c: the container knows the objects that exist.  Looking for an   *)
(* object in it locks the scheduler and unlocks it, so that rt_object_init *)
(* may lose the CPU before the object is in the container.                 *)
rt_object_find(s) == rt_exit_critical(rt_enter_critical(s))

rt_object_init(s, o) == [s EXCEPT !.registered = @ \cup {o}]

rt_object_allocate(s, o) == [s EXCEPT !.registered = @ \cup {o}]

rt_object_detach(s, o) == [s EXCEPT !.registered = @ \ {o}]

rt_object_delete(s, o) == [s EXCEPT !.registered = @ \ {o}]

rt_object_is_systemobject(o) == o \in StaticThread \cup StaticObject \cup {Idle}

-----------------------------------------------------------------------------
(* thread.c *)
rt_thread_suspend(s, t) ==
  IF s.thread[t].stat # "READY" THEN s
  ELSE [rt_schedule_remove_thread(s, t) EXCEPT
          !.thread[t].stat = "SUSPEND", !.tm = rt_timer_stop(@, t)]

(* Mutant: the timer of a thread that is woken goes on. *)
ResumedTimerRuns(s, t) ==
  IF s.thread[t].stat # "SUSPEND" THEN s
  ELSE rt_schedule_insert_thread(ListRemove(s, t), t)

rt_thread_resume(s, t) ==
  IF s.thread[t].stat # "SUSPEND" THEN s
  ELSE rt_schedule_insert_thread(
         [ListRemove(s, t) EXCEPT !.tm = rt_timer_stop(@, t)], t)

rt_thread_timeout(s, t) ==
  rt_schedule(rt_schedule_insert_thread(
    ListRemove([s EXCEPT !.thread[t].error = "ETIMEOUT"], t), t))

(* Mutant: a ready thread stays in the list of its old priority. *)
PriorityInPlace(s, t, p) ==
  [s EXCEPT !.thread[t].current_priority = p, !.thread[t].number_mask = {p}]

(* RT_THREAD_CTRL_CHANGE_PRIORITY *)
rt_thread_control(s, t, p) ==
  LET set(x) == [x EXCEPT !.thread[t].current_priority = p, !.thread[t].number_mask = {p}]
  IN  IF s.thread[t].stat = "READY"
      THEN rt_schedule_insert_thread(set(rt_schedule_remove_thread(s, t)), t)
      ELSE set(s)

rt_thread_yield(s) ==
  LET t == s.current
      p == s.thread[t].current_priority
  IN  IF s.thread[t].stat = "READY" /\ Len(s.ready[p]) > 1
      THEN rt_schedule([ListRemove(s, t) EXCEPT !.ready[p] = Append(@, t)])
      ELSE s

(* RT_TIMER_CTRL_SET_TIME and rt_timer_start.  The period of a thread's    *)
(* timer is set before every start, so it is not kept.                     *)
StartThreadTimer(s, t, time) ==
  [s EXCEPT !.tm = SetTime(rt_timer_start(SetTime(@, t, time), s.tick, t), t, 0)]

(* Up to the return of its rt_schedule; also rt_thread_delay, _mdelay. *)
rt_thread_sleep(s, time) ==
  rt_schedule(StartThreadTimer(rt_thread_suspend(s, s.current), s.current, time))

ThreadSetup(s, t) ==
  [s EXCEPT !.thread[t] = [stat |-> "INIT", current_priority |-> ThreadPriority[t],
                           number_mask |-> {}, error |-> "EOK"],
            !.tm = rt_timer_init(@, t, 0, FALSE)]

(* The object of the thread's timer is made within a further               *)
(* rt_enter_critical and rt_exit_critical (thread.c:190, object.c:312).    *)
(* A switch there is one that EnterCritical and ExitCritical make: nobody  *)
(* else has the thread before the call returns.                            *)
rt_thread_create(s, t) == ThreadSetup(rt_object_allocate(s, t), t)

(* After the search of the container. *)
rt_thread_init(s, t) == ThreadSetup(rt_object_init(s, t), t)

(* There is nothing to switch from before the scheduler is started. *)
rt_thread_startup(s, t) ==
  LET p == ThreadPriority[t]
      u == rt_thread_resume([s EXCEPT !.thread[t].stat = "SUSPEND",
                                      !.thread[t].current_priority = p,
                                      !.thread[t].number_mask = {p}], t)
  IN  IF s.current = NoThread THEN u ELSE rt_schedule(u)

Unschedule(s, t) ==
  LET u == IF s.thread[t].stat = "INIT" THEN s ELSE rt_schedule_remove_thread(s, t)
  IN  [u EXCEPT !.tm = rt_timer_detach(@, t), !.thread[t].stat = "CLOSE"]

(* Mutant: the object stays in the container. *)
DetachKeepsObject(s, t) == Unschedule(s, t)

rt_thread_detach(s, t) == rt_object_detach(Unschedule(s, t), t)

rt_thread_delete(s, t) ==
  LET u == Unschedule(s, t) IN [u EXCEPT !.defunct = <<t>> \o @]

rt_thread_exit(s) ==
  LET t == s.current
  IN  rt_schedule(IF rt_object_is_systemobject(t) THEN rt_thread_detach(s, t)
                  ELSE rt_thread_delete(s, t))

-----------------------------------------------------------------------------
(* What a thread may do between two switches.  A call that gives the CPU   *)
(* away is noted in call[t] and goes on when t is the current thread again.*)
IsRunning(t) == k.current = t /\ t \in Thread /\ call[t] = Running
Returns(t, op) == k.current = t /\ t \in Thread /\ call[t].op = op

Create(t, u) ==
  /\ IsRunning(t) /\ ~rt_object_is_systemobject(u) /\ k.thread[u].stat = "NONE"
  /\ k' = rt_thread_create(k, u)
  /\ UNCHANGED <<call, idle>>

(* The search of the container, which may switch to another thread. *)
FindFirst(t, u) ==
  /\ k' = rt_object_find(k)
  /\ call' = [call EXCEPT ![t] = [op |-> "init", object |-> u]]
  /\ UNCHANGED idle

BeingMade(o) == \E t \in Thread : call[t].op = "init" /\ call[t].object = o

InitThread(t, u) ==
  /\ IsRunning(t) /\ u \in StaticThread /\ k.thread[u].stat = "CLOSE" /\ ~BeingMade(u)
  /\ FindFirst(t, u)

ThreadInited(t) ==
  /\ Returns(t, "init") /\ call[t].object \in Thread
  /\ k' = rt_thread_init(k, call[t].object)
  /\ call' = [call EXCEPT ![t] = Running]
  /\ UNCHANGED idle

Startup(t, u) ==
  /\ IsRunning(t) /\ k.thread[u].stat = "INIT"
  /\ k' = rt_thread_startup(k, u)
  /\ UNCHANGED <<call, idle>>

(* Not with the scheduler locked: the thread would go on after its end. *)
Exit(t) ==
  /\ IsRunning(t) /\ k.lock_nest = 0
  /\ k' = rt_thread_exit(k)
  /\ UNCHANGED <<call, idle>>

(* A thread is not deleted while it makes an object, nor between being     *)
(* woken from a call and its return: what it was given would be lost.      *)
InWaitList(t) == \E l \in WaitList : Contains(k.wait[l], t)
MayBeDeleted(u) == call[u].op \in {"none", "sleep"} \/ InWaitList(u)

Delete(t, u) ==
  /\ IsRunning(t) /\ u \in Thread \ {t} /\ k.thread[u].stat \notin {"NONE", "CLOSE"}
  /\ MayBeDeleted(u)
  /\ k' = IF rt_object_is_systemobject(u) THEN rt_thread_detach(k, u)
          ELSE rt_thread_delete(k, u)
  /\ call' = [call EXCEPT ![u] = Running]
  /\ UNCHANGED idle

Sleep(t, time) ==
  /\ IsRunning(t) /\ k.lock_nest = 0
  /\ k' = rt_thread_sleep(k, time)
  /\ call' = [call EXCEPT ![t] = [op |-> "sleep"]]
  /\ UNCHANGED idle

(* last is the tick of the previous wake-up; there is nothing to wait for  *)
(* when inc ticks have passed since.                                       *)
rt_thread_delay_until(t, last, inc) ==
  /\ IsRunning(t) /\ k.lock_nest = 0 /\ Minus(k.tick, last) < inc
  /\ k' = rt_thread_sleep(k, Minus(last + inc, k.tick))
  /\ call' = [call EXCEPT ![t] = [op |-> "sleep"]]
  /\ UNCHANGED idle

(* The return from rt_schedule in rt_thread_sleep. *)
Awake(t) ==
  /\ Returns(t, "sleep")
  /\ k' = [k EXCEPT !.thread[t].error = IF @ = "ETIMEOUT" THEN "EOK" ELSE @]
  /\ call' = [call EXCEPT ![t] = Running]
  /\ UNCHANGED idle

Yield(t) ==
  /\ IsRunning(t)
  /\ k' = rt_thread_yield(k)
  /\ UNCHANGED <<call, idle>>

(* Another thread, or itself with the rt_schedule that must follow. *)
Suspend(t, u) ==
  /\ IsRunning(t) /\ k.thread[u].stat = "READY" /\ (u = t => k.lock_nest = 0)
  /\ k' = IF u = t THEN rt_schedule(rt_thread_suspend(k, u)) ELSE rt_thread_suspend(k, u)
  /\ UNCHANGED <<call, idle>>

(* A thread that waits for an object is not resumed by hand: its call      *)
(* would return as if it had got the object.                               *)
Resume(t, u) ==
  /\ IsRunning(t) /\ k.thread[u].stat = "SUSPEND" /\ ~InWaitList(u)
  /\ k' = rt_thread_resume(k, u)
  /\ UNCHANGED <<call, idle>>

SetPriority(t, u, p) ==
  /\ IsRunning(t) /\ k.thread[u].stat \in {"READY", "SUSPEND"}
  /\ k' = rt_thread_control(k, u, p)
  /\ UNCHANGED <<call, idle>>

EnterCritical(t) ==
  /\ IsRunning(t) /\ k.lock_nest < MaxNest
  /\ k' = rt_enter_critical(k)
  /\ UNCHANGED <<call, idle>>

ExitCritical(t) ==
  /\ IsRunning(t) /\ k.lock_nest > 0
  /\ k' = rt_exit_critical(k)
  /\ UNCHANGED <<call, idle>>

-----------------------------------------------------------------------------
(* The idle thread.  The next two give the kernel as it is where the idle  *)
(* thread is next left or calls a timeout function, and that place.        *)
CheckTimers(s) ==
  IF Expires(s.tm, "hard", s.tick)
  THEN [k |-> [s EXCEPT !.tm = TakeExpired(@, "hard")],
        idle |-> [at |-> "callback", timer |-> Head(s.tm.list["hard"])]]
  ELSE [k |-> s, idle |-> Looping]

(* Time slice, then the timers, unless the slice gave the CPU away. *)
rt_tick_increase(s) ==
  LET x == [s EXCEPT !.tick = (@ + 1) % (RT_TICK_MAX + 1),
                     !.remaining_tick = IF @ = 1 THEN IdleSlice ELSE @ - 1]
      y == IF s.remaining_tick = 1 THEN rt_thread_yield(x) ELSE x
  IN  IF y.current = Idle THEN CheckTimers(y) ELSE [k |-> y, idle |-> [at |-> "yield"]]

(* The rest of rt_tick_increase, when idle has the CPU again. *)
Rest ==
  CheckTimers(IF idle.at = "yield" THEN k
              ELSE [k EXCEPT !.tm = AfterTimeout(@, k.tick, idle.timer)])

(* The timeout function of a thread's timer, where one is called. *)
ThreadTimeout(r) == {IF r.idle.at = "callback" THEN rt_thread_timeout(r.k, r.idle.timer) ELSE r.k}

(* after: the states in which the timeout function may leave the kernel. *)
IdleTick(after) ==
  /\ k.current = Idle /\ idle = Looping
  /\ k' \in after /\ idle' = rt_tick_increase(k).idle
  /\ UNCHANGED call

IdleResumes(after) ==
  /\ k.current = Idle /\ idle # Looping
  /\ k' \in after /\ idle' = Rest.idle
  /\ UNCHANGED call

rt_thread_idle_excute(s) ==
  [s EXCEPT !.defunct = <<>>, !.registered = @ \ ToSet(s.defunct),
            !.thread = [t \in All |-> IF Contains(s.defunct, t)
                                      THEN [@[t] EXCEPT !.stat = "NONE"] ELSE @[t]]]

IdleReaps ==
  /\ k.current = Idle /\ idle = Looping /\ k.defunct # <<>>
  /\ k' = rt_thread_idle_excute(k)
  /\ UNCHANGED <<call, idle>>

-----------------------------------------------------------------------------
(* The start: rtthread_startup makes the main and the idle thread and      *)
(* gives the CPU to the first ready one.                                   *)
rt_system_scheduler_init ==
  [thread |-> [t \in All |->
                 [stat |-> IF t \in StaticThread THEN "CLOSE" ELSE "NONE",
                  current_priority |-> ThreadPriority[t], number_mask |-> {},
                  error |-> "EOK"]],
   ready |-> [p \in Priority |-> <<>>], wait |-> [l \in WaitList |-> <<>>],
   defunct |-> <<>>, group |-> {}, current |-> NoThread, lock_nest |-> 0,
   registered |-> {}, tick |-> 0, remaining_tick |-> IdleSlice,
   tm |-> rt_system_timer_init]

rt_application_init(s) == rt_thread_startup(rt_thread_create(s, Main), Main)

rt_thread_idle_init(s) == rt_thread_startup(rt_thread_init(s, Idle), Idle)

rt_system_scheduler_start(s) ==
  [s EXCEPT !.current = Head(s.ready[HighestReady(s)])]

rtthread_startup ==
  rt_system_scheduler_start(rt_thread_idle_init(rt_application_init(
    rt_system_scheduler_init)))

KernelInit ==
  /\ k = rtthread_startup
  /\ call = [t \in Thread |-> Running]
  /\ idle = Looping

-----------------------------------------------------------------------------
KernelTypeOK ==
  /\ k.thread \in [All -> ThreadRecord]
  /\ \A p \in Priority : ToSet(k.ready[p]) \subseteq All
  /\ \A l \in WaitList : ToSet(k.wait[l]) \subseteq Thread
  /\ ToSet(k.defunct) \subseteq Thread /\ k.group \subseteq Priority
  /\ k.current \in All /\ k.lock_nest \in 0..MaxNest /\ k.tick \in Tick
  /\ k.remaining_tick \in 1..IdleSlice /\ k.registered \subseteq All \cup Object
  /\ DOMAIN call = Thread /\ idle.at \in {"loop", "yield", "callback"}

(* Where a thread is in the lists its node may link it into. *)
At(list, t) == {i \in DOMAIN list : list[i] = t}
Places(t) ==
  (UNION {{<<"ready", p, i>> : i \in At(k.ready[p], t)} : p \in Priority})
    \cup (UNION {{<<"wait", l, i>> : i \in At(k.wait[l], t)} : l \in WaitList})
    \cup {<<"defunct", 0, i>> : i \in At(k.defunct, t)}

(* The ready table of scheduler.c: exactly the ready threads are in it,    *)
(* each once, in the list of its current priority, the bits of the         *)
(* priority group are those of the lists that are not empty, and the       *)
(* thread that has the CPU is one of them.                                 *)
ReadyTable ==
  /\ \A t \in All :
       /\ (k.thread[t].stat = "READY") <=> Contains(k.ready[k.thread[t].current_priority], t)
       /\ \A x, y \in Places(t) : x = y
       /\ k.thread[t].stat = "READY" => k.thread[t].number_mask = {k.thread[t].current_priority}
  /\ k.group = {p \in Priority : k.ready[p] # <<>>}
  /\ k.thread[k.current].stat = "READY"

(* timer.c and thread.c agree about a thread's timer: it is active exactly *)
(* while it is in the timer list or in the hands of rt_timer_check, and    *)
(* then its thread is suspended (the assertion of rt_thread_timeout).      *)
ThreadTimers ==
  LET list == k.tm.list["hard"]
  IN  /\ ToSet(list) = k.tm.active
      /\ \A t \in k.tm.active : k.thread[t].stat = "SUSPEND"
      /\ \A i, j \in DOMAIN list :
           i < j => Reached(k.tm.timeout_tick[list[j]], k.tm.timeout_tick[list[i]])

(* rt_timer_check leaves no expired timer behind: when the idle thread is  *)
(* in its loop, every timer of a thread lies in the future.  A wait that   *)
(* is over is never left for a later wrap of the tick.                     *)
NoneOverdue ==
  idle = Looping => \A t \in k.tm.active :
    Minus(k.tm.timeout_tick[t], k.tick) \in 1..(RT_TICK_MAX \div 2)

=============================================================================
