------------------------------- MODULE RtSync --------------------------------
(***************************************************************************)
(* Threads, the scheduler, the idle thread's tick, semaphores and mutexes: *)
(* RtKernel, RtSemaphore and RtMutex together.                             *)
(***************************************************************************)
EXTENDS RtSemaphore, RtMutex

CONSTANTS
  Setups,   \* the objects a behaviour may have: their kinds, "none" for those it has not
  Handled,  \* bound: kinds with which threads are also suspended, resumed, locked by hand
  Mortal    \* bound: threads that end or are deleted

ASSUME SyncAssumption == Setups \subseteq [Object -> {"none", "sem", "mutex"}]

vars == <<kernelVars, ipcVars>>

Init ==
  /\ KernelInit
  /\ \E kind \in Setups : obj = [o \in Object |-> Absent(kind[o])]
  /\ ghost = [permits |-> 0, held |-> [o \in Object |-> [t \in Thread |-> 0]]]

Owner(t) == \E o \in Mutexes : obj[o].owner = t

(* An owner neither ends nor is deleted: the mutex would stay locked. *)
ThreadLife ==
  \E t, u \in Thread :
    /\ \/ Create(t, u) \/ InitThread(t, u) \/ ThreadInited(t) \/ Startup(t, u)
       \/ t \in Mortal /\ ~Owner(t) /\ Exit(t)
       \/ u \in Mortal /\ ~Owner(u) /\ Delete(t, u)
    /\ UNCHANGED ipcVars

Sleeping ==
  \E t \in Thread :
    /\ \/ \E time \in Times : Sleep(t, time)
       \/ \E last \in Tick, inc \in Times : rt_thread_delay_until(t, last, inc)
       \/ Awake(t)
       \/ Yield(t)
    /\ UNCHANGED ipcVars

(* Priorities are not set by hand where a mutex lends them. *)
Control ==
  \E t, u \in Thread :
    /\ \E kind \in Handled : Kind(kind)
    /\ \/ Suspend(t, u) \/ Resume(t, u)
       \/ \E p \in NewPriority : SetPriority(t, u, p) /\ ~Kind("mutex")
       \/ EnterCritical(t) \/ ExitCritical(t)
    /\ UNCHANGED ipcVars

IdleThread ==
  /\ IdleTick(ThreadTimeout(rt_tick_increase(k))) \/ IdleResumes(ThreadTimeout(Rest)) \/ IdleReaps
  /\ UNCHANGED ipcVars

Semaphores ==
  \E t \in Thread, o \in Object :
    \/ \E v \in SemValue, f \in FlagsOf[o] : SemMade(t, o, v, f)
    \/ SemInited(t) \/ rt_sem_detach(t, o) \/ rt_sem_delete(t, o)
    \/ \E time \in Times \cup {0, Forever} : rt_sem_take(t, o, time)
    \/ SemTaken(t) \/ rt_sem_release(t, o)
    \/ \E v \in SemValue : rt_sem_control(t, o, v)

MutexSteps ==
  \E t \in Thread, o \in Object :
    \/ \E f \in FlagsOf[o] : MutexMade(t, o, f)
    \/ MutexInited(t) \/ rt_mutex_detach(t, o) \/ rt_mutex_delete(t, o)
    \/ \E time \in Times \cup {0, Forever} : rt_mutex_take(t, o, time)
    \/ MutexTaken(t) \/ rt_mutex_release(t, o)

Next == ThreadLife \/ Sleeping \/ Control \/ IdleThread \/ Semaphores \/ MutexSteps

Spec == Init /\ [][Next]_vars

-----------------------------------------------------------------------------
ObjectTypeOK ==
  \A o \in Object :
    \/ obj[o] \in {Absent(kind) : kind \in {"none", "sem", "mutex"}}
    \/ obj[o] \in [kind : {"sem"}, value : SemValue, flag : Flag]
    \/ obj[o] \in [kind : {"mutex"}, value : 0..1, owner : Thread \cup {NoThread},
                   original_priority : Priority \cup {255}, hold : 0..RT_MUTEX_HOLD_MAX,
                   flag : Flag]

(* Threads, timers and objects keep to the types of rtdef.h: a semaphore's *)
(* value and a mutex's hold never pass their maxima (ipc.c).               *)
TypeOK == KernelTypeOK /\ ObjectTypeOK

(* The tables of the kernel agree with each other between any two steps:   *)
(* ready table and threads (scheduler.c), threads and their timers         *)
(* (thread.c, timer.c), objects and their lists (object.c).                *)
KernelInv == TypeOK /\ ReadyTable /\ ThreadTimers /\ NoneOverdue /\ Registered
=============================================================================
