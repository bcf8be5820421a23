------------------------------- MODULE RtMutex -------------------------------
(***************************************************************************)
(* The mutex of RT-Thread (rt-thread/kernel/src/ipc.c), with its priority  *)
(* inheritance: a thread that has to wait lends its priority to the owner, *)
(* and the owner gets its own back with its last release.                  *)
(* ghost.held[o][t] is how often t has taken o, as t was told.             *)
(***************************************************************************)
EXTENDS RtIpc

CONSTANT RT_MUTEX_HOLD_MAX

ASSUME MutexAssumption == RT_MUTEX_HOLD_MAX \in Nat \ {0}

rt_mutex_init(flag) ==
  [kind |-> "mutex", value |-> 1, owner |-> NoThread, original_priority |-> 255,
   hold |-> 0, flag |-> flag]

rt_mutex_create(flag) ==
  [kind |-> "mutex", value |-> 1, owner |-> NoThread, original_priority |-> 255,
   hold |-> 0, flag |-> flag]

MutexMade(t, o, flag) ==
  /\ MakeObject(t, o, IF o \in StaticObject THEN rt_mutex_init(flag) ELSE rt_mutex_create(flag))
  /\ UNCHANGED ghost

MutexInited(t) == ObjectInited(t, "mutex") /\ UNCHANGED ghost

(* The owner may give a mutex up this way, or anyone when it is free; not  *)
(* an owner that runs with a borrowed priority, which it would keep.       *)
MayGo(t, o) ==
  \/ obj[o].owner = NoThread
  \/ obj[o].owner = t /\ k.thread[t].current_priority = obj[o].original_priority

rt_mutex_detach(t, o) ==
  /\ DetachObject(t, o, "mutex", rt_ipc_list_resume_all(k, Waiters(o))) /\ MayGo(t, o)
  /\ ghost' = [ghost EXCEPT !.held[o][t] = 0]

rt_mutex_delete(t, o) ==
  /\ DeleteObject(t, o, "mutex", rt_ipc_list_resume_all(k, Waiters(o))) /\ MayGo(t, o)
  /\ ghost' = [ghost EXCEPT !.held[o][t] = 0]

(* Mutant: the owner's priority is set to the waiter's, up or down. *)
LendAlways(s, m, t) == rt_thread_control(s, m.owner, s.thread[t].current_priority)

(* The priority of t goes to the owner if it is the higher one. *)
Lend(s, m, t) ==
  IF s.thread[t].current_priority < s.thread[m.owner].current_priority
  THEN rt_thread_control(s, m.owner, s.thread[t].current_priority)
  ELSE s

rt_mutex_take(t, o, time) ==
  LET m == obj[o]
      s == [k EXCEPT !.thread[t].error = "EOK"]
      taken(n) == /\ obj' = [obj EXCEPT ![o] = n]
                  /\ ghost' = [ghost EXCEPT !.held[o][t] = @ + 1]
                  /\ k' = s
                  /\ UNCHANGED <<call, idle>>
  IN  /\ Usable(t, o, "mutex")
      /\ \/ m.owner = t /\ m.hold < RT_MUTEX_HOLD_MAX /\ taken([m EXCEPT !.hold = @ + 1])
         \/ /\ m.owner # t /\ m.value > 0
            /\ taken([m EXCEPT !.value = @ - 1, !.owner = t, !.hold = @ + 1,
                               !.original_priority = k.thread[t].current_priority])
         \/ /\ m.owner # t /\ m.value = 0 /\ time = 0
            /\ k' = [k EXCEPT !.thread[t].error = "ETIMEOUT"]
            /\ UNCHANGED <<obj, ghost, call, idle>>
         \/ /\ m.owner # t /\ m.value = 0 /\ time # 0 /\ k.lock_nest = 0
            /\ k' = WaitIn(Lend(s, m, t), Waiters(o), t, m.flag, time)
            /\ call' = [call EXCEPT ![t] = [op |-> "mutex_take", object |-> o]]
            /\ UNCHANGED <<obj, ghost, idle>>

MutexTaken(t) ==
  /\ Returns(t, "mutex_take")
  /\ ghost' = IF k.thread[t].error = "EOK"
              THEN [ghost EXCEPT !.held[call[t].object][t] = @ + 1] ELSE ghost
  /\ Done(t)
  /\ UNCHANGED <<k, obj, idle>>

(* Mutant: the lent priority is kept. *)
KeepPriority(s, m) == s

(* The owner's priority, when its last hold ends. *)
Restore(s, m) ==
  IF m.original_priority # s.thread[m.owner].current_priority
  THEN rt_thread_control(s, m.owner, m.original_priority) ELSE s

(* Mutant: the mutex is free until the thread that was woken takes it. *)
HandOverNobody(s, m, u) == [m EXCEPT !.owner = NoThread, !.hold = 0, !.value = 1]

(* The first thread that waits owns the mutex before it runs. *)
HandOver(s, m, u) ==
  [m EXCEPT !.owner = u, !.original_priority = s.thread[u].current_priority]

rt_mutex_release(t, o) ==
  LET m == obj[o]
      s == Restore(k, m)
      queue == k.wait[Waiters(o)]
  IN  /\ Usable(t, o, "mutex")
      /\ \/ /\ m.owner # t
            /\ k' = [k EXCEPT !.thread[t].error = "ERROR"]
            /\ UNCHANGED <<obj, ghost>>
         \/ /\ m.owner = t /\ m.hold > 1
            /\ obj' = [obj EXCEPT ![o].hold = @ - 1]
            /\ ghost' = [ghost EXCEPT !.held[o][t] = @ - 1]
            /\ UNCHANGED k
         \/ /\ m.owner = t /\ m.hold = 1 /\ queue # <<>>
            /\ obj' = [obj EXCEPT ![o] = HandOver(s, m, Head(queue))]
            /\ ghost' = [ghost EXCEPT !.held[o][t] = @ - 1]
            /\ k' = rt_schedule(rt_ipc_list_resume(s, Waiters(o)))
         \/ /\ m.owner = t /\ m.hold = 1 /\ queue = <<>>
            /\ obj' = [obj EXCEPT ![o] = [m EXCEPT !.value = @ + 1, !.owner = NoThread, !.hold = 0,
                                                   !.original_priority = 255]]
            /\ ghost' = [ghost EXCEPT !.held[o][t] = @ - 1]
            /\ k' = s
      /\ UNCHANGED <<call, idle>>

-----------------------------------------------------------------------------
Mutexes == {o \in Object : obj[o].kind = "mutex"}
Holders(o) == {t \in Thread : ghost.held[o][t] > 0}

(* Mutual exclusion as the callers see it: a mutex is held by one thread   *)
(* at most, the one the object names as its owner, as often as it says;    *)
(* after a hand-over the owner is the thread about to be told so.          *)
MutualExclusion ==
  \A o \in Object :
    IF obj[o].kind # "mutex" THEN Holders(o) = {}
    ELSE LET m == obj[o]
         IN  /\ Holders(o) \subseteq {m.owner}
             /\ m.owner = NoThread <=> m.value = 1 /\ m.hold = 0
             /\ m.owner # NoThread =>
                  \/ ghost.held[o][m.owner] = m.hold
                  \/ /\ ghost.held[o][m.owner] = 0 /\ m.hold = 1
                     /\ call[m.owner] = [op |-> "mutex_take", object |-> o]
                     /\ ~InWaitList(m.owner) /\ k.thread[m.owner].error = "EOK"
             /\ k.wait[Waiters(o)] # <<>> => m.owner # NoThread

(* Priority inheritance, for threads that wait by priority: the owner      *)
(* never runs below a thread that waits for it.  (In FIFO order a          *)
(* hand-over leaves the new owner at its own priority.)                    *)
NoInversion ==
  \A o \in Mutexes : obj[o].flag = "PRIO" =>
    \A t \in ToSet(k.wait[Waiters(o)]) :
      k.thread[obj[o].owner].current_priority <= k.thread[t].current_priority

(* A priority that was lent ends with the mutex: a thread that owns none   *)
(* is back at the priority it was given.                                   *)
BoostEnds ==
  Kind("mutex") => \A t \in Thread :
    k.thread[t].stat \in {"READY", "SUSPEND"} /\ (\A o \in Mutexes : obj[o].owner # t)
      => k.thread[t].current_priority = ThreadPriority[t]

(* Priority inheritance is enough and is undone (ipc.c:741, 848): no       *)
(* owner runs below a thread that waits for it, and no thread keeps what   *)
(* was lent to it.                                                         *)
PriorityInheritance == NoInversion /\ BoostEnds
=============================================================================
