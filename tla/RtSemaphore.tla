----------------------------- MODULE RtSemaphore -----------------------------
(***************************************************************************)
(* The semaphore of RT-Thread (rt-thread/kernel/src/ipc.c).  A release     *)
(* with a thread waiting gives the permit to that thread and leaves value  *)
(* alone.  ghost.permits is the number of permits as the callers know it:  *)
(* every successful release adds one, every take that returned RT_EOK took *)
(* one away.                                                               *)
(***************************************************************************)
EXTENDS RtIpc

CONSTANT RT_SEM_VALUE_MAX

ASSUME SemAssumption == RT_SEM_VALUE_MAX \in Nat \ {0}

(* For the properties, which count threads and permits. *)
ASSUME FiniteAssumption == IsFiniteSet(Thread) /\ IsFiniteSet(Object)

SemValue == 0..RT_SEM_VALUE_MAX

rt_sem_init(value, flag) == [kind |-> "sem", value |-> value, flag |-> flag]

rt_sem_create(value, flag) == [kind |-> "sem", value |-> value, flag |-> flag]

SemMade(t, o, value, flag) ==
  /\ MakeObject(t, o, IF o \in StaticObject THEN rt_sem_init(value, flag)
                      ELSE rt_sem_create(value, flag))
  /\ ghost' = IF o \in StaticObject THEN ghost
              ELSE [ghost EXCEPT !.permits = @ + value]

SemInited(t) ==
  /\ ObjectInited(t, "sem")
  /\ ghost' = [ghost EXCEPT !.permits = @ + call[t].made.value]

rt_sem_detach(t, o) ==
  /\ DetachObject(t, o, "sem", rt_ipc_list_resume_all(k, Waiters(o)))
  /\ ghost' = [ghost EXCEPT !.permits = @ - obj[o].value]

rt_sem_delete(t, o) ==
  /\ DeleteObject(t, o, "sem", rt_ipc_list_resume_all(k, Waiters(o)))
  /\ ghost' = [ghost EXCEPT !.permits = @ - obj[o].value]

(* At once, or after a wait that ends in SemTaken; time 0 does not wait.   *)
rt_sem_take(t, o, time) ==
  /\ Usable(t, o, "sem")
  /\ \/ /\ obj[o].value > 0
        /\ obj' = [obj EXCEPT ![o].value = @ - 1]
        /\ ghost' = [ghost EXCEPT !.permits = @ - 1]
        /\ UNCHANGED <<k, call, idle>>
     \/ /\ obj[o].value = 0
        /\ Blocks(t, Waiters(o), obj[o].flag, time, [op |-> "sem_take", object |-> o])

(* The return of the rt_schedule in rt_sem_take. *)
SemTaken(t) ==
  /\ Returns(t, "sem_take")
  /\ ghost' = [ghost EXCEPT !.permits = IF k.thread[t].error = "EOK" THEN @ - 1 ELSE @]
  /\ Done(t)
  /\ UNCHANGED <<k, obj, idle>>

(* Mutant: the value counts up though a thread gets the permit. *)
ReleaseTwice(t, o) ==
  /\ Usable(t, o, "sem") /\ obj[o].value < RT_SEM_VALUE_MAX
  /\ k' = IF k.wait[Waiters(o)] # <<>> THEN rt_schedule(rt_ipc_list_resume(k, Waiters(o))) ELSE k
  /\ obj' = [obj EXCEPT ![o].value = @ + 1]
  /\ ghost' = [ghost EXCEPT !.permits = @ + 1]
  /\ UNCHANGED <<call, idle>>

(* Mutant: the limit is not looked at. *)
ReleaseUnbounded(t, o) ==
  /\ Usable(t, o, "sem") /\ k.wait[Waiters(o)] = <<>>
  /\ obj' = [obj EXCEPT ![o].value = @ + 1]
  /\ ghost' = [ghost EXCEPT !.permits = @ + 1]
  /\ UNCHANGED <<k, call, idle>>

(* With the value at its limit and nobody waiting nothing happens. *)
rt_sem_release(t, o) ==
  /\ Usable(t, o, "sem")
  /\ \/ /\ k.wait[Waiters(o)] # <<>>
        /\ k' = rt_schedule(rt_ipc_list_resume(k, Waiters(o)))
        /\ UNCHANGED obj
     \/ /\ k.wait[Waiters(o)] = <<>> /\ obj[o].value < RT_SEM_VALUE_MAX
        /\ obj' = [obj EXCEPT ![o].value = @ + 1]
        /\ UNCHANGED k
  /\ ghost' = [ghost EXCEPT !.permits = @ + 1]
  /\ UNCHANGED <<call, idle>>

(* RT_IPC_CMD_RESET *)
rt_sem_control(t, o, value) ==
  /\ Usable(t, o, "sem")
  /\ k' = rt_schedule(rt_ipc_list_resume_all(k, Waiters(o)))
  /\ obj' = [obj EXCEPT ![o].value = value]
  /\ ghost' = [ghost EXCEPT !.permits = @ - obj[o].value + value]
  /\ UNCHANGED <<call, idle>>

-----------------------------------------------------------------------------
(* A thread to which a release gave a permit and whose call has not yet    *)
(* returned.                                                               *)
Granted(t) ==
  call[t].op = "sem_take" /\ ~InWaitList(t) /\ k.thread[t].error = "EOK"

Permits == [o \in Object |-> IF obj[o].kind = "sem" THEN obj[o].value ELSE 0]

(* No permit is lost or doubled between rt_sem_release and the takes that  *)
(* return RT_EOK, whatever time-outs, resets and deletions come between;   *)
(* and nobody waits while there is one.                                    *)
PermitsKept ==
  /\ ghost.permits = Cardinality({t \in Thread : Granted(t)}) + SumFunctionOnSet(Permits, Object)
  /\ \A o \in Object :
       obj[o].kind = "sem" /\ k.wait[Waiters(o)] # <<>> => obj[o].value = 0
=============================================================================
