-------------------------------- MODULE RtIpc --------------------------------
(***************************************************************************)
(* What the IPC objects of RT-Thread share (rt-thread/kernel/src/ipc.c):   *)
(* lists of threads that wait, the wait with its optional time limit, and  *)
(* the life of an object.  A thread waits in thread order or in the order  *)
(* of priorities, as the flag of the object says.                          *)
(***************************************************************************)
EXTENDS RtKernel

CONSTANTS
  Forever,      \* RT_WAITING_FOREVER, a time below zero
  FlagsOf       \* bound: the flags an object may be made with

VARIABLES
  obj,    \* the IPC objects
  ghost   \* what the callers were told: see the objects' modules

ipcVars == <<obj, ghost>>

Flag == {"FIFO", "PRIO"}

(* An object that is not there but may be made, of one kind. *)
Absent(kind) == [kind |-> "absent", as |-> kind]

(* What the objects of this behaviour are, now or when they are made. *)
Kind(kind) ==
  IF kind = "none" THEN \A o \in Object : obj[o] = Absent("none")
  ELSE \E o \in Object : obj[o].kind = kind \/ obj[o] = Absent(kind)

Exists(o) == obj[o].kind # "absent"
Usable(t, o, kind) == IsRunning(t) /\ obj[o].kind = kind

(* The list of an object, and the senders' list of a mailbox or queue. *)
Waiters(o) == <<o, "thread">>
Senders(o) == <<o, "sender">>
IpcWaitList == Object \X {"thread", "sender"}

ASSUME IpcAssumption ==
  /\ WaitList = IpcWaitList /\ StaticObject \subseteq Object /\ Object \cap All = {}
  /\ Forever \notin Times
  /\ FlagsOf \in [Object -> SUBSET Flag]

-----------------------------------------------------------------------------
(* Before the first thread of lower priority, or at the end. *)
PriorityPlace(s, queue, t) ==
  LET lower == {i \in DOMAIN queue :
                  s.thread[t].current_priority < s.thread[queue[i]].current_priority}
  IN  IF lower = {} THEN Len(queue) + 1
      ELSE CHOOSE i \in lower : \A j \in lower : i <= j

rt_ipc_list_suspend(s, l, t, flag) ==
  [rt_thread_suspend(s, t) EXCEPT
     !.wait[l] = IF flag = "FIFO" THEN Append(@, t)
                 ELSE InsertAt(@, PriorityPlace(s, @, t), t)]

rt_ipc_list_resume(s, l) == rt_thread_resume(s, Head(s.wait[l]))

(* Every waiting thread is told RT_ERROR, first come first ready. *)
rt_ipc_list_resume_all(s, l) ==
  LET queue == s.wait[l]
      after[n \in 0..Len(queue)] ==
        IF n = 0 THEN s
        ELSE rt_thread_resume([after[n - 1] EXCEPT !.thread[queue[n]].error = "ERROR"], queue[n])
  IN  after[Len(queue)]

(* The blocking half of every take and receive. *)
WaitIn(s, l, t, flag, time) ==
  LET u == rt_ipc_list_suspend([s EXCEPT !.thread[t].error = "EOK"], l, t, flag)
  IN  rt_schedule(IF time = Forever THEN u ELSE StartThreadTimer(u, t, time))

(* A call of t that has to wait.  It is not made with the scheduler        *)
(* locked.                                                                 *)
Blocks(t, l, flag, time, frame) ==
  /\ time # 0 /\ k.lock_nest = 0
  /\ k' = WaitIn(k, l, t, flag, time)
  /\ call' = [call EXCEPT ![t] = frame]
  /\ UNCHANGED <<obj, ghost, idle>>

Done(t) == call' = [call EXCEPT ![t] = Running]

-----------------------------------------------------------------------------
(* Mailboxes, queues and pools look again when they are woken, and wait    *)
(* for what is left of the time.  deadline is only there for the           *)
(* properties: the tick at which the caller wants to be back.              *)
Deadline(time) == IF time = Forever THEN 0 ELSE (k.tick + time) % (RT_TICK_MAX + 1)

Waiting(op, o, value, time, deadline) ==
  [op |-> op, object |-> o, value |-> value, timeout |-> time, deadline |-> deadline,
   since |-> IF time = Forever THEN 0 ELSE k.tick]

(* Mutant: every wait gets the whole time again. *)
WholeTime(t) == call[t].timeout

TimeLeft(t) ==
  LET f == call[t]
  IN  IF f.timeout = Forever THEN Forever
      ELSE IF f.timeout > Minus(k.tick, f.since) THEN f.timeout - Minus(k.tick, f.since) ELSE 0

Woken(t) == ~InWaitList(t) /\ k.thread[t].error = "EOK"

(* A call that waits resets thread->error first, so what a call leaves     *)
(* there is not read again: RT_EOK stands for it.                          *)
Return(s, t) == [s EXCEPT !.thread[t].error = "EOK"]

Refused(t) ==
  /\ k.thread[t].error # "EOK"
  /\ k' = Return(k, t)
  /\ Done(t) /\ UNCHANGED <<obj, ghost, idle>>

(* The end of a successful send or receive. *)
WakeFirst(s, l) == IF s.wait[l] = <<>> THEN s ELSE rt_schedule(rt_ipc_list_resume(s, l))

ResumeBoth(s, o) == rt_ipc_list_resume_all(rt_ipc_list_resume_all(s, Waiters(o)), Senders(o))

(* Objects of this sort are not removed while a call that was woken has to *)
(* look at them again: it would read freed memory.                         *)
NoCallGoesOn(o) ==
  \A t \in Thread :
    call[t].op \in {"mb_send", "mb_recv", "mq_send", "mq_recv", "mp_alloc"}
      => InWaitList(t) \/ k.thread[t].error # "EOK"

(* How many calls on list l were woken and have not gone on. *)
WokenFrom(op) == Cardinality({t \in Thread : call[t].op = op /\ Woken(t)})

-----------------------------------------------------------------------------
(* A static object is made by an _init function, which searches the object *)
(* container first and may lose the CPU there; the others by _create.      *)
MakeObject(t, o, made) ==
  /\ IsRunning(t) /\ obj[o] = Absent(made.kind) /\ ~BeingMade(o)
  /\ IF o \in StaticObject
     THEN /\ k' = rt_object_find(k)
          /\ call' = [call EXCEPT ![t] = [op |-> "init", object |-> o, made |-> made]]
          /\ UNCHANGED obj
     ELSE /\ k' = rt_object_allocate(k, o)
          /\ obj' = [obj EXCEPT ![o] = made]
          /\ UNCHANGED call
  /\ UNCHANGED idle

ObjectInited(t, kind) ==
  /\ Returns(t, "init") /\ call[t].object \in Object /\ call[t].made.kind = kind
  /\ k' = rt_object_init(k, call[t].object)
  /\ obj' = [obj EXCEPT ![call[t].object] = call[t].made]
  /\ Done(t) /\ UNCHANGED idle

(* The ends of a _detach and a _delete: the threads that wait are woken,   *)
(* none is scheduled.                                                      *)
DetachObject(t, o, kind, s) ==
  /\ Usable(t, o, kind) /\ o \in StaticObject
  /\ k' = rt_object_detach(s, o)
  /\ obj' = [obj EXCEPT ![o] = Absent(kind)]
  /\ UNCHANGED <<call, idle>>

DeleteObject(t, o, kind, s) ==
  /\ Usable(t, o, kind) /\ o \notin StaticObject
  /\ k' = rt_object_delete(s, o)
  /\ obj' = [obj EXCEPT ![o] = Absent(kind)]
  /\ UNCHANGED <<call, idle>>

(* object.c holds exactly the threads and objects that exist; a thread     *)
(* that was deleted stays until the idle thread frees it.                  *)
Registered ==
  /\ \A t \in All : (t \in k.registered) <=>
       k.thread[t].stat \notin {"NONE", "CLOSE"} \/ Contains(k.defunct, t)
  /\ \A o \in Object : (o \in k.registered) <=> Exists(o)
=============================================================================
