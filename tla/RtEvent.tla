------------------------------- MODULE RtEvent -------------------------------
(***************************************************************************)
(* The event set of RT-Thread (rt-thread/kernel/src/ipc.c): a thread waits *)
(* for all (AND) or any (OR) of some bits, and may clear what it receives. *)
(* A thread's event_set and event_info are in the frame of its call.       *)
(***************************************************************************)
EXTENDS RtIpc

CONSTANT EventBit

Option == [mode : {"AND", "OR"}, clear : BOOLEAN]

rt_event_init(flag) == [kind |-> "event", set |-> {}, flag |-> flag]

rt_event_create(flag) == [kind |-> "event", set |-> {}, flag |-> flag]

EventMade(t, o, flag) ==
  /\ MakeObject(t, o, IF o \in StaticObject THEN rt_event_init(flag) ELSE rt_event_create(flag))
  /\ UNCHANGED ghost

EventInited(t) == ObjectInited(t, "event") /\ UNCHANGED ghost

rt_event_detach(t, o) ==
  DetachObject(t, o, "event", rt_ipc_list_resume_all(k, Waiters(o))) /\ UNCHANGED ghost

rt_event_delete(t, o) ==
  DeleteObject(t, o, "event", rt_ipc_list_resume_all(k, Waiters(o))) /\ UNCHANGED ghost

Satisfied(option, want, set) ==
  IF option.mode = "AND" THEN want \subseteq set ELSE want \cap set # {}

(* The walk along the waiting threads.  A thread that clears bits takes    *)
(* them from the ones behind it.                                           *)
Deliver(x, t) ==
  LET f == x.call[t]
      got == IF f.option.mode = "AND" THEN f.want ELSE f.want \cap x.set
  IN  IF Satisfied(f.option, f.want, x.set)
      THEN [s    |-> rt_thread_resume(x.s, t),
            call |-> [x.call EXCEPT ![t].want = got],
            set  |-> IF f.option.clear THEN x.set \ got ELSE x.set,
            woke |-> TRUE]
      ELSE x

(* Mutant: only the first waiting thread is looked at. *)
SendToFirst(t, o, bits) ==
  LET queue == k.wait[Waiters(o)]
      x0 == [s |-> k, call |-> call, set |-> obj[o].set \cup bits, woke |-> FALSE]
      x == IF queue = <<>> THEN x0 ELSE Deliver(x0, Head(queue))
  IN  /\ Usable(t, o, "event") /\ bits # {}
      /\ k' = IF x.woke THEN rt_schedule(x.s) ELSE x.s
      /\ call' = x.call
      /\ obj' = [obj EXCEPT ![o].set = x.set]
      /\ UNCHANGED <<ghost, idle>>

rt_event_send(t, o, bits) ==
  LET x == FoldLeft(Deliver,
             [s |-> k, call |-> call, set |-> obj[o].set \cup bits, woke |-> FALSE],
             k.wait[Waiters(o)])
  IN  /\ Usable(t, o, "event") /\ bits # {}
      /\ k' = IF x.woke THEN rt_schedule(x.s) ELSE x.s
      /\ call' = x.call
      /\ obj' = [obj EXCEPT ![o].set = x.set]
      /\ UNCHANGED <<ghost, idle>>

rt_event_recv(t, o, want, option, time) ==
  LET ok == Satisfied(option, want, obj[o].set)
  IN  /\ Usable(t, o, "event") /\ want # {}
      /\ \/ /\ ok
            /\ obj' = [obj EXCEPT ![o].set = IF option.clear THEN @ \ want ELSE @]
            /\ k' = Return(k, t)
            /\ UNCHANGED <<call, ghost, idle>>
         \/ /\ ~ok /\ time = 0
            /\ k' = Return(k, t)
            /\ UNCHANGED <<obj, call, ghost, idle>>
         \/ /\ ~ok
            /\ Blocks(t, Waiters(o), obj[o].flag, time,
                      [op |-> "event_recv", object |-> o, want |-> want, option |-> option])

EventReceived(t) ==
  /\ Returns(t, "event_recv")
  /\ k' = Return(k, t)
  /\ Done(t) /\ UNCHANGED <<obj, ghost, idle>>

(* RT_IPC_CMD_RESET *)
rt_event_control(t, o) ==
  /\ Usable(t, o, "event")
  /\ k' = rt_schedule(rt_ipc_list_resume_all(k, Waiters(o)))
  /\ obj' = [obj EXCEPT ![o].set = {}]
  /\ UNCHANGED <<call, ghost, idle>>

-----------------------------------------------------------------------------
(* No thread waits for what is there: after any send, with the clears of   *)
(* the threads it woke, the bits that are set satisfy nobody who waits.    *)
NoSatisfiedWaiter ==
  \A o \in Object : obj[o].kind = "event" =>
    \A t \in ToSet(k.wait[Waiters(o)]) : ~Satisfied(call[t].option, call[t].want, obj[o].set)
=============================================================================
