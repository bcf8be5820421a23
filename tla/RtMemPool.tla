------------------------------ MODULE RtMemPool ------------------------------
(***************************************************************************)
(* The memory pool of RT-Thread (rt-thread/kernel/src/mempool.c): blocks   *)
(* of one size in a list of free ones, and threads that wait for one; the  *)
(* last to wait is the first to be woken.  ghost.blocks[t] are the blocks  *)
(* t was given and has not freed.                                          *)
(***************************************************************************)
EXTENDS RtIpc

CONSTANTS PoolBlock, PoolOrder

rt_mp_init == [kind |-> "pool", block_list |-> PoolOrder, block_free_count |-> Len(PoolOrder)]

rt_mp_create == [kind |-> "pool", block_list |-> PoolOrder, block_free_count |-> Len(PoolOrder)]

PoolMade(t, o) ==
  /\ MakeObject(t, o, IF o \in StaticObject THEN rt_mp_init ELSE rt_mp_create)
  /\ UNCHANGED ghost

PoolInited(t) == ObjectInited(t, "pool") /\ UNCHANGED ghost

(* With the blocks gone back. *)
rt_mp_detach(t, o) ==
  /\ DetachObject(t, o, "pool", rt_ipc_list_resume_all(k, Waiters(o)))
  /\ NoCallGoesOn(o) /\ \A u \in Thread : ghost.blocks[u] = {}
  /\ UNCHANGED ghost

rt_mp_delete(t, o) ==
  /\ DeleteObject(t, o, "pool", rt_ipc_list_resume_all(k, Waiters(o)))
  /\ NoCallGoesOn(o) /\ \A u \in Thread : ghost.blocks[u] = {}
  /\ UNCHANGED ghost

-----------------------------------------------------------------------------
(* At the front of the list, whatever the priorities. *)
PoolWait(s, l, t, timeout) ==
  LET u == [rt_thread_suspend([s EXCEPT !.thread[t].error = "EOK"], t) EXCEPT
              !.wait[l] = <<t>> \o @]
  IN  rt_schedule(IF timeout = Forever THEN u ELSE StartThreadTimer(u, t, timeout))

(* Mutant: the block stays at the head of the list. *)
AllocKeepsHead(t, o, timeout, deadline) ==
  LET mp == obj[o]
  IN  /\ mp.block_free_count > 0
      /\ obj' = [obj EXCEPT ![o].block_free_count = @ - 1]
      /\ ghost' = [ghost EXCEPT !.blocks[t] = @ \cup {Head(mp.block_list)}]
      /\ Done(t) /\ UNCHANGED <<k, idle>>

PoolAlloc(t, o, timeout, deadline) ==
  LET mp == obj[o]
  IN  \/ /\ mp.block_free_count = 0 /\ timeout = 0
         /\ k' = Return(k, t)
         /\ Done(t) /\ UNCHANGED <<obj, ghost, idle>>
      \/ /\ mp.block_free_count = 0 /\ timeout # 0 /\ k.lock_nest = 0
         /\ k' = PoolWait(k, Waiters(o), t, timeout)
         /\ call' = [call EXCEPT ![t] = Waiting("mp_alloc", o, 0, timeout, deadline)]
         /\ UNCHANGED <<obj, ghost, idle>>
      \/ /\ mp.block_free_count > 0
         /\ obj' = [obj EXCEPT ![o] = [mp EXCEPT !.block_free_count = @ - 1,
                                                 !.block_list = Tail(@)]]
         /\ ghost' = [ghost EXCEPT !.blocks[t] = @ \cup {Head(mp.block_list)}]
         /\ Done(t) /\ UNCHANGED <<k, idle>>

rt_mp_alloc(t, o, timeout) ==
  Usable(t, o, "pool") /\ PoolAlloc(t, o, timeout, Deadline(timeout))

PoolAllocAgain(t) ==
  /\ Returns(t, "mp_alloc")
  /\ \/ Refused(t)
     \/ Woken(t) /\ PoolAlloc(t, call[t].object, TimeLeft(t), call[t].deadline)

(* Mutant: a thread that waits is not woken. *)
FreeWakesNobody(t, o, b) ==
  /\ Usable(t, o, "pool") /\ b \in ghost.blocks[t]
  /\ obj' = [obj EXCEPT ![o].block_free_count = @ + 1, ![o].block_list = <<b>> \o @]
  /\ ghost' = [ghost EXCEPT !.blocks[t] = @ \ {b}]
  /\ UNCHANGED <<k, call, idle>>

rt_mp_free(t, o, b) ==
  /\ Usable(t, o, "pool") /\ b \in ghost.blocks[t]
  /\ obj' = [obj EXCEPT ![o].block_free_count = @ + 1, ![o].block_list = <<b>> \o @]
  /\ ghost' = [ghost EXCEPT !.blocks[t] = @ \ {b}]
  /\ k' = IF k.wait[Waiters(o)] = <<>> THEN k
          ELSE rt_schedule(rt_thread_resume(
                 [k EXCEPT !.thread[Head(k.wait[Waiters(o)])].error = "EOK"],
                 Head(k.wait[Waiters(o)])))
  /\ UNCHANGED <<call, idle>>

-----------------------------------------------------------------------------
(* A block is free or with one thread, never both and never with two.      *)
BlocksKept ==
  \A o \in Object : obj[o].kind = "pool" =>
    /\ IsInjective(obj[o].block_list) /\ Len(obj[o].block_list) = obj[o].block_free_count
    /\ \A b \in PoolBlock :
         Cardinality({t \in Thread : b \in ghost.blocks[t]})
           = IF b \in ToSet(obj[o].block_list) THEN 0 ELSE 1
=============================================================================
