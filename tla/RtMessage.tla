------------------------------ MODULE RtMessage ------------------------------
(***************************************************************************)
(* Threads and one event, mailbox, message queue or memory pool.           *)
(***************************************************************************)
EXTENDS RtEvent, RtMailbox, RtMessageQueue, RtMemPool

CONSTANTS
  Setups,      \* <<object, kind>>: the object a behaviour has
  Patience,    \* bound: how long calls wait on object o of a kind
  Producer, Consumer,   \* threads that send, threads that receive
  Naps,        \* ticks a thread sleeps
  Options      \* ways to receive an event

vars == <<kernelVars, ipcVars>>

Init ==
  /\ KernelInit
  /\ \E c \in Setups : obj = [o \in Object |-> Absent(IF o = c[1] THEN c[2] ELSE "none")]
  /\ ghost = [blocks |-> [t \in Thread |-> {}]]

(* Threads are started and sleep; RtSync has the rest of their life. *)
Threads ==
  \E t, u \in Thread :
    /\ Create(t, u) \/ Startup(t, u) \/ (\E time \in Naps : Sleep(t, time)) \/ Awake(t)
    /\ UNCHANGED ipcVars

IdleThread ==
  /\ IdleTick(ThreadTimeout(rt_tick_increase(k))) \/ IdleResumes(ThreadTimeout(Rest))
  /\ UNCHANGED ipcVars

(* Main makes, resets and removes the objects. *)
Events ==
  \E o \in Object :
    \/ \E f \in FlagsOf[o] : EventMade(Main, o, f)
    \/ EventInited(Main) \/ rt_event_detach(Main, o) \/ rt_event_delete(Main, o)
    \/ rt_event_control(Main, o)
    \/ \E t \in Producer, bits \in SUBSET EventBit : rt_event_send(t, o, bits)
    \/ \E t \in Consumer, want \in SUBSET EventBit, option \in Options,
          time \in Patience[o, "event"] : rt_event_recv(t, o, want, option, time)
    \/ \E t \in Thread : EventReceived(t)

Mailboxes ==
  \E o \in Object :
    \/ \E f \in FlagsOf[o] : MailboxMade(Main, o, f)
    \/ MailboxInited(Main) \/ rt_mb_detach(Main, o) \/ rt_mb_delete(Main, o)
    \/ rt_mb_control(Main, o)
    \/ \E t \in Producer, m \in Mail, time \in Patience[o, "mailbox"] :
         rt_mb_send_wait(t, o, m, time)
    \/ \E t \in Consumer, time \in Patience[o, "mailbox"] : rt_mb_recv(t, o, time)
    \/ \E t \in Thread : MailboxSendAgain(t) \/ MailboxRecvAgain(t)

Queues ==
  \E o \in Object :
    \/ \E f \in FlagsOf[o] : QueueMade(Main, o, f)
    \/ QueueInited(Main) \/ rt_mq_detach(Main, o) \/ rt_mq_delete(Main, o)
    \/ rt_mq_control(Main, o)
    \/ \E t \in Producer, m \in Message :
         (\E time \in Patience[o, "mq"] : rt_mq_send_wait(t, o, m, time)) \/ rt_mq_urgent(t, o, m)
    \/ \E t \in Consumer, time \in Patience[o, "mq"] : rt_mq_recv(t, o, time)
    \/ \E t \in Thread : QueueSendAgain(t) \/ QueueRecvAgain(t)

Pools ==
  \E o \in Object :
    \/ PoolMade(Main, o) \/ PoolInited(Main)
    \/ rt_mp_detach(Main, o) \/ rt_mp_delete(Main, o)
    \/ \E t \in Thread :
         \/ \E time \in Patience[o, "pool"] : rt_mp_alloc(t, o, time)
         \/ PoolAllocAgain(t)
         \/ \E b \in PoolBlock : rt_mp_free(t, o, b)

Next == Threads \/ IdleThread \/ Events \/ Mailboxes \/ Queues \/ Pools

Spec == Init /\ [][Next]_vars

-----------------------------------------------------------------------------
(* The objects of ipc.c and mempool.c keep to their kinds: the offsets of a*)
(* mailbox stay within its ring, the counts within the size.               *)
TypeOK ==
  /\ KernelTypeOK
  /\ \A o \in Object :
       LET x == obj[o]
       IN  CASE x.kind = "event" -> x.set \subseteq EventBit
             [] x.kind = "mailbox" -> /\ x.entry \in 0..MailboxSize
                                      /\ {x.in_offset, x.out_offset} \subseteq DOMAIN x.msg_pool
             [] x.kind = "mq" -> /\ x.entry \in 0..Cardinality(Block)
                                 /\ {x.head, x.tail, x.free} \subseteq Block \cup {NoBlock}
             [] x.kind = "pool" -> x.block_free_count \in 0..Cardinality(PoolBlock)
             [] OTHER -> x.kind = "absent"

(* What is in the mailbox or queue of a behaviour, in order. *)
Contents(kind, Read(_)) ==
  LET full == {o \in Object : obj[o].kind = kind}
  IN  IF full = {} THEN <<>> ELSE Read(obj[CHOOSE o \in full : TRUE])

MailChannel == INSTANCE BoundedQueue WITH
  q <- Contents("mailbox", Mails), Message <- Mail, Capacity <- MailboxSize, Urgent <- FALSE

QueueChannel == INSTANCE BoundedQueue WITH
  q <- Contents("mq", Messages), Capacity <- Cardinality(Block), Urgent <- TRUE

(* Mailboxes and message queues implement BoundedQueue: through blocking,  *)
(* time-outs and the turns of the ring, messages come out in the order     *)
(* they went in, none is lost, doubled or invented.                        *)
IsBoundedQueue == MailChannel!Spec /\ QueueChannel!Spec

(* No wake-up is lost: while threads wait to receive, there are not more   *)
(* messages than receivers that were woken and have not run yet; the same  *)
(* for senders and free places, and for threads that wait for a block.     *)
NoLostWakeup ==
  \A o \in Object :
    LET x == obj[o]
        recv(op, n) == k.wait[Waiters(o)] # <<>> => n <= WokenFrom(op)
        send(op, n) == k.wait[Senders(o)] # <<>> => n <= WokenFrom(op)
    IN  CASE x.kind = "mailbox" -> recv("mb_recv", x.entry) /\ send("mb_send", MailboxSize - x.entry)
          [] x.kind = "mq" -> recv("mq_recv", x.entry) /\ send("mq_send", Cardinality(Block) - x.entry)
          [] x.kind = "pool" -> recv("mp_alloc", x.block_free_count)
          [] OTHER -> TRUE

(* However often a thread is woken for nothing and waits again, its call   *)
(* is over at the tick its caller asked for.                               *)
WaitEndsInTime ==
  \A t \in Thread :
    call[t].op \in {"mb_send", "mb_recv", "mq_send", "mq_recv", "mp_alloc"} /\ InWaitList(t)
      => IF call[t].timeout = Forever THEN t \notin k.tm.active
         ELSE t \in k.tm.active /\ k.tm.timeout_tick[t] = call[t].deadline

(* The storage of the objects is sound (ipc.c, mempool.c): offsets and     *)
(* counts are within their limits, the two lists of a queue share no block *)
(* and lose none, and a block of a pool is free or has one owner.          *)
ObjectInv == TypeOK /\ QueueLinked /\ BlocksKept

(* Nobody sleeps while what it waits for is there, for all four kinds of   *)
(* objects (ipc.c, mempool.c).                                             *)
NobodySleepsOn == NoSatisfiedWaiter /\ NoLostWakeup
=============================================================================
