--------------------------- MODULE RtMessageQueue ----------------------------
(***************************************************************************)
(* The message queue of RT-Thread (rt-thread/kernel/src/ipc.c): the blocks *)
(* of a pool are linked into a list of messages, with a head and a tail,   *)
(* and a list of free blocks.                                              *)
(***************************************************************************)
EXTENDS RtIpc

CONSTANTS Message, NoMessage, Block, NoBlock, FreeOrder

ASSUME QueueAssumption ==
  /\ NoMessage \notin Message /\ NoBlock \notin Block
  /\ IsInjective(FreeOrder) /\ ToSet(FreeOrder) = Block   \* as _init links the free blocks

(* Links along a sequence of blocks. *)
Chain(blocks) ==
  [b \in Block |-> LET i == CHOOSE n \in DOMAIN blocks : blocks[n] = b
                   IN  IF i = Len(blocks) THEN NoBlock ELSE blocks[i + 1]]

EmptyQueue(flag) ==
  [kind |-> "mq", flag |-> flag, entry |-> 0, head |-> NoBlock, tail |-> NoBlock,
   free |-> Head(FreeOrder), next |-> Chain(FreeOrder), data |-> [b \in Block |-> NoMessage]]

rt_mq_init(flag) == EmptyQueue(flag)

rt_mq_create(flag) == EmptyQueue(flag)

QueueMade(t, o, flag) ==
  /\ MakeObject(t, o, IF o \in StaticObject THEN rt_mq_init(flag) ELSE rt_mq_create(flag))
  /\ UNCHANGED ghost

QueueInited(t) == ObjectInited(t, "mq") /\ UNCHANGED ghost

rt_mq_detach(t, o) ==
  /\ NoCallGoesOn(o)
  /\ DetachObject(t, o, "mq", ResumeBoth(k, o)) /\ UNCHANGED ghost

rt_mq_delete(t, o) ==
  /\ NoCallGoesOn(o)
  /\ DeleteObject(t, o, "mq", ResumeBoth(k, o)) /\ UNCHANGED ghost

-----------------------------------------------------------------------------
TakeFree(mq) == [mq EXCEPT !.free = mq.next[mq.free]]

(* entry stays below RT_MQ_ENTRY_MAX, as max_msgs is of 16 bits. *)
LinkTail(mq, b) ==
  LET linked == [mq.next EXCEPT ![b] = NoBlock]
  IN  [mq EXCEPT !.next = IF mq.tail = NoBlock THEN linked ELSE [linked EXCEPT ![mq.tail] = b],
                 !.tail = b, !.head = IF @ = NoBlock THEN b ELSE @, !.entry = @ + 1]

LinkHead(mq, b) ==
  [mq EXCEPT !.next[b] = mq.head, !.head = b,
             !.tail = IF @ = NoBlock THEN b ELSE @, !.entry = @ + 1]

(* Mutant: the tail still points to the last message that was taken. *)
UnlinkKeepsTail(mq) ==
  [mq EXCEPT !.head = mq.next[mq.head], !.entry = @ - 1]

UnlinkHead(mq) ==
  [mq EXCEPT !.head = mq.next[mq.head], !.tail = IF @ = mq.head THEN NoBlock ELSE @,
             !.entry = @ - 1]

(* Nothing reads a free block's message: NoMessage stands for it. *)
FreeBlock(mq, b) ==
  [mq EXCEPT !.next[b] = mq.free, !.free = b, !.data[b] = NoMessage]

QueueSend(t, o, value, timeout, deadline) ==
  LET mq == obj[o]
      b == mq.free
  IN  \/ /\ b = NoBlock /\ timeout = 0
         /\ k' = Return(k, t)
         /\ Done(t) /\ UNCHANGED <<obj, ghost, idle>>
      \/ /\ b = NoBlock
         /\ Blocks(t, Senders(o), mq.flag, timeout,
                   Waiting("mq_send", o, value, timeout, deadline))
      \/ /\ b # NoBlock
         /\ obj' = [obj EXCEPT ![o] = LinkTail([TakeFree(mq) EXCEPT !.data[b] = value], b)]
         /\ k' = WakeFirst(k, Waiters(o))
         /\ Done(t) /\ UNCHANGED <<ghost, idle>>

QueueRecv(t, o, timeout, deadline) ==
  LET mq == obj[o]
  IN  \/ /\ mq.entry = 0 /\ timeout = 0
         /\ k' = Return(k, t)
         /\ Done(t) /\ UNCHANGED <<obj, ghost, idle>>
      \/ /\ mq.entry = 0
         /\ Blocks(t, Waiters(o), mq.flag, timeout,
                   Waiting("mq_recv", o, NoMessage, timeout, deadline))
      \/ /\ mq.entry > 0
         /\ obj' = [obj EXCEPT ![o] = FreeBlock(UnlinkHead(mq), mq.head)]
         /\ k' = WakeFirst(k, Senders(o))
         /\ Done(t) /\ UNCHANGED <<ghost, idle>>

rt_mq_send_wait(t, o, value, timeout) ==
  Usable(t, o, "mq") /\ QueueSend(t, o, value, timeout, Deadline(timeout))

rt_mq_recv(t, o, timeout) ==
  Usable(t, o, "mq") /\ QueueRecv(t, o, timeout, Deadline(timeout))

QueueSendAgain(t) ==
  /\ Returns(t, "mq_send")
  /\ \/ Refused(t)
     \/ Woken(t) /\ QueueSend(t, call[t].object, call[t].value, TimeLeft(t), call[t].deadline)

QueueRecvAgain(t) ==
  /\ Returns(t, "mq_recv")
  /\ \/ Refused(t)
     \/ Woken(t) /\ QueueRecv(t, call[t].object, TimeLeft(t), call[t].deadline)

(* To the front; refused when there is no free block. *)
rt_mq_urgent(t, o, value) ==
  LET mq == obj[o]
      b == mq.free
  IN  /\ Usable(t, o, "mq") /\ b # NoBlock
      /\ obj' = [obj EXCEPT ![o] = LinkHead([TakeFree(mq) EXCEPT !.data[b] = value], b)]
      /\ k' = WakeFirst(k, Waiters(o))
      /\ UNCHANGED <<call, ghost, idle>>

(* The blocks from b on. *)
Path(mq, b) ==
  LET from[n \in 0..Cardinality(Block), x \in Block \cup {NoBlock}] ==
        IF n = 0 \/ x = NoBlock THEN <<>> ELSE <<x>> \o from[n - 1, mq.next[x]]
  IN  from[Cardinality(Block), b]

(* RT_IPC_CMD_RESET: the messages go to the free list one by one. *)
rt_mq_control(t, o) ==
  LET mq == obj[o]
      DropFirst(x, b) == FreeBlock(UnlinkHead(x), b)
  IN  /\ Usable(t, o, "mq")
      /\ k' = rt_schedule(ResumeBoth(k, o))
      /\ obj' = [obj EXCEPT ![o] = [FoldLeft(DropFirst, mq, Path(mq, mq.head)) EXCEPT !.entry = 0]]
      /\ UNCHANGED <<call, ghost, idle>>

(* The messages in order. *)
Messages(mq) == LET p == Path(mq, mq.head) IN [i \in DOMAIN p |-> mq.data[p[i]]]

-----------------------------------------------------------------------------
(* The lists of a queue are sound: the list from the head has entry blocks *)
(* and ends at the tail, the free list has the others, and no block is in  *)
(* both or twice in one.                                                   *)
QueueLinked ==
  \A o \in Object : obj[o].kind = "mq" =>
    LET mq == obj[o]
        used == Path(mq, mq.head)
        free == Path(mq, mq.free)
    IN  /\ IsInjective(used \o free) /\ ToSet(used \o free) = Block
        /\ Len(used) = mq.entry
        /\ mq.tail = IF used = <<>> THEN NoBlock ELSE Last(used)
=============================================================================
