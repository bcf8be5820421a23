------------------------------ MODULE RtMailbox ------------------------------
(***************************************************************************)
(* The mailbox of RT-Thread (rt-thread/kernel/src/ipc.c): a ring of words, *)
(* threads that wait for a mail and threads that wait for room.  A thread  *)
(* that was woken looks again, and waits for what is left of its time.     *)
(***************************************************************************)
EXTENDS RtIpc

CONSTANTS Mail, NoMail, MailboxSize

ASSUME MailboxAssumption == MailboxSize \in Nat \ {0} /\ NoMail \notin Mail

EmptyMailbox(flag) ==
  [kind |-> "mailbox", flag |-> flag, entry |-> 0, in_offset |-> 0, out_offset |-> 0,
   msg_pool |-> [i \in 0..(MailboxSize - 1) |-> NoMail]]

rt_mb_init(flag) == EmptyMailbox(flag)

rt_mb_create(flag) == EmptyMailbox(flag)

MailboxMade(t, o, flag) ==
  /\ MakeObject(t, o, IF o \in StaticObject THEN rt_mb_init(flag) ELSE rt_mb_create(flag))
  /\ UNCHANGED ghost

MailboxInited(t) == ObjectInited(t, "mailbox") /\ UNCHANGED ghost

rt_mb_detach(t, o) ==
  /\ NoCallGoesOn(o)
  /\ DetachObject(t, o, "mailbox", ResumeBoth(k, o)) /\ UNCHANGED ghost

rt_mb_delete(t, o) ==
  /\ NoCallGoesOn(o)
  /\ DeleteObject(t, o, "mailbox", ResumeBoth(k, o)) /\ UNCHANGED ghost

-----------------------------------------------------------------------------
(* Mutant: the offset does not turn around at the end of the pool. *)
NoTurn(i) == i + 1

(* Mutant: it turns around one slot early. *)
EarlyTurn(i) == IF i + 2 >= MailboxSize THEN 0 ELSE i + 1

NextOffset(i) == IF i + 1 >= MailboxSize THEN 0 ELSE i + 1

MailboxSend(t, o, value, timeout, deadline) ==
  LET mb == obj[o]
  IN  \/ /\ mb.entry = MailboxSize /\ timeout = 0
         /\ k' = Return(k, t)
         /\ Done(t) /\ UNCHANGED <<obj, ghost, idle>>
      \/ /\ mb.entry = MailboxSize
         /\ Blocks(t, Senders(o), mb.flag, timeout,
                   Waiting("mb_send", o, value, timeout, deadline))
      \/ /\ mb.entry < MailboxSize
         /\ obj' = [obj EXCEPT ![o] = [mb EXCEPT !.msg_pool[mb.in_offset] = value,
                                                 !.in_offset = NextOffset(@), !.entry = @ + 1]]
         /\ k' = WakeFirst(k, Waiters(o))
         /\ Done(t) /\ UNCHANGED <<ghost, idle>>

(* Nothing reads a slot again that was read: NoMail stands for it. *)
MailboxRecv(t, o, timeout, deadline) ==
  LET mb == obj[o]
  IN  \/ /\ mb.entry = 0 /\ timeout = 0
         /\ k' = Return(k, t)
         /\ Done(t) /\ UNCHANGED <<obj, ghost, idle>>
      \/ /\ mb.entry = 0
         /\ Blocks(t, Waiters(o), mb.flag, timeout,
                   Waiting("mb_recv", o, NoMail, timeout, deadline))
      \/ /\ mb.entry > 0
         /\ obj' = [obj EXCEPT ![o] = [mb EXCEPT !.msg_pool[mb.out_offset] = NoMail,
                                                 !.out_offset = NextOffset(@), !.entry = @ - 1]]
         /\ k' = WakeFirst(k, Senders(o))
         /\ Done(t) /\ UNCHANGED <<ghost, idle>>

rt_mb_send_wait(t, o, value, timeout) ==
  Usable(t, o, "mailbox") /\ MailboxSend(t, o, value, timeout, Deadline(timeout))

rt_mb_recv(t, o, timeout) ==
  Usable(t, o, "mailbox") /\ MailboxRecv(t, o, timeout, Deadline(timeout))

(* The loop goes on after rt_schedule. *)
MailboxSendAgain(t) ==
  /\ Returns(t, "mb_send")
  /\ \/ Refused(t)
     \/ Woken(t) /\ MailboxSend(t, call[t].object, call[t].value, TimeLeft(t), call[t].deadline)

MailboxRecvAgain(t) ==
  /\ Returns(t, "mb_recv")
  /\ \/ Refused(t)
     \/ Woken(t) /\ MailboxRecv(t, call[t].object, TimeLeft(t), call[t].deadline)

(* RT_IPC_CMD_RESET *)
rt_mb_control(t, o) ==
  /\ Usable(t, o, "mailbox")
  /\ k' = rt_schedule(ResumeBoth(k, o))
  /\ obj' = [obj EXCEPT ![o] = EmptyMailbox(obj[o].flag)]
  /\ UNCHANGED <<call, ghost, idle>>

(* The mails in order. *)
Mails(mb) == [i \in 1..mb.entry |-> mb.msg_pool[(mb.out_offset + i - 1) % MailboxSize]]
=============================================================================
