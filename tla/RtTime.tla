------------------------------- MODULE RtTime -------------------------------
(***************************************************************************)
(* Time on the mycpu board: the millisecond counter and its crossing into  *)
(* the CPU clock (rtl/peripheral/counter.sv), the hook of the idle thread  *)
(* that makes ticks of it (rt-thread/bsp/mycpu/board.c), and the timers an *)
(* application runs on them, in the idle thread or, as soft timers, in the *)
(* timer thread (rt-thread/kernel/src/timer.c).                            *)
(*                                                                         *)
(* Main is the application's thread; the timeout functions are the         *)
(* application's too and may use the timers themselves.                    *)
(***************************************************************************)
EXTENDS RtKernel

CONSTANTS
  AppTimer,           \* timers of the application, hard and soft
  TimesOf,            \* the times each of them is used with
  TimerThread,        \* timer_thread of timer.c
  Bits,               \* width of the counter
  CatchUp,            \* ticks the hook makes up for at a time: 64
  MaxDropped,         \* bound: ms lost by stalls of the idle thread beyond that
  OneShotInTimeout    \* whether a timer is made one-shot while its timeout function runs

Wrap == 2^Bits

ASSUME TimeAssumption ==
  /\ Thread = {Main, TimerThread} /\ StaticThread = {TimerThread} /\ Main # TimerThread
  /\ TimesOf \in [AppTimer -> SUBSET (1..(RT_TICK_MAX \div 2 - 1))]
  /\ AppTimer \subseteq Timer \ All /\ SoftTimer \subseteq AppTimer
  /\ Wrap = RT_TICK_MAX + 1
  /\ CatchUp \in Nat \ {0} /\ MaxDropped \in Nat /\ CatchUp + MaxDropped < Wrap - 1

VARIABLES
  ms,           \* cnt_ms_bin: the true time
  gray,         \* cnt_gray_cpu_d1 and _d2
  last_ms, delta, \* of the tick hook
  dropped       \* ms the hook gave up

clockVars == <<ms, gray, last_ms, delta, dropped>>
vars == <<kernelVars, clockVars>>

-----------------------------------------------------------------------------
(* A word is the set of its bits that are 1. *)
Bit == 0..(Bits - 1)
Word(n) == {i \in Bit : (n \div 2^i) % 2 = 1}

GrayOf(n) == {i \in Bit : (i \in Word(n)) # (i + 1 \in Word(n))}

(* Bit i is the parity of the bits from i up. *)
gray_to_bin(g) ==
  LET one == {i \in Bit : Cardinality({j \in g : j >= i}) % 2 = 1}
  IN  CHOOSE n \in 0..(Wrap - 1) : Word(n) = one

(* A register that samples while the word changes takes each bit of it as  *)
(* it was or as it becomes.                                                *)
Sampled(old, new) == {g \in SUBSET (old \cup new) : old \cap new \subseteq g}

(* The count changes once in 200000 cycles of the CPU, so the one before   *)
(* has arrived; the sample of d1 falls before, on or after the change.     *)
CountMs ==
  /\ Minus(ms, last_ms) + dropped < CatchUp + MaxDropped
  /\ gray = [d1 |-> GrayOf(ms), d2 |-> GrayOf(ms)]
  /\ ms' = (ms + 1) % Wrap
  /\ gray' \in [d1 : Sampled(GrayOf(ms), GrayOf(ms')), d2 : {GrayOf(ms)}]
  /\ UNCHANGED <<kernelVars, last_ms, delta, dropped>>

CpuClock ==
  /\ gray # [d1 |-> GrayOf(ms), d2 |-> GrayOf(ms)]
  /\ gray' = [d1 |-> GrayOf(ms), d2 |-> gray.d1]
  /\ UNCHANGED <<kernelVars, ms, last_ms, delta, dropped>>

-----------------------------------------------------------------------------
(* rt_timer_start with its wake-up of the timer thread, unless that is in  *)
(* a timeout function (soft_timer_status is RT_SOFT_TIMER_BUSY).           *)
Busy == call[TimerThread].op \in {"timeout", "nap"}

(* Mutant: the status is not looked at. *)
WakesAlways(s, t) ==
  LET u == [s EXCEPT !.tm = rt_timer_start(@, s.tick, t)]
  IN  IF t \in SoftTimer /\ s.thread[TimerThread].stat = "SUSPEND"
      THEN rt_schedule(rt_thread_resume(u, TimerThread)) ELSE u

(* Mutant: a soft timer that is started wakes nobody. *)
WakesNobody(s, t) == [s EXCEPT !.tm = rt_timer_start(@, s.tick, t)]

StartTimer(s, t) ==
  LET u == [s EXCEPT !.tm = rt_timer_start(@, s.tick, t)]
  IN  IF t \in SoftTimer /\ ~Busy /\ s.thread[TimerThread].stat = "SUSPEND"
      THEN rt_schedule(rt_thread_resume(u, TimerThread)) ELSE u

rt_timer_create(s, t, time, periodic) ==
  [rt_object_allocate(s, t) EXCEPT !.tm = rt_timer_init(@, t, time, periodic)]

rt_timer_delete(s, t) ==
  [rt_object_delete(s, t) EXCEPT !.tm = rt_timer_detach(@, t)]

(* What a thread or a timeout function does with one timer. *)
TimerOps(s, t) ==
  IF t \notin s.registered THEN {rt_timer_create(s, t, time, p) : time \in TimesOf[t], p \in BOOLEAN}
  ELSE {StartTimer(s, t), [s EXCEPT !.tm = rt_timer_stop(@, t)], rt_timer_delete(s, t)}
         \cup {[s EXCEPT !.tm = u] : u \in
                  {v \in rt_timer_control(s.tm, t, TimesOf[t]) :
                     t \in s.tm.temp[ListOf(t)] /\ t \in s.tm.periodic \ v.periodic
                       => OneShotInTimeout}}

(* The timeout function of t: a thread's wakes it, the application's does  *)
(* nothing, or one thing with one of the timers.                           *)
Timeout(s, t) ==
  IF t \in All THEN {rt_thread_timeout(s, t)}
  ELSE {s} \cup UNION {TimerOps(s, u) : u \in AppTimer \cap s.registered}

-----------------------------------------------------------------------------
(* The application's thread. *)
UseTimer ==
  /\ IsRunning(Main)
  /\ \E t \in AppTimer : k' \in TimerOps(k, t)
  /\ UNCHANGED <<call, idle>>

rt_thread_delay == \E time \in Times : Sleep(Main, time)

-----------------------------------------------------------------------------
(* The timer thread.  It waits until the first soft timer, or for good     *)
(* where it takes the list for empty.                                      *)
rt_thread_timer_entry ==
  LET next == rt_timer_list_next_timeout(k.tm, "soft")
  IN  /\ IsRunning(TimerThread)
      /\ \/ /\ next = RT_TICK_MAX
            /\ k' = rt_schedule(rt_thread_suspend(k, TimerThread))
         \/ /\ next # RT_TICK_MAX /\ Reached(next, k.tick)
            /\ k' = rt_thread_sleep(k, Minus(next, k.tick))
         \/ /\ next # RT_TICK_MAX /\ ~Reached(next, k.tick)
            /\ k' = k
      /\ call' = [call EXCEPT ![TimerThread] = [op |-> "check"]]
      /\ UNCHANGED idle

(* One round of its loop: a timeout function is called and may sleep. *)
SoftCheck(s) ==
  IF Expires(s.tm, "soft", s.tick)
  THEN LET t == Head(s.tm.list["soft"])
           u == [s EXCEPT !.tm = TakeExpired(@, "soft")]
       IN  \/ /\ k' \in Timeout(u, t)
              /\ call' = [call EXCEPT ![TimerThread] = [op |-> "timeout", timer |-> t]]
           \/ /\ \E time \in Times : k' = rt_thread_sleep(u, time)
              /\ call' = [call EXCEPT ![TimerThread] = [op |-> "nap", timer |-> t]]
  ELSE k' = s /\ call' = [call EXCEPT ![TimerThread] = Running]

rt_soft_timer_check ==
  /\ Returns(TimerThread, "check")
  /\ SoftCheck([k EXCEPT !.thread[TimerThread].error = "EOK"])
  /\ UNCHANGED idle

SoftTimedOut ==
  /\ Returns(TimerThread, "timeout") \/ Returns(TimerThread, "nap")
  /\ SoftCheck([k EXCEPT !.tm = AfterTimeout(@, k.tick, call[TimerThread].timer),
                         !.thread[TimerThread].error = "EOK"])
  /\ UNCHANGED idle

-----------------------------------------------------------------------------
(* The hook: what was missed is made up for, CatchUp ticks at most. *)

(* Mutant: the count is read a second time, a cycle later, for last_ms. *)
HookReadsTwice ==
  LET d == Minus(gray_to_bin(gray.d2), last_ms)
      made == IF d > CatchUp THEN CatchUp ELSE d
  IN  /\ k.current = Idle /\ idle = Looping /\ delta = 0 /\ d # 0
      /\ delta' = made /\ last_ms' = gray_to_bin(gray.d1)
      /\ dropped' = dropped + d - made
      /\ UNCHANGED <<kernelVars, ms, gray>>

(* Mutant: all of it is made up for at once. *)
HookUncapped ==
  LET now == gray_to_bin(gray.d2)
  IN  /\ k.current = Idle /\ idle = Looping /\ delta = 0 /\ now # last_ms
      /\ delta' = Minus(now, last_ms) /\ last_ms' = now
      /\ UNCHANGED <<kernelVars, ms, gray, dropped>>

tick_hook ==
  LET now == gray_to_bin(gray.d2)
      d == Minus(now, last_ms)
      made == IF d > CatchUp THEN CatchUp ELSE d
  IN  /\ k.current = Idle /\ idle = Looping /\ delta = 0 /\ d # 0
      /\ delta' = made /\ last_ms' = now
      /\ dropped' = dropped + d - made
      /\ UNCHANGED <<kernelVars, ms, gray>>

(* In the idle thread, where rt_timer_check calls one. *)
HardTimeout(r) == IF r.idle.at = "callback" THEN Timeout(r.k, r.idle.timer) ELSE {r.k}

HookTicks ==
  /\ delta > 0 /\ IdleTick(HardTimeout(rt_tick_increase(k)))
  /\ delta' = delta - 1
  /\ UNCHANGED <<ms, gray, last_ms, dropped>>

rt_system_timer_thread_init(s) == rt_thread_startup(rt_thread_init(s, TimerThread), TimerThread)

Init ==
  /\ k = rt_system_scheduler_start(rt_thread_idle_init(rt_system_timer_thread_init(
           rt_application_init(rt_system_scheduler_init))))
  /\ call = [t \in Thread |-> Running]
  /\ idle = Looping
  /\ ms = 0 /\ gray = [d1 |-> GrayOf(0), d2 |-> GrayOf(0)]
  /\ last_ms = 0 /\ delta = 0 /\ dropped = 0

Threads ==
  /\ UseTimer \/ rt_thread_delay \/ Awake(Main) \/ rt_thread_timer_entry
       \/ rt_soft_timer_check \/ SoftTimedOut \/ IdleResumes(HardTimeout(Rest))
  /\ UNCHANGED clockVars

Next == CountMs \/ CpuClock \/ tick_hook \/ HookTicks \/ Threads

Spec == Init /\ [][Next]_vars

-----------------------------------------------------------------------------
(* The counter and the ticks owed keep to their widths: tick_hook (board.c)*)
(* never owes more than it makes up for.                                   *)
TypeOK ==
  /\ KernelTypeOK
  /\ {ms, last_ms} \subseteq Tick /\ dropped \in 0..MaxDropped /\ delta \in 0..CatchUp
  /\ gray \in [d1 : SUBSET Bit, d2 : SUBSET Bit]

(* What the CPU reads of the counter is a count it has had, the last one   *)
(* or the one before, however the read meets the change; so the ticks that *)
(* were made, are due and were given up are together the milliseconds that *)
(* were read, and never more than have passed.                             *)
TickFollowsTime ==
  /\ Minus(ms, gray_to_bin(gray.d2)) \in {0, 1}
  /\ (k.tick + delta + dropped) % Wrap = last_ms
  /\ Minus(ms, last_ms) + dropped <= CatchUp + MaxDropped

(* The timers' lists hold exactly the active timers, each timer that is in *)
(* one exists, and they are in the order in which they end: a timeout      *)
(* function that stops, starts or deletes its own timer is obeyed by       *)
(* rt_timer_check when it returns.                                         *)
ListsInOrder ==
  \A l \in Lists :
    LET list == k.tm.list[l]
    IN  /\ ToSet(list) = {t \in k.tm.active : ListOf(t) = l} \ k.tm.temp[l]
        /\ ToSet(list) \cup k.tm.temp[l] \subseteq All \cup k.registered
        /\ \A i, j \in DOMAIN list :
             i < j => Reached(k.tm.timeout_tick[list[j]], k.tm.timeout_tick[list[i]])

(* rt_timer_check leaves no timer behind: with the idle thread in its      *)
(* loop, every hard timer ends in the future.  Since the list is looked at *)
(* from its head only, one timer out of place would be missed for a whole  *)
(* turn of the tick.                                                       *)
NoTimerMissed ==
  idle = Looping => \A t \in ToSet(k.tm.list["hard"]) :
    Minus(k.tm.timeout_tick[t], k.tick) \in 1..(RT_TICK_MAX \div 2)

(* While the timer thread waits, its own timer ends no later than the      *)
(* first soft timer does.  The exception is a soft timer that ends at tick *)
(* RT_TICK_MAX, which the timer thread takes for an empty list.            *)
SoftTimersServed ==
  call[TimerThread].op = "check" /\ k.thread[TimerThread].stat = "SUSPEND"
    /\ k.tm.list["soft"] # <<>>
    => LET end == k.tm.timeout_tick[Head(k.tm.list["soft"])]
       IN  end = RT_TICK_MAX
             \/ (TimerThread \in k.tm.active /\ Reached(end, k.tm.timeout_tick[TimerThread]))

(* A timeout function that sleeps in the timer thread sleeps its time:     *)
(* only its own timer wakes it, whatever soft timers are started meanwhile.*)
NapsUndisturbed ==
  [][call[TimerThread].op = "nap" /\ k.thread[TimerThread].stat = "SUSPEND"
       /\ k'.thread[TimerThread].stat # "SUSPEND"
     => k'.thread[TimerThread].error = "ETIMEOUT"]_vars

(* Timers, hard and soft, end at the first tick that reaches their time    *)
(* (timer.c): their lists are in order, rt_timer_check passes none over,   *)
(* and the timer thread is awake in time.                                  *)
TimersServed == TypeOK /\ ListsInOrder /\ NoTimerMissed /\ SoftTimersServed
=============================================================================
