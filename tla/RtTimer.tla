------------------------------- MODULE RtTimer -------------------------------
(***************************************************************************)
(* The timer list of RT-Thread (rt-thread/kernel/src/timer.c), with the    *)
(* one level of the skip list that rtdef.h configures.  An operator takes  *)
(* the timers' state and returns it as the C function leaves it.           *)
(*                                                                         *)
(* Ticks are unsigned and wrap: RT_TICK_MAX + 1 of them.                   *)
(***************************************************************************)
EXTENDS Naturals, Sequences, SequencesExt

CONSTANTS
  Timer, RT_TICK_MAX,
  SoftTimer           \* made with RT_TIMER_FLAG_SOFT_TIMER

ASSUME TickAssumption ==
  RT_TICK_MAX \in Nat /\ RT_TICK_MAX > 3 /\ SoftTimer \subseteq Timer

Tick == 0..RT_TICK_MAX

(* "hard": rt_timer_list, for rt_timer_check; "soft": rt_soft_timer_list,  *)
(* for rt_soft_timer_check.  temp: the list local to each of the two.      *)
Lists == {"hard", "soft"}

ListOf(t) == IF t \in SoftTimer THEN "soft" ELSE "hard"

TimerState ==
  [list : [Lists -> Seq(Timer)], temp : [Lists -> SUBSET Timer], active : SUBSET Timer, periodic : SUBSET Timer,
   init_tick : [Timer -> Tick], timeout_tick : [Timer -> Tick]]

Minus(a, b) == (a + RT_TICK_MAX + 1 - b) % (RT_TICK_MAX + 1)

(* Unsigned difference below half the range: a is at or after b. *)
Reached(a, b) == Minus(a, b) < RT_TICK_MAX \div 2

-----------------------------------------------------------------------------
(* The node of x leaves the list, if it is in it. *)
rt_list_remove(list, x) ==
  IF Contains(list, x) THEN RemoveAt(list, CHOOSE i \in DOMAIN list : list[i] = x) ELSE list

rt_system_timer_init ==
  [list |-> [l \in Lists |-> <<>>], temp |-> [l \in Lists |-> {}], active |-> {}, periodic |-> {},
   init_tick |-> [t \in Timer |-> 0], timeout_tick |-> [t \in Timer |-> 0]]

(* rt_timer_init and rt_timer_create, with _rt_timer_init. *)
rt_timer_init(tm, t, time, periodic) ==
  [tm EXCEPT !.active = @ \ {t}, !.init_tick[t] = time, !.timeout_tick[t] = 0,
             !.periodic = IF periodic THEN @ \cup {t} ELSE @ \ {t}]

(* One node links a timer into either list.  Nothing reads the             *)
(* timeout_tick of a timer that is in none: 0 stands for what is left.     *)
rt_timer_remove(tm, t) ==
  [tm EXCEPT !.list[ListOf(t)] = rt_list_remove(@, t), !.temp[ListOf(t)] = @ \ {t},
             !.timeout_tick[t] = 0]

rt_timer_detach(tm, t) ==
  [rt_timer_remove(tm, t) EXCEPT !.active = @ \ {t}]

(* A timer goes in front of the first one that ends after it. *)
TimerBefore(tm, t, x) ==
  LET d == Minus(tm.timeout_tick[x], tm.timeout_tick[t])
  IN  d # 0 /\ d < RT_TICK_MAX \div 2

InsertByTimeout(tm, t) ==
  LET list == tm.list[ListOf(t)]
      later == {i \in DOMAIN list : TimerBefore(tm, t, list[i])}
      i == IF later = {} THEN Len(list) + 1
           ELSE CHOOSE m \in later : \A j \in later : m <= j
  IN  [tm EXCEPT !.list[ListOf(t)] = InsertAt(@, i, t)]

rt_timer_start(tm, now, t) ==
  LET u == [rt_timer_remove(tm, t) EXCEPT
              !.timeout_tick[t] = (now + tm.init_tick[t]) % (RT_TICK_MAX + 1)]
  IN  [InsertByTimeout(u, t) EXCEPT !.active = @ \cup {t}]

rt_timer_stop(tm, t) ==
  IF t \in tm.active THEN rt_timer_detach(tm, t) ELSE tm

SetTime(tm, t, time) == [tm EXCEPT !.init_tick[t] = time]

SetPeriodic(tm, t, periodic) ==
  [tm EXCEPT !.periodic = IF periodic THEN @ \cup {t} ELSE @ \ {t}]

(* The commands that change a timer; none of them moves it in its list. *)
rt_timer_control(tm, t, times) ==
  {SetTime(tm, t, time) : time \in times} \cup {SetPeriodic(tm, t, p) : p \in BOOLEAN}

(* RT_TICK_MAX stands for an empty list. *)
rt_timer_list_next_timeout(tm, l) ==
  IF tm.list[l] = <<>> THEN RT_TICK_MAX ELSE tm.timeout_tick[Head(tm.list[l])]

-----------------------------------------------------------------------------
(* rt_timer_check and rt_soft_timer_check, cut at the call of the timeout  *)
(* function, which may start and stop timers and switch to other threads.  *)

(* Mutant: a timer waits for the tick after its own. *)
ExpiresLate(tm, l, now) ==
  /\ tm.list[l] # <<>> /\ now # tm.timeout_tick[Head(tm.list[l])]
  /\ Reached(now, tm.timeout_tick[Head(tm.list[l])])

Expires(tm, l, now) ==
  tm.list[l] # <<>> /\ Reached(now, tm.timeout_tick[Head(tm.list[l])])

TakeExpired(tm, l) ==
  LET t == Head(tm.list[l])
  IN  [tm EXCEPT !.list[l] = Tail(@), !.temp[l] = {t}, !.timeout_tick[t] = 0,
                 !.active = IF t \in tm.periodic THEN @ ELSE @ \ {t}]

(* Mutant: the timer is not looked for in the temporary list. *)
AlwaysRestarted(tm, now, t) ==
  LET u == rt_timer_remove(tm, t)
  IN  IF t \in u.periodic THEN rt_timer_start(u, now, t) ELSE u

AfterTimeout(tm, now, t) ==
  IF tm.temp[ListOf(t)] = {} THEN tm
  ELSE LET u == [tm EXCEPT !.temp[ListOf(t)] = {}]
       IN  IF t \in u.periodic /\ t \in u.active THEN rt_timer_start(u, now, t) ELSE u
=============================================================================
