---------------------------- MODULE RtSyncProofs ----------------------------
(***************************************************************************)
(* Mutual exclusion of the mutex of ipc.c, for any number of threads,      *)
(* priorities, semaphores and mutexes, whatever time-outs, deletions and   *)
(* changes of priority come between; then what the kernel's books say: the *)
(* container of object.c, the order of the timers and the time that is     *)
(* left of them, and the permits of the semaphores.                        *)
(***************************************************************************)
EXTENDS RtSync, RtKernelProofs

(* What the object modules read of a thread. *)
Look(s, r, t) ==
  /\ r.thread[t].stat = s.thread[t].stat /\ r.thread[t].error = s.thread[t].error
  /\ \A l \in WaitList : WaitsAt(r, t, l) <=> WaitsAt(s, t, l)
  /\ t \in r.tm.active <=> t \in s.tm.active

IsCalls(c) == c = [t \in Thread |-> c[t]]
IsObjects(b) == b = [o \in Object |-> b[o]]

Takes == {"sem_take", "mutex_take"}
WaitKind(op) == IF op = "sem_take" THEN "sem" ELSE "mutex"

(* A thread to which a mutex was handed over and whose call has not yet    *)
(* returned.                                                               *)
Given(s, c, t) == c[t].op = "mutex_take" /\ ~Waits(s, t) /\ s.thread[t].error = "EOK"

(* What a thread's call says of the kernel's tables and of the objects: s  *)
(* the kernel, c the calls, b the objects, h the holds.                    *)
CallOK(s, c, b, h, t) ==
  /\ c[t].op \in Takes => c[t] = [op |-> c[t].op, object |-> c[t].object] /\ c[t].object \in Object
  /\ \A l \in WaitList : WaitsAt(s, t, l) =>
       /\ c[t].op \in Takes /\ l = Waiters(c[t].object)
       /\ b[c[t].object].kind = WaitKind(c[t].op)
  /\ s.thread[t].stat \in {"NONE", "INIT", "CLOSE"} => c[t].op = "none"
  /\ t \in s.tm.active => Waits(s, t) \/ c[t].op = "sleep"
  /\ Given(s, c, t) =>
       /\ b[c[t].object].kind = "mutex" /\ b[c[t].object].owner = t
       /\ b[c[t].object].hold = 1 /\ h[c[t].object][t] = 0

SemRecord == [kind : {"sem"}, value : SemValue, flag : Flag]
MutexRecord ==
  [kind : {"mutex"}, value : 0..1, owner : Thread \cup {NoThread},
   original_priority : Priority \cup {255}, hold : 0..RT_MUTEX_HOLD_MAX, flag : Flag]
AbsentRecord == {Absent(kind) : kind \in {"none", "sem", "mutex"}}

(* A mutex and those who hold it or wait for it. *)
MutexOK(s, c, m, g, o) ==
  /\ \A t \in Thread : g[t] > 0 => m.owner = t
  /\ m.owner = NoThread => m.value = 1 /\ m.hold = 0
  /\ m.owner # NoThread =>
       /\ m.value = 0 /\ m.hold > 0 /\ m.original_priority \in Priority
       /\ \/ g[m.owner] = m.hold
          \/ /\ g[m.owner] = 0 /\ m.hold = 1 /\ Given(s, c, m.owner)
             /\ c[m.owner] = [op |-> "mutex_take", object |-> o]
  /\ \A t \in Thread : WaitsAt(s, t, Waiters(o)) => m.owner # NoThread

ObjectOK(s, c, b, h, o) ==
  /\ b[o] \in AbsentRecord \cup SemRecord \cup MutexRecord
  /\ b[o].kind # "mutex" => \A t \in Thread : h[o][t] = 0
  /\ b[o].kind = "mutex" => MutexOK(s, c, b[o], h[o], o)

(* Objects and static threads that an _init function has looked for and    *)
(* not yet put into the container.                                         *)
Fresh(m) ==
  \E f \in Flag : m = rt_mutex_init(f) \/ \E v \in SemValue : m = rt_sem_init(v, f)

MakerOK(s, c, b, t) ==
  c[t].op = "init" =>
    \/ c[t].object \in StaticThread /\ s.thread[c[t].object].stat = "CLOSE"
    \/ /\ c[t].object \in Object /\ b[c[t].object] = Absent(c[t].made.kind)
       /\ Fresh(c[t].made)

OneMaker(c) ==
  \A t, u \in Thread :
    c[t].op = "init" /\ c[u].op = "init" /\ c[t].object = c[u].object => t = u

CallsOK(s, c, b, h) ==
  /\ IsCalls(c) /\ IsObjects(b)
  /\ h \in [Object -> [Thread -> Nat]]
  /\ \A t \in Thread : CallOK(s, c, b, h, t) /\ MakerOK(s, c, b, t)
  /\ \A o \in Object : ObjectOK(s, c, b, h, o)
  /\ OneMaker(c)

IsGhost(g) == g = [permits |-> g.permits, held |-> g.held]

(* The inductive invariant. *)
SyncInv ==
  /\ Full(k) /\ idle \in IdlePlace /\ IsGhost(ghost)
  /\ CallsOK(k, call, obj, ghost.held)

-----------------------------------------------------------------------------
(* What does not change stays in order. *)
LEMMA SameLook ==
  ASSUME NEW s, NEW r, NEW t, Same(s, r, t)
  PROVE  Look(s, r, t)
BY DEF Same, Look

LEMMA LookTrans ==
  ASSUME NEW s, NEW q, NEW r, NEW t, Look(s, q, t), Look(q, r, t)
  PROVE  Look(s, r, t)
BY DEF Look

LEMMA LookGiven ==
  ASSUME NEW s, NEW r, NEW c, NEW d, NEW t, Look(s, r, t), d[t] = c[t]
  PROVE  /\ Waits(r, t) <=> Waits(s, t)
         /\ Given(r, d, t) <=> Given(s, c, t)
BY DEF Look, Waits, Given

LEMMA CallKept ==
  ASSUME NEW s, NEW c, NEW b, NEW h, NEW t, CallOK(s, c, b, h, t),
         NEW r, NEW d, NEW a, NEW g, Look(s, r, t), d[t] = c[t],
         Waits(s, t) => a[c[t].object].kind = b[c[t].object].kind,
         Given(s, c, t) => /\ a[c[t].object] = b[c[t].object]
                           /\ g[c[t].object][t] = h[c[t].object][t]
  PROVE  CallOK(r, d, a, g, t)
<1>1. (Waits(r, t) <=> Waits(s, t)) /\ (Given(r, d, t) <=> Given(s, c, t))
  BY LookGiven
<1>2. /\ r.thread[t].stat = s.thread[t].stat
      /\ \A l \in WaitList : WaitsAt(r, t, l) <=> WaitsAt(s, t, l)
      /\ t \in r.tm.active <=> t \in s.tm.active
  BY DEF Look
<1>3. ASSUME NEW l \in WaitList, WaitsAt(r, t, l)
      PROVE  /\ d[t].op \in Takes /\ l = Waiters(d[t].object)
             /\ a[d[t].object].kind = WaitKind(d[t].op)
  <2>1. WaitsAt(s, t, l) /\ Waits(s, t)
    BY <1>2, <1>3 DEF Waits
  <2> QED
    BY <2>1 DEF CallOK
<1> QED
  BY <1>1, <1>2, <1>3 DEF CallOK

LEMMA MutexKept ==
  ASSUME NEW s, NEW c, NEW m, NEW g, NEW o, MutexOK(s, c, m, g, o),
         NEW r, NEW d, m.owner \in Thread \cup {NoThread},
         \A t \in Thread :
           /\ Given(s, c, t) /\ c[t] = [op |-> "mutex_take", object |-> o]
                => Given(r, d, t) /\ d[t] = c[t]
           /\ WaitsAt(r, t, Waiters(o)) => WaitsAt(s, t, Waiters(o)) \/ m.owner # NoThread
  PROVE  MutexOK(r, d, m, g, o)
<1>1. CASE m.owner = NoThread
  BY <1>1 DEF MutexOK
<1>2. CASE m.owner # NoThread
  <2>1. m.owner \in Thread
    BY <1>2
  <2>2. \/ g[m.owner] = m.hold
        \/ /\ g[m.owner] = 0 /\ m.hold = 1 /\ Given(s, c, m.owner)
           /\ c[m.owner] = [op |-> "mutex_take", object |-> o]
    BY <1>2 DEF MutexOK
  <2>3. \/ g[m.owner] = m.hold
        \/ /\ g[m.owner] = 0 /\ m.hold = 1 /\ Given(r, d, m.owner)
           /\ d[m.owner] = [op |-> "mutex_take", object |-> o]
    BY <2>1, <2>2
  <2> QED
    BY <1>2, <2>3 DEF MutexOK
<1> QED
  BY <1>1, <1>2

LEMMA ObjectTypes ==
  ASSUME NEW s, NEW c, NEW b, NEW h, NEW o, ObjectOK(s, c, b, h, o)
  PROVE  /\ b[o].kind \in {"absent", "sem", "mutex"}
         /\ b[o].kind = "sem" => b[o] \in SemRecord
         /\ b[o].kind = "mutex" => /\ b[o] \in MutexRecord /\ b[o].owner \in Thread \cup {NoThread}
                                   /\ b[o].value \in 0..1 /\ b[o].hold \in 0..RT_MUTEX_HOLD_MAX
BY DEF ObjectOK, AbsentRecord, SemRecord, MutexRecord, Absent

(* No thread that owns o or waits for it has been moved. *)
Uninvolved(s, c, r, d, b, o) ==
  \A t \in Thread :
    /\ Given(s, c, t) /\ c[t] = [op |-> "mutex_take", object |-> o]
         => Given(r, d, t) /\ d[t] = c[t]
    /\ WaitsAt(r, t, Waiters(o)) /\ b[o].kind = "mutex"
         => WaitsAt(s, t, Waiters(o)) \/ b[o].owner # NoThread

LEMMA ObjectKept ==
  ASSUME NEW s, NEW c, NEW b, NEW h, NEW o, ObjectOK(s, c, b, h, o),
         NEW r, NEW d, NEW a, NEW g, a[o] = b[o], g[o] = h[o],
         Uninvolved(s, c, r, d, b, o)
  PROVE  ObjectOK(r, d, a, g, o)
<1>1. CASE b[o].kind # "mutex"
  BY <1>1 DEF ObjectOK
<1>2. CASE b[o].kind = "mutex"
  <2>1. b[o].owner \in Thread \cup {NoThread} /\ MutexOK(s, c, b[o], h[o], o)
    BY <1>2, ObjectTypes DEF ObjectOK
  <2>2. MutexOK(r, d, b[o], h[o], o)
    BY <1>2, <2>1, MutexKept DEF Uninvolved
  <2> QED
    BY <1>2, <2>2 DEF ObjectOK
<1> QED
  BY <1>1, <1>2

LEMMA MakerKept ==
  ASSUME NEW s, NEW c, NEW b, NEW t, MakerOK(s, c, b, t), NEW r, NEW d, NEW a, d[t] = c[t],
         c[t].op = "init" /\ c[t].object \in Object => a[c[t].object] = b[c[t].object],
         c[t].object \in StaticThread /\ s.thread[c[t].object].stat = "CLOSE"
           => r.thread[c[t].object].stat = "CLOSE"
  PROVE  MakerOK(r, d, a, t)
BY DEF MakerOK

(* A step that leaves the objects alone and moves the threads of T. *)
LEMMA Quiet ==
  ASSUME NEW s, NEW r, NEW c, NEW d, NEW b, NEW h, CallsOK(s, c, b, h),
         NEW T \in SUBSET Thread, IsCalls(d),
         \A u \in Thread \ T : Look(s, r, u) /\ d[u] = c[u],
         \A u \in T :
           /\ CallOK(r, d, b, h, u)
           /\ Given(s, c, u) => Given(r, d, u) /\ d[u] = c[u]
           /\ \A o \in Object : WaitsAt(r, u, Waiters(o)) /\ b[o].kind = "mutex"
                => WaitsAt(s, u, Waiters(o)) \/ b[o].owner # NoThread,
         \A u \in Thread : MakerOK(r, d, b, u), OneMaker(d)
  PROVE  CallsOK(r, d, b, h)
<1>1. \A u \in Thread : CallOK(s, c, b, h, u)
  BY DEF CallsOK
<1>2. ASSUME NEW u \in Thread
      PROVE  CallOK(r, d, b, h, u)
  <2>1. CASE u \in T
    BY <2>1
  <2>2. CASE u \notin T
    <3>1. Look(s, r, u) /\ d[u] = c[u]
      BY <2>2
    <3> QED
      BY <1>1, <3>1, CallKept
  <2> QED
    BY <2>1, <2>2
<1>3. ASSUME NEW o \in Object
      PROVE  ObjectOK(r, d, b, h, o)
  <2>1. ASSUME NEW u \in Thread
        PROVE  /\ Given(s, c, u) /\ c[u] = [op |-> "mutex_take", object |-> o]
                    => Given(r, d, u) /\ d[u] = c[u]
               /\ WaitsAt(r, u, Waiters(o)) /\ b[o].kind = "mutex"
                    => WaitsAt(s, u, Waiters(o)) \/ b[o].owner # NoThread
    <3>1. CASE u \in T
      BY <3>1
    <3>2. CASE u \notin T
      <4>1. Look(s, r, u) /\ d[u] = c[u]
        BY <3>2
      <4>2. Given(s, c, u) => Given(r, d, u)
        BY <4>1, LookGiven
      <4>3. Waiters(o) \in WaitList
        BY IpcAssumption DEF Waiters, IpcWaitList
      <4>4. WaitsAt(r, u, Waiters(o)) => WaitsAt(s, u, Waiters(o))
        BY <4>1, <4>3 DEF Look
      <4> QED
        BY <4>1, <4>2, <4>4
    <3> QED
      BY <3>1, <3>2
  <2>2. ObjectOK(s, c, b, h, o)
    BY DEF CallsOK
  <2>3. Uninvolved(s, c, r, d, b, o)
    BY <2>1 DEF Uninvolved
  <2> QED
    BY <2>2, <2>3, ObjectKept
<1>4. IsObjects(b) /\ h \in [Object -> [Thread -> Nat]]
  BY DEF CallsOK
<1> QED
  BY <1>2, <1>3, <1>4 DEF CallsOK

(* The same for one thread, which is not making anything after the step    *)
(* that it was not making before.                                          *)
LEMMA QuietCall ==
  ASSUME NEW s, NEW r, NEW c, NEW d, NEW b, NEW h, CallsOK(s, c, b, h),
         NEW t \in Thread, IsCalls(d),
         \A u \in Thread \ {t} : Look(s, r, u) /\ d[u] = c[u],
         CallOK(r, d, b, h, t), ~Given(s, c, t),
         \A o \in Object : WaitsAt(r, t, Waiters(o)) /\ b[o].kind = "mutex"
           => WaitsAt(s, t, Waiters(o)) \/ b[o].owner # NoThread,
         d[t].op = "init" => d[t] = c[t],
         s.thread[t].stat = "CLOSE" => r.thread[t].stat = "CLOSE"
  PROVE  CallsOK(r, d, b, h)
<1>1. OneMaker(d)
  BY DEF CallsOK, OneMaker
<1>2. \A u \in StaticThread : s.thread[u].stat = "CLOSE" => r.thread[u].stat = "CLOSE"
  BY KernelAssumption DEF Look
<1>3. ASSUME NEW u \in Thread
      PROVE  MakerOK(r, d, b, u)
  <2>1. MakerOK(s, c, b, u)
    BY DEF CallsOK
  <2>2. CASE d[u] = c[u]
    BY <1>2, <2>1, <2>2, MakerKept
  <2>3. CASE d[u] # c[u]
    BY <2>3 DEF MakerOK
  <2> QED
    BY <2>2, <2>3
<1> DEFINE T == {t}
<1>4. /\ T \in SUBSET Thread
      /\ \A u \in Thread \ T : Look(s, r, u) /\ d[u] = c[u]
      /\ \A u \in T :
           /\ CallOK(r, d, b, h, u)
           /\ Given(s, c, u) => Given(r, d, u) /\ d[u] = c[u]
           /\ \A o \in Object : WaitsAt(r, u, Waiters(o)) /\ b[o].kind = "mutex"
                => WaitsAt(s, u, Waiters(o)) \/ b[o].owner # NoThread
  OBVIOUS
<1> HIDE DEF T
<1> QED
  BY <1>1, <1>3, <1>4, Quiet

(* The same where no thread is moved. *)
LEMMA QuietAll ==
  ASSUME NEW s, NEW r, NEW c, NEW b, NEW h, CallsOK(s, c, b, h),
         \A u \in Thread : Look(s, r, u)
  PROVE  CallsOK(r, c, b, h)
<1>1. \A u \in StaticThread : s.thread[u].stat = "CLOSE" => r.thread[u].stat = "CLOSE"
  BY KernelAssumption DEF Look
<1>2. ASSUME NEW u \in Thread
      PROVE  MakerOK(r, c, b, u)
  <2>1. MakerOK(s, c, b, u)
    BY DEF CallsOK
  <2> QED
    BY <1>1, <2>1, MakerKept
<1>3. {} \in SUBSET Thread /\ OneMaker(c) /\ IsCalls(c)
  BY DEF CallsOK
<1> QED
  BY <1>2, <1>3, Quiet

(* A step that changes one object, and after which every call is in order. *)
LEMMA ObjectStep ==
  ASSUME NEW s, NEW r, NEW c, NEW d, NEW b, NEW h, CallsOK(s, c, b, h), NEW a, NEW g,
         NEW o \in Object, IsCalls(d), IsObjects(a),
         g \in [Object -> [Thread -> Nat]],
         \A x \in Object \ {o} : a[x] = b[x] /\ g[x] = h[x],
         ObjectOK(r, d, a, g, o), OneMaker(d),
         \A u \in Thread :
           /\ CallOK(r, d, a, g, u) /\ MakerOK(r, d, a, u)
           /\ Given(s, c, u) /\ c[u].object # o => Given(r, d, u) /\ d[u] = c[u]
           /\ \A x \in Object \ {o} : WaitsAt(r, u, Waiters(x)) => WaitsAt(s, u, Waiters(x))
  PROVE  CallsOK(r, d, a, g)
<1>1. ASSUME NEW x \in Object
      PROVE  ObjectOK(r, d, a, g, x)
  <2>1. CASE x = o
    BY <2>1
  <2>2. CASE x # o
    <3>1. ObjectOK(s, c, b, h, x)
      BY DEF CallsOK
    <3>2. a[x] = b[x] /\ g[x] = h[x]
      BY <2>2
    <3>3. ASSUME NEW u \in Thread
          PROVE  /\ Given(s, c, u) /\ c[u] = [op |-> "mutex_take", object |-> x]
                      => Given(r, d, u) /\ d[u] = c[u]
                 /\ WaitsAt(r, u, Waiters(x)) /\ b[x].kind = "mutex"
                      => WaitsAt(s, u, Waiters(x)) \/ b[x].owner # NoThread
      <4>1. Given(s, c, u) /\ c[u].object # o => Given(r, d, u) /\ d[u] = c[u]
        OBVIOUS
      <4>2. c[u] = [op |-> "mutex_take", object |-> x] => c[u].object # o
        BY <2>2
      <4>3. WaitsAt(r, u, Waiters(x)) => WaitsAt(s, u, Waiters(x))
        BY <2>2
      <4> QED
        BY <4>1, <4>2, <4>3
    <3>4. Uninvolved(s, c, r, d, b, x)
      BY <3>3 DEF Uninvolved
    <3> QED
      BY <3>1, <3>2, <3>4, ObjectKept
  <2> QED
    BY <2>1, <2>2
<1> QED
  BY <1>1 DEF CallsOK

-----------------------------------------------------------------------------
(* The steps of threads.  The thread that has the CPU waits for nothing. *)
LEMMA OnCpu ==
  ASSUME NEW s, Full(s), NEW t \in Thread, s.current = t
  PROVE  /\ t \in All /\ Sound(s) /\ s.thread[t].stat = "READY" /\ s.thread[t] \in ThreadRecord
         /\ ~Waits(s, t) /\ t \notin s.tm.active /\ ~IsDefunct(s, t)
<1>1. t \in All /\ Sound(s) /\ s.thread[t].stat = "READY"
  BY DEF All, Full, Live
<1>2. Coherent(s, t) /\ s.thread \in [All -> ThreadRecord]
  BY <1>1, TablesTypes DEF Sound
<1> QED
  BY <1>1, <1>2 DEF Coherent, Waits

(* A call that waits in no list of an object. *)
LEMMA NotTaking ==
  ASSUME NEW r, NEW d, NEW b, NEW h, NEW t, ~Waits(r, t), d[t].op \notin Takes,
         t \in r.tm.active => d[t].op = "sleep",
         r.thread[t].stat \in {"NONE", "INIT", "CLOSE"} => d[t].op = "none"
  PROVE  CallOK(r, d, b, h, t) /\ ~Given(r, d, t)
BY DEF CallOK, Given, Waits, Takes

LEMMA WaitersIn ==
  ASSUME NEW o \in Object
  PROVE  Waiters(o) \in WaitList
BY IpcAssumption DEF Waiters, IpcWaitList

(* A step of a thread in no call that has nothing to do with the objects.  *)
LEMMA AloneStep ==
  ASSUME NEW s, NEW r, NEW c, NEW d, NEW b, NEW h, CallsOK(s, c, b, h),
         NEW t \in Thread, Only(s, r, t), IsCalls(d),
         \A u \in Thread \ {t} : d[u] = c[u],
         ~Given(s, c, t), ~Waits(r, t), d[t].op \in {"none", "sleep"},
         t \in r.tm.active => d[t].op = "sleep",
         r.thread[t].stat \in {"NONE", "INIT", "CLOSE"} => d[t].op = "none",
         s.thread[t].stat = "CLOSE" => r.thread[t].stat = "CLOSE"
  PROVE  CallsOK(r, d, b, h)
<1>1. CallOK(r, d, b, h, t)
  BY NotTaking DEF Takes
<1>2. \A u \in Thread \ {t} : Look(s, r, u) /\ d[u] = c[u]
  BY SameLook DEF Only, All
<1>3. \A o \in Object : ~WaitsAt(r, t, Waiters(o))
  BY WaitersIn DEF Waits
<1>4. d[t].op # "init"
  OBVIOUS
<1> QED
  BY <1>1, <1>2, <1>3, <1>4, QuietCall

LEMMA MakeThread ==
  ASSUME NEW s, Full(s), NEW t \in Thread, s.thread[t].stat \in {"NONE", "CLOSE"},
         ~IsDefunct(s, t)
  PROVE  LET r == ThreadSetup([s EXCEPT !.registered = @ \cup {t}], t)
         IN  /\ Full(r) /\ Only(s, r, t) /\ r.current = s.current
             /\ r.thread[t].stat = "INIT" /\ ~Waits(r, t) /\ t \notin r.tm.active
             /\ r.registered = s.registered \cup {t} /\ r.lock_nest = s.lock_nest
             /\ r.tick = s.tick /\ KeptTime(s.tm, r.tm, s.tick)
<1> DEFINE R == s.registered \cup {t}
           q == [s EXCEPT !.registered = R]
           r == ThreadSetup(q, t)
<1>0. t \in All /\ Idle \in All /\ t # Idle /\ Sound(s)
  BY KernelAssumption DEF All, Full, Live
<1>1. R \in SUBSET (All \cup Object)
  BY <1>0, TablesTypes DEF Sound
<1> HIDE DEF R
<1>2. Sound(q) /\ (\A u \in All : Same(s, q, u)) /\ q.current = s.current
       /\ q.thread = s.thread /\ q.defunct = s.defunct /\ q.tm = s.tm
       /\ q.registered = s.registered \cup {t} /\ q.lock_nest = s.lock_nest /\ q.tick = s.tick
  BY <1>0, <1>1, SetRegistered DEF R
<1> HIDE DEF q
<1>3. q.thread[t].stat \in {"NONE", "CLOSE"} /\ ~IsDefunct(q, t)
  BY <1>2 DEF IsDefunct
<1>4. /\ Sound(r) /\ Only(q, r, t) /\ SameRegs(q, r)
      /\ r.thread[t] = [stat |-> "INIT", current_priority |-> ThreadPriority[t],
                        number_mask |-> {}, error |-> "EOK"]
      /\ ~Waits(r, t) /\ t \notin r.tm.active /\ r.tm = rt_timer_init(q.tm, t, 0, FALSE)
  <2>1. Sound(q) /\ t \in All
    BY <1>0, <1>2
  <2> QED
    BY <1>3, <2>1, Setup
<1>5. r.thread[t].stat = "INIT"
  BY <1>4
<1> HIDE DEF r
<1>6. Only(s, q, t)
  BY <1>2 DEF Only
<1>7. Only(s, r, t) /\ r.current = s.current
  BY <1>2, <1>4, <1>6, OnlyTrans DEF SameRegs
<1>8. s.current # t /\ s.current \in All /\ s.thread[s.current].stat = "READY"
       /\ s.thread[Idle].stat = "READY"
  BY DEF Full, Live
<1>9. r.thread[s.current] = s.thread[s.current] /\ r.thread[Idle] = s.thread[Idle]
  BY <1>0, <1>7, <1>8 DEF Only, Same
<1>10. Full(r)
  BY <1>4, <1>7, <1>8, <1>9 DEF Full, Live
<1>11. /\ r.registered = s.registered \cup {t} /\ r.lock_nest = s.lock_nest /\ r.tick = s.tick
  BY <1>2, <1>4 DEF SameRegs
<1>12. KeptTime(s.tm, r.tm, s.tick)
  <2>1. TimersKept(s.tm) /\ t \notin s.tm.active
    BY <1>0 DEF Sound, Tables, Coherent
  <2>2. r.tm = rt_timer_init(s.tm, t, 0, FALSE)
    BY <1>2, <1>4
  <2> QED
    BY <1>0, <2>1, <2>2, InitInTime
<1> QED
  BY <1>4, <1>5, <1>7, <1>10, <1>11, <1>12 DEF r, q, R

LEMMA CreateStep ==
  ASSUME SyncInv, NEW t \in Thread, NEW u \in Thread, Create(t, u), UNCHANGED ipcVars
  PROVE  SyncInv'
<1>1. /\ k' = ThreadSetup([k EXCEPT !.registered = @ \cup {u}], u)
      /\ k.thread[u].stat = "NONE" /\ UNCHANGED <<call, idle, obj, ghost>>
  BY DEF Create, rt_thread_create, rt_object_allocate, ipcVars
<1>2. Full(k) /\ CallsOK(k, call, obj, ghost.held)
  BY DEF SyncInv
<1>3. u \in All /\ Coherent(k, u) /\ ~IsDefunct(k, u)
  BY <1>1, <1>2 DEF Full, Live, Sound, Coherent, All
<1>4. /\ Full(k') /\ Only(k, k', u) /\ k'.thread[u].stat = "INIT"
      /\ ~Waits(k', u) /\ u \notin k'.tm.active
  BY <1>1, <1>2, <1>3, MakeThread
<1>5. call[u].op = "none" /\ IsCalls(call)
  BY <1>1, <1>2 DEF CallsOK, CallOK
<1>6. ~Given(k, call, u)
  BY <1>5 DEF Given
<1>7. CallsOK(k', call, obj, ghost.held)
  BY <1>1, <1>2, <1>4, <1>5, <1>6, AloneStep
<1> QED
  BY <1>1, <1>4, <1>7 DEF SyncInv

CallSet(c, d, t, f) == IsCalls(d) /\ d[t] = f /\ \A u \in Thread \ {t} : d[u] = c[u]

LEMMA SetCall ==
  ASSUME NEW c, NEW d, IsCalls(c), NEW t \in Thread, NEW f, d = [c EXCEPT ![t] = f]
  PROVE  CallSet(c, d, t, f)
BY DEF IsCalls, CallSet

(* The search of the container that every _init function begins with. *)
LEMMA FindStep ==
  ASSUME NEW s, NEW r, NEW c, NEW d, NEW b, NEW h, CallsOK(s, c, b, h), Full(s),
         NEW t \in Thread, s.current = t, c[t].op = "none", Rescheduled(s, r),
         NEW f, f.op = "init", CallSet(c, d, t, f),
         \A u \in Thread : ~(c[u].op = "init" /\ c[u].object = f.object),
         MakerOK(r, d, b, t)
  PROVE  CallsOK(r, d, b, h)
<1>1. /\ IsCalls(c) /\ OneMaker(c)
      /\ \A u \in Thread : MakerOK(s, c, b, u)
  BY DEF CallsOK
<1>2. IsCalls(d) /\ d[t] = f /\ \A u \in Thread \ {t} : d[u] = c[u]
  BY <1>1 DEF CallSet
<1>3. \A u \in All : Same(s, r, u)
  BY RescheduledSame DEF Full, Live
<1>4. \A u \in Thread : Look(s, r, u)
  BY <1>3, SameLook DEF All
<1>5. /\ ~Waits(s, t) /\ t \notin s.tm.active /\ s.thread[t].stat = "READY"
  BY OnCpu
<1>6. /\ ~Waits(r, t) /\ t \notin r.tm.active /\ r.thread[t].stat = "READY"
  BY <1>4, <1>5, LookGiven DEF Look
<1>7. CallOK(r, d, b, h, t) /\ ~Given(s, c, t)
  BY <1>2, <1>6, NotTaking DEF Takes, Given
<1>8. \A u \in StaticThread : s.thread[u].stat = "CLOSE" => r.thread[u].stat = "CLOSE"
  BY <1>4, KernelAssumption DEF Look
<1>9. ASSUME NEW u \in Thread
      PROVE  MakerOK(r, d, b, u)
  <2>1. CASE u = t
    BY <2>1
  <2>2. CASE u # t
    BY <1>1, <1>2, <1>8, <2>2, MakerKept
  <2> QED
    BY <2>1, <2>2
<1>10. OneMaker(d)
  BY <1>1, <1>2 DEF OneMaker
<1>11. \A o \in Object : ~WaitsAt(r, t, Waiters(o))
  BY <1>6, WaitersIn DEF Waits
<1> DEFINE T == {t}
<1>12. /\ T \in SUBSET Thread
       /\ \A u \in Thread \ T : Look(s, r, u) /\ d[u] = c[u]
       /\ \A u \in T :
            /\ CallOK(r, d, b, h, u)
            /\ Given(s, c, u) => Given(r, d, u) /\ d[u] = c[u]
            /\ \A o \in Object : WaitsAt(r, u, Waiters(o)) /\ b[o].kind = "mutex"
                 => WaitsAt(s, u, Waiters(o)) \/ b[o].owner # NoThread
  BY <1>2, <1>4, <1>7, <1>11
<1> HIDE DEF T
<1> QED
  BY <1>2, <1>9, <1>10, <1>12, Quiet

LEMMA InitThreadStep ==
  ASSUME SyncInv, NEW t \in Thread, NEW u \in Thread, InitThread(t, u), UNCHANGED ipcVars
  PROVE  SyncInv'
<1> DEFINE f == [op |-> "init", object |-> u]
<1>1. /\ k' = rt_object_find(k) /\ call' = [call EXCEPT ![t] = f]
      /\ k.current = t /\ call[t] = Running /\ u \in StaticThread /\ k.thread[u].stat = "CLOSE"
      /\ UNCHANGED <<idle, obj, ghost>>
  BY DEF InitThread, FindFirst, IsRunning, ipcVars
<1>2. Full(k) /\ CallsOK(k, call, obj, ghost.held)
  BY DEF SyncInv
<1>3. Rescheduled(k, k') /\ Full(k')
  BY <1>1, <1>2, ObjectFind DEF Rescheduled
<1>4. f.op = "init" /\ f.object = u /\ call[t].op = "none"
  BY <1>1 DEF Running
<1>5. \A v \in Thread : ~(call[v].op = "init" /\ call[v].object = u)
  BY DEF InitThread, BeingMade
<1>6. CallSet(call, call', t, f) /\ call'[t] = f
  <2>1. IsCalls(call)
    BY <1>2 DEF CallsOK
  <2>2. CallSet(call, call', t, f)
    BY <1>1, <2>1, SetCall
  <2> QED
    BY <2>2 DEF CallSet
<1>7. MakerOK(k', call', obj, t)
  <2>1. k'.thread[u].stat = "CLOSE"
    BY <1>1, <1>3 DEF Rescheduled
  <2> QED
    BY <1>1, <1>4, <1>6, <2>1 DEF MakerOK
<1> HIDE DEF f
<1>8. CallsOK(k', call', obj, ghost.held)
  BY <1>1, <1>2, <1>3, <1>4, <1>5, <1>6, <1>7, FindStep
<1> QED
  BY <1>1, <1>3, <1>8 DEF SyncInv

LEMMA ThreadInitedStep ==
  ASSUME SyncInv, NEW t \in Thread, ThreadInited(t), UNCHANGED ipcVars
  PROVE  SyncInv'
<1> DEFINE u == call[t].object
<1>1. /\ k' = ThreadSetup([k EXCEPT !.registered = @ \cup {u}], u)
      /\ call' = [call EXCEPT ![t] = Running]
      /\ k.current = t /\ call[t].op = "init" /\ u \in Thread
      /\ UNCHANGED <<idle, obj, ghost>>
  BY DEF ThreadInited, Returns, rt_thread_init, rt_object_init, ipcVars
<1>2. Full(k) /\ CallsOK(k, call, obj, ghost.held)
  BY DEF SyncInv
<1>3. u \in StaticThread /\ k.thread[u].stat = "CLOSE"
  <2>1. MakerOK(k, call, obj, t)
    BY <1>2 DEF CallsOK
  <2>2. u \notin Object
    BY <1>1, IpcAssumption DEF All
  <2> QED
    BY <1>1, <2>1, <2>2 DEF MakerOK
<1>4. u \in All /\ Coherent(k, u) /\ ~IsDefunct(k, u)
  BY <1>1, <1>2, <1>3 DEF Full, Live, Sound, Coherent, All
<1>5. /\ Full(k') /\ Only(k, k', u) /\ k'.thread[u].stat = "INIT"
      /\ ~Waits(k', u) /\ u \notin k'.tm.active
  BY <1>1, <1>2, <1>3, <1>4, MakeThread
<1>6. /\ IsCalls(call) /\ call[u].op = "none" /\ OneMaker(call)
      /\ \A v \in Thread : MakerOK(k, call, obj, v)
  BY <1>1, <1>2, <1>3 DEF CallsOK, CallOK
<1>7. u # t /\ call'[t] = Running /\ (\A v \in Thread \ {t} : call'[v] = call[v])
       /\ IsCalls(call')
  <2>1. CallSet(call, call', t, Running)
    BY <1>1, <1>6, SetCall
  <2> QED
    BY <1>1, <1>6, <2>1 DEF CallSet
<1>8. call'[u].op = "none" /\ call'[t].op = "none"
  BY <1>1, <1>6, <1>7 DEF Running
<1>9. ~Waits(k, t) /\ t \notin k.tm.active /\ k.thread[t].stat = "READY"
  BY <1>1, <1>2, OnCpu
<1>10. \A v \in Thread \ {u} : Look(k, k', v)
  BY <1>5, SameLook DEF Only, All
<1>11. ~Waits(k', t) /\ t \notin k'.tm.active /\ k'.thread[t].stat = "READY"
  BY <1>7, <1>9, <1>10, LookGiven DEF Look
<1>12. ~Given(k, call, t) /\ ~Given(k, call, u)
  BY <1>1, <1>6 DEF Given
<1>13. CallOK(k', call', obj, ghost.held, t) /\ CallOK(k', call', obj, ghost.held, u)
  BY <1>5, <1>8, <1>11, NotTaking DEF Takes
<1>14. \A o \in Object : ~WaitsAt(k', t, Waiters(o)) /\ ~WaitsAt(k', u, Waiters(o))
  BY <1>5, <1>11, WaitersIn DEF Waits
<1>15. ASSUME NEW v \in Thread
       PROVE  MakerOK(k', call', obj, v)
  <2>1. CASE v = t
    BY <1>8, <2>1 DEF MakerOK
  <2>2. CASE v # t
    <3>1. MakerOK(k, call, obj, v) /\ call'[v] = call[v]
      BY <1>6, <1>7, <2>2
    <3>2. CASE call[v].op = "init"
      <4>1. call[v].object # u
        BY <1>1, <1>6, <2>2, <3>2 DEF OneMaker
      <4>2. call[v].object \in StaticThread => Look(k, k', call[v].object)
        BY <1>10, <4>1, KernelAssumption
      <4> QED
        BY <3>1, <4>2, MakerKept DEF Look
    <3>3. CASE call[v].op # "init"
      BY <3>1, <3>3 DEF MakerOK
    <3> QED
      BY <3>2, <3>3
  <2> QED
    BY <2>1, <2>2
<1>16. OneMaker(call')
  BY <1>6, <1>7, <1>8 DEF OneMaker
<1> DEFINE T == {t, u}
<1>17. /\ T \in SUBSET Thread
       /\ \A v \in Thread \ T : Look(k, k', v) /\ call'[v] = call[v]
       /\ \A v \in T :
            /\ CallOK(k', call', obj, ghost.held, v)
            /\ Given(k, call, v) => Given(k', call', v) /\ call'[v] = call[v]
            /\ \A o \in Object : WaitsAt(k', v, Waiters(o)) /\ obj[o].kind = "mutex"
                 => WaitsAt(k, v, Waiters(o)) \/ obj[o].owner # NoThread
  BY <1>1, <1>7, <1>10, <1>12, <1>13, <1>14
<1> HIDE DEF T
<1>18. CallsOK(k', call', obj, ghost.held)
  BY <1>2, <1>7, <1>15, <1>16, <1>17, Quiet
<1> QED
  BY <1>1, <1>5, <1>18 DEF SyncInv

LEMMA StartupStep ==
  ASSUME SyncInv, NEW t \in Thread, NEW u \in Thread, Startup(t, u), UNCHANGED ipcVars
  PROVE  SyncInv'
<1> DEFINE q == rt_thread_resume(StartedUp(k, u), u)
<1>1. /\ k' = rt_thread_startup(k, u) /\ k.current = t /\ k.thread[u].stat = "INIT"
      /\ UNCHANGED <<call, idle, obj, ghost>>
  BY DEF Startup, IsRunning, ipcVars
<1>2. Full(k) /\ CallsOK(k, call, obj, ghost.held) /\ Sound(k) /\ u \in All
  BY DEF SyncInv, Full, Live, All
<1>3. k' = rt_schedule(q)
  <2>1. k.current # NoThread
    BY <1>1, KernelAssumption DEF All
  <2> QED
    BY <1>1, <2>1 DEF rt_thread_startup, StartedUp
<1>4. /\ Sound(q) /\ Only(k, q, u) /\ SameRegs(k, q) /\ q.thread[u].stat = "READY"
      /\ ~Waits(q, u) /\ u \notin q.tm.active
  BY <1>1, <1>2, Start
<1> HIDE DEF q
<1>5. k.current \in All /\ k.thread[k.current].stat = "READY" /\ k.current # u
  BY <1>1, <1>2 DEF Full
<1>6. q.thread[k.current].stat = "READY"
  BY <1>4, <1>5 DEF Only, Same
<1>7. /\ Full(k') /\ Only(k, k', u) /\ k'.thread = q.thread /\ k'.wait = q.wait
      /\ k'.tm = q.tm
  BY <1>2, <1>3, <1>4, <1>6, ThenSchedule
<1>8. ~Waits(k', u) /\ u \notin k'.tm.active /\ k'.thread[u].stat = "READY"
  BY <1>4, <1>7 DEF Waits, WaitsAt
<1>9. call[u].op = "none" /\ IsCalls(call)
  BY <1>1, <1>2 DEF CallsOK, CallOK
<1>10. ~Given(k, call, u)
  BY <1>9 DEF Given
<1>11. CallsOK(k', call, obj, ghost.held)
  BY <1>1, <1>2, <1>7, <1>8, <1>9, <1>10, AloneStep
<1> QED
  BY <1>1, <1>7, <1>11 DEF SyncInv

(* The two ways in which a thread ends. *)
LEMMA EndIs ==
  ASSUME NEW s, Sound(s), NEW t \in Thread, s.thread[t].stat \in {"INIT", "READY", "SUSPEND"}
  PROVE  Ended(s, IF rt_object_is_systemobject(t) THEN rt_thread_detach(s, t)
                  ELSE rt_thread_delete(s, t), t)
<1>1. t \in All
  BY DEF All
<1>2. CASE rt_object_is_systemobject(t)
  BY <1>1, <1>2, ThreadDetach
<1>3. CASE ~rt_object_is_systemobject(t)
  <2>1. t \in Thread \ StaticThread
    BY <1>3 DEF rt_object_is_systemobject
  <2> QED
    BY <1>3, <2>1, ThreadDelete
<1> QED
  BY <1>2, <1>3

LEMMA ExitStep ==
  ASSUME SyncInv, NEW t \in Thread, Exit(t), UNCHANGED ipcVars
  PROVE  SyncInv'
<1> DEFINE q == IF rt_object_is_systemobject(t) THEN rt_thread_detach(k, t)
                ELSE rt_thread_delete(k, t)
<1>1. /\ k.current = t /\ k.lock_nest = 0 /\ call[t] = Running
      /\ UNCHANGED <<call, idle, obj, ghost>>
  BY DEF Exit, IsRunning, ipcVars
<1>2. k' = rt_schedule(q)
  BY <1>1 DEF Exit, rt_thread_exit
<1>3. Full(k) /\ CallsOK(k, call, obj, ghost.held) /\ Sound(k) /\ k.thread[t].stat = "READY"
  BY <1>1 DEF SyncInv, Full, Live
<1>4. Ended(k, q, t)
  BY <1>3, EndIs
<1> HIDE DEF q
<1>5. /\ Sound(q) /\ Only(k, q, t) /\ q.lock_nest = 0 /\ q.thread[t].stat = "CLOSE"
      /\ ~Waits(q, t) /\ t \notin q.tm.active
  BY <1>1, <1>4 DEF Ended
<1>6. Live(q)
  <2>1. Idle \in All \ {t}
    BY KernelAssumption DEF All
  <2>2. q.thread[Idle] = k.thread[Idle]
    BY <1>5, <2>1 DEF Only, Same
  <2> QED
    BY <1>3, <1>5, <2>2 DEF Full, Live
<1>7. Rescheduled(q, k')
  BY <1>2, <1>5, <1>6, ScheduleIs
<1>8. \A u \in All : Same(q, k', u)
  BY <1>5, <1>7, RescheduledSame
<1>9. Only(k, k', t)
  BY <1>5, <1>8, OnlyTrans DEF Only
<1>10. Full(k') /\ ~Waits(k', t) /\ t \notin k'.tm.active /\ k'.thread[t].stat = "CLOSE"
  BY <1>5, <1>7 DEF Rescheduled, Waits, WaitsAt
<1>11. call[t].op = "none" /\ IsCalls(call)
  BY <1>1, <1>3 DEF CallsOK, Running
<1>12. ~Given(k, call, t)
  BY <1>11 DEF Given
<1>13. CallsOK(k', call, obj, ghost.held)
  BY <1>3, <1>9, <1>10, <1>11, <1>12, AloneStep
<1> QED
  BY <1>1, <1>10, <1>13 DEF SyncInv

LEMMA InWaitListIs ==
  ASSUME Sound(k), NEW t
  PROVE  InWaitList(t) <=> Waits(k, t)
<1>1. \A l \in WaitList : k.wait[l] \in Seq(Thread)
  BY TablesTypes DEF Sound
<1>2. \A l \in WaitList : Contains(k.wait[l], t) <=> t \in ToSet(k.wait[l])
  BY <1>1, ContainsIs
<1> QED
  BY <1>2 DEF InWaitList, Waits, WaitsAt

LEMMA DeleteStep ==
  ASSUME SyncInv, NEW t \in Thread, NEW u \in Thread, Delete(t, u), UNCHANGED ipcVars
  PROVE  SyncInv'
<1>1. /\ k.current = t /\ u # t /\ k.thread[u].stat \notin {"NONE", "CLOSE"} /\ MayBeDeleted(u)
      /\ call' = [call EXCEPT ![u] = Running] /\ UNCHANGED <<idle, obj, ghost>>
      /\ k' = IF rt_object_is_systemobject(u) THEN rt_thread_detach(k, u)
              ELSE rt_thread_delete(k, u)
  BY DEF Delete, IsRunning, ipcVars
<1>2. Full(k) /\ CallsOK(k, call, obj, ghost.held) /\ Sound(k) /\ IsCalls(call)
  BY DEF SyncInv, Full, Live, CallsOK
<1>3. u \in All /\ k.thread[u].stat \in {"INIT", "READY", "SUSPEND"}
  <2>1. u \in All /\ k.thread[u] \in ThreadRecord
    BY <1>2, TablesTypes DEF All, Sound
  <2> QED
    BY <1>1, <2>1 DEF ThreadRecord, Stat
<1>4. Ended(k, k', u)
  BY <1>1, <1>2, <1>3, EndIs
<1>5. /\ Sound(k') /\ Only(k, k', u) /\ k'.current = t /\ k'.thread[u].stat = "CLOSE"
      /\ ~Waits(k', u) /\ u \notin k'.tm.active
  BY <1>1, <1>4 DEF Ended
<1>6. Full(k')
  <2>1. Idle \in All \ {u} /\ t \in All \ {u}
    BY <1>1, KernelAssumption DEF All
  <2>2. k'.thread[Idle] = k.thread[Idle] /\ k'.thread[t] = k.thread[t]
    BY <1>5, <2>1 DEF Only, Same
  <2> QED
    BY <1>1, <1>2, <1>5, <2>1, <2>2 DEF Full, Live
<1>7. CallSet(call, call', u, Running)
  BY <1>1, <1>2, SetCall
<1>8. call'[u].op = "none" /\ IsCalls(call') /\ \A v \in Thread \ {u} : call'[v] = call[v]
  BY <1>7 DEF CallSet, Running
<1>9. ~Given(k, call, u)
  BY <1>1, <1>2, InWaitListIs DEF MayBeDeleted, Given
<1>10. CallsOK(k', call', obj, ghost.held)
  BY <1>2, <1>5, <1>8, <1>9, AloneStep
<1> QED
  BY <1>1, <1>6, <1>10 DEF SyncInv

-----------------------------------------------------------------------------
(* Sleeping and waking up. *)
LEMMA SleepsStep ==
  ASSUME SyncInv, NEW t \in Thread, IsRunning(t), k.lock_nest = 0, NEW time \in Tick,
         k' = rt_thread_sleep(k, time), call' = [call EXCEPT ![t] = [op |-> "sleep"]],
         UNCHANGED <<idle, obj, ghost>>
  PROVE  SyncInv'
<1> DEFINE f == [op |-> "sleep"]
<1>1. /\ Full(k) /\ CallsOK(k, call, obj, ghost.held) /\ IsCalls(call)
      /\ k.current = t /\ call[t] = Running
  BY DEF SyncInv, CallsOK, IsRunning
<1>2. /\ Full(k') /\ Only(k, k', t) /\ k'.thread[t] = [k.thread[t] EXCEPT !.stat = "SUSPEND"]
      /\ ~Waits(k', t)
  BY <1>1, ThreadSleep
<1>3. k'.thread[t].stat = "SUSPEND" /\ k.thread[t].stat = "READY"
  BY <1>1, <1>2, OnCpu DEF ThreadRecord
<1>4. CallSet(call, call', t, f)
  BY <1>1, SetCall
<1>5. call'[t].op = "sleep" /\ IsCalls(call') /\ \A v \in Thread \ {t} : call'[v] = call[v]
  BY <1>4 DEF CallSet
<1>6. ~Given(k, call, t)
  BY <1>1 DEF Given, Running
<1>7. CallsOK(k', call', obj, ghost.held)
  <2>1. Only(k, k', t) /\ ~Waits(k', t)
    BY <1>2
  <2>2. CallsOK(k, call, obj, ghost.held)
    BY <1>1
  <2> QED
    BY <1>3, <1>5, <1>6, <2>1, <2>2, AloneStep
<1> QED
  BY <1>2, <1>7 DEF SyncInv

LEMMA TimesAreTicks ==
  ASSUME NEW time \in Times
  PROVE  time \in Tick
BY KernelAssumption, TickAssumption DEF Tick

LEMMA SleepStep ==
  ASSUME SyncInv, NEW t \in Thread, NEW time \in Times, Sleep(t, time), UNCHANGED ipcVars
  PROVE  SyncInv'
BY SleepsStep, TimesAreTicks DEF Sleep, ipcVars

LEMMA DelayUntilStep ==
  ASSUME SyncInv, NEW t \in Thread, NEW last \in Tick, NEW inc \in Times,
         rt_thread_delay_until(t, last, inc), UNCHANGED ipcVars
  PROVE  SyncInv'
<1>1. k.tick \in Tick
  BY TablesTypes DEF SyncInv, Full, Live, Sound
<1>2. last + inc \in Nat
  BY TimesAreTicks, TickAssumption DEF Tick
<1>3. Minus(last + inc, k.tick) \in Tick
  BY <1>1, <1>2, MinusTick
<1> QED
  BY <1>3, SleepsStep DEF rt_thread_delay_until, ipcVars

(* A thread's own error does not count while it waits for nothing. *)
LEMMA ErrorSet ==
  ASSUME NEW s, Full(s), NEW t \in Thread, s.current = t, NEW e \in Error
  PROVE  LET r == [s EXCEPT !.thread[t].error = e]
         IN  /\ Full(r) /\ Only(s, r, t) /\ SameRegs(s, r)
             /\ r.thread[t].stat = "READY" /\ r.thread[t].error = e
             /\ r.thread[t].current_priority = s.thread[t].current_priority
             /\ ~Waits(r, t) /\ t \notin r.tm.active /\ r.wait = s.wait /\ r.tm = s.tm
<1> DEFINE r == [s EXCEPT !.thread[t].error = e]
<1>1. /\ t \in All /\ Sound(s) /\ s.thread[t].stat = "READY" /\ s.thread[t] \in ThreadRecord
      /\ ~Waits(s, t) /\ t \notin s.tm.active
  BY OnCpu
<1>2. Tables(s) /\ Coherent(s, t)
  BY <1>1 DEF Sound
<1>3. /\ Tables(r) /\ Only(s, r, t) /\ SameRegs(s, r)
      /\ r.ready = s.ready /\ r.wait = s.wait /\ r.defunct = s.defunct /\ r.tm = s.tm
      /\ r.thread[t] = [s.thread[t] EXCEPT !.error = e]
  BY <1>1, <1>2, SetError
<1> HIDE DEF r
<1>4. /\ r.thread[t].stat = "READY" /\ r.thread[t].error = e
      /\ r.thread[t].current_priority = s.thread[t].current_priority
      /\ r.thread[t].number_mask = s.thread[t].number_mask
  BY <1>1, <1>3 DEF ThreadRecord
<1>5. ~Waits(r, t) /\ t \notin r.tm.active
  BY <1>1, <1>3 DEF Waits, WaitsAt
<1>6. Coherent(r, t)
  BY <1>1, <1>2, <1>3, <1>4, <1>5 DEF Coherent, IsReadyAt, IsDefunct, Waits
<1>7. Sound(r)
  BY <1>1, <1>3, <1>6, SoundAfter
<1>8. r.thread[Idle] = s.thread[Idle]
  BY <1>3, KernelAssumption DEF Only, Same, All
<1>9. Full(r)
  BY <1>1, <1>3, <1>4, <1>7, <1>8 DEF Full, Live, SameRegs
<1> QED
  BY <1>3, <1>4, <1>5, <1>9 DEF r

LEMMA AwakeStep ==
  ASSUME SyncInv, NEW t \in Thread, Awake(t), UNCHANGED ipcVars
  PROVE  SyncInv'
<1> DEFINE e == IF k.thread[t].error = "ETIMEOUT" THEN "EOK" ELSE k.thread[t].error
<1>1. /\ k.current = t /\ call[t].op = "sleep" /\ k' = [k EXCEPT !.thread[t].error = e]
      /\ call' = [call EXCEPT ![t] = Running] /\ UNCHANGED <<idle, obj, ghost>>
  BY DEF Awake, Returns, ipcVars
<1>2. Full(k) /\ CallsOK(k, call, obj, ghost.held) /\ IsCalls(call)
  BY DEF SyncInv, CallsOK
<1>3. k.thread[t].stat = "READY" /\ k.thread[t] \in ThreadRecord
  BY <1>1, <1>2, OnCpu
<1>4. e \in Error
  BY <1>3 DEF ThreadRecord, Error
<1> HIDE DEF e
<1>5. /\ Full(k') /\ Only(k, k', t) /\ k'.thread[t].stat = "READY"
      /\ ~Waits(k', t) /\ t \notin k'.tm.active
  BY <1>1, <1>2, <1>4, ErrorSet
<1>6. CallSet(call, call', t, Running)
  BY <1>1, <1>2, SetCall
<1>7. call'[t].op = "none" /\ IsCalls(call') /\ \A v \in Thread \ {t} : call'[v] = call[v]
  BY <1>6 DEF CallSet, Running
<1>8. ~Given(k, call, t)
  BY <1>1 DEF Given
<1>9. CallsOK(k', call', obj, ghost.held)
  BY <1>2, <1>3, <1>5, <1>7, <1>8, AloneStep
<1> QED
  BY <1>1, <1>5, <1>9 DEF SyncInv

LEMMA YieldStep ==
  ASSUME SyncInv, NEW t \in Thread, Yield(t), UNCHANGED ipcVars
  PROVE  SyncInv'
<1>1. k' = rt_thread_yield(k) /\ UNCHANGED <<call, idle, obj, ghost>>
  BY DEF Yield, ipcVars
<1>2. Full(k) /\ CallsOK(k, call, obj, ghost.held)
  BY DEF SyncInv
<1>3. Rescheduled(k, k') /\ Full(k')
  BY <1>1, <1>2, ThreadYield DEF Rescheduled
<1>4. \A u \in All : Same(k, k', u)
  BY <1>2, <1>3, RescheduledSame DEF Full, Live
<1>5. \A u \in Thread : Look(k, k', u)
  BY <1>4, SameLook DEF All
<1>6. CallsOK(k', call, obj, ghost.held)
  BY <1>2, <1>5, QuietAll
<1> QED
  BY <1>1, <1>3, <1>6 DEF SyncInv

-----------------------------------------------------------------------------
(* A thread that is suspended or resumed by hand, whatever call it is in. *)
LEMMA QuietStat ==
  ASSUME NEW s, NEW r, NEW c, NEW b, NEW h, CallsOK(s, c, b, h), NEW t \in Thread,
         Only(s, r, t), r.thread[t].error = s.thread[t].error, ~Waits(s, t), ~Waits(r, t),
         t \notin r.tm.active, r.thread[t].stat \in {"READY", "SUSPEND"},
         s.thread[t].stat # "CLOSE"
  PROVE  CallsOK(r, c, b, h)
<1>1. CallOK(s, c, b, h, t) /\ OneMaker(c) /\ IsCalls(c) /\ \A u \in Thread : MakerOK(s, c, b, u)
  BY DEF CallsOK
<1>2. Given(r, c, t) <=> Given(s, c, t)
  BY DEF Given
<1>3. CallOK(r, c, b, h, t)
  BY <1>1, <1>2 DEF CallOK, Waits
<1>4. \A u \in Thread \ {t} : Look(s, r, u)
  BY SameLook DEF Only, All
<1>5. \A u \in StaticThread : s.thread[u].stat = "CLOSE" => r.thread[u].stat = "CLOSE"
  BY <1>4, KernelAssumption DEF Look
<1>6. \A u \in Thread : MakerOK(r, c, b, u)
  BY <1>1, <1>5, MakerKept
<1>7. \A o \in Object : ~WaitsAt(r, t, Waiters(o))
  BY WaitersIn DEF Waits
<1> DEFINE T == {t}
<1>8. /\ T \in SUBSET Thread
      /\ \A u \in Thread \ T : Look(s, r, u) /\ c[u] = c[u]
      /\ \A u \in T :
           /\ CallOK(r, c, b, h, u)
           /\ Given(s, c, u) => Given(r, c, u) /\ c[u] = c[u]
           /\ \A o \in Object : WaitsAt(r, u, Waiters(o)) /\ b[o].kind = "mutex"
                => WaitsAt(s, u, Waiters(o)) \/ b[o].owner # NoThread
  BY <1>2, <1>3, <1>4, <1>7
<1> HIDE DEF T
<1> QED
  BY <1>1, <1>6, <1>8, Quiet

LEMMA FullAfter ==
  ASSUME NEW s, NEW r, Full(s), NEW t \in Thread, Sound(r), Only(s, r, t), r.current = s.current,
         s.current = t => r.thread[t].stat = "READY"
  PROVE  Full(r)
<1>1. Idle \in All \ {t} /\ s.current \in All
  BY KernelAssumption DEF Full, All
<1>2. r.thread[Idle] = s.thread[Idle] /\ (s.current # t => r.thread[s.current] = s.thread[s.current])
  BY <1>1 DEF Only, Same
<1> QED
  BY <1>1, <1>2 DEF Full, Live

LEMMA SuspendStep ==
  ASSUME SyncInv, NEW t \in Thread, NEW u \in Thread, Suspend(t, u), UNCHANGED ipcVars
  PROVE  SyncInv'
<1> DEFINE q == rt_thread_suspend(k, u)
<1>1. /\ k.current = t /\ k.thread[u].stat = "READY" /\ (u = t => k.lock_nest = 0)
      /\ k' = (IF u = t THEN rt_schedule(q) ELSE q) /\ UNCHANGED <<call, idle, obj, ghost>>
  BY DEF Suspend, IsRunning, ipcVars
<1>2. Full(k) /\ CallsOK(k, call, obj, ghost.held) /\ Sound(k) /\ u \in All
  BY DEF SyncInv, Full, Live, All
<1>3. Coherent(k, u) /\ k.thread[u] \in ThreadRecord
  BY <1>2, TablesTypes DEF Sound
<1>4. ~Waits(k, u)
  BY <1>1, <1>3 DEF Coherent, Waits
<1>5. /\ Sound(q) /\ Only(k, q, u) /\ Off(q, u) /\ SameRegs(k, q)
      /\ q.thread[u] = [k.thread[u] EXCEPT !.stat = "SUSPEND"]
      /\ u \notin q.tm.active
  BY <1>1, <1>2, ThreadSuspend
<1> HIDE DEF q
<1>6. q.thread[u].stat = "SUSPEND" /\ q.thread[u].error = k.thread[u].error /\ ~Waits(q, u)
  BY <1>3, <1>5 DEF ThreadRecord, Off
<1>7. /\ Full(k') /\ Only(k, k', u)
      /\ k'.thread[u] = q.thread[u] /\ k'.wait = q.wait /\ k'.tm = q.tm
  <2>1. CASE u = t
    <3>1. /\ Full(k') /\ Only(k, k', u) /\ k'.thread = q.thread /\ k'.wait = q.wait
          /\ k'.tm = q.tm
      BY <1>1, <1>2, <1>5, <2>1, ThenSchedule
    <3> QED
      BY <3>1
  <2>2. CASE u # t
    <3>1. k' = q /\ k'.current = k.current
      BY <1>1, <1>5, <2>2 DEF SameRegs
    <3> QED
      BY <1>1, <1>2, <1>5, <2>2, <3>1, FullAfter
  <2> QED
    BY <2>1, <2>2
<1>8. /\ k'.thread[u].stat = "SUSPEND" /\ k'.thread[u].error = k.thread[u].error
      /\ ~Waits(k', u) /\ u \notin k'.tm.active
  BY <1>5, <1>6, <1>7 DEF Waits, WaitsAt
<1>9. CallsOK(k', call, obj, ghost.held)
  BY <1>1, <1>2, <1>4, <1>7, <1>8, QuietStat
<1> QED
  BY <1>1, <1>7, <1>9 DEF SyncInv

LEMMA ResumeStep ==
  ASSUME SyncInv, NEW t \in Thread, NEW u \in Thread, Resume(t, u), UNCHANGED ipcVars
  PROVE  SyncInv'
<1>1. /\ k.current = t /\ k.thread[u].stat = "SUSPEND" /\ ~InWaitList(u)
      /\ k' = rt_thread_resume(k, u) /\ UNCHANGED <<call, idle, obj, ghost>>
  BY DEF Resume, IsRunning, ipcVars
<1>2. Full(k) /\ CallsOK(k, call, obj, ghost.held) /\ Sound(k) /\ u \in All
  BY DEF SyncInv, Full, Live, All
<1>3. ~Waits(k, u) /\ k.thread[u] \in ThreadRecord
  BY <1>1, <1>2, InWaitListIs, TablesTypes DEF Sound
<1>4. /\ Sound(k') /\ Only(k, k', u) /\ SameRegs(k, k')
      /\ k'.thread[u] = [k.thread[u] EXCEPT !.stat = "READY"]
      /\ u \notin k'.tm.active /\ ~Waits(k', u)
  BY <1>1, <1>2, ThreadResume
<1>5. k'.thread[u].stat = "READY" /\ k'.thread[u].error = k.thread[u].error
  BY <1>3, <1>4 DEF ThreadRecord
<1>6. Full(k')
  BY <1>2, <1>4, <1>5, FullAfter DEF SameRegs
<1>7. CallsOK(k', call, obj, ghost.held)
  BY <1>1, <1>2, <1>3, <1>4, <1>5, QuietStat
<1> QED
  BY <1>1, <1>6, <1>7 DEF SyncInv

(* A change of priority is not seen by the objects. *)
LEMMA ReprioritisedLook ==
  ASSUME NEW s, NEW r, NEW t \in Thread, NEW p, Full(s), Reprioritised(s, r, t, p)
  PROVE  /\ Full(r) /\ SameRegs(s, r) /\ r.wait = s.wait /\ r.tm = s.tm /\ r.defunct = s.defunct
         /\ \A u \in Thread : Look(s, r, u)
<1>1. /\ Sound(r) /\ Only(s, r, t) /\ SameRegs(s, r)
      /\ r.thread[t].stat = s.thread[t].stat /\ r.thread[t].error = s.thread[t].error
      /\ r.wait = s.wait /\ r.tm = s.tm /\ r.defunct = s.defunct
  BY DEF Reprioritised
<1>2. Full(r)
  BY <1>1, FullAfter DEF SameRegs, Full
<1>3. Look(s, r, t)
  BY <1>1 DEF Look, WaitsAt
<1>4. \A u \in Thread \ {t} : Look(s, r, u)
  BY <1>1, SameLook DEF Only, All
<1> QED
  BY <1>1, <1>2, <1>3, <1>4

LEMMA SetPriorityStep ==
  ASSUME SyncInv, NEW t \in Thread, NEW u \in Thread, NEW p \in NewPriority,
         SetPriority(t, u, p), UNCHANGED ipcVars
  PROVE  SyncInv'
<1>1. k' = rt_thread_control(k, u, p) /\ UNCHANGED <<call, idle, obj, ghost>>
  BY DEF SetPriority, ipcVars
<1>2. Full(k) /\ CallsOK(k, call, obj, ghost.held) /\ Sound(k) /\ u \in All
  BY DEF SyncInv, Full, Live, All
<1>3. Reprioritised(k, k', u, p)
  BY <1>1, <1>2, ThreadControl, KernelAssumption
<1>4. Full(k') /\ \A v \in Thread : Look(k, k', v)
  BY <1>2, <1>3, ReprioritisedLook
<1>5. CallsOK(k', call, obj, ghost.held)
  BY <1>2, <1>4, QuietAll
<1> QED
  BY <1>1, <1>4, <1>5 DEF SyncInv

LEMMA UnseenStep ==
  ASSUME SyncInv, Full(k'), k'.thread = k.thread, k'.wait = k.wait, k'.tm = k.tm,
         UNCHANGED <<call, idle, obj, ghost>>
  PROVE  SyncInv'
<1>1. CallsOK(k, call, obj, ghost.held)
  BY DEF SyncInv
<1>2. \A v \in Thread : Look(k, k', v)
  BY DEF Look, WaitsAt
<1>3. CallsOK(k', call, obj, ghost.held)
  BY <1>1, <1>2, QuietAll
<1> QED
  BY <1>3 DEF SyncInv

LEMMA EnterCriticalStep ==
  ASSUME SyncInv, NEW t \in Thread, EnterCritical(t), UNCHANGED ipcVars
  PROVE  SyncInv'
<1>1. Full(k) /\ k' = rt_enter_critical(k) /\ UNCHANGED <<call, idle, obj, ghost>>
  BY DEF SyncInv, EnterCritical, ipcVars
<1>2. Full(k') /\ k'.thread = k.thread /\ k'.wait = k.wait /\ k'.tm = k.tm
  BY <1>1, EnterCriticalIs
<1> QED
  BY <1>1, <1>2, UnseenStep

LEMMA ExitCriticalStep ==
  ASSUME SyncInv, NEW t \in Thread, ExitCritical(t), UNCHANGED ipcVars
  PROVE  SyncInv'
<1>1. Full(k) /\ k.lock_nest > 0 /\ k' = rt_exit_critical(k) /\ UNCHANGED <<call, idle, obj, ghost>>
  BY DEF SyncInv, ExitCritical, ipcVars
<1>2. Full(k') /\ k'.thread = k.thread /\ k'.wait = k.wait /\ k'.tm = k.tm
  BY <1>1, ExitCriticalIs
<1> QED
  BY <1>1, <1>2, UnseenStep

-----------------------------------------------------------------------------
(* The idle thread: a wait that has run out ends with RT_ETIMEOUT. *)
LEMMA ExpiredKeeps ==
  ASSUME NEW s, NEW r, NEW c, NEW b, NEW h, CallsOK(s, c, b, h), NEW t \in Thread,
         Expired(s, r, t)
  PROVE  CallsOK(r, c, b, h)
<1>1. /\ Only(s, r, t) /\ t \in s.tm.active /\ s.thread[t].stat = "SUSPEND"
      /\ r.thread[t].stat = "READY" /\ r.thread[t].error = "ETIMEOUT"
      /\ ~Waits(r, t) /\ t \notin r.tm.active
  BY DEF Expired
<1>2. CallOK(s, c, b, h, t) /\ IsCalls(c)
  BY DEF CallsOK
<1>3. ~Given(s, c, t) /\ ~Given(r, c, t)
  BY <1>1, <1>2 DEF CallOK, Given
<1>4. CallOK(r, c, b, h, t)
  BY <1>1, <1>2, <1>3 DEF CallOK, Waits
<1>5. \A u \in Thread \ {t} : Look(s, r, u) /\ c[u] = c[u]
  BY <1>1, SameLook DEF Only, All
<1>6. \A o \in Object : ~WaitsAt(r, t, Waiters(o))
  BY <1>1, WaitersIn DEF Waits
<1> QED
  BY <1>1, <1>2, <1>3, <1>4, <1>5, <1>6, QuietCall

LEMMA IdleStepKeeps ==
  ASSUME NEW s, NEW r, NEW i, NEW now, NEW c, NEW b, NEW h, CallsOK(s, c, b, h),
         IdleStep(s, r, i, now)
  PROVE  Full(r) /\ i \in IdlePlace /\ CallsOK(r, c, b, h)
<1>1. PICK q :
        /\ Unmoved(s, q)
        /\ \/ r = q /\ i = [at |-> "yield"]
           \/ r = q /\ i = Looping
           \/ \E t \in Thread : Expired(q, r, t) /\ i = [at |-> "callback", timer |-> t]
  BY DEF IdleStep
<1>2. Full(q) /\ \A u \in Thread : Look(s, q, u)
  BY <1>1, SameLook DEF Unmoved, All
<1>3. CallsOK(q, c, b, h)
  BY <1>2, QuietAll
<1>4. CASE r = q /\ (i = [at |-> "yield"] \/ i = Looping)
  BY <1>2, <1>3, <1>4 DEF IdlePlace
<1>5. ASSUME NEW t \in Thread, Expired(q, r, t), i = [at |-> "callback", timer |-> t]
      PROVE  Full(r) /\ i \in IdlePlace /\ CallsOK(r, c, b, h)
  BY <1>3, <1>5, ExpiredKeeps DEF Expired, IdlePlace
<1> QED
  BY <1>1, <1>4, <1>5

LEMMA IdleReapsStep ==
  ASSUME SyncInv, IdleReaps, UNCHANGED ipcVars
  PROVE  SyncInv'
<1> DEFINE T == {u \in Thread : IsDefunct(k, u)}
<1>1. /\ k.current = Idle /\ k' = rt_thread_idle_excute(k)
      /\ UNCHANGED <<call, idle, obj, ghost>>
  BY DEF IdleReaps, ipcVars
<1>2. Full(k) /\ CallsOK(k, call, obj, ghost.held) /\ Sound(k)
  BY DEF SyncInv, Full, Live
<1>3. /\ Full(k') /\ k'.wait = k.wait /\ k'.tm = k.tm
      /\ \A t \in All :
           IF IsDefunct(k, t)
           THEN /\ k'.thread[t].stat = "NONE" /\ k.thread[t].stat = "CLOSE"
                /\ k'.thread[t].error = k.thread[t].error
           ELSE Same(k, k', t)
  BY <1>1, <1>2, IdleExcute
<1>4. /\ OneMaker(call) /\ IsCalls(call)
      /\ \A u \in Thread : CallOK(k, call, obj, ghost.held, u) /\ MakerOK(k, call, obj, u)
  BY <1>2 DEF CallsOK
<1>5. \A u \in Thread \ T : Look(k, k', u) /\ call[u] = call[u]
  BY <1>3, SameLook DEF All
<1>6. \A u \in Thread : \A l \in WaitList : WaitsAt(k', u, l) <=> WaitsAt(k, u, l)
  BY <1>3 DEF WaitsAt
<1>7. ASSUME NEW u \in T
      PROVE  /\ CallOK(k', call, obj, ghost.held, u)
             /\ Given(k, call, u) => Given(k', call, u) /\ call[u] = call[u]
             /\ \A o \in Object : WaitsAt(k', u, Waiters(o)) /\ obj[o].kind = "mutex"
                  => WaitsAt(k, u, Waiters(o)) \/ obj[o].owner # NoThread
  <2>1. u \in Thread /\ u \in All /\ IsDefunct(k, u)
    BY DEF All
  <2>2. /\ k'.thread[u].stat = "NONE" /\ k.thread[u].stat = "CLOSE"
        /\ k'.thread[u].error = k.thread[u].error
    BY <1>3, <2>1
  <2>3. Waits(k', u) <=> Waits(k, u)
    BY <1>6, <2>1 DEF Waits
  <2>4. Given(k', call, u) <=> Given(k, call, u)
    BY <2>2, <2>3 DEF Given
  <2>5. CallOK(k', call, obj, ghost.held, u)
    BY <1>3, <1>4, <1>6, <2>1, <2>2, <2>3, <2>4 DEF CallOK
  <2> QED
    BY <1>6, <2>1, <2>4, <2>5, WaitersIn
<1>8. ASSUME NEW u \in StaticThread
      PROVE  k'.thread[u].stat = k.thread[u].stat
  <2>1. u \in All /\ Coherent(k, u)
    BY <1>2, KernelAssumption DEF All, Sound
  <2>2. ~IsDefunct(k, u)
    BY <2>1 DEF Coherent
  <2> QED
    BY <1>3, <2>1, <2>2 DEF Same
<1>9. \A u \in Thread : MakerOK(k', call, obj, u)
  BY <1>4, <1>8, MakerKept
<1>10. T \in SUBSET Thread
  OBVIOUS
<1> HIDE DEF T
<1>11. CallsOK(k', call, obj, ghost.held)
  BY <1>2, <1>4, <1>5, <1>7, <1>9, <1>10, Quiet
<1> QED
  BY <1>1, <1>3, <1>11 DEF SyncInv

LEMMA IdleThreadStep ==
  ASSUME SyncInv, IdleThread
  PROVE  SyncInv'
<1>1. UNCHANGED <<obj, ghost>> /\ UNCHANGED ipcVars
  BY DEF IdleThread, ipcVars
<1>2. Full(k) /\ idle \in IdlePlace /\ CallsOK(k, call, obj, ghost.held)
  BY DEF SyncInv
<1>3. CASE IdleTick(ThreadTimeout(rt_tick_increase(k)))
  <2>1. /\ k.current = Idle /\ k' \in ThreadTimeout(rt_tick_increase(k))
        /\ idle' = rt_tick_increase(k).idle /\ call' = call
    BY <1>3 DEF IdleTick
  <2>2. IdleStep(k, k', idle', (k.tick + 1) % (RT_TICK_MAX + 1))
    BY <1>2, <2>1, TickIncrease
  <2>3. Full(k') /\ idle' \in IdlePlace /\ CallsOK(k', call, obj, ghost.held)
    BY <1>2, <2>2, IdleStepKeeps
  <2> QED
    BY <1>1, <2>1, <2>3 DEF SyncInv
<1>4. CASE IdleResumes(ThreadTimeout(Rest))
  <2>1. /\ k.current = Idle /\ idle # Looping /\ k' \in ThreadTimeout(Rest)
        /\ idle' = Rest.idle /\ call' = call
    BY <1>4 DEF IdleResumes
  <2>2. IdleStep(k, k', idle', k.tick)
    BY <1>2, <2>1, RestIs
  <2>3. Full(k') /\ idle' \in IdlePlace /\ CallsOK(k', call, obj, ghost.held)
    BY <1>2, <2>2, IdleStepKeeps
  <2> QED
    BY <1>1, <2>1, <2>3 DEF SyncInv
<1>5. CASE IdleReaps
  BY <1>1, <1>5, IdleReapsStep
<1> QED
  BY <1>3, <1>4, <1>5 DEF IdleThread

-----------------------------------------------------------------------------
(* A step that changes one object.  Every thread either is not touched and *)
(* was not given the object, or its call is in order after the step.       *)
Untouched(s, c, b, r, d, a, o, u) ==
  /\ Look(s, r, u) /\ d[u] = c[u]
  /\ WaitsAt(s, u, Waiters(o)) => a[o].kind = b[o].kind
  /\ Given(s, c, u) => c[u].object # o

InOrder(s, c, r, d, a, g, o, u) ==
  /\ CallOK(r, d, a, g, u) /\ (d[u].op = "init" => d[u] = c[u])
  /\ Given(s, c, u) => c[u].object = o
  /\ \A x \in Object \ {o} : ~WaitsAt(r, u, Waiters(x))

OnlyObject(b, a, h, g, o) ==
  /\ IsObjects(a) /\ g \in [Object -> [Thread -> Nat]]
  /\ \A x \in Object \ {o} : a[x] = b[x] /\ g[x] = h[x]

LEMMA WaitersDiffer ==
  ASSUME NEW o, NEW x, Waiters(o) = Waiters(x)
  PROVE  o = x
BY DEF Waiters

LEMMA UntouchedCall ==
  ASSUME NEW s, NEW r, NEW c, NEW d, NEW b, NEW h, NEW a, NEW g, NEW o \in Object,
         OnlyObject(b, a, h, g, o), NEW u \in Thread, CallOK(s, c, b, h, u),
         Untouched(s, c, b, r, d, a, o, u)
  PROVE  CallOK(r, d, a, g, u)
<1>1. Look(s, r, u) /\ d[u] = c[u]
  BY DEF Untouched
<1>2. Waits(s, u) => a[c[u].object].kind = b[c[u].object].kind
  <2> SUFFICES ASSUME Waits(s, u) PROVE a[c[u].object].kind = b[c[u].object].kind
    OBVIOUS
  <2>1. PICK l \in WaitList : WaitsAt(s, u, l)
    BY DEF Waits
  <2>2. c[u].op \in Takes /\ l = Waiters(c[u].object) /\ c[u].object \in Object
    BY <2>1 DEF CallOK
  <2>3. CASE c[u].object = o
    BY <2>1, <2>2, <2>3 DEF Untouched
  <2>4. CASE c[u].object # o
    BY <2>2, <2>4 DEF OnlyObject
  <2> QED
    BY <2>3, <2>4
<1>3. Given(s, c, u) => /\ a[c[u].object] = b[c[u].object]
                        /\ g[c[u].object][u] = h[c[u].object][u]
  <2> SUFFICES ASSUME Given(s, c, u)
               PROVE  /\ a[c[u].object] = b[c[u].object]
                      /\ g[c[u].object][u] = h[c[u].object][u]
    OBVIOUS
  <2>1. c[u].object # o
    BY DEF Untouched
  <2>2. c[u].object \in Object
    BY DEF CallOK, Given, Takes
  <2> QED
    BY <2>1, <2>2 DEF OnlyObject
<1> QED
  BY <1>1, <1>2, <1>3, CallKept

LEMMA ObjectChange ==
  ASSUME NEW s, NEW r, NEW c, NEW d, NEW b, NEW h, CallsOK(s, c, b, h), NEW a, NEW g,
         NEW o \in Object, IsCalls(d), OnlyObject(b, a, h, g, o), ObjectOK(r, d, a, g, o),
         \A u \in Thread : d[u].op = "init" => d[u] = c[u] /\ d[u].object # o,
         \A u \in StaticThread : s.thread[u].stat = "CLOSE" => r.thread[u].stat = "CLOSE",
         \A u \in Thread : \/ Untouched(s, c, b, r, d, a, o, u)
                           \/ InOrder(s, c, r, d, a, g, o, u)
  PROVE  CallsOK(r, d, a, g)
<1>1. /\ \A u \in Thread : CallOK(s, c, b, h, u) /\ MakerOK(s, c, b, u)
      /\ OneMaker(c)
  BY DEF CallsOK
<1>2. ASSUME NEW u \in Thread
      PROVE  CallOK(r, d, a, g, u)
  BY <1>1, UntouchedCall DEF InOrder
<1>3. ASSUME NEW u \in Thread
      PROVE  MakerOK(r, d, a, u)
  <2>1. CASE d[u].op = "init"
    <3>1. d[u] = c[u] /\ c[u].object # o
      BY <2>1
    <3>2. c[u].object \in Object => a[c[u].object] = b[c[u].object]
      BY <3>1 DEF OnlyObject
    <3> QED
      BY <1>1, <3>1, <3>2, MakerKept
  <2>2. CASE d[u].op # "init"
    BY <2>2 DEF MakerOK
  <2> QED
    BY <2>1, <2>2
<1>4. OneMaker(d)
  BY <1>1 DEF OneMaker
<1>5. ASSUME NEW u \in Thread
      PROVE  /\ Given(s, c, u) /\ c[u].object # o => Given(r, d, u) /\ d[u] = c[u]
             /\ \A x \in Object \ {o} : WaitsAt(r, u, Waiters(x)) => WaitsAt(s, u, Waiters(x))
  <2>1. CASE Untouched(s, c, b, r, d, a, o, u)
    <3>1. Look(s, r, u) /\ d[u] = c[u]
      BY <2>1 DEF Untouched
    <3>2. Given(s, c, u) => Given(r, d, u)
      BY <3>1, LookGiven
    <3> QED
      BY <3>1, <3>2, WaitersIn DEF Look
  <2>2. CASE InOrder(s, c, r, d, a, g, o, u)
    BY <2>2 DEF InOrder
  <2> QED
    BY <2>1, <2>2
<1>6. IsObjects(a) /\ g \in [Object -> [Thread -> Nat]]
       /\ \A x \in Object \ {o} : a[x] = b[x] /\ g[x] = h[x]
  BY DEF OnlyObject
<1>7. \A u \in Thread :
        /\ CallOK(r, d, a, g, u) /\ MakerOK(r, d, a, u)
        /\ Given(s, c, u) /\ c[u].object # o => Given(r, d, u) /\ d[u] = c[u]
        /\ \A x \in Object \ {o} : WaitsAt(r, u, Waiters(x)) => WaitsAt(s, u, Waiters(x))
  BY <1>2, <1>3, <1>5
<1> QED
  BY <1>4, <1>6, <1>7, ObjectStep

(* What the actions write. *)
PutObject(b, o, m) == [b EXCEPT ![o] = m]
PutHeld(h, o, t, n) == [h EXCEPT ![o][t] = n]
PutGhost(g, o, t, n) == [g EXCEPT !.held[o][t] = n]
PutPermits(g, n) == [g EXCEPT !.permits = n]

IsPut(b, a, o, m) ==
  IsObjects(a) /\ a[o] = m /\ \A x \in Object \ {o} : a[x] = b[x]

LEMMA SetObject ==
  ASSUME NEW b, IsObjects(b), NEW a, NEW o \in Object, NEW m, a = PutObject(b, o, m)
  PROVE  IsPut(b, a, o, m)
BY DEF IsObjects, PutObject, IsPut

IsHeld(h, g, o, t, n) ==
  /\ g \in [Object -> [Thread -> Nat]] /\ g[o][t] = n
  /\ \A u \in Thread \ {t} : g[o][u] = h[o][u]
  /\ \A x \in Object \ {o} : g[x] = h[x]

LEMMA SetHeld ==
  ASSUME NEW h \in [Object -> [Thread -> Nat]], NEW g, NEW o \in Object, NEW t \in Thread,
         NEW n \in Nat, g = PutHeld(h, o, t, n)
  PROVE  IsHeld(h, g, o, t, n)
BY DEF PutHeld, IsHeld

LEMMA SetPermits ==
  ASSUME NEW g, IsGhost(g), NEW f, NEW n, f = PutPermits(g, n)
  PROVE  IsGhost(f) /\ f.held = g.held /\ f.permits = n
BY DEF IsGhost, PutPermits

LEMMA SetGhostHeld ==
  ASSUME NEW g, IsGhost(g), NEW f, NEW o, NEW t, NEW n, f = PutGhost(g, o, t, n)
  PROVE  IsGhost(f) /\ f.held = PutHeld(g.held, o, t, n) /\ f.permits = g.permits
BY DEF IsGhost, PutGhost, PutHeld

-----------------------------------------------------------------------------
(* Objects come and go. *)
LEMMA FreshTypes ==
  ASSUME NEW m, Fresh(m)
  PROVE  /\ m \in SemRecord \/ m \in MutexRecord
         /\ m.kind = "mutex" => m.owner = NoThread /\ m.value = 1 /\ m.hold = 0
<1>1. PICK f \in Flag : m = rt_mutex_init(f) \/ \E v \in SemValue : m = rt_sem_init(v, f)
  BY DEF Fresh
<1>2. CASE m = rt_mutex_init(f)
  <2>1. 0 \in 0..RT_MUTEX_HOLD_MAX
    BY MutexAssumption
  <2> QED
    BY <1>2, <2>1 DEF rt_mutex_init, MutexRecord
<1>3. ASSUME NEW v \in SemValue, m = rt_sem_init(v, f)
      PROVE  m \in SemRecord /\ m.kind = "sem"
  BY <1>3 DEF rt_sem_init, SemRecord
<1> QED
  BY <1>1, <1>2, <1>3

(* Nobody waits for an object that is not there, or was given it. *)
LEMMA NobodyThere ==
  ASSUME NEW s, NEW c, NEW b, NEW h, CallsOK(s, c, b, h), NEW o \in Object,
         b[o].kind = "absent", NEW u \in Thread
  PROVE  ~WaitsAt(s, u, Waiters(o)) /\ (Given(s, c, u) => c[u].object # o)
<1>1. CallOK(s, c, b, h, u)
  BY DEF CallsOK
<1>2. ASSUME WaitsAt(s, u, Waiters(o)) PROVE FALSE
  <2>1. Waiters(o) = Waiters(c[u].object) /\ b[c[u].object].kind = WaitKind(c[u].op)
    BY <1>1, <1>2, WaitersIn DEF CallOK
  <2> QED
    BY <2>1, WaitersDiffer DEF WaitKind
<1> QED
  BY <1>1, <1>2 DEF CallOK

LEMMA FreshObject ==
  ASSUME NEW s, NEW r, NEW c, NEW d, NEW b, NEW h, CallsOK(s, c, b, h), NEW a,
         NEW o \in Object, b[o].kind = "absent", NEW m, Fresh(m), a[o] = m, IsObjects(a),
         \A x \in Object \ {o} : a[x] = b[x], IsCalls(d), \A u \in Thread : Look(s, r, u),
         \A u \in Thread : \/ d[u] = c[u] /\ ~(c[u].op = "init" /\ c[u].object = o)
                           \/ c[u].op = "init" /\ d[u].op = "none"
  PROVE  CallsOK(r, d, a, h)
<1>1. h \in [Object -> [Thread -> Nat]]
       /\ \A u \in Thread : CallOK(s, c, b, h, u)
  BY DEF CallsOK
<1>2. OnlyObject(b, a, h, h, o)
  BY <1>1 DEF OnlyObject
<1>3. \A u \in Thread : ~WaitsAt(s, u, Waiters(o)) /\ (Given(s, c, u) => c[u].object # o)
  BY NobodyThere
<1>4. \A u \in Thread : ~WaitsAt(r, u, Waiters(o))
  BY <1>3, WaitersIn DEF Look
<1>5. ObjectOK(r, d, a, h, o)
  <2>1. ObjectOK(s, c, b, h, o)
    BY DEF CallsOK
  <2>2. \A u \in Thread : h[o][u] = 0
    BY <2>1 DEF ObjectOK
  <2>3. m \in AbsentRecord \cup SemRecord \cup MutexRecord
    BY FreshTypes
  <2>4. m.kind = "mutex" => MutexOK(r, d, m, h[o], o)
    BY <1>4, <2>2, FreshTypes DEF MutexOK
  <2> QED
    BY <2>2, <2>3, <2>4 DEF ObjectOK
<1>6. \A u \in Thread : d[u].op = "init" => d[u] = c[u] /\ d[u].object # o
  OBVIOUS
<1>7. \A u \in StaticThread : s.thread[u].stat = "CLOSE" => r.thread[u].stat = "CLOSE"
  BY KernelAssumption DEF Look
<1>8. ASSUME NEW u \in Thread
      PROVE  Untouched(s, c, b, r, d, a, o, u) \/ InOrder(s, c, r, d, a, h, o, u)
  <2>1. CASE d[u] = c[u]
    BY <1>3, <2>1 DEF Untouched
  <2>2. CASE c[u].op = "init" /\ d[u].op = "none"
    <3>1. ~Waits(s, u) /\ u \notin s.tm.active /\ ~Given(s, c, u)
      BY <1>1, <2>2 DEF CallOK, Waits, Takes, Given
    <3>2. ~Waits(r, u) /\ u \notin r.tm.active
      BY <3>1 DEF Look, Waits
    <3>3. CallOK(r, d, a, h, u)
      BY <2>2, <3>2, NotTaking DEF Takes
    <3> QED
      BY <2>2, <3>1, <3>2, <3>3, WaitersIn DEF InOrder, Waits
  <2> QED
    BY <2>1, <2>2
<1> QED
  BY <1>2, <1>5, <1>6, <1>7, <1>8, ObjectChange

WithRegistered(s, R) == [s EXCEPT !.registered = R]

LEMMA Register ==
  ASSUME NEW s, Full(s), NEW R \in SUBSET (All \cup Object),
         NEW r, r = WithRegistered(s, R)
  PROVE  /\ Full(r) /\ r.current = s.current /\ \A u \in Thread : Look(s, r, u)
         /\ r.thread = s.thread /\ r.wait = s.wait /\ r.tm = s.tm
<1>1. Sound(s)
  BY DEF Full, Live
<1>2. /\ Sound(r) /\ (\A t \in All : Same(s, r, t)) /\ r.current = s.current
      /\ r.thread = s.thread /\ r.wait = s.wait /\ r.tm = s.tm
  BY <1>1, SetRegistered DEF WithRegistered
<1>3. Full(r) /\ \A u \in Thread : Look(s, r, u)
  BY <1>2, SameLook DEF Full, Live, All
<1> QED
  BY <1>2, <1>3

LEMMA MakeObjectStep ==
  ASSUME SyncInv, NEW t \in Thread, NEW o \in Object, NEW m, Fresh(m), MakeObject(t, o, m),
         IsGhost(ghost'), ghost'.held = ghost.held
  PROVE  SyncInv'
<1>1. /\ k.current = t /\ call[t] = Running /\ obj[o] = Absent(m.kind) /\ idle' = idle
      /\ \A u \in Thread : ~(call[u].op = "init" /\ call[u].object = o)
  BY DEF MakeObject, IsRunning, BeingMade
<1>2. /\ Full(k) /\ CallsOK(k, call, obj, ghost.held) /\ IsCalls(call) /\ IsObjects(obj)
      /\ idle \in IdlePlace
  BY DEF SyncInv, CallsOK
<1>3. CASE o \in StaticObject
  <2> DEFINE f == [op |-> "init", object |-> o, made |-> m]
  <2>1. k' = rt_object_find(k) /\ call' = [call EXCEPT ![t] = f] /\ obj' = obj
    BY <1>3 DEF MakeObject
  <2>2. Rescheduled(k, k') /\ Full(k')
    BY <1>2, <2>1, ObjectFind DEF Rescheduled
  <2>3. f.op = "init" /\ f.object = o /\ f.made = m /\ call[t].op = "none"
    BY <1>1 DEF Running
  <2>4. CallSet(call, call', t, f)
    BY <1>2, <2>1, SetCall
  <2>5. call'[t] = f
    BY <2>4 DEF CallSet
  <2>6. MakerOK(k', call', obj, t)
    BY <1>1, <2>3, <2>5 DEF MakerOK
  <2> HIDE DEF f
  <2>7. CallsOK(k', call', obj, ghost.held)
    BY <1>1, <1>2, <2>2, <2>3, <2>4, <2>6, FindStep
  <2> QED
    BY <1>1, <1>2, <2>1, <2>2, <2>7 DEF SyncInv
<1>4. CASE o \notin StaticObject
  <2> DEFINE R == k.registered \cup {o}
  <2>0. k' = WithRegistered(k, R) /\ call' = call
    BY <1>4 DEF MakeObject, rt_object_allocate, WithRegistered
  <2>1. obj' = PutObject(obj, o, m)
    BY <1>4 DEF MakeObject, PutObject
  <2>2. R \in SUBSET (All \cup Object)
    BY <1>2, TablesTypes DEF Full, Live, Sound
  <2> HIDE DEF R
  <2>3. Full(k') /\ \A u \in Thread : Look(k, k', u)
    BY <1>2, <2>0, <2>2, Register
  <2>4. IsObjects(obj') /\ obj'[o] = m /\ \A x \in Object \ {o} : obj'[x] = obj[x]
    BY <1>2, <2>1, SetObject DEF IsPut
  <2>5. obj[o].kind = "absent"
    BY <1>1 DEF Absent
  <2>6. CallsOK(k', call, obj', ghost.held)
    BY <1>1, <1>2, <2>3, <2>4, <2>5, FreshObject
  <2> QED
    BY <1>1, <1>2, <2>0, <2>3, <2>6 DEF SyncInv
<1> QED
  BY <1>3, <1>4

LEMMA ObjectInitedStep ==
  ASSUME SyncInv, NEW t \in Thread, NEW kind, ObjectInited(t, kind),
         IsGhost(ghost'), ghost'.held = ghost.held
  PROVE  SyncInv'
<1> DEFINE o == call[t].object
           m == call[t].made
           R == k.registered \cup {o}
<1>0. k' = WithRegistered(k, R)
  BY DEF ObjectInited, rt_object_init, WithRegistered
<1>o. obj' = PutObject(obj, o, m)
  BY DEF ObjectInited, PutObject
<1>c. call' = [call EXCEPT ![t] = Running]
  BY DEF ObjectInited, Done
<1>1. k.current = t /\ call[t].op = "init" /\ o \in Object /\ idle' = idle
  BY DEF ObjectInited, Returns
<1>2. /\ Full(k) /\ CallsOK(k, call, obj, ghost.held) /\ IsCalls(call) /\ IsObjects(obj)
      /\ idle \in IdlePlace
  BY DEF SyncInv, CallsOK
<1>3. obj[o] = Absent(m.kind) /\ Fresh(m)
  <2>1. MakerOK(k, call, obj, t)
    BY <1>2 DEF CallsOK
  <2>2. o \notin StaticThread
    BY <1>1, IpcAssumption, KernelAssumption DEF All
  <2> QED
    BY <1>1, <2>1, <2>2 DEF MakerOK
<1>4. R \in SUBSET (All \cup Object)
  BY <1>1, <1>2, TablesTypes DEF Full, Live, Sound
<1>5. OneMaker(call)
  BY <1>2 DEF CallsOK
<1>6. CallSet(call, call', t, Running)
  BY <1>2, <1>c, SetCall
<1>7. IsCalls(call') /\ call'[t].op = "none" /\ \A u \in Thread \ {t} : call'[u] = call[u]
  BY <1>6 DEF CallSet, Running
<1>8. \A u \in Thread : \/ call'[u] = call[u] /\ ~(call[u].op = "init" /\ call[u].object = o)
                        \/ call[u].op = "init" /\ call'[u].op = "none"
  BY <1>1, <1>5, <1>7 DEF OneMaker
<1> HIDE DEF R, o, m
<1>9. Full(k') /\ \A u \in Thread : Look(k, k', u)
  BY <1>0, <1>2, <1>4, Register
<1>10. IsObjects(obj') /\ obj'[o] = m /\ \A x \in Object \ {o} : obj'[x] = obj[x]
  BY <1>o, <1>1, <1>2, SetObject DEF IsPut
<1>11. obj[o].kind = "absent"
  BY <1>3 DEF Absent
<1>12. CallsOK(k', call', obj', ghost.held)
  BY <1>1, <1>2, <1>3, <1>7, <1>8, <1>9, <1>10, <1>11, FreshObject
<1> QED
  BY <1>1, <1>2, <1>9, <1>12 DEF SyncInv

(* An object whose waiting threads were all told RT_ERROR. *)
AllTold(s, r, l) ==
  \A u \in Thread : IF WaitsAt(s, u, l) THEN IsTold(s, r, u) ELSE Look(s, r, u)

LEMMA ResumedFull ==
  ASSUME NEW s, NEW r, Full(s), NEW l \in WaitList, ResumedAll(s, r, l)
  PROVE  Full(r) /\ r.current = s.current
<1>1. Sound(r) /\ r.current = s.current
  BY DEF ResumedAll, SameRegs
<1>2. s.current \in All /\ s.thread[s.current].stat = "READY" /\ Idle \in All
       /\ s.thread[Idle].stat = "READY" /\ Sound(s)
  BY DEF Full, Live, All
<1>3. ASSUME NEW u \in All, s.thread[u].stat = "READY"
      PROVE  r.thread[u].stat = "READY"
  <2>1. ~WaitsAt(s, u, l)
    BY <1>2, <1>3 DEF Sound, Coherent
  <2> QED
    BY <1>3, <2>1 DEF ResumedAll, Same
<1> QED
  BY <1>1, <1>2, <1>3 DEF Full, Live

LEMMA ToldAfter ==
  ASSUME NEW s, NEW q, NEW r, NEW l \in WaitList, ResumedAll(s, q, l),
         r.thread = q.thread, r.wait = q.wait, r.tm = q.tm
  PROVE  AllTold(s, r, l)
<1> SUFFICES ASSUME NEW u \in Thread
             PROVE  IF WaitsAt(s, u, l) THEN IsTold(s, r, u) ELSE Look(s, r, u)
  BY DEF AllTold
<1>1. IF WaitsAt(s, u, l) THEN IsTold(s, q, u) ELSE Same(s, q, u)
  BY DEF ResumedAll, All
<1>2. IsTold(s, q, u) => IsTold(s, r, u)
  BY DEF IsTold, Waits, WaitsAt
<1>3. Same(s, q, u) => Look(s, r, u)
  BY DEF Same, Look, WaitsAt
<1> QED
  BY <1>1, <1>2, <1>3

LEMMA TellAll ==
  ASSUME NEW s, NEW r, NEW c, NEW b, NEW h, CallsOK(s, c, b, h), Sound(s), NEW a, NEW g,
         NEW o \in Object, AllTold(s, r, Waiters(o)), OnlyObject(b, a, h, g, o),
         ObjectOK(r, c, a, g, o), b[o].kind # "absent",
         \A u \in Thread : Given(s, c, u) => c[u].object # o
  PROVE  CallsOK(r, c, a, g)
<1>1. /\ \A u \in Thread : CallOK(s, c, b, h, u) /\ MakerOK(s, c, b, u)
      /\ IsCalls(c)
  BY DEF CallsOK
<1>2. \A u \in Thread : c[u].op = "init" => c[u] = c[u] /\ c[u].object # o
  <2>1. o \notin StaticThread
    BY IpcAssumption, KernelAssumption DEF All
  <2>2. ASSUME NEW u \in Thread, c[u].op = "init", c[u].object = o
        PROVE  FALSE
    <3>1. b[o] = Absent(c[u].made.kind)
      BY <1>1, <2>1, <2>2 DEF MakerOK
    <3>2. b[o].kind = "absent"
      BY <3>1 DEF Absent
    <3> QED
      BY <3>2
  <2> QED
    BY <2>2
<1>3. ASSUME NEW u \in StaticThread, s.thread[u].stat = "CLOSE"
      PROVE  r.thread[u].stat = "CLOSE"
  <2>1. u \in Thread /\ u \in All
    BY KernelAssumption DEF All
  <2>2. ~WaitsAt(s, u, Waiters(o))
    BY <1>3, <2>1, WaitersIn DEF Sound, Coherent
  <2> QED
    BY <1>3, <2>1, <2>2 DEF AllTold, Look
<1>4. ASSUME NEW u \in Thread
      PROVE  Untouched(s, c, b, r, c, a, o, u) \/ InOrder(s, c, r, c, a, g, o, u)
  <2>1. CASE WaitsAt(s, u, Waiters(o))
    <3>1. IsTold(s, r, u)
      BY <2>1 DEF AllTold
    <3>2. Waits(s, u) /\ ~Given(s, c, u)
      BY <2>1, WaitersIn DEF Waits, Given
    <3>3. ~Waits(r, u) /\ ~Given(r, c, u) /\ u \notin r.tm.active
           /\ r.thread[u].stat = "READY"
      BY <3>1 DEF IsTold, Given
    <3>4. CallOK(r, c, a, g, u)
      BY <1>1, <3>3 DEF CallOK, Waits
    <3> QED
      BY <3>2, <3>3, <3>4, WaitersIn DEF InOrder, Waits
  <2>2. CASE ~WaitsAt(s, u, Waiters(o))
    BY <2>2 DEF AllTold, Untouched
  <2> QED
    BY <2>1, <2>2
<1> QED
  BY <1>1, <1>2, <1>3, <1>4, ObjectChange

(* A semaphore has no owner to be given it. *)
LEMMA SemNotGiven ==
  ASSUME NEW s, NEW c, NEW b, NEW h, CallsOK(s, c, b, h), NEW o, b[o].kind = "sem"
  PROVE  \A u \in Thread : Given(s, c, u) => c[u].object # o
BY DEF CallsOK, CallOK

LEMMA SemOK ==
  ASSUME NEW s, NEW c, NEW b, NEW h, NEW o, ObjectOK(s, c, b, h, o), b[o].kind = "sem",
         NEW r, NEW d, NEW a, NEW m, a[o] = m, m \in SemRecord \/ m = Absent("sem")
  PROVE  ObjectOK(r, d, a, h, o)
<1>1. m.kind # "mutex" /\ m \in AbsentRecord \cup SemRecord
  BY DEF SemRecord, Absent, AbsentRecord
<1>2. \A t \in Thread : h[o][t] = 0
  BY DEF ObjectOK
<1> QED
  BY <1>1, <1>2 DEF ObjectOK

(* The end of an object of either kind, in _detach and _delete. *)
LEMMA GoneStep ==
  ASSUME SyncInv, NEW t \in Thread, NEW o \in Object, NEW kind, kind \in {"sem", "mutex"},
         Usable(t, o, kind), NEW R, R \in SUBSET (All \cup Object),
         k' = WithRegistered(rt_ipc_list_resume_all(k, Waiters(o)), R),
         IsPut(obj, obj', o, Absent(kind)), UNCHANGED <<call, idle>>,
         IsGhost(ghost'), ghost'.held \in [Object -> [Thread -> Nat]],
         \A x \in Object \ {o} : ghost'.held[x] = ghost.held[x],
         \A u \in Thread : ghost'.held[o][u] = 0,
         \A u \in Thread : Given(k, call, u) => call[u].object # o
  PROVE  SyncInv'
<1> DEFINE q == rt_ipc_list_resume_all(k, Waiters(o))
<1>1. /\ Full(k) /\ CallsOK(k, call, obj, ghost.held) /\ IsObjects(obj) /\ Sound(k)
      /\ idle \in IdlePlace
  BY DEF SyncInv, CallsOK, Full, Live
<1>2. obj[o].kind = kind /\ obj[o].kind # "absent"
  BY DEF Usable
<1>3. Waiters(o) \in WaitList
  BY WaitersIn
<1>4. ResumedAll(k, q, Waiters(o))
  BY <1>1, <1>3, ResumeAll
<1> HIDE DEF q
<1>5. Full(q)
  BY <1>1, <1>3, <1>4, ResumedFull
<1>6. k' = WithRegistered(q, R)
  BY DEF q
<1>7. Full(k') /\ k'.thread = q.thread /\ k'.wait = q.wait /\ k'.tm = q.tm
  BY <1>5, <1>6, Register
<1>8. AllTold(k, k', Waiters(o))
  BY <1>3, <1>4, <1>7, ToldAfter
<1>9. IsObjects(obj') /\ obj'[o] = Absent(kind) /\ \A x \in Object \ {o} : obj'[x] = obj[x]
  BY DEF IsPut
<1>10. OnlyObject(obj, obj', ghost.held, ghost'.held, o)
  BY <1>9 DEF OnlyObject
<1>11. ObjectOK(k', call, obj', ghost'.held, o)
  <2>1. obj'[o] \in AbsentRecord /\ obj'[o].kind = "absent"
    BY <1>9 DEF AbsentRecord, Absent
  <2> QED
    BY <2>1 DEF ObjectOK
<1>12. CallsOK(k', call, obj', ghost'.held)
  BY <1>1, <1>2, <1>8, <1>10, <1>11, TellAll
<1> QED
  BY <1>1, <1>7, <1>12 DEF SyncInv

(* What rt_object_detach and rt_object_delete leave in the container. *)
LEMMA LessRegistered ==
  ASSUME Full(k), NEW o, NEW l \in WaitList
  PROVE  rt_ipc_list_resume_all(k, l).registered \ {o} \in SUBSET (All \cup Object)
<1>1. Sound(k)
  BY DEF Full, Live
<1>2. Sound(rt_ipc_list_resume_all(k, l))
  BY <1>1, ResumeAll DEF ResumedAll
<1> QED
  BY <1>2, TablesTypes DEF Sound

-----------------------------------------------------------------------------
(* Semaphores. *)
LEMMA SemMadeStep ==
  ASSUME SyncInv, NEW t \in Thread, NEW o \in Object, NEW v \in SemValue, NEW f \in Flag,
         SemMade(t, o, v, f)
  PROVE  SyncInv'
<1> DEFINE m == IF o \in StaticObject THEN rt_sem_init(v, f) ELSE rt_sem_create(v, f)
           n == ghost.permits + v
<1>1. MakeObject(t, o, m) /\ ghost' = (IF o \in StaticObject THEN ghost ELSE PutPermits(ghost, n))
  BY DEF SemMade, PutPermits
<1>2. m = rt_sem_init(v, f)
  BY DEF rt_sem_init, rt_sem_create
<1>3. Fresh(m)
  BY <1>2 DEF Fresh
<1> HIDE DEF m, n
<1>4. IsGhost(ghost)
  BY DEF SyncInv
<1>5. IsGhost(ghost') /\ ghost'.held = ghost.held
  BY <1>1, <1>4, SetPermits
<1> QED
  BY <1>1, <1>3, <1>5, MakeObjectStep

LEMMA SemInitedStep ==
  ASSUME SyncInv, NEW t \in Thread, SemInited(t)
  PROVE  SyncInv'
<1> DEFINE n == ghost.permits + call[t].made.value
<1>1. ObjectInited(t, "sem") /\ ghost' = PutPermits(ghost, n)
  BY DEF SemInited, PutPermits
<1> HIDE DEF n
<1>2. IsGhost(ghost)
  BY DEF SyncInv
<1>3. IsGhost(ghost') /\ ghost'.held = ghost.held
  BY <1>1, <1>2, SetPermits
<1> QED
  BY <1>1, <1>3, ObjectInitedStep

LEMMA SemGoneStep ==
  ASSUME SyncInv, NEW t \in Thread, NEW o \in Object, rt_sem_detach(t, o) \/ rt_sem_delete(t, o)
  PROVE  SyncInv'
<1> DEFINE q == rt_ipc_list_resume_all(k, Waiters(o))
           R == q.registered \ {o}
           n == ghost.permits - obj[o].value
<1>1. Usable(t, o, "sem") /\ UNCHANGED <<call, idle>>
  BY DEF rt_sem_detach, rt_sem_delete, DetachObject, DeleteObject
<1>2. k' = WithRegistered(q, R)
  BY DEF rt_sem_detach, rt_sem_delete, DetachObject, DeleteObject, rt_object_detach,
         rt_object_delete, WithRegistered
<1>3. obj' = PutObject(obj, o, Absent("sem"))
  BY DEF rt_sem_detach, rt_sem_delete, DetachObject, DeleteObject, PutObject
<1>4. ghost' = PutPermits(ghost, n)
  BY DEF rt_sem_detach, rt_sem_delete, PutPermits
<1> HIDE DEF n
<1>5. /\ Full(k) /\ IsGhost(ghost) /\ IsObjects(obj) /\ CallsOK(k, call, obj, ghost.held)
      /\ ghost.held \in [Object -> [Thread -> Nat]] /\ ObjectOK(k, call, obj, ghost.held, o)
  BY DEF SyncInv, CallsOK
<1>6. R \in SUBSET (All \cup Object)
  BY <1>5, WaitersIn, LessRegistered
<1> HIDE DEF R
<1>7. IsPut(obj, obj', o, Absent("sem"))
  BY <1>3, <1>5, SetObject
<1>8. IsGhost(ghost') /\ ghost'.held = ghost.held
  BY <1>4, <1>5, SetPermits
<1>9. obj[o].kind = "sem"
  BY <1>1 DEF Usable
<1>10. \A u \in Thread : ghost.held[o][u] = 0
  BY <1>5, <1>9 DEF ObjectOK
<1>11. \A u \in Thread : Given(k, call, u) => call[u].object # o
  BY <1>5, <1>9, SemNotGiven
<1>12. "sem" \in {"sem", "mutex"}
  OBVIOUS
<1> QED
  BY <1>1, <1>2, <1>5, <1>6, <1>7, <1>8, <1>10, <1>11, <1>12, GoneStep

LEMMA SemSet ==
  ASSUME NEW s, NEW r, NEW c, NEW b, NEW h, CallsOK(s, c, b, h), NEW o \in Object,
         b[o].kind = "sem", NEW a, NEW m \in SemRecord, IsPut(b, a, o, m), Sound(s),
         AllTold(s, r, Waiters(o)) \/ \A u \in Thread : Look(s, r, u)
  PROVE  CallsOK(r, c, a, h)
<1>1. /\ h \in [Object -> [Thread -> Nat]] /\ ObjectOK(s, c, b, h, o) /\ IsCalls(c)
      /\ \A u \in Thread : MakerOK(s, c, b, u)
  BY DEF CallsOK
<1>2. IsObjects(a) /\ a[o] = m /\ \A x \in Object \ {o} : a[x] = b[x]
  BY DEF IsPut
<1>3. OnlyObject(b, a, h, h, o)
  BY <1>1, <1>2 DEF OnlyObject
<1>4. ObjectOK(r, c, a, h, o)
  BY <1>1, <1>2, SemOK
<1>5. \A u \in Thread : Given(s, c, u) => c[u].object # o
  BY SemNotGiven
<1>6. CASE AllTold(s, r, Waiters(o))
  BY <1>3, <1>4, <1>5, <1>6, TellAll
<1>7. CASE \A u \in Thread : Look(s, r, u)
  <2>1. a[o].kind = b[o].kind
    BY <1>2 DEF SemRecord
  <2>2. \A u \in Thread : Untouched(s, c, b, r, c, a, o, u)
    BY <1>5, <1>7, <2>1 DEF Untouched
  <2>3. \A u \in StaticThread : s.thread[u].stat = "CLOSE" => r.thread[u].stat = "CLOSE"
    BY <1>7, KernelAssumption DEF Look
  <2>4. \A u \in Thread : c[u].op = "init" => c[u] = c[u] /\ c[u].object # o
    <3>1. o \notin StaticThread
      BY IpcAssumption, KernelAssumption DEF All
    <3>2. ASSUME NEW u \in Thread, c[u].op = "init", c[u].object = o
          PROVE  FALSE
      <4>1. b[o] = Absent(c[u].made.kind)
        BY <1>1, <3>1, <3>2 DEF MakerOK
      <4>2. b[o].kind = "absent"
        BY <4>1 DEF Absent
      <4> QED
        BY <4>2
    <3> QED
      BY <3>2
  <2> QED
    BY <1>1, <1>3, <1>4, <2>2, <2>3, <2>4, ObjectChange
<1> QED
  BY <1>6, <1>7

LEMMA LookSelf ==
  ASSUME NEW s, NEW t
  PROVE  Look(s, s, t)
BY DEF Look

LEMMA SemValueSet ==
  ASSUME NEW m \in SemRecord, NEW v \in SemValue
  PROVE  [m EXCEPT !.value = v] \in SemRecord
BY DEF SemRecord

(* A permit is there or is given back, and nobody waits. *)
LEMMA SemCountStep ==
  ASSUME SyncInv, NEW o \in Object, obj[o].kind = "sem", NEW v \in SemValue,
         obj' = PutObject(obj, o, [obj[o] EXCEPT !.value = v]), NEW n,
         ghost' = PutPermits(ghost, n), UNCHANGED <<call, idle>>, Full(k'),
         AllTold(k, k', Waiters(o)) \/ k' = k
  PROVE  SyncInv'
<1> DEFINE m == [obj[o] EXCEPT !.value = v]
<1>1. /\ IsGhost(ghost) /\ IsObjects(obj) /\ CallsOK(k, call, obj, ghost.held) /\ Sound(k)
      /\ idle \in IdlePlace /\ ObjectOK(k, call, obj, ghost.held, o)
  BY DEF SyncInv, CallsOK, Full, Live
<1>2. obj[o] \in SemRecord
  BY <1>1, ObjectTypes
<1>3. m \in SemRecord
  BY <1>2, SemValueSet
<1>4. obj' = PutObject(obj, o, m)
  OBVIOUS
<1> HIDE DEF m
<1>5. IsPut(obj, obj', o, m)
  BY <1>1, <1>4, SetObject
<1>6. IsGhost(ghost') /\ ghost'.held = ghost.held
  BY <1>1, SetPermits
<1>7. AllTold(k, k', Waiters(o)) \/ \A u \in Thread : Look(k, k', u)
  BY LookSelf
<1>8. CallsOK(k', call, obj', ghost.held)
  BY <1>1, <1>3, <1>5, <1>7, SemSet
<1> QED
  BY <1>1, <1>6, <1>8 DEF SyncInv

(* A thread that has to wait for o. *)
LEMMA BlockedKeeps ==
  ASSUME NEW s, NEW r, NEW c, NEW d, NEW b, NEW h, CallsOK(s, c, b, h), NEW t \in Thread,
         NEW o \in Object, NEW op \in Takes, b[o].kind = WaitKind(op), c[t].op = "none",
         CallSet(c, d, t, [op |-> op, object |-> o]),
         \A u \in Thread \ {t} : Look(s, r, u), s.thread[t].stat = "READY",
         r.thread[t].stat = "SUSPEND", WaitsOnlyAt(r, t, Waiters(o)),
         b[o].kind = "mutex" => b[o].owner # NoThread
  PROVE  CallsOK(r, d, b, h)
<1>1. /\ IsCalls(d) /\ d[t] = [op |-> op, object |-> o]
      /\ \A u \in Thread \ {t} : Look(s, r, u) /\ d[u] = c[u]
  BY DEF CallSet
<1>2. d[t].op = op /\ d[t].object = o /\ d[t].op # "init"
  BY <1>1 DEF Takes
<1>3. Waits(r, t) /\ \A l \in WaitList : WaitsAt(r, t, l) => l = Waiters(o)
  BY WaitersIn DEF WaitsOnlyAt, Waits
<1>4. CallOK(r, d, b, h, t)
  BY <1>1, <1>2, <1>3 DEF CallOK, Given
<1>5. \A x \in Object : WaitsAt(r, t, Waiters(x)) /\ b[x].kind = "mutex"
        => WaitsAt(s, t, Waiters(x)) \/ b[x].owner # NoThread
  BY <1>3, WaitersIn, WaitersDiffer
<1>6. ~Given(s, c, t)
  BY DEF Given
<1> QED
  BY <1>1, <1>2, <1>4, <1>5, <1>6, QuietCall

LEMMA WaitTimes ==
  ASSUME NEW time \in Times \cup {0, Forever}, time # Forever, time # 0
  PROVE  time \in 1..(Half - 1)
BY KernelAssumption DEF Half

LEMMA SemBlocksStep ==
  ASSUME SyncInv, NEW t \in Thread, NEW o \in Object, NEW time \in Times \cup {0, Forever},
         Usable(t, o, "sem"),
         Blocks(t, Waiters(o), obj[o].flag, time, [op |-> "sem_take", object |-> o])
  PROVE  SyncInv'
<1> DEFINE f == [op |-> "sem_take", object |-> o]
<1>1. /\ k.current = t /\ call[t] = Running /\ obj[o].kind = "sem" /\ k.lock_nest = 0
      /\ time # 0 /\ k' = WaitIn(k, Waiters(o), t, obj[o].flag, time)
      /\ UNCHANGED <<obj, ghost, idle>>
  BY DEF Usable, IsRunning, Blocks
<1>2. call' = [call EXCEPT ![t] = f]
  BY DEF Blocks
<1>3. Full(k) /\ CallsOK(k, call, obj, ghost.held) /\ IsCalls(call) /\ idle \in IdlePlace /\ IsGhost(ghost)
  BY DEF SyncInv, CallsOK
<1>4. Blocked(k, k', t, Waiters(o))
  BY <1>1, <1>3, WaitTimes, WaitersIn, WaitInIs
<1>5. CallSet(call, call', t, f)
  BY <1>2, <1>3, SetCall
<1>6. /\ Full(k') /\ (\A u \in Thread \ {t} : Look(k, k', u))
      /\ k'.thread[t].stat = "SUSPEND" /\ WaitsOnlyAt(k', t, Waiters(o))
  BY <1>4, SameLook DEF Blocked, Only, All
<1>7. k.thread[t].stat = "READY" /\ call[t].op = "none"
  BY <1>1, <1>3, OnCpu DEF Running
<1>8. "sem_take" \in Takes /\ obj[o].kind = WaitKind("sem_take") /\ obj[o].kind # "mutex"
  BY <1>1 DEF Takes, WaitKind
<1>9. CallsOK(k', call', obj, ghost.held)
  BY <1>3, <1>5, <1>6, <1>7, <1>8, BlockedKeeps
<1> QED
  BY <1>1, <1>3, <1>6, <1>9 DEF SyncInv

LEMMA SemTakeStep ==
  ASSUME SyncInv, NEW t \in Thread, NEW o \in Object, NEW time \in Times \cup {0, Forever},
         rt_sem_take(t, o, time)
  PROVE  SyncInv'
<1>1. Usable(t, o, "sem") /\ obj[o].kind = "sem"
  BY DEF rt_sem_take, Usable
<1>2. CASE obj[o].value > 0 /\ UNCHANGED <<k, call, idle>>
           /\ obj' = [obj EXCEPT ![o].value = @ - 1]
           /\ ghost' = [ghost EXCEPT !.permits = @ - 1]
  <2> DEFINE v == obj[o].value - 1
             n == ghost.permits - 1
  <2>1. obj' = PutObject(obj, o, [obj[o] EXCEPT !.value = v]) /\ ghost' = PutPermits(ghost, n)
    BY <1>2 DEF PutObject, PutPermits
  <2>2. Full(k) /\ ObjectOK(k, call, obj, ghost.held, o)
    BY DEF SyncInv, CallsOK
  <2>3. obj[o].value \in SemValue
    BY <1>1, <2>2, ObjectTypes DEF SemRecord
  <2>4. v \in SemValue
    BY <1>2, <2>3, SemAssumption DEF SemValue
  <2> HIDE DEF v, n
  <2>5. k' = k /\ Full(k') /\ UNCHANGED <<call, idle>>
    BY <1>2, <2>2
  <2> QED
    BY <1>1, <2>1, <2>4, <2>5, SemCountStep
<1>3. CASE Blocks(t, Waiters(o), obj[o].flag, time, [op |-> "sem_take", object |-> o])
  BY <1>1, <1>3, SemBlocksStep
<1> QED
  BY <1>2, <1>3 DEF rt_sem_take

(* A call that returns without having waited for a mutex. *)
LEMMA SemTakenStep ==
  ASSUME SyncInv, NEW t \in Thread, SemTaken(t)
  PROVE  SyncInv'
<1> DEFINE n == IF k.thread[t].error = "EOK" THEN ghost.permits - 1 ELSE ghost.permits
<1>1. /\ k.current = t /\ call[t].op = "sem_take" /\ UNCHANGED <<k, obj, idle>>
  BY DEF SemTaken, Returns
<1>2. call' = [call EXCEPT ![t] = Running]
  BY DEF SemTaken, Done
<1>3. ghost' = PutPermits(ghost, n)
  BY DEF SemTaken, PutPermits
<1> HIDE DEF n
<1>4. Full(k) /\ CallsOK(k, call, obj, ghost.held) /\ IsCalls(call) /\ idle \in IdlePlace /\ IsGhost(ghost)
  BY DEF SyncInv, CallsOK
<1>5. IsGhost(ghost') /\ ghost'.held = ghost.held
  BY <1>3, <1>4, SetPermits
<1>6. CallSet(call, call', t, Running)
  BY <1>2, <1>4, SetCall
<1>7. call'[t].op = "none" /\ IsCalls(call') /\ \A v \in Thread \ {t} : call'[v] = call[v]
  BY <1>6 DEF CallSet, Running
<1>8. ~Waits(k, t) /\ t \notin k.tm.active /\ ~Given(k, call, t)
  BY <1>1, <1>4, OnCpu DEF Given
<1>9. Only(k, k, t)
  BY SameSelf DEF Only
<1>10. CallsOK(k, call', obj, ghost.held)
  BY <1>4, <1>7, <1>8, <1>9, AloneStep
<1> QED
  BY <1>1, <1>4, <1>5, <1>10 DEF SyncInv

(* The first waiting thread is woken, before and after rt_schedule. *)
Woke(s, r, u) ==
  /\ Full(r) /\ Only(s, r, u) /\ SameClock(s, r) /\ KeptTime(s.tm, r.tm, s.tick)
  /\ r.thread[u].stat = "READY" /\ r.thread[u].error = s.thread[u].error
  /\ ~Waits(r, u) /\ u \notin r.tm.active

LEMMA WakeHead ==
  ASSUME NEW s, Full(s), NEW l \in WaitList, s.wait[l] # <<>>
  PROVE  LET u == Head(s.wait[l])
         IN  /\ u \in Thread /\ WaitsAt(s, u, l) /\ s.thread[u].error = "EOK"
             /\ s.thread[u].stat = "SUSPEND" /\ u # s.current
             /\ Woke(s, rt_schedule(rt_ipc_list_resume(s, l)), u)
<1> DEFINE u == Head(s.wait[l])
           q == rt_ipc_list_resume(s, l)
           r == rt_schedule(q)
<1>1. Sound(s) /\ s.wait[l] \in Seq(Thread)
  BY TablesTypes DEF Full, Live, Sound
<1>2. u \in Thread /\ u \in All /\ WaitsAt(s, u, l)
  BY <1>1, ListHead DEF All, WaitsAt
<1>3. q = rt_thread_resume(s, u)
  BY DEF rt_ipc_list_resume
<1> HIDE DEF u, q
<1>4. Coherent(s, u) /\ s.thread[u] \in ThreadRecord
  BY <1>1, <1>2, TablesTypes DEF Sound
<1>5. s.thread[u].error = "EOK" /\ s.thread[u].stat = "SUSPEND"
  BY <1>2, <1>4 DEF Coherent
<1>6. u # s.current /\ s.current \in All /\ s.thread[s.current].stat = "READY"
  BY <1>5 DEF Full
<1>7. /\ Sound(q) /\ Only(s, q, u) /\ SameRegs(s, q)
      /\ q.thread[u] = [s.thread[u] EXCEPT !.stat = "READY"]
      /\ u \notin q.tm.active /\ ~Waits(q, u) /\ q.tm = rt_timer_stop(s.tm, u)
  BY <1>1, <1>2, <1>3, <1>5, ThreadResume
<1>8. q.thread[u].stat = "READY" /\ q.thread[u].error = s.thread[u].error
  BY <1>4, <1>7 DEF ThreadRecord
<1>9. q.thread[s.current].stat = "READY"
  BY <1>6, <1>7 DEF Only, Same
<1>10. /\ Full(r) /\ Only(s, r, u) /\ r.thread = q.thread /\ r.wait = q.wait /\ r.tm = q.tm
       /\ SameClock(s, r)
  BY <1>2, <1>7, <1>9, ThenSchedule
<1> HIDE DEF r
<1>12. KeptTime(s.tm, r.tm, s.tick)
  <2>1. TimersKept(s.tm)
    BY <1>1 DEF Sound, Tables
  <2> QED
    BY <1>2, <1>7, <1>10, <2>1, StopInTime
<1>11. Woke(s, r, u)
  BY <1>7, <1>8, <1>10, <1>12 DEF Woke, Waits, WaitsAt
<1> QED
  BY <1>2, <1>5, <1>6, <1>11 DEF u, q, r

LEMMA SemReleaseStep ==
  ASSUME SyncInv, NEW t \in Thread, NEW o \in Object, rt_sem_release(t, o)
  PROVE  SyncInv'
<1> DEFINE n == ghost.permits + 1
<1>1. obj[o].kind = "sem" /\ UNCHANGED <<call, idle>>
  BY DEF rt_sem_release, Usable
<1>2. ghost' = PutPermits(ghost, n)
  BY DEF rt_sem_release, PutPermits
<1> HIDE DEF n
<1>3. /\ Full(k) /\ CallsOK(k, call, obj, ghost.held) /\ IsCalls(call) /\ idle \in IdlePlace
      /\ IsGhost(ghost) /\ ObjectOK(k, call, obj, ghost.held, o)
  BY DEF SyncInv, CallsOK
<1>4. IsGhost(ghost') /\ ghost'.held = ghost.held
  BY <1>2, <1>3, SetPermits
<1>5. Waiters(o) \in WaitList
  BY WaitersIn
<1>6. CASE k.wait[Waiters(o)] # <<>> /\ obj' = obj
           /\ k' = rt_schedule(rt_ipc_list_resume(k, Waiters(o)))
  <2> DEFINE u == Head(k.wait[Waiters(o)])
  <2>1. /\ u \in Thread /\ WaitsAt(k, u, Waiters(o)) /\ k.thread[u].stat = "SUSPEND"
        /\ Woke(k, k', u)
    BY <1>3, <1>5, <1>6, WakeHead
  <2> HIDE DEF u
  <2>2. CallOK(k, call, obj, ghost.held, u)
    BY <1>3, <2>1 DEF CallsOK
  <2>3. call[u].op = "sem_take"
    <3>1. /\ call[u].op \in Takes /\ Waiters(o) = Waiters(call[u].object)
          /\ obj[call[u].object].kind = WaitKind(call[u].op)
      BY <1>5, <2>1, <2>2 DEF CallOK
    <3>2. call[u].object = o
      BY <3>1, WaitersDiffer
    <3> QED
      BY <1>1, <3>1, <3>2 DEF Takes, WaitKind
  <2>4. /\ Full(k') /\ ~Waits(k', u) /\ u \notin k'.tm.active /\ k'.thread[u].stat = "READY"
        /\ \A v \in Thread \ {u} : Look(k, k', v) /\ call[v] = call[v]
    BY <2>1, SameLook DEF Woke, Only, All
  <2>5. ~Given(k, call, u) /\ ~Given(k', call, u)
    BY <2>3 DEF Given
  <2>6. CallOK(k', call, obj, ghost.held, u)
    BY <2>2, <2>4, <2>5 DEF CallOK, Waits
  <2>7. \A x \in Object : ~WaitsAt(k', u, Waiters(x))
    BY <2>4, WaitersIn DEF Waits
  <2>8. CallsOK(k', call, obj, ghost.held)
    BY <1>3, <2>1, <2>3, <2>4, <2>5, <2>6, <2>7, QuietCall
  <2> QED
    BY <1>1, <1>3, <1>4, <1>6, <2>4, <2>8 DEF SyncInv
<1>7. CASE k' = k /\ obj[o].value < RT_SEM_VALUE_MAX /\ obj' = [obj EXCEPT ![o].value = @ + 1]
  <2> DEFINE v == obj[o].value + 1
  <2>1. obj' = PutObject(obj, o, [obj[o] EXCEPT !.value = v])
    BY <1>7 DEF PutObject
  <2>2. obj[o].value \in SemValue
    BY <1>1, <1>3, ObjectTypes DEF SemRecord
  <2>3. v \in SemValue
    BY <1>7, <2>2, SemAssumption DEF SemValue
  <2> HIDE DEF v
  <2>4. k' = k /\ Full(k')
    BY <1>3, <1>7
  <2> QED
    BY <1>1, <1>2, <2>1, <2>3, <2>4, SemCountStep
<1> QED
  BY <1>6, <1>7 DEF rt_sem_release

LEMMA SemControlStep ==
  ASSUME SyncInv, NEW t \in Thread, NEW o \in Object, NEW v \in SemValue, rt_sem_control(t, o, v)
  PROVE  SyncInv'
<1> DEFINE q == rt_ipc_list_resume_all(k, Waiters(o))
           n == ghost.permits - obj[o].value + v
<1>1. obj[o].kind = "sem" /\ UNCHANGED <<call, idle>> /\ k' = rt_schedule(q)
  BY DEF rt_sem_control, Usable
<1>2. ghost' = PutPermits(ghost, n)
  BY DEF rt_sem_control, PutPermits
<1>3. obj' = PutObject(obj, o, [obj[o] EXCEPT !.value = v])
  BY DEF rt_sem_control, PutObject
<1> HIDE DEF n
<1>4. Full(k) /\ Sound(k) /\ Waiters(o) \in WaitList
  BY WaitersIn DEF SyncInv, Full, Live
<1>5. ResumedAll(k, q, Waiters(o))
  BY <1>4, ResumeAll
<1> HIDE DEF q
<1>6. Full(q)
  BY <1>4, <1>5, ResumedFull
<1>7. Live(q)
  BY <1>6 DEF Full
<1>8. Rescheduled(q, k')
  BY <1>1, <1>6, <1>7, ScheduleIs
<1>9. Full(k') /\ k'.thread = q.thread /\ k'.wait = q.wait /\ k'.tm = q.tm
  BY <1>8 DEF Rescheduled
<1>10. AllTold(k, k', Waiters(o))
  BY <1>4, <1>5, <1>9, ToldAfter
<1> QED
  BY <1>1, <1>2, <1>3, <1>9, <1>10, SemCountStep

-----------------------------------------------------------------------------
(* Mutexes.  Who was given a mutex owns it. *)
LEMMA OwnerGiven ==
  ASSUME NEW s, NEW c, NEW b, NEW h, CallsOK(s, c, b, h), NEW o, NEW u \in Thread,
         Given(s, c, u), c[u].object = o
  PROVE  b[o].owner = u /\ b[o].owner # NoThread
<1>1. b[o].owner = u
  BY DEF CallsOK, CallOK
<1> QED
  BY <1>1, KernelAssumption DEF All

(* Nobody else was given what a thread in no call owns. *)
LEMMA NoneGiven ==
  ASSUME NEW s, NEW c, NEW b, NEW h, CallsOK(s, c, b, h), NEW o, NEW t, c[t].op = "none",
         b[o].owner \in {t, NoThread}
  PROVE  \A u \in Thread : Given(s, c, u) => c[u].object # o
<1> SUFFICES ASSUME NEW u \in Thread, Given(s, c, u), c[u].object = o PROVE FALSE
  OBVIOUS
<1>1. b[o].owner = u /\ b[o].owner # NoThread
  BY OwnerGiven
<1>2. u = t
  BY <1>1
<1> QED
  BY <1>2 DEF Given

(* What the owner of a mutex was told. *)
LEMMA OwnerHolds ==
  ASSUME NEW s, NEW c, NEW m, NEW g, NEW o, MutexOK(s, c, m, g, o), NEW t, c[t].op = "none",
         m.owner = t, t # NoThread
  PROVE  g[t] = m.hold /\ m.value = 0 /\ m.hold > 0 /\ m.original_priority \in Priority
BY DEF MutexOK, Given

(* A static object is in no _init call once it is there. *)
LEMMA NotBeingMade ==
  ASSUME NEW s, NEW c, NEW b, NEW h, CallsOK(s, c, b, h), NEW o \in Object,
         b[o].kind # "absent", NEW u \in Thread, c[u].op = "init"
  PROVE  c[u].object # o
<1> SUFFICES ASSUME c[u].object = o PROVE FALSE
  OBVIOUS
<1>1. o \notin StaticThread
  BY IpcAssumption, KernelAssumption DEF All
<1>2. MakerOK(s, c, b, u)
  BY DEF CallsOK
<1>3. b[o] = Absent(c[u].made.kind)
  BY <1>1, <1>2 DEF MakerOK
<1>4. b[o].kind = "absent"
  BY <1>3 DEF Absent
<1> QED
  BY <1>4

(* A step on a mutex that is seen by the thread that makes it and by no    *)
(* other.                                                                  *)
LEMMA OwnStep ==
  ASSUME NEW s, NEW r, NEW c, NEW b, NEW h, CallsOK(s, c, b, h), NEW a, NEW g,
         NEW o \in Object, b[o].kind = "mutex", a[o].kind = "mutex", NEW t \in Thread,
         c[t].op = "none", \A u \in Thread \ {t} : Look(s, r, u), ~Waits(r, t),
         t \notin r.tm.active, s.thread[t].stat = "READY", r.thread[t].stat = "READY",
         OnlyObject(b, a, h, g, o), ObjectOK(r, c, a, g, o),
         b[o].owner \in {t, NoThread}
  PROVE  CallsOK(r, c, a, g)
<1>1. IsCalls(c)
  BY DEF CallsOK
<1>2. \A u \in Thread : c[u].op = "init" => c[u] = c[u] /\ c[u].object # o
  BY NotBeingMade
<1>3. \A u \in Thread : Given(s, c, u) => c[u].object # o
  BY NoneGiven
<1>4. ASSUME NEW u \in StaticThread, s.thread[u].stat = "CLOSE"
      PROVE  r.thread[u].stat = "CLOSE"
  <2>1. u \in Thread /\ u # t
    BY <1>4, KernelAssumption
  <2> QED
    BY <1>4, <2>1 DEF Look
<1>5. InOrder(s, c, r, c, a, g, o, t)
  <2>1. CallOK(r, c, a, g, t)
    BY NotTaking DEF Takes
  <2>2. ~Given(s, c, t)
    BY DEF Given
  <2> QED
    BY <2>1, <2>2, WaitersIn DEF InOrder, Waits
<1>6. \A u \in Thread \ {t} : Untouched(s, c, b, r, c, a, o, u)
  BY <1>3 DEF Untouched
<1>7. \A u \in Thread : Untouched(s, c, b, r, c, a, o, u) \/ InOrder(s, c, r, c, a, g, o, u)
  BY <1>5, <1>6
<1> QED
  BY <1>1, <1>2, <1>4, <1>7, ObjectChange

LEMMA MutexMadeStep ==
  ASSUME SyncInv, NEW t \in Thread, NEW o \in Object, NEW f \in Flag, MutexMade(t, o, f)
  PROVE  SyncInv'
<1> DEFINE m == IF o \in StaticObject THEN rt_mutex_init(f) ELSE rt_mutex_create(f)
<1>1. MakeObject(t, o, m) /\ ghost' = ghost
  BY DEF MutexMade
<1>2. m = rt_mutex_init(f)
  BY DEF rt_mutex_init, rt_mutex_create
<1>3. Fresh(m)
  BY <1>2 DEF Fresh
<1> HIDE DEF m
<1>4. IsGhost(ghost') /\ ghost'.held = ghost.held
  BY <1>1 DEF SyncInv
<1> QED
  BY <1>1, <1>3, <1>4, MakeObjectStep

LEMMA MutexInitedStep ==
  ASSUME SyncInv, NEW t \in Thread, MutexInited(t)
  PROVE  SyncInv'
<1>1. ObjectInited(t, "mutex") /\ ghost' = ghost
  BY DEF MutexInited
<1>2. IsGhost(ghost') /\ ghost'.held = ghost.held
  BY <1>1 DEF SyncInv
<1> QED
  BY <1>1, <1>2, ObjectInitedStep

LEMMA MutexGoneStep ==
  ASSUME SyncInv, NEW t \in Thread, NEW o \in Object,
         rt_mutex_detach(t, o) \/ rt_mutex_delete(t, o)
  PROVE  SyncInv'
<1> DEFINE q == rt_ipc_list_resume_all(k, Waiters(o))
           R == q.registered \ {o}
<1>1. Usable(t, o, "mutex") /\ UNCHANGED <<call, idle>> /\ obj[o].owner \in {t, NoThread}
  BY DEF rt_mutex_detach, rt_mutex_delete, DetachObject, DeleteObject, MayGo
<1>2. k' = WithRegistered(q, R)
  BY DEF rt_mutex_detach, rt_mutex_delete, DetachObject, DeleteObject, rt_object_detach,
         rt_object_delete, WithRegistered
<1>3. obj' = PutObject(obj, o, Absent("mutex"))
  BY DEF rt_mutex_detach, rt_mutex_delete, DetachObject, DeleteObject, PutObject
<1>4. ghost' = PutGhost(ghost, o, t, 0)
  BY DEF rt_mutex_detach, rt_mutex_delete, PutGhost
<1>5. /\ Full(k) /\ IsGhost(ghost) /\ IsObjects(obj) /\ CallsOK(k, call, obj, ghost.held)
      /\ ghost.held \in [Object -> [Thread -> Nat]] /\ ObjectOK(k, call, obj, ghost.held, o)
  BY DEF SyncInv, CallsOK
<1>6. R \in SUBSET (All \cup Object)
  BY <1>5, WaitersIn, LessRegistered
<1> HIDE DEF R
<1>7. IsPut(obj, obj', o, Absent("mutex"))
  BY <1>3, <1>5, SetObject
<1>8. IsGhost(ghost') /\ ghost'.held = PutHeld(ghost.held, o, t, 0)
  BY <1>4, <1>5, SetGhostHeld
<1>9. /\ ghost'.held \in [Object -> [Thread -> Nat]] /\ ghost'.held[o][t] = 0
      /\ \A u \in Thread \ {t} : ghost'.held[o][u] = ghost.held[o][u]
      /\ \A x \in Object \ {o} : ghost'.held[x] = ghost.held[x]
  <2>1. 0 \in Nat
    OBVIOUS
  <2>2. IsHeld(ghost.held, ghost'.held, o, t, 0)
    BY <1>5, <1>8, <2>1, SetHeld
  <2> QED
    BY <2>2 DEF IsHeld
<1>10. obj[o].kind = "mutex" /\ call[t].op = "none"
  BY <1>1 DEF Usable, IsRunning, Running
<1>11. \A u \in Thread : ghost'.held[o][u] = 0
  <2>1. MutexOK(k, call, obj[o], ghost.held[o], o)
    BY <1>5, <1>10 DEF ObjectOK
  <2>2. ASSUME NEW u \in Thread \ {t} PROVE ghost.held[o][u] = 0
    <3>1. ghost.held[o][u] \in Nat
      BY <1>5
    <3>2. u # NoThread
      BY KernelAssumption DEF All
    <3>3. ~(ghost.held[o][u] > 0)
      BY <1>1, <2>1, <3>2 DEF MutexOK
    <3> QED
      BY <3>1, <3>3
  <2> QED
    BY <1>9, <2>2
<1>12. \A u \in Thread : Given(k, call, u) => call[u].object # o
  BY <1>1, <1>5, <1>10, NoneGiven
<1>13. "mutex" \in {"sem", "mutex"}
  OBVIOUS
<1>14. \A x \in Object \ {o} : ghost'.held[x] = ghost.held[x]
  BY <1>9
<1>15. ghost'.held \in [Object -> [Thread -> Nat]]
  BY <1>9
<1> QED
  BY <1>1, <1>2, <1>6, <1>7, <1>8, <1>11, <1>12, <1>13, <1>14, <1>15, GoneStep

(* The records of a mutex that is taken, taken again, released, handed     *)
(* over and free.                                                          *)
Held(m, t, n) ==
  /\ m \in MutexRecord /\ m.kind = "mutex" /\ m.owner = t /\ m.value = 0 /\ m.hold = n
  /\ m.original_priority \in Priority
Free(m) ==
  m \in MutexRecord /\ m.kind = "mutex" /\ m.owner = NoThread /\ m.value = 1 /\ m.hold = 0

LEMMA HeldAgain ==
  ASSUME NEW m \in MutexRecord, m.value = 0, m.original_priority \in Priority,
         NEW n \in 0..RT_MUTEX_HOLD_MAX
  PROVE  Held([m EXCEPT !.hold = n], m.owner, n)
BY DEF MutexRecord, Held

LEMMA MutexFields ==
  ASSUME NEW K, NEW V, NEW W, NEW P, NEW H, NEW F,
         NEW m \in [kind : K, value : V, owner : W, original_priority : P, hold : H, flag : F],
         NEW v \in V, NEW w \in W, NEW p \in P, NEW h \in H
  PROVE  [m EXCEPT !.value = v, !.owner = w, !.hold = h, !.original_priority = p] \in
           [kind : K, value : V, owner : W, original_priority : P, hold : H, flag : F]
OBVIOUS

MutexPut(m, v, w, h, p) ==
  [m EXCEPT !.value = v, !.owner = w, !.hold = h, !.original_priority = p]

LEMMA OwnerFields ==
  ASSUME NEW K, NEW V, NEW W, NEW P, NEW H, NEW F,
         NEW m \in [kind : K, value : V, owner : W, original_priority : P, hold : H, flag : F],
         NEW w \in W, NEW p \in P
  PROVE  [m EXCEPT !.owner = w, !.original_priority = p] \in
           [kind : K, value : V, owner : W, original_priority : P, hold : H, flag : F]
OBVIOUS

LEMMA MutexSet ==
  ASSUME NEW m \in MutexRecord, NEW v \in 0..1, NEW w \in Thread \cup {NoThread},
         NEW p \in Priority \cup {255}, NEW h \in 0..RT_MUTEX_HOLD_MAX
  PROVE  MutexPut(m, v, w, h, p) \in MutexRecord
<1> DEFINE K == {"mutex"}
           V == 0..1
           W == Thread \cup {NoThread}
           P == Priority \cup {255}
           H == 0..RT_MUTEX_HOLD_MAX
           M == [kind : K, value : V, owner : W, original_priority : P, hold : H, flag : Flag]
<1>1. MutexRecord = M
  BY Zenon DEF MutexRecord
<1>2. v \in V /\ w \in W /\ p \in P /\ h \in H /\ m \in M
  BY <1>1
<1> HIDE DEF K, V, W, P, H
<1>3. [m EXCEPT !.value = v, !.owner = w, !.hold = h, !.original_priority = p] \in M
  BY <1>2, MutexFields, Zenon
<1> HIDE DEF M
<1> QED
  BY <1>1, <1>3, Zenon DEF MutexPut

LEMMA HeldFirst ==
  ASSUME NEW m \in MutexRecord, m.value > 0, m.hold = 0, NEW t \in Thread, NEW p \in Priority
  PROVE  Held([m EXCEPT !.value = @ - 1, !.owner = t, !.hold = @ + 1,
                        !.original_priority = p], t, 1)
<1> DEFINE n == [m EXCEPT !.value = @ - 1, !.owner = t, !.hold = @ + 1, !.original_priority = p]
<1>1. m.value = 1
  BY DEF MutexRecord
<1>2. 1 \in 0..RT_MUTEX_HOLD_MAX
  BY MutexAssumption
<1>3. n.value = 0 /\ n.owner = t /\ n.hold = 1 /\ n.original_priority = p
  BY <1>1 DEF MutexRecord
<1>4. n = MutexPut(m, 0, t, 1, p)
  BY <1>1 DEF MutexPut
<1> HIDE DEF n
<1>5. 0 \in 0..1
  OBVIOUS
<1>6. n \in MutexRecord
  BY <1>2, <1>4, <1>5, MutexSet
<1>7. n.kind = "mutex"
  BY <1>6 DEF MutexRecord
<1> QED
  BY <1>3, <1>6, <1>7 DEF Held, n

LEMMA HeldNext ==
  ASSUME NEW s, NEW m \in MutexRecord, m.value = 0, m.hold = 1, NEW t \in Thread,
         s.thread[t].current_priority \in Priority
  PROVE  Held(HandOver(s, m, t), t, 1)
<1> DEFINE p == s.thread[t].current_priority
           n == HandOver(s, m, t)
           W == Thread \cup {NoThread}
           P == Priority \cup {255}
           M == [kind : {"mutex"}, value : 0..1, owner : W, original_priority : P,
                 hold : 0..RT_MUTEX_HOLD_MAX, flag : Flag]
<1>1. t \in W /\ p \in P
  OBVIOUS
<1>2. n.kind = "mutex" /\ n.owner = t /\ n.value = 0 /\ n.hold = 1 /\ n.original_priority = p
  BY DEF MutexRecord, HandOver
<1>3. MutexRecord = M
  BY Zenon DEF MutexRecord
<1>4. n = [m EXCEPT !.owner = t, !.original_priority = p]
  BY Zenon DEF HandOver
<1> HIDE DEF n, p, W, P
<1>5. n \in MutexRecord
  BY <1>1, <1>3, <1>4, OwnerFields, Zenon
<1> QED
  BY <1>2, <1>5 DEF Held, n, p

LEMMA FreeAgain ==
  ASSUME NEW m \in MutexRecord, m.value = 0
  PROVE  Free([m EXCEPT !.value = @ + 1, !.owner = NoThread, !.hold = 0,
                        !.original_priority = 255])
<1> DEFINE n == [m EXCEPT !.value = @ + 1, !.owner = NoThread, !.hold = 0,
                          !.original_priority = 255]
<1>1. 0 \in 0..RT_MUTEX_HOLD_MAX
  BY MutexAssumption
<1>2. n.value = 1 /\ n.owner = NoThread /\ n.hold = 0
  BY DEF MutexRecord
<1>3. n = MutexPut(m, 1, NoThread, 0, 255)
  BY DEF MutexPut
<1> HIDE DEF n
<1>4. 1 \in 0..1
  OBVIOUS
<1>5. n \in MutexRecord
  BY <1>1, <1>3, <1>4, MutexSet
<1>6. n.kind = "mutex"
  BY <1>5 DEF MutexRecord
<1> QED
  BY <1>2, <1>5, <1>6 DEF Free, n

(* The running thread takes a mutex or gives it up, and nobody is handed   *)
(* it.                                                                     *)
LEMMA HoldStep ==
  ASSUME SyncInv, NEW t \in Thread, NEW o \in Object, Usable(t, o, "mutex"),
         obj[o].owner \in {t, NoThread}, NEW m, obj' = PutObject(obj, o, m),
         NEW n \in Nat, ghost' = PutGhost(ghost, o, t, n), UNCHANGED <<call, idle>>,
         Full(k'), \A u \in Thread \ {t} : Look(k, k', u), ~Waits(k', t),
         t \notin k'.tm.active, k'.thread[t].stat = "READY",
         \/ Held(m, t, n) /\ n > 0
         \/ Free(m) /\ n = 0 /\ \A u \in Thread : ~WaitsAt(k', u, Waiters(o))
  PROVE  SyncInv'
<1>1. /\ Full(k) /\ IsGhost(ghost) /\ IsObjects(obj) /\ CallsOK(k, call, obj, ghost.held)
      /\ ghost.held \in [Object -> [Thread -> Nat]] /\ ObjectOK(k, call, obj, ghost.held, o)
      /\ idle \in IdlePlace
  BY DEF SyncInv, CallsOK
<1>2. k.current = t /\ call[t].op = "none" /\ obj[o].kind = "mutex"
  BY DEF Usable, IsRunning, Running
<1>3. IsPut(obj, obj', o, m)
  BY <1>1, SetObject
<1>4. IsGhost(ghost') /\ ghost'.held = PutHeld(ghost.held, o, t, n)
  BY <1>1, SetGhostHeld
<1>5. IsHeld(ghost.held, ghost'.held, o, t, n)
  BY <1>1, <1>4, SetHeld
<1>6. obj'[o] = m /\ OnlyObject(obj, obj', ghost.held, ghost'.held, o)
  BY <1>3, <1>5 DEF IsPut, IsHeld, OnlyObject
<1>7. ASSUME NEW u \in Thread \ {t} PROVE ghost'.held[o][u] = 0
  <2>1. MutexOK(k, call, obj[o], ghost.held[o], o)
    BY <1>1, <1>2 DEF ObjectOK
  <2>2. ghost.held[o][u] \in Nat
    BY <1>1
  <2>3. u # NoThread
    BY KernelAssumption DEF All
  <2>4. ~(ghost.held[o][u] > 0)
    BY <2>1, <2>3 DEF MutexOK
  <2> QED
    BY <1>5, <2>2, <2>4 DEF IsHeld
<1>8. ghost'.held[o][t] = n
  BY <1>5 DEF IsHeld
<1>9. t # NoThread
  BY KernelAssumption DEF All
<1>10. MutexOK(k', call, m, ghost'.held[o], o)
  <2>1. CASE Held(m, t, n) /\ n > 0
    BY <1>7, <1>8, <1>9, <2>1 DEF MutexOK, Held
  <2>2. CASE Free(m) /\ n = 0 /\ \A u \in Thread : ~WaitsAt(k', u, Waiters(o))
    <3>1. \A u \in Thread : ~(ghost'.held[o][u] > 0)
      BY <1>7, <1>8, <2>2
    <3> QED
      BY <2>2, <3>1 DEF MutexOK, Free
  <2> QED
    BY <2>1, <2>2
<1>11. m \in MutexRecord /\ m.kind = "mutex"
  BY DEF Held, Free
<1>12. ObjectOK(k', call, obj', ghost'.held, o)
  BY <1>6, <1>10, <1>11 DEF ObjectOK
<1>13. k.thread[t].stat = "READY"
  BY <1>1, <1>2, OnCpu
<1>14. CallsOK(k', call, obj', ghost'.held)
  BY <1>1, <1>2, <1>6, <1>11, <1>12, <1>13, OwnStep
<1> QED
  BY <1>1, <1>4, <1>14 DEF SyncInv

LEMMA MutexTypes ==
  ASSUME SyncInv, NEW t \in Thread, NEW o \in Object, Usable(t, o, "mutex")
  PROVE  /\ k.current = t /\ call[t].op = "none" /\ obj[o] \in MutexRecord
         /\ obj[o].kind = "mutex" /\ obj[o].owner \in Thread \cup {NoThread}
         /\ obj[o].value \in 0..1 /\ obj[o].hold \in 0..RT_MUTEX_HOLD_MAX
         /\ MutexOK(k, call, obj[o], ghost.held[o], o)
         /\ t # NoThread /\ ghost.held[o][t] \in Nat
<1>1. CallsOK(k, call, obj, ghost.held)
  BY DEF SyncInv
<1>2. ObjectOK(k, call, obj, ghost.held, o) /\ ghost.held \in [Object -> [Thread -> Nat]]
  BY <1>1 DEF CallsOK
<1>3. k.current = t /\ call[t].op = "none" /\ obj[o].kind = "mutex"
  BY DEF Usable, IsRunning, Running
<1>4. MutexOK(k, call, obj[o], ghost.held[o], o)
  BY <1>2, <1>3 DEF ObjectOK
<1>5. t # NoThread
  BY KernelAssumption DEF All
<1> QED
  BY <1>2, <1>3, <1>4, <1>5, ObjectTypes

(* rt_mutex_take: the owner takes it once more. *)
LEMMA TakeAgainStep ==
  ASSUME SyncInv, NEW t \in Thread, NEW o \in Object, Usable(t, o, "mutex"),
         obj[o].owner = t, obj[o].hold < RT_MUTEX_HOLD_MAX,
         obj' = PutObject(obj, o, [obj[o] EXCEPT !.hold = obj[o].hold + 1]),
         ghost' = PutGhost(ghost, o, t, ghost.held[o][t] + 1),
         k' = [k EXCEPT !.thread[t].error = "EOK"], UNCHANGED <<call, idle>>
  PROVE  SyncInv'
<1> DEFINE n == obj[o].hold + 1
           m == [obj[o] EXCEPT !.hold = n]
<1>1. /\ k.current = t /\ call[t].op = "none" /\ obj[o] \in MutexRecord /\ t # NoThread
      /\ obj[o].hold \in 0..RT_MUTEX_HOLD_MAX /\ MutexOK(k, call, obj[o], ghost.held[o], o)
  BY MutexTypes
<1>2. /\ ghost.held[o][t] = obj[o].hold /\ obj[o].value = 0
      /\ obj[o].original_priority \in Priority
  BY <1>1, OwnerHolds
<1>3. n \in 0..RT_MUTEX_HOLD_MAX /\ n \in Nat /\ n > 0
  BY <1>1, MutexAssumption
<1>4. obj' = PutObject(obj, o, m) /\ ghost' = PutGhost(ghost, o, t, n)
  BY <1>2
<1> HIDE DEF n
<1>5. Held(m, t, n)
  BY <1>1, <1>2, <1>3, HeldAgain
<1> HIDE DEF m
<1>6. "EOK" \in Error /\ Full(k)
  BY DEF Error, SyncInv
<1>7. /\ Full(k') /\ Only(k, k', t) /\ k'.thread[t].stat = "READY"
      /\ ~Waits(k', t) /\ t \notin k'.tm.active
  BY <1>1, <1>6, ErrorSet
<1>8. \A u \in Thread \ {t} : Look(k, k', u)
  BY <1>7, SameLook DEF Only, All
<1>9. obj[o].owner \in {t, NoThread} /\ UNCHANGED <<call, idle>>
  OBVIOUS
<1> QED
  BY <1>3, <1>4, <1>5, <1>7, <1>8, <1>9, HoldStep

(* rt_mutex_take: it was free. *)
LEMMA TakeFreeStep ==
  ASSUME SyncInv, NEW t \in Thread, NEW o \in Object, Usable(t, o, "mutex"),
         obj[o].value > 0,
         obj' = PutObject(obj, o, [obj[o] EXCEPT !.value = @ - 1, !.owner = t, !.hold = @ + 1,
                                     !.original_priority = k.thread[t].current_priority]),
         ghost' = PutGhost(ghost, o, t, ghost.held[o][t] + 1),
         k' = [k EXCEPT !.thread[t].error = "EOK"], UNCHANGED <<call, idle>>
  PROVE  SyncInv'
<1> DEFINE p == k.thread[t].current_priority
           m == [obj[o] EXCEPT !.value = @ - 1, !.owner = t, !.hold = @ + 1,
                               !.original_priority = p]
<1>1. /\ k.current = t /\ call[t].op = "none" /\ obj[o] \in MutexRecord /\ t # NoThread
      /\ obj[o].value \in 0..1 /\ MutexOK(k, call, obj[o], ghost.held[o], o)
      /\ ghost.held[o][t] \in Nat
  BY MutexTypes
<1>2. obj[o].owner = NoThread /\ obj[o].hold = 0 /\ ~(ghost.held[o][t] > 0)
  BY <1>1 DEF MutexOK
<1>3. ghost.held[o][t] + 1 = 1 /\ 1 \in Nat /\ 1 > 0
  BY <1>1, <1>2
<1>4. ghost' = PutGhost(ghost, o, t, 1)
  BY <1>3
<1>5. obj' = PutObject(obj, o, m)
  OBVIOUS
<1>6. "EOK" \in Error /\ Full(k)
  BY DEF Error, SyncInv
<1>7. p \in Priority
  BY <1>1, <1>6, OnCpu DEF ThreadRecord
<1> HIDE DEF p
<1>8. Held(m, t, 1)
  BY <1>1, <1>2, <1>7, HeldFirst
<1> HIDE DEF m
<1>9. /\ Full(k') /\ Only(k, k', t) /\ k'.thread[t].stat = "READY"
      /\ ~Waits(k', t) /\ t \notin k'.tm.active
  BY <1>1, <1>6, ErrorSet
<1>10. \A u \in Thread \ {t} : Look(k, k', u)
  BY <1>9, SameLook DEF Only, All
<1>11. obj[o].owner \in {t, NoThread} /\ UNCHANGED <<call, idle>>
  BY <1>2
<1> QED
  BY <1>3, <1>4, <1>5, <1>8, <1>9, <1>10, <1>11, HoldStep

(* A mutex call that only tells its caller an error. *)
LEMMA MutexRefusedStep ==
  ASSUME SyncInv, NEW t \in Thread, NEW o \in Object, Usable(t, o, "mutex"),
         NEW e \in Error, k' = [k EXCEPT !.thread[t].error = e],
         UNCHANGED <<obj, ghost, call, idle>>
  PROVE  SyncInv'
<1>1. k.current = t /\ call[t].op = "none"
  BY MutexTypes
<1>2. Full(k) /\ CallsOK(k, call, obj, ghost.held) /\ IsCalls(call)
  BY DEF SyncInv, CallsOK
<1>3. /\ Full(k') /\ Only(k, k', t) /\ k'.thread[t].stat = "READY"
      /\ ~Waits(k', t) /\ t \notin k'.tm.active
  BY <1>1, <1>2, ErrorSet
<1>4. ~Given(k, call, t) /\ k.thread[t].stat = "READY"
  BY <1>1, <1>2, OnCpu DEF Given
<1>5. CallsOK(k', call, obj, ghost.held)
  BY <1>1, <1>2, <1>3, <1>4, AloneStep
<1> QED
  BY <1>3, <1>5 DEF SyncInv

(* rt_mutex_take: the owner is lent the caller's priority, and the caller  *)
(* waits.                                                                  *)
LEMMA LendIs ==
  ASSUME NEW s, Full(s), NEW t \in Thread, NEW m, m.owner \in Thread
  PROVE  LET r == Lend(s, m, t)
         IN  /\ Full(r) /\ SameRegs(s, r) /\ r.tm = s.tm /\ r.defunct = s.defunct
             /\ \A u \in Thread : Look(s, r, u)
<1> DEFINE r == Lend(s, m, t)
           p == s.thread[t].current_priority
<1>1. Sound(s) /\ t \in All /\ m.owner \in All
  BY DEF Full, Live, All
<1>2. p \in Priority
  BY <1>1, TablesTypes DEF Sound, ThreadRecord
<1>3. r = s \/ r = rt_thread_control(s, m.owner, p)
  BY DEF Lend
<1> HIDE DEF r, p
<1>4. ASSUME r = s
      PROVE  /\ Full(r) /\ SameRegs(s, r) /\ r.tm = s.tm /\ r.defunct = s.defunct
             /\ \A u \in Thread : Look(s, r, u)
  BY <1>4, LookSelf DEF SameRegs
<1>5. ASSUME r = rt_thread_control(s, m.owner, p)
      PROVE  /\ Full(r) /\ SameRegs(s, r) /\ r.tm = s.tm /\ r.defunct = s.defunct
             /\ \A u \in Thread : Look(s, r, u)
  <2>1. Reprioritised(s, r, m.owner, p)
    BY <1>1, <1>2, <1>5, ThreadControl
  <2> QED
    BY <2>1, ReprioritisedLook
<1> QED
  BY <1>3, <1>4, <1>5 DEF r

LEMMA MutexBlocksStep ==
  ASSUME SyncInv, NEW t \in Thread, NEW o \in Object, NEW time \in Times \cup {0, Forever},
         Usable(t, o, "mutex"), obj[o].owner # t, obj[o].value = 0, k.lock_nest = 0, time # 0,
         k' = WaitIn(Lend([k EXCEPT !.thread[t].error = "EOK"], obj[o], t), Waiters(o), t,
                     obj[o].flag, time),
         call' = [call EXCEPT ![t] = [op |-> "mutex_take", object |-> o]],
         UNCHANGED <<obj, ghost, idle>>
  PROVE  SyncInv'
<1> DEFINE f == [op |-> "mutex_take", object |-> o]
           q == [k EXCEPT !.thread[t].error = "EOK"]
           s == Lend(q, obj[o], t)
<1>1. /\ k.current = t /\ call[t].op = "none" /\ obj[o].kind = "mutex"
      /\ obj[o].owner \in Thread \cup {NoThread} /\ MutexOK(k, call, obj[o], ghost.held[o], o)
  BY MutexTypes
<1>2. obj[o].owner # NoThread /\ obj[o].owner \in Thread
  BY <1>1 DEF MutexOK
<1>3. /\ Full(k) /\ CallsOK(k, call, obj, ghost.held) /\ IsCalls(call) /\ idle \in IdlePlace
      /\ IsGhost(ghost) /\ "EOK" \in Error
  BY DEF SyncInv, CallsOK, Error
<1>4. Full(q) /\ Only(k, q, t) /\ SameRegs(k, q)
  BY <1>1, <1>3, ErrorSet
<1> HIDE DEF q
<1>5. Full(s) /\ SameRegs(q, s) /\ \A u \in Thread : Look(q, s, u)
  BY <1>2, <1>4, LendIs
<1> HIDE DEF s
<1>6. s.current = t /\ s.lock_nest = 0
  BY <1>1, <1>4, <1>5 DEF SameRegs
<1>7. k' = WaitIn(s, Waiters(o), t, obj[o].flag, time)
  BY DEF s, q
<1>8. Blocked(s, k', t, Waiters(o))
  BY <1>5, <1>6, <1>7, WaitTimes, WaitersIn, WaitInIs
<1>9. CallSet(call, call', t, f)
  BY <1>3, SetCall
<1>10. /\ Full(k') /\ k'.thread[t].stat = "SUSPEND" /\ WaitsOnlyAt(k', t, Waiters(o))
       /\ \A u \in Thread \ {t} : Look(s, k', u)
  BY <1>8, SameLook DEF Blocked, Only, All
<1>11. \A u \in Thread \ {t} : Look(k, k', u)
  <2>1. \A u \in Thread \ {t} : Look(k, q, u)
    BY <1>4, SameLook DEF Only, All
  <2> QED
    BY <1>5, <1>10, <2>1, LookTrans
<1>12. k.thread[t].stat = "READY"
  BY <1>1, <1>3, OnCpu
<1>13. "mutex_take" \in Takes /\ obj[o].kind = WaitKind("mutex_take")
  BY <1>1 DEF Takes, WaitKind
<1>14. CallsOK(k', call', obj, ghost.held)
  BY <1>1, <1>2, <1>3, <1>9, <1>10, <1>11, <1>12, <1>13, BlockedKeeps
<1> QED
  BY <1>3, <1>10, <1>14 DEF SyncInv

LEMMA MutexTakeStep ==
  ASSUME SyncInv, NEW t \in Thread, NEW o \in Object, NEW time \in Times \cup {0, Forever},
         rt_mutex_take(t, o, time)
  PROVE  SyncInv'
<1> DEFINE m == obj[o]
<1>1. Usable(t, o, "mutex")
  BY DEF rt_mutex_take
<1>2. CASE /\ m.owner = t /\ m.hold < RT_MUTEX_HOLD_MAX
           /\ obj' = [obj EXCEPT ![o] = [m EXCEPT !.hold = @ + 1]]
           /\ ghost' = [ghost EXCEPT !.held[o][t] = @ + 1]
           /\ k' = [k EXCEPT !.thread[t].error = "EOK"] /\ UNCHANGED <<call, idle>>
  <2>1. obj' = PutObject(obj, o, [obj[o] EXCEPT !.hold = obj[o].hold + 1])
    BY <1>2 DEF PutObject
  <2>2. ghost' = PutGhost(ghost, o, t, ghost.held[o][t] + 1)
    BY <1>2 DEF PutGhost
  <2> QED
    BY <1>1, <1>2, <2>1, <2>2, TakeAgainStep
<1>3. CASE /\ m.value > 0
           /\ obj' = [obj EXCEPT ![o] =
                        [m EXCEPT !.value = @ - 1, !.owner = t, !.hold = @ + 1,
                                  !.original_priority = k.thread[t].current_priority]]
           /\ ghost' = [ghost EXCEPT !.held[o][t] = @ + 1]
           /\ k' = [k EXCEPT !.thread[t].error = "EOK"] /\ UNCHANGED <<call, idle>>
  <2>1. obj' = PutObject(obj, o, [obj[o] EXCEPT !.value = @ - 1, !.owner = t, !.hold = @ + 1,
                                     !.original_priority = k.thread[t].current_priority])
    BY <1>3 DEF PutObject
  <2>2. ghost' = PutGhost(ghost, o, t, ghost.held[o][t] + 1)
    BY <1>3 DEF PutGhost
  <2> QED
    BY <1>1, <1>3, <2>1, <2>2, TakeFreeStep
<1>4. CASE k' = [k EXCEPT !.thread[t].error = "ETIMEOUT"] /\ UNCHANGED <<obj, ghost, call, idle>>
  <2>1. "ETIMEOUT" \in Error
    BY DEF Error
  <2> QED
    BY <1>1, <1>4, <2>1, MutexRefusedStep
<1>5. CASE /\ m.owner # t /\ m.value = 0 /\ k.lock_nest = 0 /\ time # 0
           /\ k' = WaitIn(Lend([k EXCEPT !.thread[t].error = "EOK"], m, t), Waiters(o), t,
                          m.flag, time)
           /\ call' = [call EXCEPT ![t] = [op |-> "mutex_take", object |-> o]]
           /\ UNCHANGED <<obj, ghost, idle>>
  BY <1>1, <1>5, MutexBlocksStep
<1> QED
  BY <1>2, <1>3, <1>4, <1>5 DEF rt_mutex_take

(* The call that was handed the mutex returns. *)
LEMMA GivenReturnsStep ==
  ASSUME SyncInv, NEW t \in Thread, k.current = t, Given(k, call, t),
         ghost' = PutGhost(ghost, call[t].object, t, ghost.held[call[t].object][t] + 1),
         call' = [call EXCEPT ![t] = Running], UNCHANGED <<k, obj, idle>>
  PROVE  SyncInv'
<1> DEFINE o == call[t].object
           g == ghost'.held
<1>1. /\ Full(k) /\ CallsOK(k, call, obj, ghost.held) /\ IsCalls(call) /\ IsObjects(obj)
      /\ ghost.held \in [Object -> [Thread -> Nat]] /\ idle \in IdlePlace /\ IsGhost(ghost)
  BY DEF SyncInv, CallsOK
<1>2. CallOK(k, call, obj, ghost.held, t) /\ call[t].op = "mutex_take"
  BY <1>1 DEF CallsOK, Given
<1>3. /\ o \in Object /\ obj[o].kind = "mutex" /\ obj[o].owner = t /\ obj[o].hold = 1
      /\ ghost.held[o][t] = 0
  BY <1>2 DEF CallOK, Takes
<1>4. ghost' = PutGhost(ghost, o, t, 1)
  BY <1>3
<1> HIDE DEF o
<1>5. IsGhost(ghost') /\ g = PutHeld(ghost.held, o, t, 1)
  BY <1>1, <1>4, SetGhostHeld
<1>6. IsHeld(ghost.held, g, o, t, 1)
  <2>1. 1 \in Nat
    OBVIOUS
  <2> QED
    BY <1>1, <1>3, <1>5, <2>1, SetHeld
<1> HIDE DEF g
<1>7. CallSet(call, call', t, Running)
  BY <1>1, SetCall
<1>8. call'[t].op = "none" /\ IsCalls(call') /\ \A v \in Thread \ {t} : call'[v] = call[v]
  BY <1>7 DEF CallSet, Running
<1>9. ~Waits(k, t) /\ t \notin k.tm.active /\ k.thread[t].stat = "READY"
  BY <1>1, OnCpu
<1>10. ObjectOK(k, call', obj, g, o)
  <2>1. ObjectOK(k, call, obj, ghost.held, o)
    BY <1>1, <1>3 DEF CallsOK
  <2>2. MutexOK(k, call, obj[o], ghost.held[o], o)
    BY <1>3, <2>1 DEF ObjectOK
  <2>3. /\ g[o][t] = 1 /\ \A u \in Thread \ {t} : g[o][u] = ghost.held[o][u]
    BY <1>6 DEF IsHeld
  <2>4. t # NoThread
    BY KernelAssumption DEF All
  <2>5. \A u \in Thread : g[o][u] > 0 => obj[o].owner = u
    BY <1>3, <2>2, <2>3 DEF MutexOK
  <2>6. MutexOK(k, call', obj[o], g[o], o)
    BY <1>3, <2>2, <2>3, <2>4, <2>5 DEF MutexOK
  <2> QED
    BY <1>3, <2>1, <2>6 DEF ObjectOK
<1>11. OnlyObject(obj, obj, ghost.held, g, o)
  BY <1>1, <1>6 DEF OnlyObject, IsHeld
<1>12. \A u \in Thread : call'[u].op = "init" => call'[u] = call[u] /\ call'[u].object # o
  <2>1. obj[o].kind # "absent"
    BY <1>3
  <2>2. ASSUME NEW u \in Thread, call'[u].op = "init"
        PROVE  call'[u] = call[u] /\ call'[u].object # o
    <3>1. call'[u] = call[u]
      BY <1>8, <2>2
    <3> QED
      BY <1>1, <1>3, <2>1, <2>2, <3>1, NotBeingMade
  <2> QED
    BY <2>2
<1>13. InOrder(k, call, k, call', obj, g, o, t)
  <2>1. CallOK(k, call', obj, g, t)
    BY <1>8, <1>9, NotTaking DEF Takes
  <2> QED
    BY <1>8, <1>9, <2>1, WaitersIn DEF InOrder, Waits, o
<1>14. ASSUME NEW u \in Thread \ {t}
       PROVE  Untouched(k, call, obj, k, call', obj, o, u)
  <2>1. Given(k, call, u) => call[u].object # o
    BY <1>1, <1>3, OwnerGiven
  <2> QED
    BY <1>8, <2>1, LookSelf DEF Untouched
<1>15. \A u \in Thread : Untouched(k, call, obj, k, call', obj, o, u)
                         \/ InOrder(k, call, k, call', obj, g, o, u)
  BY <1>13, <1>14
<1>16. CallsOK(k, call', obj, g)
  BY <1>1, <1>3, <1>8, <1>10, <1>11, <1>12, <1>15, ObjectChange
<1> QED
  BY <1>1, <1>5, <1>16 DEF SyncInv, g

LEMMA MutexTakenStep ==
  ASSUME SyncInv, NEW t \in Thread, MutexTaken(t)
  PROVE  SyncInv'
<1>1. /\ k.current = t /\ call[t].op = "mutex_take" /\ UNCHANGED <<k, obj, idle>>
  BY DEF MutexTaken, Returns
<1>2. call' = [call EXCEPT ![t] = Running]
  BY DEF MutexTaken, Done
<1>3. Full(k) /\ CallsOK(k, call, obj, ghost.held) /\ IsCalls(call) /\ IsGhost(ghost)
       /\ idle \in IdlePlace
  BY DEF SyncInv, CallsOK
<1>4. ~Waits(k, t) /\ t \notin k.tm.active /\ k.thread[t].stat = "READY"
  BY <1>1, <1>3, OnCpu
<1>5. CASE k.thread[t].error = "EOK"
  <2>1. Given(k, call, t)
    BY <1>1, <1>4, <1>5 DEF Given
  <2>2. ghost' = PutGhost(ghost, call[t].object, t, ghost.held[call[t].object][t] + 1)
    BY <1>5 DEF MutexTaken, PutGhost
  <2> QED
    BY <1>1, <1>2, <2>1, <2>2, GivenReturnsStep
<1>6. CASE k.thread[t].error # "EOK"
  <2>1. ~Given(k, call, t) /\ ghost' = ghost
    BY <1>6 DEF Given, MutexTaken
  <2>2. CallSet(call, call', t, Running)
    BY <1>2, <1>3, SetCall
  <2>3. call'[t].op = "none" /\ IsCalls(call') /\ \A v \in Thread \ {t} : call'[v] = call[v]
    BY <2>2 DEF CallSet, Running
  <2>4. Only(k, k, t)
    BY SameSelf DEF Only
  <2>5. CallsOK(k, call', obj, ghost.held)
    BY <1>3, <1>4, <2>1, <2>3, <2>4, AloneStep
  <2> QED
    BY <1>1, <1>3, <2>1, <2>5 DEF SyncInv
<1> QED
  BY <1>5, <1>6

(* rt_mutex_release: one hold of several. *)
LEMMA ReleaseOneStep ==
  ASSUME SyncInv, NEW t \in Thread, NEW o \in Object, Usable(t, o, "mutex"),
         obj[o].owner = t, obj[o].hold > 1,
         obj' = PutObject(obj, o, [obj[o] EXCEPT !.hold = obj[o].hold - 1]),
         ghost' = PutGhost(ghost, o, t, ghost.held[o][t] - 1), UNCHANGED <<k, call, idle>>
  PROVE  SyncInv'
<1> DEFINE n == obj[o].hold - 1
           m == [obj[o] EXCEPT !.hold = n]
<1>1. /\ k.current = t /\ call[t].op = "none" /\ obj[o] \in MutexRecord /\ t # NoThread
      /\ obj[o].hold \in 0..RT_MUTEX_HOLD_MAX /\ MutexOK(k, call, obj[o], ghost.held[o], o)
  BY MutexTypes
<1>2. /\ ghost.held[o][t] = obj[o].hold /\ obj[o].value = 0
      /\ obj[o].original_priority \in Priority
  BY <1>1, OwnerHolds
<1>3. n \in 0..RT_MUTEX_HOLD_MAX /\ n \in Nat /\ n > 0
  BY <1>1, MutexAssumption
<1>4. obj' = PutObject(obj, o, m) /\ ghost' = PutGhost(ghost, o, t, n)
  BY <1>2
<1> HIDE DEF n
<1>5. Held(m, t, n)
  BY <1>1, <1>2, <1>3, HeldAgain
<1> HIDE DEF m
<1>6. Full(k)
  BY DEF SyncInv
<1>7. /\ Full(k') /\ k'.thread[t].stat = "READY" /\ ~Waits(k', t) /\ t \notin k'.tm.active
  BY <1>1, <1>6, OnCpu
<1>8. \A u \in Thread \ {t} : Look(k, k', u)
  BY LookSelf
<1>9. obj[o].owner \in {t, NoThread} /\ UNCHANGED <<call, idle>>
  OBVIOUS
<1> QED
  BY <1>3, <1>4, <1>5, <1>7, <1>8, <1>9, HoldStep

(* The owner's own priority comes back with its last release. *)
LEMMA RestoreIs ==
  ASSUME NEW s, Full(s), NEW m, m.owner \in Thread, m.original_priority \in Priority
  PROVE  LET r == Restore(s, m)
         IN  /\ Full(r) /\ SameRegs(s, r) /\ r.wait = s.wait /\ r.tm = s.tm /\ r.defunct = s.defunct
             /\ \A u \in Thread : Look(s, r, u)
<1> DEFINE r == Restore(s, m)
           p == m.original_priority
<1>1. Sound(s) /\ m.owner \in All
  BY DEF Full, Live, All
<1>2. r = s \/ r = rt_thread_control(s, m.owner, p)
  BY DEF Restore
<1> HIDE DEF r
<1>3. ASSUME r = s
      PROVE  /\ Full(r) /\ SameRegs(s, r) /\ r.wait = s.wait /\ r.tm = s.tm /\ r.defunct = s.defunct
             /\ \A u \in Thread : Look(s, r, u)
  BY <1>3, LookSelf DEF SameRegs
<1>4. ASSUME r = rt_thread_control(s, m.owner, p)
      PROVE  /\ Full(r) /\ SameRegs(s, r) /\ r.wait = s.wait /\ r.tm = s.tm /\ r.defunct = s.defunct
             /\ \A u \in Thread : Look(s, r, u)
  <2>1. Reprioritised(s, r, m.owner, p)
    BY <1>1, <1>4, ThreadControl
  <2> QED
    BY <2>1, ReprioritisedLook
<1> QED
  BY <1>2, <1>3, <1>4 DEF r

LEMMA NobodyWaits ==
  ASSUME NEW s, Sound(s), NEW l \in WaitList
  PROVE  s.wait[l] = <<>> <=> \A u \in Thread : ~WaitsAt(s, u, l)
<1>1. s.wait[l] \in Seq(Thread)
  BY TablesTypes DEF Sound
<1>2. s.wait[l] = <<>> <=> ToSet(s.wait[l]) = {}
  BY <1>1, ListEmpty
<1>3. ToSet(s.wait[l]) \subseteq Thread
  BY <1>1, ListEmpty
<1> QED
  BY <1>2, <1>3 DEF WaitsAt

(* rt_mutex_release: the last hold, and nobody waits. *)
LEMMA ReleaseLastStep ==
  ASSUME SyncInv, NEW t \in Thread, NEW o \in Object, Usable(t, o, "mutex"),
         obj[o].owner = t, obj[o].hold = 1, k.wait[Waiters(o)] = <<>>,
         obj' = PutObject(obj, o, [obj[o] EXCEPT !.value = @ + 1, !.owner = NoThread, !.hold = 0,
                                                 !.original_priority = 255]),
         ghost' = PutGhost(ghost, o, t, ghost.held[o][t] - 1),
         k' = Restore(k, obj[o]), UNCHANGED <<call, idle>>
  PROVE  SyncInv'
<1> DEFINE m == [obj[o] EXCEPT !.value = @ + 1, !.owner = NoThread, !.hold = 0,
                               !.original_priority = 255]
<1>1. /\ k.current = t /\ call[t].op = "none" /\ obj[o] \in MutexRecord /\ t # NoThread
      /\ MutexOK(k, call, obj[o], ghost.held[o], o)
  BY MutexTypes
<1>2. /\ ghost.held[o][t] = obj[o].hold /\ obj[o].value = 0
      /\ obj[o].original_priority \in Priority
  BY <1>1, OwnerHolds
<1>3. obj' = PutObject(obj, o, m)
  OBVIOUS
<1>4. ghost' = PutGhost(ghost, o, t, 0) /\ 0 \in Nat
  BY <1>2
<1>5. Free(m)
  BY <1>1, <1>2, FreeAgain
<1> HIDE DEF m
<1>6. Full(k) /\ Sound(k)
  BY DEF SyncInv, Full, Live
<1>7. /\ Full(k') /\ SameRegs(k, k') /\ k'.wait = k.wait /\ k'.tm = k.tm
      /\ \A u \in Thread : Look(k, k', u)
  BY <1>2, <1>6, RestoreIs
<1>8. \A u \in Thread : ~WaitsAt(k', u, Waiters(o))
  BY <1>6, <1>7, NobodyWaits, WaitersIn DEF WaitsAt
<1>9. k'.thread[t].stat = "READY" /\ ~Waits(k', t) /\ t \notin k'.tm.active
  <2>1. k'.current = t
    BY <1>1, <1>7 DEF SameRegs
  <2> QED
    BY <1>7, <2>1, OnCpu
<1>10. obj[o].owner \in {t, NoThread} /\ UNCHANGED <<call, idle>>
  OBVIOUS
<1> QED
  BY <1>3, <1>4, <1>5, <1>7, <1>8, <1>9, <1>10, HoldStep

(* rt_mutex_release: the last hold goes to the first thread that waits. *)
LEMMA HandOverStep ==
  ASSUME SyncInv, NEW t \in Thread, NEW o \in Object, Usable(t, o, "mutex"),
         obj[o].owner = t, obj[o].hold = 1, k.wait[Waiters(o)] # <<>>,
         obj' = PutObject(obj, o, HandOver(Restore(k, obj[o]), obj[o], Head(k.wait[Waiters(o)]))),
         ghost' = PutGhost(ghost, o, t, ghost.held[o][t] - 1),
         k' = rt_schedule(rt_ipc_list_resume(Restore(k, obj[o]), Waiters(o))),
         UNCHANGED <<call, idle>>
  PROVE  SyncInv'
<1> DEFINE s == Restore(k, obj[o])
           u == Head(k.wait[Waiters(o)])
           m == HandOver(s, obj[o], u)
           g == ghost'.held
<1>1. /\ k.current = t /\ call[t].op = "none" /\ obj[o] \in MutexRecord /\ t # NoThread
      /\ obj[o].kind = "mutex" /\ MutexOK(k, call, obj[o], ghost.held[o], o)
  BY MutexTypes
<1>2. /\ ghost.held[o][t] = obj[o].hold /\ obj[o].value = 0
      /\ obj[o].original_priority \in Priority
  BY <1>1, OwnerHolds
<1>3. /\ Full(k) /\ CallsOK(k, call, obj, ghost.held) /\ IsCalls(call) /\ IsObjects(obj)
      /\ ghost.held \in [Object -> [Thread -> Nat]] /\ idle \in IdlePlace /\ IsGhost(ghost)
  BY DEF SyncInv, CallsOK
<1>4. /\ Full(s) /\ SameRegs(k, s) /\ s.wait = k.wait /\ \A v \in Thread : Look(k, s, v)
  BY <1>2, <1>3, RestoreIs
<1>5. obj' = PutObject(obj, o, m) /\ k' = rt_schedule(rt_ipc_list_resume(s, Waiters(o)))
  OBVIOUS
<1> HIDE DEF s
<1>6. /\ u \in Thread /\ WaitsAt(s, u, Waiters(o)) /\ s.thread[u].error = "EOK"
      /\ u # s.current /\ Woke(s, k', u)
  BY <1>4, <1>5, WaitersIn, WakeHead
<1> HIDE DEF u
<1>7. u # t /\ WaitsAt(k, u, Waiters(o))
  BY <1>1, <1>4, <1>6, WaitersIn DEF SameRegs, Look
<1>8. Held(m, u, 1)
  <2>1. s.thread[u].current_priority \in Priority
    <3>1. s.thread[u] \in ThreadRecord
      BY <1>4, <1>6, TablesTypes DEF Full, Live, Sound, All
    <3> QED
      BY <3>1 DEF ThreadRecord
  <2> QED
    BY <1>1, <1>2, <1>6, <2>1, HeldNext
<1> HIDE DEF m
<1>9. ghost' = PutGhost(ghost, o, t, 0) /\ 0 \in Nat
  BY <1>2
<1>10. IsGhost(ghost') /\ g = PutHeld(ghost.held, o, t, 0)
  BY <1>3, <1>9, SetGhostHeld
<1>11. IsHeld(ghost.held, g, o, t, 0)
  BY <1>3, <1>9, <1>10, SetHeld
<1> HIDE DEF g
<1>12. IsPut(obj, obj', o, m)
  BY <1>3, <1>5, SetObject
<1>13. obj'[o] = m /\ OnlyObject(obj, obj', ghost.held, g, o)
  BY <1>11, <1>12 DEF IsPut, IsHeld, OnlyObject
<1>14. \A v \in Thread : g[o][v] = 0
  <2>1. ASSUME NEW v \in Thread \ {t} PROVE g[o][v] = 0
    <3>1. ghost.held[o][v] \in Nat /\ ~(ghost.held[o][v] > 0)
      BY <1>1, <1>3 DEF MutexOK
    <3> QED
      BY <1>11, <3>1 DEF IsHeld
  <2> QED
    BY <1>11, <2>1 DEF IsHeld
<1>15. call[u] = [op |-> "mutex_take", object |-> o]
  <2>1. CallOK(k, call, obj, ghost.held, u)
    BY <1>3, <1>6 DEF CallsOK
  <2>2. /\ call[u].op \in Takes /\ Waiters(o) = Waiters(call[u].object)
        /\ obj[call[u].object].kind = WaitKind(call[u].op)
    BY <1>7, <2>1, WaitersIn DEF CallOK
  <2>3. call[u].object = o
    BY <2>2, WaitersDiffer
  <2>4. call[u].op = "mutex_take"
    BY <1>1, <2>2, <2>3 DEF Takes, WaitKind
  <2> QED
    BY <2>1, <2>2, <2>3, <2>4 DEF CallOK
<1>16. /\ Full(k') /\ ~Waits(k', u) /\ u \notin k'.tm.active /\ k'.thread[u].stat = "READY"
       /\ k'.thread[u].error = "EOK" /\ \A v \in Thread \ {u} : Look(s, k', v)
  BY <1>6, SameLook DEF Woke, Only, All
<1>17. \A v \in Thread \ {u} : Look(k, k', v)
  BY <1>4, <1>16, LookTrans
<1>18. call[u].op = "mutex_take" /\ call[u].object = o
  BY <1>15
<1>19. Given(k', call, u)
  BY <1>16, <1>18 DEF Given
<1>20. u # NoThread
  BY <1>6, KernelAssumption DEF All
<1>21. MutexOK(k', call, m, g[o], o)
  <2>1. \A v \in Thread : ~(g[o][v] > 0)
    BY <1>14
  <2>2. g[o][u] = 0
    BY <1>6, <1>14
  <2> QED
    BY <1>8, <1>15, <1>19, <1>20, <2>1, <2>2 DEF MutexOK, Held
<1>22. m \in MutexRecord /\ m.kind = "mutex" /\ m.owner = u /\ m.hold = 1
  BY <1>8 DEF Held
<1>23. ObjectOK(k', call, obj', g, o)
  BY <1>13, <1>21, <1>22 DEF ObjectOK
<1>24. \A v \in Thread : call[v].op = "init" => call[v] = call[v] /\ call[v].object # o
  <2>1. obj[o].kind # "absent"
    BY <1>1
  <2> QED
    BY <1>3, <2>1, NotBeingMade
<1>25. ASSUME NEW v \in StaticThread, k.thread[v].stat = "CLOSE"
       PROVE  k'.thread[v].stat = "CLOSE"
  <2>1. v \in Thread /\ v \in All /\ Sound(k)
    BY <1>3, KernelAssumption DEF All, Full, Live
  <2>2. ~WaitsAt(k, v, Waiters(o))
    BY <1>25, <2>1, WaitersIn DEF Sound, Coherent
  <2>3. v # u
    BY <1>7, <2>2
  <2> QED
    BY <1>17, <1>25, <2>1, <2>3 DEF Look
<1>26. InOrder(k, call, k', call, obj', g, o, u)
  <2>1. Waits(k, u)
    BY <1>7, WaitersIn DEF Waits
  <2>2. ~Given(k, call, u)
    BY <2>1 DEF Given
  <2>3. g[o][u] = 0
    BY <1>6, <1>14
  <2>4. CallOK(k', call, obj', g, u)
    BY <1>13, <1>15, <1>16, <1>18, <1>22, <2>3 DEF CallOK, Waits, Takes
  <2> QED
    BY <1>16, <1>18, <2>2, <2>4, WaitersIn DEF InOrder, Waits
<1>27. ASSUME NEW v \in Thread \ {u}
       PROVE  Untouched(k, call, obj, k', call, obj', o, v)
  <2>1. obj[o].owner \in {t, NoThread}
    OBVIOUS
  <2>2. Given(k, call, v) => call[v].object # o
    BY <1>1, <1>3, <2>1, NoneGiven
  <2> QED
    BY <1>1, <1>13, <1>17, <1>22, <2>2 DEF Untouched
<1>28. \A v \in Thread : Untouched(k, call, obj, k', call, obj', o, v)
                         \/ InOrder(k, call, k', call, obj', g, o, v)
  BY <1>26, <1>27
<1>29. CallsOK(k', call, obj', g)
  BY <1>3, <1>13, <1>23, <1>24, <1>25, <1>28, ObjectChange
<1> QED
  BY <1>3, <1>10, <1>16, <1>29 DEF SyncInv, g

LEMMA MutexReleaseStep ==
  ASSUME SyncInv, NEW t \in Thread, NEW o \in Object, rt_mutex_release(t, o)
  PROVE  SyncInv'
<1> DEFINE m == obj[o]
           queue == k.wait[Waiters(o)]
<1>1. Usable(t, o, "mutex") /\ UNCHANGED <<call, idle>>
  BY DEF rt_mutex_release
<1>2. CASE k' = [k EXCEPT !.thread[t].error = "ERROR"] /\ UNCHANGED <<obj, ghost>>
  <2>1. "ERROR" \in Error
    BY DEF Error
  <2> QED
    BY <1>1, <1>2, <2>1, MutexRefusedStep
<1>3. CASE /\ m.owner = t /\ m.hold > 1 /\ obj' = [obj EXCEPT ![o].hold = @ - 1]
           /\ ghost' = [ghost EXCEPT !.held[o][t] = @ - 1] /\ UNCHANGED k
  <2>1. obj' = PutObject(obj, o, [obj[o] EXCEPT !.hold = obj[o].hold - 1])
    BY <1>3 DEF PutObject
  <2>2. ghost' = PutGhost(ghost, o, t, ghost.held[o][t] - 1)
    BY <1>3 DEF PutGhost
  <2> QED
    BY <1>1, <1>3, <2>1, <2>2, ReleaseOneStep
<1>4. CASE /\ m.owner = t /\ m.hold = 1 /\ queue # <<>>
           /\ obj' = [obj EXCEPT ![o] = HandOver(Restore(k, m), m, Head(queue))]
           /\ ghost' = [ghost EXCEPT !.held[o][t] = @ - 1]
           /\ k' = rt_schedule(rt_ipc_list_resume(Restore(k, m), Waiters(o)))
  <2>1. obj' = PutObject(obj, o, HandOver(Restore(k, obj[o]), obj[o], Head(k.wait[Waiters(o)])))
    BY <1>4 DEF PutObject
  <2>2. ghost' = PutGhost(ghost, o, t, ghost.held[o][t] - 1)
    BY <1>4 DEF PutGhost
  <2> QED
    BY <1>1, <1>4, <2>1, <2>2, HandOverStep
<1>5. CASE /\ m.owner = t /\ m.hold = 1 /\ queue = <<>>
           /\ obj' = [obj EXCEPT ![o] = [m EXCEPT !.value = @ + 1, !.owner = NoThread,
                                                  !.hold = 0, !.original_priority = 255]]
           /\ ghost' = [ghost EXCEPT !.held[o][t] = @ - 1] /\ k' = Restore(k, m)
  <2>1. obj' = PutObject(obj, o, [obj[o] EXCEPT !.value = @ + 1, !.owner = NoThread, !.hold = 0,
                                                !.original_priority = 255])
    BY <1>5 DEF PutObject
  <2>2. ghost' = PutGhost(ghost, o, t, ghost.held[o][t] - 1)
    BY <1>5 DEF PutGhost
  <2> QED
    BY <1>1, <1>5, <2>1, <2>2, ReleaseLastStep
<1> QED
  BY <1>2, <1>3, <1>4, <1>5 DEF rt_mutex_release

-----------------------------------------------------------------------------
(* The start of the system, and all its steps. *)
LEMMA SetupObjects ==
  ASSUME NEW f \in Setups, NEW o \in Object
  PROVE  Absent(f[o]) \in AbsentRecord /\ Absent(f[o]).kind = "absent"
<1>1. f[o] \in {"none", "sem", "mutex"}
  BY SyncAssumption
<1>2. Absent(f[o]) \in AbsentRecord
  BY <1>1, Zenon DEF AbsentRecord
<1> QED
  BY <1>2 DEF Absent

LEMMA SyncStart ==
  ASSUME Init
  PROVE  SyncInv
<1>1. /\ Full(k) /\ \A t \in All : ~Waits(k, t) /\ t \notin k.tm.active
  BY SystemStart DEF Init, KernelInit
<1>2. call = [t \in Thread |-> Running] /\ idle = Looping
  BY DEF Init, KernelInit
<1>3. ghost = [permits |-> 0, held |-> [o \in Object |-> [t \in Thread |-> 0]]]
  BY DEF Init
<1>4. PICK f \in Setups : obj = [o \in Object |-> Absent(f[o])]
  BY DEF Init
<1>5. IsCalls(call) /\ \A t \in Thread : call[t].op = "none"
  BY <1>2 DEF IsCalls, Running
<1>6. IsObjects(obj) /\ \A o \in Object : obj[o] = Absent(f[o])
  BY <1>4 DEF IsObjects
<1>7. /\ IsGhost(ghost) /\ ghost.held \in [Object -> [Thread -> Nat]]
      /\ \A o \in Object, t \in Thread : ghost.held[o][t] = 0
  BY <1>3 DEF IsGhost
<1>8. ASSUME NEW t \in Thread
      PROVE  CallOK(k, call, obj, ghost.held, t) /\ MakerOK(k, call, obj, t)
  <2>1. ~Waits(k, t) /\ t \notin k.tm.active /\ call[t].op = "none"
    BY <1>1, <1>5 DEF All
  <2>2. CallOK(k, call, obj, ghost.held, t)
    BY <2>1, NotTaking DEF Takes
  <2> QED
    BY <2>1, <2>2 DEF MakerOK
<1>9. ASSUME NEW o \in Object
      PROVE  ObjectOK(k, call, obj, ghost.held, o)
  <2>1. obj[o] \in AbsentRecord /\ obj[o].kind = "absent"
    BY <1>6, SetupObjects
  <2> QED
    BY <1>7, <2>1 DEF ObjectOK
<1>10. OneMaker(call)
  BY <1>5 DEF OneMaker
<1>11. idle \in IdlePlace
  BY <1>2 DEF IdlePlace
<1> QED
  BY <1>1, <1>5, <1>6, <1>7, <1>8, <1>9, <1>10, <1>11 DEF SyncInv, CallsOK

LEMMA ThreadLifeStep ==
  ASSUME SyncInv, ThreadLife
  PROVE  SyncInv'
BY CreateStep, InitThreadStep, ThreadInitedStep, StartupStep, ExitStep, DeleteStep DEF ThreadLife

LEMMA SleepingStep ==
  ASSUME SyncInv, Sleeping
  PROVE  SyncInv'
BY SleepStep, DelayUntilStep, AwakeStep, YieldStep DEF Sleeping

LEMMA ControlStep ==
  ASSUME SyncInv, Control
  PROVE  SyncInv'
BY SuspendStep, ResumeStep, SetPriorityStep, EnterCriticalStep, ExitCriticalStep DEF Control

LEMMA SemaphoresStep ==
  ASSUME SyncInv, Semaphores
  PROVE  SyncInv'
<1>1. PICK t \in Thread, o \in Object :
        \/ \E v \in SemValue, f \in FlagsOf[o] : SemMade(t, o, v, f)
        \/ SemInited(t) \/ rt_sem_detach(t, o) \/ rt_sem_delete(t, o)
        \/ \E time \in Times \cup {0, Forever} : rt_sem_take(t, o, time)
        \/ SemTaken(t) \/ rt_sem_release(t, o)
        \/ \E v \in SemValue : rt_sem_control(t, o, v)
  BY DEF Semaphores
<1>2. FlagsOf[o] \subseteq Flag
  BY IpcAssumption
<1> QED
  BY <1>1, <1>2, SemMadeStep, SemInitedStep, SemGoneStep, SemTakeStep, SemTakenStep,
     SemReleaseStep, SemControlStep

LEMMA MutexStepsStep ==
  ASSUME SyncInv, MutexSteps
  PROVE  SyncInv'
<1>1. PICK t \in Thread, o \in Object :
        \/ \E f \in FlagsOf[o] : MutexMade(t, o, f)
        \/ MutexInited(t) \/ rt_mutex_detach(t, o) \/ rt_mutex_delete(t, o)
        \/ \E time \in Times \cup {0, Forever} : rt_mutex_take(t, o, time)
        \/ MutexTaken(t) \/ rt_mutex_release(t, o)
  BY DEF MutexSteps
<1>2. FlagsOf[o] \subseteq Flag
  BY IpcAssumption
<1> QED
  BY <1>1, <1>2, MutexMadeStep, MutexInitedStep, MutexGoneStep, MutexTakeStep,
     MutexTakenStep, MutexReleaseStep

LEMMA SyncNext ==
  ASSUME SyncInv, [Next]_vars
  PROVE  SyncInv'
<1>1. CASE Next
  BY <1>1, ThreadLifeStep, SleepingStep, ControlStep, IdleThreadStep, SemaphoresStep,
     MutexStepsStep DEF Next
<1>2. CASE UNCHANGED vars
  <2>1. UNCHANGED <<k, call, idle, obj, ghost>>
    BY <1>2 DEF vars, kernelVars, ipcVars
  <2> QED
    BY <2>1 DEF SyncInv
<1> QED
  BY <1>1, <1>2

(* The inductive invariant holds of every behaviour. *)
THEOREM SyncAlways == Spec => []SyncInv
<1>1. Init => SyncInv
  BY SyncStart
<1>2. SyncInv /\ [Next]_vars => SyncInv'
  BY SyncNext
<1> QED
  BY <1>1, <1>2, PTL DEF Spec

LEMMA ExclusionHolds ==
  ASSUME SyncInv
  PROVE  MutualExclusion
<1>1. /\ CallsOK(k, call, obj, ghost.held) /\ Sound(k)
      /\ ghost.held \in [Object -> [Thread -> Nat]]
  BY DEF SyncInv, CallsOK, Full, Live
<1> SUFFICES ASSUME NEW o \in Object
             PROVE  IF obj[o].kind # "mutex" THEN Holders(o) = {}
                    ELSE LET m == obj[o]
                         IN  /\ Holders(o) \subseteq {m.owner}
                             /\ m.owner = NoThread <=> m.value = 1 /\ m.hold = 0
                             /\ m.owner # NoThread =>
                                  \/ ghost.held[o][m.owner] = m.hold
                                  \/ /\ ghost.held[o][m.owner] = 0 /\ m.hold = 1
                                     /\ call[m.owner] = [op |-> "mutex_take", object |-> o]
                                     /\ ~InWaitList(m.owner) /\ k.thread[m.owner].error = "EOK"
                             /\ k.wait[Waiters(o)] # <<>> => m.owner # NoThread
  BY DEF MutualExclusion
<1>2. ObjectOK(k, call, obj, ghost.held, o)
  BY <1>1 DEF CallsOK
<1>3. CASE obj[o].kind # "mutex"
  <2>1. \A t \in Thread : ghost.held[o][t] = 0
    BY <1>2, <1>3 DEF ObjectOK
  <2> QED
    BY <1>3, <2>1 DEF Holders
<1>4. CASE obj[o].kind = "mutex"
  <2> DEFINE m == obj[o]
  <2>1. MutexOK(k, call, m, ghost.held[o], o)
    BY <1>2, <1>4 DEF ObjectOK
  <2>2. Holders(o) \subseteq {m.owner}
    BY <2>1 DEF Holders, MutexOK
  <2>3. m.owner = NoThread <=> m.value = 1 /\ m.hold = 0
    BY <2>1 DEF MutexOK
  <2>4. m.owner # NoThread =>
          \/ ghost.held[o][m.owner] = m.hold
          \/ /\ ghost.held[o][m.owner] = 0 /\ m.hold = 1
             /\ call[m.owner] = [op |-> "mutex_take", object |-> o]
             /\ ~InWaitList(m.owner) /\ k.thread[m.owner].error = "EOK"
    BY <1>1, <2>1, InWaitListIs DEF MutexOK, Given
  <2>5. k.wait[Waiters(o)] # <<>> => m.owner # NoThread
    BY <1>1, <2>1, NobodyWaits, WaitersIn DEF MutexOK
  <2> QED
    BY <1>4, <2>2, <2>3, <2>4, <2>5
<1> QED
  BY <1>3, <1>4

(* ipc.c gives a mutex to one thread at a time, whatever take, release,    *)
(* hand-over, time-out, detach and delete come in between, and to the one  *)
(* that the object names as its owner, as often as it counts.              *)
THEOREM MutexExclusion == Spec => []MutualExclusion
<1>1. SyncInv => MutualExclusion
  BY ExclusionHolds
<1> QED
  BY <1>1, SyncAlways, PTL

(* Where a thread can be, from what its state says. *)
LEMMA PlacesIn ==
  ASSUME Sound(k), NEW t \in All, NEW x \in Places(t)
  PROVE  \/ \E p \in Priority : \E i \in At(k.ready[p], t) :
              x = <<"ready", p, i>> /\ IsReadyAt(k, t, p)
         \/ \E l \in WaitList : \E i \in At(k.wait[l], t) :
              x = <<"wait", l, i>> /\ WaitsAt(k, t, l)
         \/ \E i \in At(k.defunct, t) : x = <<"defunct", 0, i>> /\ IsDefunct(k, t)
<1>1. CASE x \in UNION {{<<"ready", p, i>> : i \in At(k.ready[p], t)} : p \in Priority}
  <2>1. PICK p \in Priority : x \in {<<"ready", p, i>> : i \in At(k.ready[p], t)}
    BY <1>1
  <2>2. PICK i \in At(k.ready[p], t) : x = <<"ready", p, i>>
    BY <2>1
  <2>3. IsReadyAt(k, t, p)
    BY <2>2 DEF At, IsReadyAt, ToSet
  <2> QED
    BY <2>2, <2>3
<1>2. CASE x \in UNION {{<<"wait", l, i>> : i \in At(k.wait[l], t)} : l \in WaitList}
  <2>1. PICK l \in WaitList : x \in {<<"wait", l, i>> : i \in At(k.wait[l], t)}
    BY <1>2
  <2>2. PICK i \in At(k.wait[l], t) : x = <<"wait", l, i>>
    BY <2>1
  <2>3. WaitsAt(k, t, l)
    BY <2>2 DEF At, WaitsAt, ToSet
  <2> QED
    BY <2>2, <2>3
<1>3. CASE x \in {<<"defunct", 0, i>> : i \in At(k.defunct, t)}
  <2>1. PICK i \in At(k.defunct, t) : x = <<"defunct", 0, i>>
    BY <1>3
  <2>2. IsDefunct(k, t)
    BY <2>1 DEF At, IsDefunct, ToSet
  <2> QED
    BY <2>1, <2>2
<1> DEFINE R == UNION {{<<"ready", p, i>> : i \in At(k.ready[p], t)} : p \in Priority}
           W == UNION {{<<"wait", l, i>> : i \in At(k.wait[l], t)} : l \in WaitList}
           D == {<<"defunct", 0, i>> : i \in At(k.defunct, t)}
<1>4. Places(t) = R \cup W \cup D
  BY DEF Places
<1> HIDE DEF R, W, D
<1>5. x \in R \/ x \in W \/ x \in D
  BY <1>4
<1> QED
  BY <1>1, <1>2, <1>3, <1>5, Zenon DEF R, W, D

LEMMA OnePlace ==
  ASSUME Sound(k), NEW t \in All, NEW x \in Places(t), NEW y \in Places(t)
  PROVE  x = y
<1>1. Tables(k) /\ Coherent(k, t)
  BY DEF Sound
<1>2. /\ \A p \in Priority : Once(k.ready[p])
      /\ \A l \in WaitList : Once(k.wait[l])
      /\ Once(k.defunct)
  BY <1>1 DEF Tables
<1>3. /\ \A p \in Priority : \A i, j \in At(k.ready[p], t) : i = j
      /\ \A l \in WaitList : \A i, j \in At(k.wait[l], t) : i = j
      /\ \A i, j \in At(k.defunct, t) : i = j
  BY <1>2 DEF At, Once
<1>4. /\ \A p, q \in Priority : IsReadyAt(k, t, p) /\ IsReadyAt(k, t, q) => p = q
      /\ \A l, m \in WaitList : WaitsAt(k, t, l) /\ WaitsAt(k, t, m) => l = m
      /\ \A p \in Priority, l \in WaitList : ~(IsReadyAt(k, t, p) /\ WaitsAt(k, t, l))
      /\ \A p \in Priority : ~(IsReadyAt(k, t, p) /\ IsDefunct(k, t))
      /\ \A l \in WaitList : ~(WaitsAt(k, t, l) /\ IsDefunct(k, t))
  BY <1>1 DEF Coherent
<1>5. CASE \E p \in Priority : \E i \in At(k.ready[p], t) :
             x = <<"ready", p, i>> /\ IsReadyAt(k, t, p)
  <2>1. \E p \in Priority : \E i \in At(k.ready[p], t) :
          y = <<"ready", p, i>> /\ IsReadyAt(k, t, p)
    BY <1>4, <1>5, PlacesIn
  <2> QED
    BY <1>3, <1>4, <1>5, <2>1
<1>6. CASE \E l \in WaitList : \E i \in At(k.wait[l], t) :
             x = <<"wait", l, i>> /\ WaitsAt(k, t, l)
  <2>1. \E l \in WaitList : \E i \in At(k.wait[l], t) :
          y = <<"wait", l, i>> /\ WaitsAt(k, t, l)
    BY <1>4, <1>6, PlacesIn
  <2> QED
    BY <1>3, <1>4, <1>6, <2>1
<1>7. CASE \E i \in At(k.defunct, t) : x = <<"defunct", 0, i>> /\ IsDefunct(k, t)
  <2>1. \E i \in At(k.defunct, t) : y = <<"defunct", 0, i>> /\ IsDefunct(k, t)
    BY <1>4, <1>7, PlacesIn
  <2> QED
    BY <1>3, <1>7, <2>1
<1> QED
  BY <1>5, <1>6, <1>7, PlacesIn

LEMMA TableHolds ==
  ASSUME SyncInv
  PROVE  ReadyTable
<1>1. Sound(k) /\ Tables(k) /\ k.thread[k.current].stat = "READY"
  BY DEF SyncInv, Full, Live, Sound
<1>2. k.group = {p \in Priority : k.ready[p] # <<>>}
  BY <1>1 DEF Tables
<1>3. ASSUME NEW t \in All
      PROVE  /\ (k.thread[t].stat = "READY") <=> Contains(k.ready[k.thread[t].current_priority], t)
             /\ k.thread[t].stat = "READY" => k.thread[t].number_mask = {k.thread[t].current_priority}
  <2> DEFINE p == k.thread[t].current_priority
  <2>1. Coherent(k, t) /\ p \in Priority
    BY <1>1, TablesTypes, ThreadTypes DEF Sound
  <2>2. k.ready[p] \in Seq(All)
    BY <1>1, <2>1, TablesTypes
  <2>3. Contains(k.ready[p], t) <=> IsReadyAt(k, t, p)
    BY <2>2, ContainsIs DEF IsReadyAt
  <2> QED
    BY <2>1, <2>3 DEF Coherent
<1>4. \A t \in All : \A x, y \in Places(t) : x = y
  BY <1>1, OnePlace
<1> QED
  BY <1>1, <1>2, <1>3, <1>4 DEF ReadyTable

(* scheduler.c, thread.c, timer.c and ipc.c keep the ready table: exactly  *)
(* the ready threads are in it, each in one list and once, the bits of the *)
(* priority group are right, and the CPU is with a ready thread.           *)
THEOREM TableKept == Spec => []ReadyTable
<1>1. SyncInv => ReadyTable
  BY TableHolds
<1> QED
  BY <1>1, SyncAlways, PTL

-----------------------------------------------------------------------------
(* object.c: a thread that was made and not yet freed. *)
Alive(s, t) == s.thread[t].stat \notin {"NONE", "CLOSE"} \/ IsDefunct(s, t)

Filed(s, b) ==
  /\ s.lock_nest <= MaxNest
  /\ \A t \in All : t \in s.registered <=> Alive(s, t)
  /\ \A o \in Object : o \in s.registered <=> b[o].kind # "absent"

(* The least that may be left of a timer: only while the idle thread is    *)
(* inside rt_tick_increase may one have expired.                           *)
Least(i) == IF i = Looping THEN 1 ELSE 0

(* A thread to which a permit was given and whose call has not returned. *)
Gift(s, c, t) == c[t].op = "sem_take" /\ ~Waits(s, t) /\ s.thread[t].error = "EOK"
Gifts(s, c) == {t \in Thread : Gift(s, c, t)}

ValueOf(m) == IF m.kind = "sem" THEN m.value ELSE 0
Values(b) == [o \in Object |-> ValueOf(b[o])]

Account(s, c, b, n) ==
  /\ n = Cardinality(Gifts(s, c)) + Sum(Values(b), Object)
  /\ \A o \in Object : ValueOf(b[o]) # 0 => \A t \in Thread : ~WaitsAt(s, t, Waiters(o))

(* What is kept besides SyncInv. *)
Ledger ==
  /\ Filed(k, obj) /\ InTime(k.tm, k.tick, Least(idle))
  /\ Account(k, call, obj, ghost.permits)

-----------------------------------------------------------------------------
(* The container. *)
Lives(s, r, t) == Alive(r, t) <=> Alive(s, t)

LEMMA SameLives ==
  ASSUME NEW s, NEW r, NEW t, Same(s, r, t)
  PROVE  Lives(s, r, t)
BY DEF Same, Lives, Alive

LEMMA LookLives ==
  ASSUME NEW s, NEW r, NEW t, Look(s, r, t), IsDefunct(r, t) <=> IsDefunct(s, t)
  PROVE  Lives(s, r, t)
BY DEF Look, Lives, Alive

LEMMA OnlyLives ==
  ASSUME NEW s, NEW r, NEW t, Only(s, r, t)
  PROVE  \A u \in Thread \ {t} : Lives(s, r, u)
BY SameLives DEF Only, All

LEMMA UpAlive ==
  ASSUME NEW s, NEW t, s.thread[t].stat \in {"INIT", "READY", "SUSPEND"}
  PROVE  Alive(s, t)
BY DEF Alive

LEMMA IdleAlive ==
  ASSUME NEW s, Full(s)
  PROVE  Alive(s, Idle)
BY UpAlive DEF Full, Live

LEMMA FiledKept ==
  ASSUME NEW s, NEW b, Filed(s, b), NEW r, NEW a, Full(s), Full(r),
         \A u \in Thread : Lives(s, r, u), r.registered = s.registered,
         r.lock_nest = s.lock_nest,
         \A o \in Object : a[o].kind = "absent" <=> b[o].kind = "absent"
  PROVE  Filed(r, a)
<1>1. Alive(s, Idle) /\ Alive(r, Idle)
  BY IdleAlive
<1> QED
  BY <1>1 DEF Filed, Lives, All

(* A thread comes or goes. *)
LEMMA FiledThread ==
  ASSUME NEW s, NEW b, Filed(s, b), NEW r, Full(s), Full(r), NEW t \in Thread,
         \A u \in Thread \ {t} : Lives(s, r, u),
         \A x \in (All \cup Object) \ {t} : x \in r.registered <=> x \in s.registered,
         t \in r.registered <=> Alive(r, t), r.lock_nest = s.lock_nest
  PROVE  Filed(r, b)
<1>1. Alive(s, Idle) /\ Alive(r, Idle) /\ t \notin Object /\ Idle # t
  BY IdleAlive, IpcAssumption, KernelAssumption DEF All
<1>2. \A u \in All : u \in r.registered <=> Alive(r, u)
  BY <1>1 DEF Filed, Lives, All
<1>3. \A o \in Object : o \in r.registered <=> b[o].kind # "absent"
  BY <1>1 DEF Filed
<1> QED
  BY <1>2, <1>3 DEF Filed

(* An object comes or goes. *)
LEMMA FiledObject ==
  ASSUME NEW s, NEW b, Filed(s, b), NEW r, NEW a, Full(s), Full(r), NEW o \in Object,
         \A u \in Thread : Lives(s, r, u), \A x \in Object \ {o} : a[x] = b[x],
         \A x \in (All \cup Object) \ {o} : x \in r.registered <=> x \in s.registered,
         o \in r.registered <=> a[o].kind # "absent", r.lock_nest = s.lock_nest
  PROVE  Filed(r, a)
<1>1. Alive(s, Idle) /\ Alive(r, Idle) /\ o \notin All
  BY IdleAlive, IpcAssumption
<1>2. \A u \in All : u \in r.registered <=> Alive(r, u)
  BY <1>1 DEF Filed, Lives, All
<1>3. \A x \in Object : x \in r.registered <=> a[x].kind # "absent"
  BY <1>1 DEF Filed
<1> QED
  BY <1>2, <1>3 DEF Filed

-----------------------------------------------------------------------------
(* The permits. *)
Owes(s, c, r, d, b, t) ==
  /\ Gift(r, d, t) <=> Gift(s, c, t)
  /\ \A o \in Object :
       WaitsAt(r, t, Waiters(o)) => WaitsAt(s, t, Waiters(o)) \/ ValueOf(b[o]) = 0

LEMMA LookOwes ==
  ASSUME NEW s, NEW c, NEW r, NEW d, NEW b, NEW t, Look(s, r, t), d[t] = c[t]
  PROVE  Owes(s, c, r, d, b, t)
<1>1. Waits(r, t) <=> Waits(s, t)
  BY LookGiven
<1>2. Gift(r, d, t) <=> Gift(s, c, t)
  BY <1>1 DEF Look, Gift
<1> QED
  BY <1>2, WaitersIn DEF Look, Owes

LEMMA OnlyOwes ==
  ASSUME NEW s, NEW c, NEW r, NEW d, NEW b, NEW t, Only(s, r, t),
         \A u \in Thread \ {t} : d[u] = c[u]
  PROVE  \A u \in Thread \ {t} : Owes(s, c, r, d, b, u)
BY LookOwes, SameLook DEF Only, All

LEMMA QuietOwes ==
  ASSUME NEW s, NEW c, NEW r, NEW d, NEW b, NEW t, ~Waits(r, t), ~Gift(s, c, t), ~Gift(r, d, t)
  PROVE  Owes(s, c, r, d, b, t)
BY WaitersIn DEF Owes, Waits

LEMMA ValuesNat ==
  ASSUME NEW s, NEW c, NEW b, NEW h, CallsOK(s, c, b, h)
  PROVE  \A o \in Object : ValueOf(b[o]) \in Nat
<1> SUFFICES ASSUME NEW o \in Object PROVE ValueOf(b[o]) \in Nat
  OBVIOUS
<1>1. b[o].kind = "sem" => b[o] \in SemRecord
  BY ObjectTypes DEF CallsOK
<1>2. b[o].kind = "sem" => b[o].value \in Nat
  BY <1>1, SemAssumption DEF SemRecord, SemValue
<1> QED
  BY <1>2 DEF ValueOf

LEMMA GiftsFinite ==
  ASSUME NEW s, NEW c
  PROVE  IsFiniteSet(Gifts(s, c)) /\ Cardinality(Gifts(s, c)) \in Nat
<1>1. Gifts(s, c) \subseteq Thread
  BY DEF Gifts
<1> QED
  BY <1>1, FiniteAssumption, FS_Subset, FS_CardinalityType

(* One object's value changes. *)
LEMMA SumPut ==
  ASSUME NEW b, NEW a, NEW o \in Object, NEW m, IsPut(b, a, o, m), ValueOf(m) \in Nat,
         \A x \in Object : ValueOf(b[x]) \in Nat
  PROVE  /\ Sum(Values(b), Object) \in Nat
         /\ Sum(Values(a), Object) = Sum(Values(b), Object) - ValueOf(b[o]) + ValueOf(m)
<1> DEFINE R == Object \ {o}
           w == Values(b)
           v == Values(a)
<1>1. \A x \in Object : w[x] \in Nat /\ v[x] \in Nat
  BY DEF Values, IsPut
<1>2. \A x \in R : v[x] = w[x]
  BY DEF Values, IsPut
<1>3. w[o] = ValueOf(b[o]) /\ v[o] = ValueOf(m)
  BY DEF Values, IsPut
<1>4. IsFiniteSet(Object) /\ IsFiniteSet(R)
  BY FiniteAssumption, FS_Subset
<1> HIDE DEF w, v
<1>5. Sum(w, Object) = w[o] + Sum(w, R) /\ Sum(v, Object) = v[o] + Sum(v, R)
  BY <1>1, <1>4, SumTake
<1>6. Sum(w, R) = Sum(v, R) /\ Sum(w, R) \in Nat
  BY <1>1, <1>2, <1>4, SumSame, SumNat
<1> QED
  BY <1>1, <1>3, <1>5, <1>6 DEF w, v

LEMMA AccountPut ==
  ASSUME NEW s, NEW c, NEW b, NEW n, Account(s, c, b, n), NEW r, NEW d, NEW a,
         NEW o \in Object, NEW m, IsPut(b, a, o, m), ValueOf(m) \in Nat,
         \A x \in Object : ValueOf(b[x]) \in Nat,
         \A u \in Thread : Owes(s, c, r, d, b, u),
         ValueOf(m) # 0 => \A u \in Thread : ~WaitsAt(r, u, Waiters(o))
  PROVE  Account(r, d, a, n - ValueOf(b[o]) + ValueOf(m))
<1>1. Gifts(r, d) = Gifts(s, c)
  BY DEF Gifts, Owes
<1>2. Cardinality(Gifts(s, c)) \in Nat
  BY GiftsFinite
<1>3. /\ Sum(Values(b), Object) \in Nat
      /\ Sum(Values(a), Object) = Sum(Values(b), Object) - ValueOf(b[o]) + ValueOf(m)
  BY SumPut
<1>4. n = Cardinality(Gifts(s, c)) + Sum(Values(b), Object)
  BY DEF Account
<1>5. n - ValueOf(b[o]) + ValueOf(m) = Cardinality(Gifts(r, d)) + Sum(Values(a), Object)
  BY <1>1, <1>2, <1>3, <1>4
<1>6. ASSUME NEW x \in Object, ValueOf(a[x]) # 0, NEW u \in Thread
      PROVE  ~WaitsAt(r, u, Waiters(x))
  <2>1. CASE x = o
    BY <1>6, <2>1 DEF IsPut
  <2>2. CASE x # o
    <3>1. a[x] = b[x]
      BY <2>2 DEF IsPut
    <3>2. ~WaitsAt(s, u, Waiters(x)) /\ ValueOf(b[x]) # 0
      BY <1>6, <3>1 DEF Account
    <3> QED
      BY <3>2 DEF Owes
  <2> QED
    BY <2>1, <2>2
<1> QED
  BY <1>5, <1>6 DEF Account

(* No value changes. *)
LEMMA AccountKept ==
  ASSUME NEW s, NEW c, NEW b, NEW n, Account(s, c, b, n), NEW r, NEW d, NEW a,
         \A x \in Object : ValueOf(a[x]) = ValueOf(b[x]),
         \A u \in Thread : Owes(s, c, r, d, b, u)
  PROVE  Account(r, d, a, n)
<1>1. Gifts(r, d) = Gifts(s, c)
  BY DEF Gifts, Owes
<1>2. Values(a) = Values(b)
  BY DEF Values
<1>3. \A x \in Object : ValueOf(a[x]) # 0 => \A u \in Thread : ~WaitsAt(r, u, Waiters(x))
  BY DEF Account, Owes
<1> QED
  BY <1>1, <1>2, <1>3 DEF Account

(* A permit is given to t, or t returns with it. *)
LEMMA AccountGives ==
  ASSUME NEW s, NEW c, NEW b, NEW n, Account(s, c, b, n), NEW r, NEW d, NEW t \in Thread,
         \A x \in Object : ValueOf(b[x]) \in Nat,
         \A u \in Thread \ {t} : Owes(s, c, r, d, b, u), ~Waits(r, t),
         ~Gift(s, c, t), Gift(r, d, t)
  PROVE  Account(r, d, b, n + 1)
<1>1. Gifts(r, d) = Gifts(s, c) \cup {t} /\ t \notin Gifts(s, c)
  BY DEF Gifts, Owes
<1>2. Cardinality(Gifts(r, d)) = Cardinality(Gifts(s, c)) + 1 /\ Cardinality(Gifts(s, c)) \in Nat
  BY <1>1, GiftsFinite, FS_AddElement
<1>3. Sum(Values(b), Object) \in Nat
  BY FiniteAssumption, SumNat DEF Values
<1>4. \A x \in Object : ~WaitsAt(r, t, Waiters(x))
  BY WaitersIn DEF Waits
<1>5. \A x \in Object : ValueOf(b[x]) # 0 => \A u \in Thread : ~WaitsAt(r, u, Waiters(x))
  BY <1>4 DEF Account, Owes
<1>6. n + 1 = Cardinality(Gifts(r, d)) + Sum(Values(b), Object)
  BY <1>2, <1>3 DEF Account
<1> QED
  BY <1>5, <1>6 DEF Account

LEMMA AccountPays ==
  ASSUME NEW s, NEW c, NEW b, NEW n, Account(s, c, b, n), NEW r, NEW d, NEW t \in Thread,
         \A x \in Object : ValueOf(b[x]) \in Nat,
         \A u \in Thread \ {t} : Owes(s, c, r, d, b, u), ~Waits(r, t),
         Gift(s, c, t), ~Gift(r, d, t)
  PROVE  Account(r, d, b, n - 1)
<1>1. Gifts(s, c) = Gifts(r, d) \cup {t} /\ t \notin Gifts(r, d)
  BY DEF Gifts, Owes
<1>2. Cardinality(Gifts(s, c)) = Cardinality(Gifts(r, d)) + 1 /\ Cardinality(Gifts(r, d)) \in Nat
  BY <1>1, GiftsFinite, FS_AddElement
<1>3. Sum(Values(b), Object) \in Nat
  BY FiniteAssumption, SumNat DEF Values
<1>4. \A x \in Object : ~WaitsAt(r, t, Waiters(x))
  BY WaitersIn DEF Waits
<1>5. \A x \in Object : ValueOf(b[x]) # 0 => \A u \in Thread : ~WaitsAt(r, u, Waiters(x))
  BY <1>4 DEF Account, Owes
<1>6. n - 1 = Cardinality(Gifts(r, d)) + Sum(Values(b), Object)
  BY <1>2, <1>3 DEF Account
<1> QED
  BY <1>5, <1>6 DEF Account

-----------------------------------------------------------------------------
(* A step that changes neither the container nor the clock. *)
InClock(s, r) ==
  /\ r.registered = s.registered /\ r.lock_nest = s.lock_nest
  /\ r.tick = s.tick /\ KeptTime(s.tm, r.tm, s.tick)

LEMMA StillInTime ==
  ASSUME NEW s, NEW r, NEW i, r.tick = s.tick, KeptTime(s.tm, r.tm, s.tick),
         InTime(s.tm, s.tick, Least(i))
  PROVE  InTime(r.tm, r.tick, Least(i))
BY DEF KeptTime, Least

LEMMA KeptTimeSelf ==
  ASSUME NEW tm, NEW now
  PROVE  KeptTime(tm, tm, now)
BY DEF KeptTime

LEMMA LedgerKept ==
  ASSUME SyncInv, SyncInv', Ledger, InClock(k, k'), idle' = idle,
         ghost'.permits = ghost.permits,
         \A u \in Thread : Lives(k, k', u) /\ Owes(k, call, k', call', obj, u),
         \A x \in Object : /\ ValueOf(obj'[x]) = ValueOf(obj[x])
                           /\ obj'[x].kind = "absent" <=> obj[x].kind = "absent"
  PROVE  Ledger'
<1>1. Full(k) /\ Full(k')
  BY DEF SyncInv
<1>2. Filed(k', obj')
  BY <1>1, FiledKept DEF Ledger, InClock
<1>3. InTime(k'.tm, k'.tick, Least(idle'))
  BY StillInTime DEF Ledger, InClock
<1>4. Account(k', call', obj', ghost'.permits)
  BY AccountKept DEF Ledger
<1> QED
  BY <1>2, <1>3, <1>4 DEF Ledger

(* One thread moves. *)
LEMMA OneMoves ==
  ASSUME SyncInv, SyncInv', Ledger, InClock(k, k'), UNCHANGED <<idle, obj, ghost>>,
         NEW t \in Thread, Only(k, k', t), \A u \in Thread \ {t} : call'[u] = call[u],
         Lives(k, k', t), Owes(k, call, k', call', obj, t)
  PROVE  Ledger'
<1>1. \A u \in Thread : Lives(k, k', u) /\ Owes(k, call, k', call', obj, u)
  BY OnlyLives, OnlyOwes
<1> QED
  BY <1>1, LedgerKept

(* The objects see no thread move. *)
LEMMA NoneMoves ==
  ASSUME SyncInv, SyncInv', Ledger, InClock(k, k'), UNCHANGED idle,
         ghost'.permits = ghost.permits, UNCHANGED call,
         \A u \in Thread : Look(k, k', u) /\ (IsDefunct(k', u) <=> IsDefunct(k, u)),
         \A x \in Object : /\ ValueOf(obj'[x]) = ValueOf(obj[x])
                           /\ obj'[x].kind = "absent" <=> obj[x].kind = "absent"
  PROVE  Ledger'
<1>1. \A u \in Thread : Lives(k, k', u) /\ Owes(k, call, k', call', obj, u)
  BY LookLives, LookOwes
<1> QED
  BY <1>1, LedgerKept

LEMMA NotTakingSem ==
  ASSUME NEW s, NEW c, NEW t, c[t].op # "sem_take"
  PROVE  ~Gift(s, c, t)
BY DEF Gift

-----------------------------------------------------------------------------
(* The threads. *)
LEMMA MadeBooks ==
  ASSUME SyncInv, SyncInv', Ledger, NEW t \in Thread, Only(k, k', t),
         k'.thread[t].stat = "INIT", ~Waits(k', t), k'.registered = k.registered \cup {t},
         k'.lock_nest = k.lock_nest, k'.tick = k.tick, KeptTime(k.tm, k'.tm, k.tick),
         UNCHANGED <<idle, obj, ghost>>, call[t].op # "sem_take", call'[t].op # "sem_take",
         \A u \in Thread \ {t} : Owes(k, call, k', call', obj, u)
  PROVE  Ledger'
<1>1. Full(k) /\ Full(k')
  BY DEF SyncInv
<1>2. Alive(k', t) /\ \A u \in Thread \ {t} : Lives(k, k', u)
  BY UpAlive, OnlyLives
<1>3. Filed(k', obj')
  BY <1>1, <1>2, FiledThread DEF Ledger
<1>4. InTime(k'.tm, k'.tick, Least(idle'))
  BY StillInTime DEF Ledger
<1>5. \A u \in Thread : Owes(k, call, k', call', obj, u)
  BY NotTakingSem, QuietOwes
<1>6. Account(k', call', obj', ghost'.permits)
  BY <1>5, AccountKept DEF Ledger
<1> QED
  BY <1>3, <1>4, <1>6 DEF Ledger

LEMMA CreateBooks ==
  ASSUME SyncInv, SyncInv', Ledger, NEW t \in Thread, NEW u \in Thread, Create(t, u),
         UNCHANGED ipcVars
  PROVE  Ledger'
<1>1. /\ k' = ThreadSetup([k EXCEPT !.registered = @ \cup {u}], u)
      /\ k.thread[u].stat = "NONE" /\ UNCHANGED <<call, idle, obj, ghost>>
  BY DEF Create, rt_thread_create, rt_object_allocate, ipcVars
<1>2. Full(k) /\ CallsOK(k, call, obj, ghost.held)
  BY DEF SyncInv
<1>3. u \in All /\ Coherent(k, u) /\ ~IsDefunct(k, u)
  BY <1>1, <1>2 DEF Full, Live, Sound, Coherent, All
<1>4. /\ Only(k, k', u) /\ k'.thread[u].stat = "INIT" /\ ~Waits(k', u)
      /\ k'.registered = k.registered \cup {u} /\ k'.lock_nest = k.lock_nest
      /\ k'.tick = k.tick /\ KeptTime(k.tm, k'.tm, k.tick)
  BY <1>1, <1>2, <1>3, MakeThread
<1>5. call[u].op # "sem_take" /\ call'[u].op # "sem_take"
  BY <1>1, <1>2 DEF CallsOK, CallOK
<1>6. \A v \in Thread \ {u} : Owes(k, call, k', call', obj, v)
  BY <1>1, <1>4, OnlyOwes
<1> QED
  BY <1>1, <1>4, <1>5, <1>6, MadeBooks

(* Nothing but the thread that runs changes. *)
LEMMA RescheduledClock ==
  ASSUME NEW s, NEW r, Sound(s), Rescheduled(s, r)
  PROVE  /\ InClock(s, r)
         /\ \A u \in Thread : Look(s, r, u) /\ (IsDefunct(r, u) <=> IsDefunct(s, u))
<1>1. \A u \in Thread : Look(s, r, u) /\ (IsDefunct(r, u) <=> IsDefunct(s, u))
  BY RescheduledSame, SameLook DEF All, Same
<1> QED
  BY <1>1, KeptTimeSelf DEF Rescheduled, InClock

(* The search of the container in an _init function. *)
LEMMA FindBooks ==
  ASSUME SyncInv, SyncInv', Ledger, NEW t \in Thread, k.current = t, call[t] = Running,
         k' = rt_object_find(k), NEW f, f.op = "init", call' = [call EXCEPT ![t] = f],
         UNCHANGED <<idle, obj>>, ghost'.permits = ghost.permits
  PROVE  Ledger'
<1>1. Full(k) /\ Sound(k) /\ IsCalls(call)
  BY DEF SyncInv, Full, Live, CallsOK
<1>2. Rescheduled(k, k')
  BY <1>1, ObjectFind
<1>3. /\ InClock(k, k')
      /\ \A u \in Thread : Look(k, k', u) /\ (IsDefunct(k', u) <=> IsDefunct(k, u))
  BY <1>1, <1>2, RescheduledClock
<1>4. CallSet(call, call', t, f)
  BY <1>1, SetCall
<1>5. call[t].op # "sem_take" /\ call'[t].op # "sem_take"
  BY <1>4 DEF CallSet, Running
<1>6. ~Waits(k', t)
  BY <1>1, <1>3, OnCpu, LookGiven
<1>7. \A u \in Thread : Owes(k, call, k', call', obj, u)
  <2>1. Owes(k, call, k', call', obj, t)
    BY <1>5, <1>6, NotTakingSem, QuietOwes
  <2>2. \A u \in Thread \ {t} : Owes(k, call, k', call', obj, u)
    BY <1>3, <1>4, LookOwes DEF CallSet
  <2> QED
    BY <2>1, <2>2
<1>8. \A u \in Thread : Lives(k, k', u)
  BY <1>3, LookLives
<1> QED
  BY <1>3, <1>7, <1>8, LedgerKept

LEMMA InitThreadBooks ==
  ASSUME SyncInv, SyncInv', Ledger, NEW t \in Thread, NEW u \in Thread, InitThread(t, u),
         UNCHANGED ipcVars
  PROVE  Ledger'
<1> DEFINE f == [op |-> "init", object |-> u]
<1>1. /\ k' = rt_object_find(k) /\ call' = [call EXCEPT ![t] = f]
      /\ k.current = t /\ call[t] = Running /\ UNCHANGED <<idle, obj, ghost>>
  BY DEF InitThread, FindFirst, IsRunning, ipcVars
<1>2. f.op = "init"
  OBVIOUS
<1> HIDE DEF f
<1> QED
  BY <1>1, <1>2, FindBooks

LEMMA ThreadInitedBooks ==
  ASSUME SyncInv, SyncInv', Ledger, NEW t \in Thread, ThreadInited(t), UNCHANGED ipcVars
  PROVE  Ledger'
<1> DEFINE u == call[t].object
<1>1. /\ k' = ThreadSetup([k EXCEPT !.registered = @ \cup {u}], u)
      /\ call' = [call EXCEPT ![t] = Running]
      /\ k.current = t /\ call[t].op = "init" /\ u \in Thread
      /\ UNCHANGED <<idle, obj, ghost>>
  BY DEF ThreadInited, Returns, rt_thread_init, rt_object_init, ipcVars
<1>2. Full(k) /\ CallsOK(k, call, obj, ghost.held) /\ IsCalls(call)
  BY DEF SyncInv, CallsOK
<1>3. u \in StaticThread /\ k.thread[u].stat = "CLOSE"
  <2>1. MakerOK(k, call, obj, t)
    BY <1>2 DEF CallsOK
  <2>2. u \notin Object
    BY <1>1, IpcAssumption DEF All
  <2> QED
    BY <1>1, <2>1, <2>2 DEF MakerOK
<1>4. u \in All /\ Coherent(k, u) /\ ~IsDefunct(k, u)
  BY <1>1, <1>2, <1>3 DEF Full, Live, Sound, Coherent, All
<1>5. /\ Only(k, k', u) /\ k'.thread[u].stat = "INIT" /\ ~Waits(k', u)
      /\ k'.registered = k.registered \cup {u} /\ k'.lock_nest = k.lock_nest
      /\ k'.tick = k.tick /\ KeptTime(k.tm, k'.tm, k.tick)
  <2> HIDE DEF u
  <2>1. k' = ThreadSetup([k EXCEPT !.registered = @ \cup {u}], u) /\ u \in Thread /\ Full(k)
    BY <1>1, <1>2
  <2> QED
    BY <1>3, <1>4, <2>1, MakeThread
<1> HIDE DEF u
<1>6. CallSet(call, call', t, Running)
  BY <1>1, <1>2, SetCall
<1>7. call[u].op = "none" /\ u # t
  BY <1>1, <1>2, <1>3 DEF CallsOK, CallOK
<1>8. /\ call'[u].op # "sem_take" /\ call'[t].op # "sem_take" /\ call[t].op # "sem_take"
      /\ \A v \in Thread \ {t} : call'[v] = call[v]
  BY <1>1, <1>6, <1>7 DEF CallSet, Running
<1>9. \A v \in Thread \ {u} : Look(k, k', v)
  BY <1>5, SameLook DEF Only, All
<1>10. ~Waits(k', t)
  <2>1. ~Waits(k, t)
    BY <1>1, <1>2, OnCpu
  <2>2. Look(k, k', t)
    BY <1>7, <1>9
  <2> QED
    BY <2>1, <2>2, LookGiven
<1>11. \A v \in Thread \ {u} : Owes(k, call, k', call', obj, v)
  <2>1. Owes(k, call, k', call', obj, t)
    BY <1>8, <1>10, NotTakingSem, QuietOwes
  <2>2. \A v \in Thread \ {u, t} : Owes(k, call, k', call', obj, v)
    BY <1>8, <1>9, LookOwes
  <2> QED
    BY <2>1, <2>2
<1> QED
  BY <1>1, <1>5, <1>7, <1>8, <1>11, MadeBooks

LEMMA StartupBooks ==
  ASSUME SyncInv, SyncInv', Ledger, NEW t \in Thread, NEW u \in Thread, Startup(t, u),
         UNCHANGED ipcVars
  PROVE  Ledger'
<1> DEFINE q == rt_thread_resume(StartedUp(k, u), u)
<1>1. /\ k' = rt_thread_startup(k, u) /\ k.current = t /\ k.thread[u].stat = "INIT"
      /\ UNCHANGED <<call, idle, obj, ghost>>
  BY DEF Startup, IsRunning, ipcVars
<1>2. Full(k) /\ CallsOK(k, call, obj, ghost.held) /\ Sound(k) /\ u \in All
  BY DEF SyncInv, Full, Live, All
<1>3. k' = rt_schedule(q)
  <2>1. k.current # NoThread
    BY <1>1, KernelAssumption DEF All
  <2> QED
    BY <1>1, <2>1 DEF rt_thread_startup, StartedUp
<1>4. /\ Sound(q) /\ Only(k, q, u) /\ SameRegs(k, q) /\ q.thread[u].stat = "READY"
      /\ ~Waits(q, u) /\ q.tm = k.tm
  BY <1>1, <1>2, Start
<1> HIDE DEF q
<1>5. k.current \in All /\ k.thread[k.current].stat = "READY" /\ k.current # u
  BY <1>1, <1>2 DEF Full
<1>6. q.thread[k.current].stat = "READY"
  BY <1>4, <1>5 DEF Only, Same
<1>7. /\ Only(k, k', u) /\ SameClock(k, k') /\ k'.thread = q.thread /\ k'.wait = q.wait
      /\ k'.tm = q.tm
  BY <1>2, <1>3, <1>4, <1>6, ThenSchedule
<1>8. InClock(k, k')
  BY <1>4, <1>7, KeptTimeSelf DEF SameClock, InClock
<1>9. ~Waits(k', u) /\ Alive(k', u) /\ Alive(k, u)
  BY <1>1, <1>4, <1>7, UpAlive DEF Waits, WaitsAt
<1>10. call[u].op # "sem_take"
  BY <1>1, <1>2 DEF CallsOK, CallOK
<1>11. Owes(k, call, k', call', obj, u)
  BY <1>1, <1>9, <1>10, NotTakingSem, QuietOwes
<1> QED
  BY <1>1, <1>7, <1>8, <1>9, <1>11, OneMoves DEF Lives

(* A thread ends: it leaves the container, now or with the idle thread.    *)
LEMMA EndBooks ==
  ASSUME SyncInv, SyncInv', Ledger, NEW t \in Thread, NEW q, Ended(k, q, t), Only(k, k', t),
         k'.thread = q.thread, k'.wait = q.wait, k'.defunct = q.defunct, k'.tm = q.tm,
         k'.registered = q.registered, k'.lock_nest = q.lock_nest, k'.tick = q.tick,
         k.thread[t].stat \in {"INIT", "READY", "SUSPEND"},
         ~Gift(k, call, t), call'[t].op # "sem_take",
         \A u \in Thread \ {t} : call'[u] = call[u], UNCHANGED <<idle, obj, ghost>>
  PROVE  Ledger'
<1>1. Full(k) /\ Full(k') /\ Sound(k) /\ TimersKept(k.tm) /\ t \in All
  BY DEF SyncInv, Full, Live, Sound, Tables, All
<1>2. /\ k'.lock_nest = k.lock_nest /\ k'.tick = k.tick /\ k'.thread[t].stat = "CLOSE"
      /\ k'.tm = rt_timer_detach(k.tm, t)
      /\ \/ k'.registered = k.registered \ {t} /\ ~IsDefunct(k', t)
         \/ k'.registered = k.registered /\ IsDefunct(k', t)
  BY DEF Ended, IsDefunct
<1>3. ~Waits(k', t)
  BY DEF Ended, Waits, WaitsAt
<1>4. t \in k.registered
  BY <1>1, UpAlive DEF Ledger, Filed
<1>5. t \in k'.registered <=> Alive(k', t)
  BY <1>2, <1>4 DEF Alive
<1>6. \A x \in (All \cup Object) \ {t} : x \in k'.registered <=> x \in k.registered
  BY <1>2
<1>7. \A u \in Thread \ {t} : Lives(k, k', u)
  BY OnlyLives
<1>8. Filed(k', obj')
  BY <1>1, <1>2, <1>5, <1>6, <1>7, FiledThread DEF Ledger
<1>9. KeptTime(k.tm, k'.tm, k.tick)
  BY <1>1, <1>2, DetachInTime
<1>10. InTime(k'.tm, k'.tick, Least(idle'))
  BY <1>2, <1>9, StillInTime DEF Ledger
<1>11. \A u \in Thread : Owes(k, call, k', call', obj, u)
  BY <1>3, NotTakingSem, QuietOwes, OnlyOwes
<1>12. Account(k', call', obj', ghost'.permits)
  BY <1>11, AccountKept DEF Ledger
<1> QED
  BY <1>8, <1>10, <1>12 DEF Ledger

LEMMA ExitBooks ==
  ASSUME SyncInv, SyncInv', Ledger, NEW t \in Thread, Exit(t), UNCHANGED ipcVars
  PROVE  Ledger'
<1> DEFINE q == IF rt_object_is_systemobject(t) THEN rt_thread_detach(k, t)
                ELSE rt_thread_delete(k, t)
<1>1. /\ k.current = t /\ k.lock_nest = 0 /\ call[t] = Running
      /\ UNCHANGED <<call, idle, obj, ghost>>
  BY DEF Exit, IsRunning, ipcVars
<1>2. k' = rt_schedule(q)
  BY <1>1 DEF Exit, rt_thread_exit
<1>3. Full(k) /\ Sound(k) /\ k.thread[t].stat = "READY"
  BY <1>1 DEF SyncInv, Full, Live
<1>4. Ended(k, q, t)
  BY <1>3, EndIs
<1> HIDE DEF q
<1>5. Sound(q) /\ Only(k, q, t) /\ q.lock_nest = 0
  BY <1>1, <1>4 DEF Ended
<1>6. Live(q)
  <2>1. Idle \in All \ {t}
    BY KernelAssumption DEF All
  <2>2. q.thread[Idle] = k.thread[Idle]
    BY <1>5, <2>1 DEF Only, Same
  <2> QED
    BY <1>3, <1>5, <2>2 DEF Full, Live
<1>7. Rescheduled(q, k')
  BY <1>2, <1>5, <1>6, ScheduleIs
<1>8. \A u \in All : Same(q, k', u)
  BY <1>5, <1>7, RescheduledSame
<1>9. Only(k, k', t)
  BY <1>5, <1>8, OnlyTrans DEF Only
<1>10. call[t].op # "sem_take"
  BY <1>1 DEF Running
<1>11. /\ k'.thread = q.thread /\ k'.wait = q.wait /\ k'.defunct = q.defunct /\ k'.tm = q.tm
       /\ k'.registered = q.registered /\ k'.lock_nest = q.lock_nest /\ k'.tick = q.tick
  BY <1>7 DEF Rescheduled
<1> QED
  BY <1>1, <1>3, <1>4, <1>9, <1>10, <1>11, NotTakingSem, EndBooks

LEMMA DeleteBooks ==
  ASSUME SyncInv, SyncInv', Ledger, NEW t \in Thread, NEW u \in Thread, Delete(t, u),
         UNCHANGED ipcVars
  PROVE  Ledger'
<1>1. /\ k.current = t /\ u # t /\ k.thread[u].stat \notin {"NONE", "CLOSE"} /\ MayBeDeleted(u)
      /\ call' = [call EXCEPT ![u] = Running] /\ UNCHANGED <<idle, obj, ghost>>
      /\ k' = IF rt_object_is_systemobject(u) THEN rt_thread_detach(k, u)
              ELSE rt_thread_delete(k, u)
  BY DEF Delete, IsRunning, ipcVars
<1>2. Full(k) /\ CallsOK(k, call, obj, ghost.held) /\ Sound(k) /\ IsCalls(call)
  BY DEF SyncInv, Full, Live, CallsOK
<1>3. u \in All /\ k.thread[u].stat \in {"INIT", "READY", "SUSPEND"}
  <2>1. u \in All /\ k.thread[u] \in ThreadRecord
    BY <1>2, TablesTypes DEF All, Sound
  <2> QED
    BY <1>1, <2>1 DEF ThreadRecord, Stat
<1>4. Ended(k, k', u)
  BY <1>1, <1>2, <1>3, EndIs
<1>5. Only(k, k', u)
  BY <1>4 DEF Ended
<1>6. CallSet(call, call', u, Running)
  BY <1>1, <1>2, SetCall
<1>7. call'[u].op # "sem_take" /\ \A v \in Thread \ {u} : call'[v] = call[v]
  BY <1>6 DEF CallSet, Running
<1>8. ~Gift(k, call, u)
  BY <1>1, <1>2, InWaitListIs DEF MayBeDeleted, Gift
<1> QED
  BY <1>1, <1>3, <1>4, <1>5, <1>7, <1>8, EndBooks

-----------------------------------------------------------------------------
LEMMA SleepsBooks ==
  ASSUME SyncInv, SyncInv', Ledger, NEW t \in Thread, IsRunning(t), k.lock_nest = 0,
         NEW time \in 1..(Half - 1), k' = rt_thread_sleep(k, time),
         call' = [call EXCEPT ![t] = [op |-> "sleep"]], UNCHANGED <<idle, obj, ghost>>
  PROVE  Ledger'
<1> DEFINE f == [op |-> "sleep"]
<1>1. Full(k) /\ IsCalls(call) /\ k.current = t /\ call[t] = Running
  BY DEF SyncInv, CallsOK, IsRunning
<1>2. time \in Tick
  BY HalfTick, TickAssumption DEF Tick
<1>3. /\ Only(k, k', t) /\ SameClock(k, k')
      /\ k'.thread[t] = [k.thread[t] EXCEPT !.stat = "SUSPEND"] /\ ~Waits(k', t)
      /\ k'.tm = SetTime(rt_timer_start(SetTime(rt_timer_stop(k.tm, t), t, time), k.tick, t), t, 0)
  BY <1>1, <1>2, ThreadSleep
<1>4. Alive(k', t) /\ Alive(k, t)
  BY <1>1, <1>3, OnCpu, UpAlive DEF ThreadRecord
<1>5. CallSet(call, call', t, f)
  BY <1>1, SetCall
<1>6. /\ call[t].op # "sem_take" /\ call'[t].op # "sem_take"
      /\ \A v \in Thread \ {t} : call'[v] = call[v]
  BY <1>1, <1>5 DEF CallSet, Running
<1>7. InClock(k, k')
  <2>1. TimersKept(k.tm) /\ t \in All /\ k.tick \in Tick
    BY <1>1, TablesTypes DEF Full, Live, Sound, Tables, All
  <2>2. KeptTime(k.tm, rt_timer_stop(k.tm, t), k.tick)
    BY <2>1, StopInTime
  <2>3. TimersKept(rt_timer_stop(k.tm, t))
    BY <2>1, TimerStop DEF TimerOff
  <2>4. KeptTime(rt_timer_stop(k.tm, t), k'.tm, k.tick)
    BY <1>3, <2>1, <2>3, SetStartInTime
  <2> QED
    BY <1>3, <2>2, <2>4, KeptTimeTrans DEF SameClock, InClock
<1>8. Owes(k, call, k', call', obj, t)
  BY <1>3, <1>6, NotTakingSem, QuietOwes
<1> QED
  BY <1>3, <1>4, <1>6, <1>7, <1>8, OneMoves DEF Lives

LEMMA TimesInHalf ==
  ASSUME NEW time \in Times
  PROVE  time \in 1..(Half - 1)
BY KernelAssumption DEF Half

LEMMA SleepBooks ==
  ASSUME SyncInv, SyncInv', Ledger, NEW t \in Thread, NEW time \in Times, Sleep(t, time),
         UNCHANGED ipcVars
  PROVE  Ledger'
BY SleepsBooks, TimesInHalf DEF Sleep, ipcVars

LEMMA DelayUntilBooks ==
  ASSUME SyncInv, SyncInv', Ledger, NEW t \in Thread, NEW last \in Tick, NEW inc \in Times,
         rt_thread_delay_until(t, last, inc), UNCHANGED ipcVars
  PROVE  Ledger'
<1>1. k.tick \in Tick /\ inc \in 1..(Half - 1)
  BY TablesTypes, TimesInHalf DEF SyncInv, Full, Live, Sound
<1>2. Minus(last + inc, k.tick) \in 1..(Half - 1)
  BY <1>1, LeftUntil DEF rt_thread_delay_until
<1> QED
  BY <1>2, SleepsBooks DEF rt_thread_delay_until, ipcVars

LEMMA AwakeBooks ==
  ASSUME SyncInv, SyncInv', Ledger, NEW t \in Thread, Awake(t), UNCHANGED ipcVars
  PROVE  Ledger'
<1> DEFINE e == IF k.thread[t].error = "ETIMEOUT" THEN "EOK" ELSE k.thread[t].error
<1>1. /\ k.current = t /\ call[t].op = "sleep" /\ k' = [k EXCEPT !.thread[t].error = e]
      /\ call' = [call EXCEPT ![t] = Running] /\ UNCHANGED <<idle, obj, ghost>>
  BY DEF Awake, Returns, ipcVars
<1>2. Full(k) /\ IsCalls(call)
  BY DEF SyncInv, CallsOK
<1>3. k.thread[t].stat = "READY" /\ k.thread[t] \in ThreadRecord
  BY <1>1, <1>2, OnCpu
<1>4. e \in Error
  BY <1>3 DEF ThreadRecord, Error
<1> HIDE DEF e
<1>5. /\ Only(k, k', t) /\ SameRegs(k, k') /\ k'.thread[t].stat = "READY"
      /\ ~Waits(k', t) /\ k'.tm = k.tm
  BY <1>1, <1>2, <1>4, ErrorSet
<1>6. CallSet(call, call', t, Running)
  BY <1>1, <1>2, SetCall
<1>7. /\ call[t].op # "sem_take" /\ call'[t].op # "sem_take"
      /\ \A v \in Thread \ {t} : call'[v] = call[v]
  BY <1>1, <1>6 DEF CallSet, Running
<1>8. InClock(k, k') /\ Lives(k, k', t)
  BY <1>3, <1>5, KeptTimeSelf, UpAlive DEF SameRegs, InClock, Lives
<1>9. Owes(k, call, k', call', obj, t)
  BY <1>5, <1>7, NotTakingSem, QuietOwes
<1> QED
  BY <1>1, <1>5, <1>7, <1>8, <1>9, OneMoves

LEMMA YieldBooks ==
  ASSUME SyncInv, SyncInv', Ledger, NEW t \in Thread, Yield(t), UNCHANGED ipcVars
  PROVE  Ledger'
<1>1. k' = rt_thread_yield(k) /\ UNCHANGED <<call, idle, obj, ghost>>
  BY DEF Yield, ipcVars
<1>2. Full(k) /\ Sound(k)
  BY DEF SyncInv, Full, Live
<1>3. Rescheduled(k, k')
  BY <1>1, <1>2, ThreadYield
<1>4. /\ InClock(k, k')
      /\ \A u \in Thread : Look(k, k', u) /\ (IsDefunct(k', u) <=> IsDefunct(k, u))
  BY <1>2, <1>3, RescheduledClock
<1> QED
  BY <1>1, <1>4, NoneMoves

-----------------------------------------------------------------------------
(* A thread that is suspended or resumed by hand keeps what it was given.  *)
LEMMA HandBooks ==
  ASSUME SyncInv, SyncInv', Ledger, NEW t \in Thread, Only(k, k', t), InClock(k, k'),
         k.thread[t].stat \in {"READY", "SUSPEND"}, k'.thread[t].stat \in {"READY", "SUSPEND"},
         k'.thread[t].error = k.thread[t].error, ~Waits(k, t), ~Waits(k', t),
         UNCHANGED <<call, idle, obj, ghost>>
  PROVE  Ledger'
<1>1. Lives(k, k', t)
  BY UpAlive DEF Lives
<1>2. Gift(k', call', t) <=> Gift(k, call, t)
  BY DEF Gift
<1>3. Owes(k, call, k', call', obj, t)
  BY <1>2, WaitersIn DEF Owes, Waits
<1> QED
  BY <1>1, <1>3, OneMoves

LEMMA SuspendBooks ==
  ASSUME SyncInv, SyncInv', Ledger, NEW t \in Thread, NEW u \in Thread, Suspend(t, u),
         UNCHANGED ipcVars
  PROVE  Ledger'
<1> DEFINE q == rt_thread_suspend(k, u)
<1>1. /\ k.current = t /\ k.thread[u].stat = "READY" /\ (u = t => k.lock_nest = 0)
      /\ k' = (IF u = t THEN rt_schedule(q) ELSE q) /\ UNCHANGED <<call, idle, obj, ghost>>
  BY DEF Suspend, IsRunning, ipcVars
<1>2. Full(k) /\ Sound(k) /\ u \in All /\ TimersKept(k.tm)
  BY DEF SyncInv, Full, Live, All, Sound, Tables
<1>3. Coherent(k, u) /\ k.thread[u] \in ThreadRecord
  BY <1>2, TablesTypes DEF Sound
<1>4. ~Waits(k, u)
  BY <1>1, <1>3 DEF Coherent, Waits
<1>5. /\ Sound(q) /\ Only(k, q, u) /\ Off(q, u) /\ SameRegs(k, q)
      /\ q.thread[u] = [k.thread[u] EXCEPT !.stat = "SUSPEND"]
      /\ q.tm = rt_timer_stop(k.tm, u)
  BY <1>1, <1>2, ThreadSuspend
<1> HIDE DEF q
<1>6. q.thread[u].stat = "SUSPEND" /\ q.thread[u].error = k.thread[u].error /\ ~Waits(q, u)
  BY <1>3, <1>5 DEF ThreadRecord, Off
<1>7. /\ Only(k, k', u) /\ SameClock(k, k')
      /\ k'.thread = q.thread /\ k'.wait = q.wait /\ k'.tm = q.tm
  <2>1. CASE u = t
    BY <1>1, <1>2, <1>5, <2>1, ThenSchedule
  <2>2. CASE u # t
    BY <1>1, <1>5, <2>2 DEF SameRegs, SameClock
  <2> QED
    BY <2>1, <2>2
<1>8. InClock(k, k')
  BY <1>2, <1>5, <1>7, StopInTime DEF SameClock, InClock
<1>9. /\ k'.thread[u].stat = "SUSPEND" /\ k'.thread[u].error = k.thread[u].error
      /\ ~Waits(k', u)
  BY <1>6, <1>7 DEF Waits, WaitsAt
<1> QED
  BY <1>1, <1>4, <1>7, <1>8, <1>9, HandBooks

LEMMA ResumeBooks ==
  ASSUME SyncInv, SyncInv', Ledger, NEW t \in Thread, NEW u \in Thread, Resume(t, u),
         UNCHANGED ipcVars
  PROVE  Ledger'
<1>1. /\ k.thread[u].stat = "SUSPEND" /\ ~InWaitList(u)
      /\ k' = rt_thread_resume(k, u) /\ UNCHANGED <<call, idle, obj, ghost>>
  BY DEF Resume, ipcVars
<1>2. Full(k) /\ Sound(k) /\ u \in All /\ TimersKept(k.tm)
  BY DEF SyncInv, Full, Live, All, Sound, Tables
<1>3. ~Waits(k, u) /\ k.thread[u] \in ThreadRecord
  BY <1>1, <1>2, InWaitListIs, TablesTypes DEF Sound
<1>4. /\ Only(k, k', u) /\ SameRegs(k, k')
      /\ k'.thread[u] = [k.thread[u] EXCEPT !.stat = "READY"]
      /\ k'.tm = rt_timer_stop(k.tm, u) /\ ~Waits(k', u)
  BY <1>1, <1>2, ThreadResume
<1>5. k'.thread[u].stat = "READY" /\ k'.thread[u].error = k.thread[u].error
  BY <1>3, <1>4 DEF ThreadRecord
<1>6. InClock(k, k')
  BY <1>2, <1>4, StopInTime DEF SameRegs, InClock
<1> QED
  BY <1>1, <1>3, <1>4, <1>5, <1>6, HandBooks

LEMMA SetPriorityBooks ==
  ASSUME SyncInv, SyncInv', Ledger, NEW t \in Thread, NEW u \in Thread, NEW p \in NewPriority,
         SetPriority(t, u, p), UNCHANGED ipcVars
  PROVE  Ledger'
<1>1. k' = rt_thread_control(k, u, p) /\ UNCHANGED <<call, idle, obj, ghost>>
  BY DEF SetPriority, ipcVars
<1>2. Full(k) /\ Sound(k) /\ u \in All
  BY DEF SyncInv, Full, Live, All
<1>3. Reprioritised(k, k', u, p)
  BY <1>1, <1>2, ThreadControl, KernelAssumption
<1>4. /\ SameRegs(k, k') /\ k'.tm = k.tm /\ k'.defunct = k.defunct
      /\ \A v \in Thread : Look(k, k', v)
  BY <1>2, <1>3, ReprioritisedLook
<1>5. InClock(k, k')
  BY <1>4, KeptTimeSelf DEF SameRegs, InClock
<1>6. \A v \in Thread : IsDefunct(k', v) <=> IsDefunct(k, v)
  BY <1>4 DEF IsDefunct
<1> QED
  BY <1>1, <1>4, <1>5, <1>6, NoneMoves

(* The scheduler is locked or unlocked. *)
LEMMA NestBooks ==
  ASSUME SyncInv, SyncInv', Ledger, k'.thread = k.thread, k'.wait = k.wait,
         k'.defunct = k.defunct, k'.tm = k.tm, k'.registered = k.registered,
         k'.tick = k.tick, k'.lock_nest <= MaxNest, UNCHANGED <<call, idle, obj, ghost>>
  PROVE  Ledger'
<1>1. \A v \in All : Alive(k', v) <=> Alive(k, v)
  BY DEF Alive, IsDefunct
<1>2. Filed(k', obj')
  BY <1>1 DEF Ledger, Filed
<1>3. \A v \in Thread : Look(k, k', v)
  BY DEF Look, WaitsAt
<1>4. Account(k', call', obj', ghost'.permits)
  BY <1>3, LookOwes, AccountKept DEF Ledger
<1> QED
  BY <1>2, <1>4 DEF Ledger

LEMMA CriticalBooks ==
  ASSUME SyncInv, SyncInv', Ledger, NEW t \in Thread, EnterCritical(t) \/ ExitCritical(t),
         UNCHANGED ipcVars
  PROVE  Ledger'
<1>1. /\ Full(k) /\ UNCHANGED <<call, idle, obj, ghost>> /\ k.lock_nest <= MaxNest
      /\ k.lock_nest \in Nat /\ MaxNest \in Nat
  BY TablesTypes, KernelAssumption DEF SyncInv, EnterCritical, ExitCritical, ipcVars, Ledger,
     Filed, Full, Live, Sound
<1>2. CASE EnterCritical(t)
  <2>1. k' = rt_enter_critical(k) /\ k.lock_nest < MaxNest
    BY <1>2 DEF EnterCritical
  <2>2. /\ k'.thread = k.thread /\ k'.wait = k.wait /\ k'.defunct = k.defunct
        /\ k'.tm = k.tm /\ k'.registered = k.registered /\ k'.tick = k.tick
        /\ k'.lock_nest = k.lock_nest + 1
    BY <1>1, <2>1, EnterCriticalIs
  <2>3. k'.lock_nest <= MaxNest
    BY <1>1, <2>1, <2>2
  <2> QED
    BY <1>1, <2>2, <2>3, NestBooks
<1>3. CASE ExitCritical(t)
  <2>1. k' = rt_exit_critical(k) /\ k.lock_nest > 0
    BY <1>3 DEF ExitCritical
  <2>2. /\ k'.thread = k.thread /\ k'.wait = k.wait /\ k'.defunct = k.defunct
        /\ k'.tm = k.tm /\ k'.registered = k.registered /\ k'.tick = k.tick
        /\ k'.lock_nest = k.lock_nest - 1
    BY <1>1, <2>1, ExitCriticalIs
  <2>3. k'.lock_nest <= MaxNest
    BY <1>1, <2>1, <2>2
  <2> QED
    BY <1>1, <2>2, <2>3, NestBooks
<1> QED
  BY <1>2, <1>3

-----------------------------------------------------------------------------
(* The idle thread: a tick, the timers one after the other, and the        *)
(* threads that were deleted.                                              *)
LEMMA ExpiredBooks ==
  ASSUME NEW s, NEW r, NEW c, NEW b, NEW h, NEW n, CallsOK(s, c, b, h), Full(s), Filed(s, b),
         Account(s, c, b, n), NEW t \in Thread, Expired(s, r, t), InTime(s.tm, s.tick, 0)
  PROVE  Filed(r, b) /\ Account(r, c, b, n) /\ InTime(r.tm, r.tick, 0)
<1>1. /\ Full(r) /\ Only(s, r, t) /\ SameClock(s, r)
      /\ t \in s.tm.active /\ s.thread[t].stat = "SUSPEND"
      /\ r.thread[t].stat = "READY" /\ r.thread[t].error = "ETIMEOUT" /\ ~Waits(r, t)
      /\ r.tm = TakeExpired(s.tm, "hard") /\ s.tm.list["hard"] # <<>>
  BY DEF Expired, Expires
<1>2. Lives(s, r, t)
  BY <1>1, UpAlive DEF Lives
<1>3. \A u \in Thread : Lives(s, r, u)
  BY <1>1, <1>2, OnlyLives
<1>4. Filed(r, b)
  BY <1>1, <1>3, FiledKept DEF SameClock
<1>5. ~Gift(s, c, t) /\ ~Gift(r, c, t)
  BY <1>1 DEF CallsOK, CallOK, Gift
<1>6. \A u \in Thread : Owes(s, c, r, c, b, u)
  BY <1>1, <1>5, QuietOwes, OnlyOwes
<1>7. Account(r, c, b, n)
  BY <1>6, AccountKept
<1>8. TimersKept(s.tm)
  BY DEF Full, Live, Sound, Tables
<1>9. KeptTime(s.tm, r.tm, s.tick)
  BY <1>1, <1>8, TakenInTime
<1> QED
  BY <1>1, <1>4, <1>7, <1>9 DEF KeptTime, SameClock

LEMMA IdleStepBooks ==
  ASSUME NEW s, NEW r, NEW i, NEW now, NEW c, NEW b, NEW h, NEW n, CallsOK(s, c, b, h), Full(s),
         Filed(s, b), Account(s, c, b, n), IdleStep(s, r, i, now), InTime(s.tm, now, 0)
  PROVE  Filed(r, b) /\ Account(r, c, b, n) /\ InTime(r.tm, r.tick, Least(i))
<1>1. PICK q :
        /\ Unmoved(s, q) /\ q.tick = now
        /\ \/ r = q /\ i = [at |-> "yield"]
           \/ r = q /\ i = Looping /\ ~Expires(q.tm, "hard", q.tick)
           \/ \E t \in Thread : Expired(q, r, t) /\ i = [at |-> "callback", timer |-> t]
  BY DEF IdleStep
<1>2. /\ Full(q) /\ q.lock_nest = s.lock_nest /\ q.registered = s.registered
      /\ q.tm.list = s.tm.list /\ q.tm.timeout_tick = s.tm.timeout_tick
      /\ q.tm.active = s.tm.active
      /\ \A u \in Thread : Same(s, q, u)
  BY <1>1 DEF Unmoved, All
<1>3. \A u \in Thread : Lives(s, q, u) /\ Look(s, q, u) /\ Owes(s, c, q, c, b, u)
  BY <1>2, SameLives, SameLook, LookOwes
<1>4. Filed(q, b)
  BY <1>2, <1>3, FiledKept
<1>5. Account(q, c, b, n)
  BY <1>3, AccountKept
<1>6. TimersKept(s.tm) /\ TimersKept(q.tm) /\ q.tick \in Tick
  BY <1>2, TablesTypes DEF Full, Live, Sound, Tables
<1>7. KeptTime(s.tm, q.tm, now)
  BY <1>2, <1>6, SameInTime
<1>8. InTime(q.tm, q.tick, 0)
  BY <1>1, <1>7 DEF KeptTime
<1>9. CASE r = q /\ i = [at |-> "yield"]
  <2>1. Least(i) = 0
    BY <1>9 DEF Least, Looping
  <2> QED
    BY <1>4, <1>5, <1>8, <1>9, <2>1
<1>10. CASE r = q /\ i = Looping /\ ~Expires(q.tm, "hard", q.tick)
  <2>1. Least(i) = 1
    BY <1>10 DEF Least
  <2>2. InTime(q.tm, q.tick, 1)
    BY <1>6, <1>8, <1>10, NoneExpired
  <2> QED
    BY <1>4, <1>5, <1>10, <2>1, <2>2
<1>11. ASSUME NEW t \in Thread, Expired(q, r, t), i = [at |-> "callback", timer |-> t]
       PROVE  Filed(r, b) /\ Account(r, c, b, n) /\ InTime(r.tm, r.tick, Least(i))
  <2>1. Least(i) = 0
    <3>1. i.at # Looping.at
      BY <1>11 DEF Looping
    <3> QED
      BY <3>1 DEF Least
  <2>2. CallsOK(q, c, b, h)
    BY <1>3, QuietAll
  <2> QED
    BY <1>2, <1>4, <1>5, <1>8, <1>11, <2>1, <2>2, ExpiredBooks
<1> QED
  BY <1>1, <1>9, <1>10, <1>11

LEMMA IdleReapsBooks ==
  ASSUME SyncInv, SyncInv', Ledger, IdleReaps, UNCHANGED ipcVars
  PROVE  Ledger'
<1> DEFINE q == [k EXCEPT !.registered = @ \ ToSet(k.defunct)]
<1>1. /\ k.current = Idle /\ k' = rt_thread_idle_excute(k)
      /\ UNCHANGED <<call, idle, obj, ghost>>
  BY DEF IdleReaps, ipcVars
<1>2. Full(k) /\ CallsOK(k, call, obj, ghost.held) /\ Sound(k) /\ k \in KernelState
  BY DEF SyncInv, Full, Live, Sound, Tables
<1>3. /\ SameRegs(q, k') /\ k'.wait = k.wait /\ k'.tm = k.tm
      /\ \A t \in All :
           IF IsDefunct(k, t)
           THEN /\ k'.thread[t].stat = "NONE" /\ k.thread[t].stat = "CLOSE"
                /\ k'.thread[t].error = k.thread[t].error
           ELSE Same(k, k', t)
      /\ \A t \in All : ~IsDefunct(k', t)
  BY <1>1, <1>2, IdleExcute
<1>4. /\ q.registered = k.registered \ ToSet(k.defunct) /\ q.lock_nest = k.lock_nest
      /\ q.tick = k.tick
  BY <1>2 DEF KernelState
<1> HIDE DEF q
<1>5. /\ k'.registered = k.registered \ ToSet(k.defunct) /\ k'.lock_nest = k.lock_nest
      /\ k'.tick = k.tick
  BY <1>3, <1>4 DEF SameRegs
<1>6. ASSUME NEW t \in All
      PROVE  t \in k'.registered <=> Alive(k', t)
  <2>1. CASE IsDefunct(k, t)
    BY <1>3, <1>5, <2>1 DEF IsDefunct, Alive
  <2>2. CASE ~IsDefunct(k, t)
    BY <1>3, <1>5, <2>2, SameLives DEF IsDefunct, Lives, Ledger, Filed
  <2> QED
    BY <2>1, <2>2
<1>7. \A o \in Object : o \in k'.registered <=> o \in k.registered
  <2>1. k.defunct \in Seq(Thread)
    BY <1>2 DEF KernelState
  <2>2. ToSet(k.defunct) \subseteq Thread
    BY <2>1 DEF ToSet
  <2> QED
    BY <1>5, <2>2, IpcAssumption DEF All
<1>8. Filed(k', obj')
  BY <1>1, <1>5, <1>6, <1>7 DEF Ledger, Filed
<1>9. ASSUME NEW t \in Thread
      PROVE  Owes(k, call, k', call', obj, t)
  <2>1. \A l \in WaitList : WaitsAt(k', t, l) <=> WaitsAt(k, t, l)
    BY <1>3 DEF WaitsAt
  <2>2. k'.thread[t].error = k.thread[t].error
    BY <1>3 DEF Same, All
  <2>3. Gift(k', call', t) <=> Gift(k, call, t)
    BY <1>1, <2>1, <2>2 DEF Gift, Waits
  <2> QED
    BY <2>1, <2>3, WaitersIn DEF Owes
<1>10. Account(k', call', obj', ghost'.permits)
  BY <1>1, <1>9, AccountKept DEF Ledger
<1> QED
  BY <1>1, <1>3, <1>5, <1>8, <1>10 DEF Ledger

LEMMA IdleThreadBooks ==
  ASSUME SyncInv, SyncInv', Ledger, IdleThread
  PROVE  Ledger'
<1>1. UNCHANGED <<obj, ghost>> /\ UNCHANGED ipcVars
  BY DEF IdleThread, ipcVars
<1>2. /\ Full(k) /\ idle \in IdlePlace /\ CallsOK(k, call, obj, ghost.held)
      /\ TimersKept(k.tm) /\ k.tick \in Tick
  BY TablesTypes DEF SyncInv, Full, Live, Sound, Tables
<1>3. CASE IdleTick(ThreadTimeout(rt_tick_increase(k)))
  <2> DEFINE now == (k.tick + 1) % (RT_TICK_MAX + 1)
  <2>1. /\ k.current = Idle /\ k' \in ThreadTimeout(rt_tick_increase(k)) /\ idle = Looping
        /\ idle' = rt_tick_increase(k).idle /\ call' = call
    BY <1>3 DEF IdleTick
  <2>2. IdleStep(k, k', idle', now)
    BY <1>2, <2>1, TickIncrease
  <2>3. InTime(k.tm, k.tick, 1)
    BY <2>1 DEF Ledger, Least
  <2>4. InTime(k.tm, now, 0)
    BY <1>2, <2>3, TickInTime
  <2> HIDE DEF now
  <2>5. /\ Filed(k', obj) /\ Account(k', call, obj, ghost.permits)
        /\ InTime(k'.tm, k'.tick, Least(idle'))
    BY <1>2, <2>2, <2>4, IdleStepBooks DEF Ledger
  <2> QED
    BY <1>1, <2>1, <2>5 DEF Ledger
<1>4. CASE IdleResumes(ThreadTimeout(Rest))
  <2>1. /\ k.current = Idle /\ idle # Looping /\ k' \in ThreadTimeout(Rest)
        /\ idle' = Rest.idle /\ call' = call
    BY <1>4 DEF IdleResumes
  <2>2. IdleStep(k, k', idle', k.tick)
    BY <1>2, <2>1, RestIs
  <2>3. InTime(k.tm, k.tick, 0)
    BY <2>1 DEF Ledger, Least
  <2>4. /\ Filed(k', obj) /\ Account(k', call, obj, ghost.permits)
        /\ InTime(k'.tm, k'.tick, Least(idle'))
    BY <1>2, <2>2, <2>3, IdleStepBooks DEF Ledger
  <2> QED
    BY <1>1, <2>1, <2>4 DEF Ledger
<1>5. CASE IdleReaps
  BY <1>1, <1>5, IdleReapsBooks
<1> QED
  BY <1>3, <1>4, <1>5 DEF IdleThread

-----------------------------------------------------------------------------
(* The objects.  One of them changes, and the threads owe what they owed.  *)
LEMMA PermitsNat ==
  ASSUME SyncInv, Ledger
  PROVE  ghost.permits \in Nat
<1>1. \A x \in Object : ValueOf(obj[x]) \in Nat
  BY ValuesNat DEF SyncInv
<1>2. Sum(Values(obj), Object) \in Nat
  BY <1>1, FiniteAssumption, SumNat DEF Values
<1> QED
  BY <1>2, GiftsFinite DEF Ledger, Account

LEMMA ObjectMoves ==
  ASSUME SyncInv, SyncInv', Ledger, NEW o \in Object, NEW m, IsPut(obj, obj', o, m),
         \A u \in Thread : Lives(k, k', u) /\ Owes(k, call, k', call', obj, u),
         k'.lock_nest = k.lock_nest, k'.tick = k.tick, KeptTime(k.tm, k'.tm, k.tick),
         idle' = idle,
         \A x \in (All \cup Object) \ {o} : x \in k'.registered <=> x \in k.registered,
         o \in k'.registered <=> m.kind # "absent",
         ValueOf(m) # 0 => \A u \in Thread : ~WaitsAt(k', u, Waiters(o)),
         ghost'.permits = ghost.permits - ValueOf(obj[o]) + ValueOf(m)
  PROVE  Ledger'
<1>1. Full(k) /\ Full(k')
  BY DEF SyncInv
<1>2. obj'[o] = m /\ \A x \in Object \ {o} : obj'[x] = obj[x]
  BY DEF IsPut
<1>3. Filed(k', obj')
  BY <1>1, <1>2, FiledObject DEF Ledger
<1>4. InTime(k'.tm, k'.tick, Least(idle'))
  BY StillInTime DEF Ledger
<1>5. \A x \in Object : ValueOf(obj[x]) \in Nat
  BY ValuesNat DEF SyncInv
<1>6. \A x \in Object : ValueOf(obj'[x]) \in Nat
  <2>1. CallsOK(k', call', obj', ghost'.held)
    BY DEF SyncInv
  <2> QED
    BY <2>1, ValuesNat
<1>7. ValueOf(m) \in Nat
  BY <1>2, <1>6
<1>8. Account(k', call', obj', ghost'.permits)
  BY <1>5, <1>7, AccountPut DEF Ledger
<1> QED
  BY <1>3, <1>4, <1>8 DEF Ledger

(* What a change of the container leaves alone. *)
LEMMA RegisterClock ==
  ASSUME NEW s, Full(s), NEW R \in SUBSET (All \cup Object), NEW r, r = WithRegistered(s, R)
  PROVE  /\ r.registered = R /\ r.lock_nest = s.lock_nest /\ r.tick = s.tick
         /\ r.thread = s.thread /\ r.wait = s.wait /\ r.defunct = s.defunct /\ r.tm = s.tm
<1>1. Sound(s)
  BY DEF Full, Live
<1> QED
  BY <1>1, SetRegistered DEF WithRegistered

LEMMA SeenSame ==
  ASSUME NEW s, NEW r, r.thread = s.thread, r.wait = s.wait, r.defunct = s.defunct, r.tm = s.tm,
         NEW u
  PROVE  Look(s, r, u) /\ Lives(s, r, u)
BY DEF Look, WaitsAt, Lives, Alive, IsDefunct

(* An object of object.c is there. *)
LEMMA NewObjectBooks ==
  ASSUME SyncInv, SyncInv', Ledger, NEW o \in Object, NEW m, Fresh(m), obj[o].kind = "absent",
         IsPut(obj, obj', o, m), k' = WithRegistered(k, k.registered \cup {o}), idle' = idle,
         \A u \in Thread : Owes(k, call, k', call', obj, u),
         ghost'.permits = ghost.permits + ValueOf(m)
  PROVE  Ledger'
<1> DEFINE R == k.registered \cup {o}
<1>1. Full(k) /\ CallsOK(k, call, obj, ghost.held)
  BY DEF SyncInv
<1>2. R \in SUBSET (All \cup Object)
  BY <1>1, TablesTypes DEF Full, Live, Sound
<1>3. /\ k'.registered = R /\ k'.lock_nest = k.lock_nest /\ k'.tick = k.tick
      /\ k'.thread = k.thread /\ k'.wait = k.wait /\ k'.defunct = k.defunct /\ k'.tm = k.tm
  BY <1>1, <1>2, RegisterClock
<1>4. \A u \in Thread : Lives(k, k', u)
  BY <1>3, SeenSame
<1>5. m.kind # "absent"
  BY FreshTypes DEF SemRecord, MutexRecord
<1>6. \A u \in Thread : ~WaitsAt(k', u, Waiters(o))
  BY <1>1, <1>3, NobodyThere DEF WaitsAt
<1>7. ValueOf(obj[o]) = 0 /\ ghost.permits \in Nat
  BY PermitsNat DEF ValueOf
<1>8. ValueOf(m) \in Nat
  <2>1. CallsOK(k', call', obj', ghost'.held)
    BY DEF SyncInv
  <2> QED
    BY <2>1, ValuesNat DEF IsPut
<1>9. ghost'.permits = ghost.permits - ValueOf(obj[o]) + ValueOf(m)
  BY <1>7, <1>8
<1>10. KeptTime(k.tm, k'.tm, k.tick)
  BY <1>3, KeptTimeSelf
<1> QED
  BY <1>3, <1>4, <1>5, <1>6, <1>9, <1>10, ObjectMoves

LEMMA MakeBooks ==
  ASSUME SyncInv, SyncInv', Ledger, NEW t \in Thread, NEW o \in Object, NEW m, Fresh(m),
         MakeObject(t, o, m),
         ghost'.permits = IF o \in StaticObject THEN ghost.permits
                          ELSE ghost.permits + ValueOf(m)
  PROVE  Ledger'
<1>1. /\ k.current = t /\ call[t] = Running /\ obj[o] = Absent(m.kind) /\ idle' = idle
  BY DEF MakeObject, IsRunning
<1>2. Full(k) /\ CallsOK(k, call, obj, ghost.held) /\ IsObjects(obj)
  BY DEF SyncInv, CallsOK
<1>3. CASE o \in StaticObject
  <2> DEFINE f == [op |-> "init", object |-> o, made |-> m]
  <2>1. k' = rt_object_find(k) /\ call' = [call EXCEPT ![t] = f] /\ obj' = obj
    BY <1>3 DEF MakeObject
  <2>2. f.op = "init"
    OBVIOUS
  <2> HIDE DEF f
  <2> QED
    BY <1>1, <1>3, <2>1, <2>2, FindBooks
<1>4. CASE o \notin StaticObject
  <2>1. k' = WithRegistered(k, k.registered \cup {o}) /\ call' = call
    BY <1>4 DEF MakeObject, rt_object_allocate, WithRegistered
  <2>2. obj' = PutObject(obj, o, m)
    BY <1>4 DEF MakeObject, PutObject
  <2>3. IsPut(obj, obj', o, m)
    BY <1>2, <2>2, SetObject
  <2>4. k.registered \cup {o} \in SUBSET (All \cup Object)
    BY <1>2, TablesTypes DEF Full, Live, Sound
  <2>5. \A u \in Thread : Look(k, k', u)
    BY <1>2, <2>1, <2>4, Register
  <2>6. \A u \in Thread : Owes(k, call, k', call', obj, u)
    BY <2>1, <2>5, LookOwes
  <2>7. obj[o].kind = "absent"
    BY <1>1 DEF Absent
  <2> QED
    BY <1>1, <1>4, <2>1, <2>3, <2>6, <2>7, NewObjectBooks
<1> QED
  BY <1>3, <1>4

LEMMA InitedBooks ==
  ASSUME SyncInv, SyncInv', Ledger, NEW t \in Thread, NEW kind, ObjectInited(t, kind),
         ghost'.permits = ghost.permits + ValueOf(call[t].made)
  PROVE  Ledger'
<1> DEFINE o == call[t].object
           m == call[t].made
<1>1. k' = WithRegistered(k, k.registered \cup {o})
  BY DEF ObjectInited, rt_object_init, WithRegistered
<1>2. obj' = PutObject(obj, o, m)
  BY DEF ObjectInited, PutObject
<1>3. call' = [call EXCEPT ![t] = Running]
  BY DEF ObjectInited, Done
<1>4. k.current = t /\ call[t].op = "init" /\ o \in Object /\ idle' = idle
  BY DEF ObjectInited, Returns
<1>5. Full(k) /\ CallsOK(k, call, obj, ghost.held) /\ IsCalls(call) /\ IsObjects(obj)
  BY DEF SyncInv, CallsOK
<1>6. obj[o] = Absent(m.kind) /\ Fresh(m)
  <2>1. MakerOK(k, call, obj, t)
    BY <1>5 DEF CallsOK
  <2>2. o \notin StaticThread
    BY <1>4, IpcAssumption, KernelAssumption DEF All
  <2> QED
    BY <1>4, <2>1, <2>2 DEF MakerOK
<1>7. ghost'.permits = ghost.permits + ValueOf(m)
  OBVIOUS
<1> HIDE DEF o, m
<1>8. obj[o].kind = "absent"
  BY <1>6 DEF Absent
<1>9. IsPut(obj, obj', o, m)
  BY <1>2, <1>4, <1>5, SetObject
<1>10. k.registered \cup {o} \in SUBSET (All \cup Object)
  BY <1>4, <1>5, TablesTypes DEF Full, Live, Sound
<1>11. \A u \in Thread : Look(k, k', u)
  BY <1>1, <1>5, <1>10, Register
<1>12. CallSet(call, call', t, Running)
  BY <1>3, <1>5, SetCall
<1>13. /\ call[t].op # "sem_take" /\ call'[t].op # "sem_take"
       /\ \A u \in Thread \ {t} : call'[u] = call[u]
  BY <1>4, <1>12 DEF CallSet, Running
<1>14. ~Waits(k', t)
  BY <1>4, <1>5, <1>11, OnCpu, LookGiven
<1>15. \A u \in Thread : Owes(k, call, k', call', obj, u)
  <2>1. Owes(k, call, k', call', obj, t)
    BY <1>13, <1>14, NotTakingSem, QuietOwes
  <2>2. \A u \in Thread \ {t} : Owes(k, call, k', call', obj, u)
    BY <1>11, <1>13, LookOwes
  <2> QED
    BY <2>1, <2>2
<1> QED
  BY <1>1, <1>4, <1>6, <1>7, <1>8, <1>9, <1>15, NewObjectBooks

(* Every thread that waited is told RT_ERROR: none of them has a permit,   *)
(* and none waits any more.                                                *)
LEMMA ResumedBooks ==
  ASSUME NEW s, Sound(s), NEW l \in WaitList, NEW q, ResumedAll(s, q, l), NEW r,
         r.thread = q.thread, r.wait = q.wait, r.defunct = q.defunct, NEW c, NEW b,
         NEW u \in Thread
  PROVE  Lives(s, r, u) /\ Owes(s, c, r, c, b, u) /\ ~WaitsAt(r, u, l)
<1>1. u \in All /\ Coherent(s, u)
  BY DEF All, Sound
<1>2. CASE WaitsAt(s, u, l)
  <2>1. q.thread[u].stat = "READY" /\ q.thread[u].error = "ERROR" /\ ~Waits(q, u)
    BY <1>1, <1>2 DEF ResumedAll, IsTold
  <2>2. r.thread[u].stat = "READY" /\ r.thread[u].error = "ERROR" /\ ~Waits(r, u)
    BY <2>1 DEF Waits, WaitsAt
  <2>3. s.thread[u].stat = "SUSPEND" /\ Waits(s, u)
    BY <1>1, <1>2 DEF Coherent, Waits
  <2>4. ~Gift(s, c, u) /\ ~Gift(r, c, u)
    BY <2>2, <2>3 DEF Gift
  <2> QED
    BY <2>2, <2>3, <2>4, QuietOwes, UpAlive DEF Lives, Waits
<1>3. CASE ~WaitsAt(s, u, l)
  <2>1. Same(s, q, u)
    BY <1>1, <1>3 DEF ResumedAll
  <2>2. Lives(s, q, u) /\ Look(s, q, u)
    BY <2>1, SameLives, SameLook
  <2>3. Owes(s, c, q, c, b, u) /\ ~WaitsAt(q, u, l)
    BY <1>3, <2>2, LookOwes DEF Look
  <2>4. Lives(s, r, u)
    BY <2>2 DEF Lives, Alive, IsDefunct
  <2>5. Owes(s, c, r, c, b, u) /\ ~WaitsAt(r, u, l)
    BY <2>3 DEF Owes, Gift, Waits, WaitsAt
  <2> QED
    BY <2>4, <2>5
<1> QED
  BY <1>2, <1>3

LEMMA GoneBooks ==
  ASSUME SyncInv, SyncInv', Ledger, NEW o \in Object, NEW kind,
         k' = WithRegistered(rt_ipc_list_resume_all(k, Waiters(o)),
                             rt_ipc_list_resume_all(k, Waiters(o)).registered \ {o}),
         obj' = PutObject(obj, o, Absent(kind)), UNCHANGED <<call, idle>>,
         ghost'.permits = ghost.permits - ValueOf(obj[o])
  PROVE  Ledger'
<1> DEFINE q == rt_ipc_list_resume_all(k, Waiters(o))
           R == q.registered \ {o}
<1>1. Full(k) /\ Sound(k) /\ IsObjects(obj) /\ Waiters(o) \in WaitList
  BY WaitersIn DEF SyncInv, CallsOK, Full, Live
<1>2. ResumedAll(k, q, Waiters(o))
  BY <1>1, ResumeAll
<1>3. R \in SUBSET (All \cup Object)
  BY <1>1, LessRegistered
<1> HIDE DEF q
<1>4. Full(q)
  BY <1>1, <1>2, ResumedFull
<1>5. /\ k'.registered = R /\ k'.lock_nest = q.lock_nest /\ k'.tick = q.tick
      /\ k'.thread = q.thread /\ k'.wait = q.wait /\ k'.defunct = q.defunct /\ k'.tm = q.tm
  BY <1>3, <1>4, RegisterClock DEF q
<1>6. /\ k'.registered = k.registered \ {o} /\ k'.lock_nest = k.lock_nest /\ k'.tick = k.tick
      /\ KeptTime(k.tm, k'.tm, k.tick)
  BY <1>2, <1>5 DEF ResumedAll, SameRegs
<1>7. \A u \in Thread : Lives(k, k', u) /\ Owes(k, call, k', call', obj, u)
  BY <1>1, <1>2, <1>5, ResumedBooks
<1>8. IsPut(obj, obj', o, Absent(kind))
  BY <1>1, SetObject
<1>9. Absent(kind).kind = "absent" /\ ValueOf(Absent(kind)) = 0
  BY DEF Absent, ValueOf
<1>10. ghost'.permits = ghost.permits - ValueOf(obj[o]) + ValueOf(Absent(kind))
  <2>1. ghost.permits \in Nat /\ ValueOf(obj[o]) \in Nat
    BY PermitsNat, ValuesNat DEF SyncInv
  <2> QED
    BY <1>9, <2>1
<1> QED
  BY <1>6, <1>7, <1>8, <1>9, <1>10, ObjectMoves

-----------------------------------------------------------------------------
(* Semaphores. *)
LEMMA SemValueOf ==
  ASSUME NEW v, NEW f
  PROVE  ValueOf(rt_sem_init(v, f)) = v
BY DEF ValueOf, rt_sem_init

LEMMA SemMadeBooks ==
  ASSUME SyncInv, SyncInv', Ledger, NEW t \in Thread, NEW o \in Object, NEW v \in SemValue,
         NEW f \in Flag, SemMade(t, o, v, f)
  PROVE  Ledger'
<1> DEFINE m == IF o \in StaticObject THEN rt_sem_init(v, f) ELSE rt_sem_create(v, f)
           n == ghost.permits + v
<1>1. MakeObject(t, o, m) /\ ghost' = (IF o \in StaticObject THEN ghost ELSE PutPermits(ghost, n))
  BY DEF SemMade, PutPermits
<1>2. m = rt_sem_init(v, f)
  BY DEF rt_sem_init, rt_sem_create
<1>3. Fresh(m) /\ n = ghost.permits + ValueOf(m)
  BY <1>2, SemValueOf DEF Fresh
<1> HIDE DEF m, n
<1>4. IsGhost(ghost)
  BY DEF SyncInv
<1>5. o \notin StaticObject => ghost'.permits = n
  BY <1>1, <1>4, SetPermits
<1>6. ghost'.permits = IF o \in StaticObject THEN ghost.permits ELSE ghost.permits + ValueOf(m)
  BY <1>1, <1>3, <1>5
<1> QED
  BY <1>1, <1>3, <1>6, MakeBooks

LEMMA SemInitedBooks ==
  ASSUME SyncInv, SyncInv', Ledger, NEW t \in Thread, SemInited(t)
  PROVE  Ledger'
<1> DEFINE n == ghost.permits + call[t].made.value
<1>1. ObjectInited(t, "sem") /\ ghost' = PutPermits(ghost, n) /\ call[t].made.kind = "sem"
  BY DEF SemInited, PutPermits, ObjectInited
<1>2. n = ghost.permits + ValueOf(call[t].made)
  BY <1>1 DEF ValueOf
<1> HIDE DEF n
<1>3. IsGhost(ghost)
  BY DEF SyncInv
<1>4. ghost'.permits = ghost.permits + ValueOf(call[t].made)
  BY <1>1, <1>2, <1>3, SetPermits
<1> QED
  BY <1>1, <1>4, InitedBooks

LEMMA SemGoneBooks ==
  ASSUME SyncInv, SyncInv', Ledger, NEW t \in Thread, NEW o \in Object,
         rt_sem_detach(t, o) \/ rt_sem_delete(t, o)
  PROVE  Ledger'
<1> DEFINE n == ghost.permits - obj[o].value
<1>1. obj[o].kind = "sem" /\ UNCHANGED <<call, idle>>
  BY DEF rt_sem_detach, rt_sem_delete, DetachObject, DeleteObject, Usable
<1>2. k' = WithRegistered(rt_ipc_list_resume_all(k, Waiters(o)),
                          rt_ipc_list_resume_all(k, Waiters(o)).registered \ {o})
  BY DEF rt_sem_detach, rt_sem_delete, DetachObject, DeleteObject, rt_object_detach,
         rt_object_delete, WithRegistered
<1>3. obj' = PutObject(obj, o, Absent("sem"))
  BY DEF rt_sem_detach, rt_sem_delete, DetachObject, DeleteObject, PutObject
<1>4. ghost' = PutPermits(ghost, n)
  BY DEF rt_sem_detach, rt_sem_delete, PutPermits
<1>5. n = ghost.permits - ValueOf(obj[o])
  BY <1>1 DEF ValueOf
<1> HIDE DEF n
<1>6. ghost'.permits = ghost.permits - ValueOf(obj[o])
  BY <1>4, <1>5, SetPermits DEF SyncInv
<1> QED
  BY <1>1, <1>2, <1>3, <1>6, GoneBooks

(* The value changes, and nobody waits if it is not 0. *)
LEMMA SemCountBooks ==
  ASSUME SyncInv, SyncInv', Ledger, NEW o \in Object, obj[o].kind = "sem", NEW v \in SemValue,
         obj' = PutObject(obj, o, [obj[o] EXCEPT !.value = v]), NEW n,
         ghost' = PutPermits(ghost, n), n = ghost.permits - obj[o].value + v, idle' = idle,
         InClock(k, k'), v # 0 => \A u \in Thread : ~WaitsAt(k', u, Waiters(o)),
         \A u \in Thread : Lives(k, k', u) /\ Owes(k, call, k', call', obj, u)
  PROVE  Ledger'
<1> DEFINE m == [obj[o] EXCEPT !.value = v]
<1>1. IsGhost(ghost) /\ IsObjects(obj) /\ ObjectOK(k, call, obj, ghost.held, o)
  BY DEF SyncInv, CallsOK
<1>2. obj[o] \in SemRecord
  BY <1>1, ObjectTypes
<1>3. m \in SemRecord /\ m.value = v
  BY <1>2, SemValueSet DEF SemRecord
<1>4. obj' = PutObject(obj, o, m)
  OBVIOUS
<1> HIDE DEF m
<1>5. IsPut(obj, obj', o, m)
  BY <1>1, <1>4, SetObject
<1>6. ghost'.permits = n
  BY <1>1, SetPermits
<1>7. ValueOf(m) = v /\ ValueOf(obj[o]) = obj[o].value /\ m.kind # "absent"
  BY <1>3 DEF ValueOf, SemRecord
<1>8. o \in k.registered /\ k'.registered = k.registered /\ k'.lock_nest = k.lock_nest
      /\ k'.tick = k.tick /\ KeptTime(k.tm, k'.tm, k.tick)
  BY DEF Ledger, Filed, InClock
<1>9. ghost'.permits = ghost.permits - ValueOf(obj[o]) + ValueOf(m)
  BY <1>6, <1>7
<1>10. ValueOf(m) # 0 => \A u \in Thread : ~WaitsAt(k', u, Waiters(o))
  BY <1>7
<1>11. /\ \A x \in (All \cup Object) \ {o} : x \in k'.registered <=> x \in k.registered
       /\ o \in k'.registered <=> m.kind # "absent"
  BY <1>7, <1>8
<1> QED
  BY <1>5, <1>8, <1>9, <1>10, <1>11, ObjectMoves

LEMMA StillBooks ==
  ASSUME k' = k, UNCHANGED call
  PROVE  /\ InClock(k, k')
         /\ \A u \in Thread : Lives(k, k', u) /\ Owes(k, call, k', call', obj, u)
<1>1. \A u \in Thread : Look(k, k', u) /\ call'[u] = call[u]
  BY LookSelf
<1>2. \A u \in Thread : Owes(k, call, k', call', obj, u)
  BY <1>1, LookOwes
<1>3. InClock(k, k')
  BY KeptTimeSelf DEF InClock
<1> QED
  BY <1>2, <1>3 DEF Lives

(* A thread begins to wait at an object whose value is 0. *)
LEMMA BlockedOwes ==
  ASSUME NEW s, NEW r, NEW c, NEW d, NEW b, NEW t \in Thread, NEW o \in Object, ValueOf(b[o]) = 0,
         c[t].op # "sem_take", WaitsOnlyAt(r, t, Waiters(o))
  PROVE  Owes(s, c, r, d, b, t)
<1>1. Waits(r, t) /\ \A x \in Object : WaitsAt(r, t, Waiters(x)) => x = o
  BY WaitersIn, WaitersDiffer DEF WaitsOnlyAt, Waits
<1>2. ~Gift(s, c, t) /\ ~Gift(r, d, t)
  BY <1>1, NotTakingSem DEF Gift
<1> QED
  BY <1>1, <1>2 DEF Owes

LEMMA SemTakeBooks ==
  ASSUME SyncInv, SyncInv', Ledger, NEW t \in Thread, NEW o \in Object,
         NEW time \in Times \cup {0, Forever}, rt_sem_take(t, o, time)
  PROVE  Ledger'
<1>1. Usable(t, o, "sem") /\ obj[o].kind = "sem"
  BY DEF rt_sem_take, Usable
<1>2. /\ Full(k) /\ CallsOK(k, call, obj, ghost.held) /\ IsCalls(call)
      /\ ObjectOK(k, call, obj, ghost.held, o)
  BY DEF SyncInv, CallsOK
<1>3. obj[o].value \in SemValue /\ ValueOf(obj[o]) = obj[o].value
  BY <1>1, <1>2, ObjectTypes DEF SemRecord, ValueOf
<1>4. CASE obj[o].value > 0 /\ UNCHANGED <<k, call, idle>>
           /\ obj' = [obj EXCEPT ![o].value = @ - 1]
           /\ ghost' = [ghost EXCEPT !.permits = @ - 1]
  <2> DEFINE v == obj[o].value - 1
             n == ghost.permits - 1
  <2>1. obj' = PutObject(obj, o, [obj[o] EXCEPT !.value = v]) /\ ghost' = PutPermits(ghost, n)
    BY <1>4 DEF PutObject, PutPermits
  <2>2. v \in SemValue
    BY <1>3, <1>4, SemAssumption DEF SemValue
  <2>3. n = ghost.permits - obj[o].value + v
    <3>1. ghost.permits \in Nat /\ obj[o].value \in Nat
      BY <1>3, PermitsNat, SemAssumption DEF SemValue
    <3> QED
      BY <3>1
  <2> HIDE DEF v, n
  <2>4. ValueOf(obj[o]) # 0
    BY <1>3, <1>4, SemAssumption DEF SemValue
  <2>5. \A u \in Thread : ~WaitsAt(k', u, Waiters(o))
    BY <1>4, <2>4 DEF Ledger, Account
  <2>6. UNCHANGED <<k, call, idle>>
    BY <1>4
  <2> QED
    BY <1>1, <2>1, <2>2, <2>3, <2>5, <2>6, StillBooks, SemCountBooks
<1>5. CASE /\ obj[o].value = 0
           /\ Blocks(t, Waiters(o), obj[o].flag, time, [op |-> "sem_take", object |-> o])
  <2>1. /\ k.current = t /\ call[t] = Running /\ k.lock_nest = 0 /\ time # 0
        /\ k' = WaitIn(k, Waiters(o), t, obj[o].flag, time) /\ UNCHANGED <<obj, ghost, idle>>
    BY <1>1, <1>5 DEF Usable, IsRunning, Blocks
  <2>2. call' = [call EXCEPT ![t] = [op |-> "sem_take", object |-> o]]
    BY <1>5 DEF Blocks
  <2>3. Blocked(k, k', t, Waiters(o))
    BY <1>2, <2>1, WaitTimes, WaitersIn, WaitInIs
  <2>4. \A u \in Thread \ {t} : call'[u] = call[u]
    BY <1>2, <2>2, SetCall DEF CallSet
  <2>5. k.thread[t].stat = "READY" /\ call[t].op # "sem_take"
    BY <1>2, <2>1, OnCpu DEF Running
  <2>6. /\ Only(k, k', t) /\ InClock(k, k') /\ k'.thread[t].stat = "SUSPEND"
        /\ WaitsOnlyAt(k', t, Waiters(o))
    BY <2>3 DEF Blocked, InClock, SameClock
  <2>7. Lives(k, k', t)
    BY <2>5, <2>6, UpAlive DEF Lives
  <2>8. Owes(k, call, k', call', obj, t)
    BY <1>3, <1>5, <2>5, <2>6, BlockedOwes
  <2> QED
    BY <2>1, <2>4, <2>6, <2>7, <2>8, OneMoves
<1> QED
  BY <1>4, <1>5 DEF rt_sem_take

(* The call returns: the permit it was given is used. *)
LEMMA SemTakenBooks ==
  ASSUME SyncInv, SyncInv', Ledger, NEW t \in Thread, SemTaken(t)
  PROVE  Ledger'
<1> DEFINE n == IF k.thread[t].error = "EOK" THEN ghost.permits - 1 ELSE ghost.permits
<1>1. k.current = t /\ call[t].op = "sem_take" /\ UNCHANGED <<k, obj, idle>>
  BY DEF SemTaken, Returns
<1>2. call' = [call EXCEPT ![t] = Running]
  BY DEF SemTaken, Done
<1>3. ghost' = PutPermits(ghost, n)
  BY DEF SemTaken, PutPermits
<1>4. (k.thread[t].error = "EOK" => n = ghost.permits - 1)
      /\ (k.thread[t].error # "EOK" => n = ghost.permits)
  OBVIOUS
<1> HIDE DEF n
<1>5. Full(k) /\ CallsOK(k, call, obj, ghost.held) /\ IsCalls(call) /\ IsGhost(ghost)
  BY DEF SyncInv, CallsOK
<1>6. ghost'.permits = n
  BY <1>3, <1>5, SetPermits
<1>7. call'[t].op # "sem_take" /\ \A u \in Thread \ {t} : call'[u] = call[u]
  BY <1>2, <1>5, SetCall DEF CallSet, Running
<1>8. ~Waits(k, t)
  BY <1>1, <1>5, OnCpu
<1>9. ~Gift(k, call', t)
  BY <1>7, NotTakingSem
<1>10. \A u \in Thread \ {t} : Owes(k, call, k, call', obj, u)
  BY <1>7, LookSelf, LookOwes
<1>11. Account(k, call, obj, ghost.permits) /\ \A x \in Object : ValueOf(obj[x]) \in Nat
  BY <1>5, ValuesNat DEF Ledger
<1>12. Account(k, call', obj, n)
  <2>1. CASE k.thread[t].error = "EOK"
    <3>1. Gift(k, call, t)
      BY <1>1, <1>8, <2>1 DEF Gift
    <3> QED
      BY <1>4, <1>8, <1>9, <1>10, <1>11, <2>1, <3>1, AccountPays
  <2>2. CASE k.thread[t].error # "EOK"
    <3>1. ~Gift(k, call, t)
      BY <2>2 DEF Gift
    <3>2. Owes(k, call, k, call', obj, t)
      BY <1>8, <1>9, <3>1, QuietOwes
    <3>3. \A u \in Thread : Owes(k, call, k, call', obj, u)
      BY <1>10, <3>2
    <3> QED
      BY <1>4, <1>11, <2>2, <3>3, AccountKept
  <2> QED
    BY <2>1, <2>2
<1> QED
  BY <1>1, <1>6, <1>12 DEF Ledger

LEMMA SemReleaseBooks ==
  ASSUME SyncInv, SyncInv', Ledger, NEW t \in Thread, NEW o \in Object, rt_sem_release(t, o)
  PROVE  Ledger'
<1> DEFINE n == ghost.permits + 1
<1>1. obj[o].kind = "sem" /\ UNCHANGED <<call, idle>>
  BY DEF rt_sem_release, Usable
<1>2. ghost' = PutPermits(ghost, n)
  BY DEF rt_sem_release, PutPermits
<1>3. n = ghost.permits + 1
  OBVIOUS
<1> HIDE DEF n
<1>4. /\ Full(k) /\ Full(k') /\ CallsOK(k, call, obj, ghost.held) /\ IsGhost(ghost) /\ Sound(k)
      /\ ObjectOK(k, call, obj, ghost.held, o) /\ Waiters(o) \in WaitList
  BY WaitersIn DEF SyncInv, CallsOK, Full, Live
<1>5. ghost'.permits = n
  BY <1>2, <1>4, SetPermits
<1>6. CASE k.wait[Waiters(o)] # <<>> /\ obj' = obj
           /\ k' = rt_schedule(rt_ipc_list_resume(k, Waiters(o)))
  <2> DEFINE u == Head(k.wait[Waiters(o)])
  <2>1. /\ u \in Thread /\ WaitsAt(k, u, Waiters(o)) /\ k.thread[u].error = "EOK"
        /\ k.thread[u].stat = "SUSPEND" /\ Woke(k, k', u)
    BY <1>4, <1>6, WakeHead
  <2> HIDE DEF u
  <2>2. call[u].op = "sem_take"
    <3>1. /\ call[u].op \in Takes /\ Waiters(o) = Waiters(call[u].object)
          /\ obj[call[u].object].kind = WaitKind(call[u].op)
      BY <1>4, <2>1 DEF CallsOK, CallOK
    <3>2. call[u].object = o
      BY <3>1, WaitersDiffer
    <3> QED
      BY <1>1, <3>1, <3>2 DEF Takes, WaitKind
  <2>3. /\ Only(k, k', u) /\ InClock(k, k') /\ k'.thread[u].stat = "READY"
        /\ k'.thread[u].error = "EOK" /\ ~Waits(k', u)
    BY <2>1 DEF Woke, InClock, SameClock
  <2>4. ~Gift(k, call, u) /\ Gift(k', call', u)
    BY <1>1, <1>4, <2>1, <2>2, <2>3 DEF Gift, Waits
  <2>5. \A v \in Thread \ {u} : Owes(k, call, k', call', obj, v)
    BY <1>1, <2>1, <2>3, OnlyOwes
  <2>6. Lives(k, k', u)
    BY <2>1, <2>3, UpAlive DEF Lives
  <2>7. \A v \in Thread : Lives(k, k', v)
    BY <2>1, <2>3, <2>6, OnlyLives
  <2>8. Filed(k, obj) /\ InTime(k.tm, k.tick, Least(idle)) /\ Account(k, call, obj, ghost.permits)
    BY DEF Ledger
  <2>9. k'.registered = k.registered /\ k'.lock_nest = k.lock_nest /\ k'.tick = k.tick
        /\ KeptTime(k.tm, k'.tm, k.tick)
    BY <2>3 DEF InClock
  <2>10. Filed(k', obj')
    BY <1>4, <1>6, <2>7, <2>8, <2>9, FiledKept
  <2>11. InTime(k'.tm, k'.tick, Least(idle))
    BY <2>8, <2>9, StillInTime
  <2>12. Account(k', call', obj, n)
    BY <1>3, <1>4, <2>1, <2>3, <2>4, <2>5, <2>8, AccountGives, ValuesNat
  <2> QED
    BY <1>1, <1>5, <1>6, <2>10, <2>11, <2>12 DEF Ledger
<1>7. CASE /\ k.wait[Waiters(o)] = <<>> /\ obj[o].value < RT_SEM_VALUE_MAX
           /\ obj' = [obj EXCEPT ![o].value = @ + 1] /\ k' = k
  <2> DEFINE v == obj[o].value + 1
  <2>1. obj' = PutObject(obj, o, [obj[o] EXCEPT !.value = v])
    BY <1>7 DEF PutObject
  <2>2. obj[o].value \in SemValue
    BY <1>1, <1>4, ObjectTypes DEF SemRecord
  <2>3. v \in SemValue
    BY <1>7, <2>2, SemAssumption DEF SemValue
  <2>4. n = ghost.permits - obj[o].value + v
    <3>1. ghost.permits \in Nat /\ obj[o].value \in Nat
      BY <2>2, PermitsNat, SemAssumption DEF SemValue
    <3> QED
      BY <1>3, <3>1
  <2> HIDE DEF v
  <2>5. \A u \in Thread : ~WaitsAt(k', u, Waiters(o))
    BY <1>4, <1>7, NobodyWaits
  <2>6. /\ InClock(k, k')
        /\ \A u \in Thread : Lives(k, k', u) /\ Owes(k, call, k', call', obj, u)
    BY <1>1, <1>7, StillBooks
  <2> QED
    BY <1>1, <1>2, <2>1, <2>3, <2>4, <2>5, <2>6, SemCountBooks
<1> QED
  BY <1>6, <1>7 DEF rt_sem_release

LEMMA SemControlBooks ==
  ASSUME SyncInv, SyncInv', Ledger, NEW t \in Thread, NEW o \in Object, NEW v \in SemValue,
         rt_sem_control(t, o, v)
  PROVE  Ledger'
<1> DEFINE q == rt_ipc_list_resume_all(k, Waiters(o))
           n == ghost.permits - obj[o].value + v
<1>1. obj[o].kind = "sem" /\ UNCHANGED <<call, idle>> /\ k' = rt_schedule(q)
  BY DEF rt_sem_control, Usable
<1>2. ghost' = PutPermits(ghost, n)
  BY DEF rt_sem_control, PutPermits
<1>3. obj' = PutObject(obj, o, [obj[o] EXCEPT !.value = v])
  BY DEF rt_sem_control, PutObject
<1>4. n = ghost.permits - obj[o].value + v
  OBVIOUS
<1> HIDE DEF n
<1>5. Full(k) /\ Sound(k) /\ Waiters(o) \in WaitList
  BY WaitersIn DEF SyncInv, Full, Live
<1>6. ResumedAll(k, q, Waiters(o))
  BY <1>5, ResumeAll
<1> HIDE DEF q
<1>7. Full(q) /\ Live(q)
  BY <1>5, <1>6, ResumedFull DEF Full
<1>8. Rescheduled(q, k')
  BY <1>1, <1>7, ScheduleIs
<1>9. k'.thread = q.thread /\ k'.wait = q.wait /\ k'.defunct = q.defunct /\ k'.tm = q.tm
  BY <1>8 DEF Rescheduled
<1>10. InClock(k, k')
  BY <1>6, <1>8 DEF Rescheduled, ResumedAll, SameRegs, InClock
<1>11. \A u \in Thread : /\ Lives(k, k', u) /\ Owes(k, call, k', call', obj, u)
                         /\ ~WaitsAt(k', u, Waiters(o))
  BY <1>1, <1>5, <1>6, <1>9, ResumedBooks
<1> QED
  BY <1>1, <1>2, <1>3, <1>4, <1>10, <1>11, SemCountBooks

-----------------------------------------------------------------------------
(* Mutexes, which have no permits. *)
LEMMA MutexMadeBooks ==
  ASSUME SyncInv, SyncInv', Ledger, NEW t \in Thread, NEW o \in Object, NEW f \in Flag,
         MutexMade(t, o, f)
  PROVE  Ledger'
<1> DEFINE m == IF o \in StaticObject THEN rt_mutex_init(f) ELSE rt_mutex_create(f)
<1>1. MakeObject(t, o, m) /\ ghost' = ghost
  BY DEF MutexMade
<1>2. m = rt_mutex_init(f)
  BY DEF rt_mutex_init, rt_mutex_create
<1>3. Fresh(m) /\ ValueOf(m) = 0
  BY <1>2 DEF Fresh, ValueOf, rt_mutex_init
<1> HIDE DEF m
<1>4. ghost.permits + 0 = ghost.permits
  BY PermitsNat
<1>5. ghost'.permits = IF o \in StaticObject THEN ghost.permits ELSE ghost.permits + ValueOf(m)
  BY <1>1, <1>3, <1>4
<1> QED
  BY <1>1, <1>3, <1>5, MakeBooks

LEMMA MutexInitedBooks ==
  ASSUME SyncInv, SyncInv', Ledger, NEW t \in Thread, MutexInited(t)
  PROVE  Ledger'
<1>1. ObjectInited(t, "mutex") /\ ghost' = ghost /\ call[t].made.kind = "mutex"
  BY DEF MutexInited, ObjectInited
<1>2. ValueOf(call[t].made) = 0
  BY <1>1 DEF ValueOf
<1>3. ghost.permits + 0 = ghost.permits
  BY PermitsNat
<1>4. ghost'.permits = ghost.permits + ValueOf(call[t].made)
  BY <1>1, <1>2, <1>3
<1> QED
  BY <1>1, <1>4, InitedBooks

LEMMA MutexGoneBooks ==
  ASSUME SyncInv, SyncInv', Ledger, NEW t \in Thread, NEW o \in Object,
         rt_mutex_detach(t, o) \/ rt_mutex_delete(t, o)
  PROVE  Ledger'
<1>1. obj[o].kind = "mutex" /\ UNCHANGED <<call, idle>>
  BY DEF rt_mutex_detach, rt_mutex_delete, DetachObject, DeleteObject, Usable
<1>2. k' = WithRegistered(rt_ipc_list_resume_all(k, Waiters(o)),
                          rt_ipc_list_resume_all(k, Waiters(o)).registered \ {o})
  BY DEF rt_mutex_detach, rt_mutex_delete, DetachObject, DeleteObject, rt_object_detach,
         rt_object_delete, WithRegistered
<1>3. obj' = PutObject(obj, o, Absent("mutex"))
  BY DEF rt_mutex_detach, rt_mutex_delete, DetachObject, DeleteObject, PutObject
<1>4. ghost' = PutGhost(ghost, o, t, 0)
  BY DEF rt_mutex_detach, rt_mutex_delete, PutGhost
<1>5. ghost'.permits = ghost.permits
  BY <1>4, SetGhostHeld DEF SyncInv
<1>6. ValueOf(obj[o]) = 0 /\ ghost.permits - 0 = ghost.permits
  BY <1>1, PermitsNat DEF ValueOf
<1>7. ghost'.permits = ghost.permits - ValueOf(obj[o])
  BY <1>5, <1>6
<1> QED
  BY <1>1, <1>2, <1>3, <1>7, GoneBooks

(* A mutex changes hands, and the threads owe what they owed. *)
LEMMA MutexMoves ==
  ASSUME SyncInv, SyncInv', Ledger, NEW o \in Object, obj[o].kind = "mutex", NEW m,
         m.kind = "mutex", obj' = PutObject(obj, o, m), NEW t, NEW n,
         ghost' = PutGhost(ghost, o, t, n), idle' = idle, InClock(k, k'),
         \A u \in Thread : Lives(k, k', u) /\ Owes(k, call, k', call', obj, u)
  PROVE  Ledger'
<1>1. IsGhost(ghost) /\ IsObjects(obj)
  BY DEF SyncInv, CallsOK
<1>2. ghost'.permits = ghost.permits
  BY <1>1, SetGhostHeld
<1>3. obj'[o].kind = "mutex" /\ \A x \in Object \ {o} : obj'[x] = obj[x]
  BY <1>1, SetObject DEF IsPut
<1>4. \A x \in Object : /\ ValueOf(obj'[x]) = ValueOf(obj[x])
                        /\ obj'[x].kind = "absent" <=> obj[x].kind = "absent"
  BY <1>3 DEF ValueOf
<1> QED
  BY <1>2, <1>4, LedgerKept

(* What a mutex call tells its caller. *)
LEMMA ToldBooks ==
  ASSUME NEW s, NEW t \in Thread, s.thread[t].stat = "READY", NEW r, Only(s, r, t),
         SameRegs(s, r), r.thread[t].stat = "READY", ~Waits(r, t), r.tm = s.tm,
         NEW c, c[t].op # "sem_take", NEW b
  PROVE  /\ InClock(s, r)
         /\ \A u \in Thread : Lives(s, r, u) /\ Owes(s, c, r, c, b, u)
<1>1. InClock(s, r)
  BY KeptTimeSelf DEF InClock, SameRegs
<1>2. Lives(s, r, t)
  BY UpAlive DEF Lives
<1>3. Owes(s, c, r, c, b, t)
  BY NotTakingSem, QuietOwes
<1>4. \A u \in Thread \ {t} : Lives(s, r, u) /\ Owes(s, c, r, c, b, u)
  BY OnlyLives, OnlyOwes
<1> QED
  BY <1>1, <1>2, <1>3, <1>4

LEMMA ErrorBooks ==
  ASSUME NEW s, Full(s), NEW t \in Thread, s.current = t, NEW e \in Error,
         NEW r, r = [s EXCEPT !.thread[t].error = e], NEW c, c[t].op # "sem_take", NEW b
  PROVE  /\ InClock(s, r)
         /\ \A u \in Thread : Lives(s, r, u) /\ Owes(s, c, r, c, b, u)
<1>1. /\ Only(s, r, t) /\ SameRegs(s, r) /\ r.thread[t].stat = "READY" /\ ~Waits(r, t)
      /\ r.tm = s.tm
  BY ErrorSet
<1>2. s.thread[t].stat = "READY"
  BY DEF Full
<1> QED
  BY <1>1, <1>2, ToldBooks

LEMMA MutexRefusedBooks ==
  ASSUME SyncInv, SyncInv', Ledger, NEW t \in Thread, NEW o \in Object, Usable(t, o, "mutex"),
         NEW e \in Error, k' = [k EXCEPT !.thread[t].error = e],
         UNCHANGED <<obj, ghost, call, idle>>
  PROVE  Ledger'
<1>1. k.current = t /\ call[t].op # "sem_take" /\ Full(k)
  BY MutexTypes DEF SyncInv
<1>2. /\ InClock(k, k')
      /\ \A u \in Thread : Lives(k, k', u) /\ Owes(k, call, k', call, obj, u)
  BY <1>1, ErrorBooks
<1> QED
  BY <1>2, LedgerKept

(* Priorities change and nothing else that the objects see. *)
LEMMA LookBooks ==
  ASSUME NEW s, NEW r, SameRegs(s, r), r.tm = s.tm, r.defunct = s.defunct,
         \A u \in Thread : Look(s, r, u), NEW c, NEW b
  PROVE  /\ InClock(s, r)
         /\ \A u \in Thread : Lives(s, r, u) /\ Owes(s, c, r, c, b, u)
<1>1. InClock(s, r)
  BY KeptTimeSelf DEF InClock, SameRegs
<1>2. \A u \in Thread : Lives(s, r, u)
  BY LookLives DEF IsDefunct
<1> QED
  BY <1>1, <1>2, LookOwes

LEMMA BooksTrans ==
  ASSUME NEW s, NEW q, NEW r, InClock(s, q), InClock(q, r)
  PROVE  InClock(s, r)
BY KeptTimeTrans DEF InClock

LEMMA OwesTrans ==
  ASSUME NEW s, NEW q, NEW r, NEW c, NEW d, NEW b, NEW u,
         Lives(s, q, u), Lives(q, r, u), Owes(s, c, q, c, b, u), Owes(q, c, r, d, b, u)
  PROVE  Lives(s, r, u) /\ Owes(s, c, r, d, b, u)
BY DEF Lives, Owes

LEMMA MutexBlocksBooks ==
  ASSUME SyncInv, SyncInv', Ledger, NEW t \in Thread, NEW o \in Object,
         NEW time \in Times \cup {0, Forever},
         Usable(t, o, "mutex"), obj[o].owner # t, obj[o].value = 0, k.lock_nest = 0, time # 0,
         k' = WaitIn(Lend([k EXCEPT !.thread[t].error = "EOK"], obj[o], t), Waiters(o), t,
                     obj[o].flag, time),
         call' = [call EXCEPT ![t] = [op |-> "mutex_take", object |-> o]],
         UNCHANGED <<obj, ghost, idle>>
  PROVE  Ledger'
<1> DEFINE q == [k EXCEPT !.thread[t].error = "EOK"]
           s == Lend(q, obj[o], t)
<1>1. /\ k.current = t /\ call[t].op # "sem_take" /\ obj[o].kind = "mutex"
      /\ obj[o].owner \in Thread \cup {NoThread} /\ MutexOK(k, call, obj[o], ghost.held[o], o)
  BY MutexTypes
<1>2. obj[o].owner # NoThread /\ obj[o].owner \in Thread
  BY <1>1 DEF MutexOK
<1>3. Full(k) /\ IsCalls(call) /\ "EOK" \in Error
  BY DEF SyncInv, CallsOK, Error
<1>4. Full(q) /\ SameRegs(k, q) /\ q.thread[t].stat = "READY"
  BY <1>1, <1>3, ErrorSet
<1>5. /\ InClock(k, q)
      /\ \A u \in Thread : Lives(k, q, u) /\ Owes(k, call, q, call, obj, u)
  BY <1>1, <1>3, ErrorBooks
<1> HIDE DEF q
<1>6. /\ Full(s) /\ SameRegs(q, s) /\ s.tm = q.tm /\ s.defunct = q.defunct
      /\ \A u \in Thread : Look(q, s, u)
  BY <1>2, <1>4, LendIs
<1> HIDE DEF s
<1>7. /\ InClock(q, s)
      /\ \A u \in Thread : Lives(q, s, u) /\ Owes(q, call, s, call, obj, u)
  BY <1>6, LookBooks
<1>8. s.current = t /\ s.lock_nest = 0
  BY <1>1, <1>4, <1>6 DEF SameRegs
<1>9. k' = WaitIn(s, Waiters(o), t, obj[o].flag, time)
  BY DEF s, q
<1>10. Blocked(s, k', t, Waiters(o))
  BY <1>6, <1>8, <1>9, WaitTimes, WaitersIn, WaitInIs
<1>11. /\ Only(s, k', t) /\ InClock(s, k') /\ k'.thread[t].stat = "SUSPEND"
       /\ WaitsOnlyAt(k', t, Waiters(o))
  BY <1>10 DEF Blocked, InClock, SameClock
<1>12. \A u \in Thread \ {t} : call'[u] = call[u]
  BY <1>3, SetCall DEF CallSet
<1>13. ValueOf(obj[o]) = 0
  BY <1>1 DEF ValueOf
<1>14. Lives(s, k', t) /\ Owes(s, call, k', call', obj, t)
  <2>1. s.thread[t].stat = "READY"
    BY <1>6, <1>8, OnCpu
  <2>2. Lives(s, k', t)
    BY <1>11, <2>1, UpAlive DEF Lives
  <2> QED
    BY <1>1, <1>11, <1>13, <2>2, BlockedOwes
<1>15. \A u \in Thread \ {t} : Lives(s, k', u) /\ Owes(s, call, k', call', obj, u)
  BY <1>11, <1>12, OnlyLives, OnlyOwes
<1>16. \A u \in Thread : Lives(s, k', u) /\ Owes(s, call, k', call', obj, u)
  BY <1>14, <1>15
<1>17. ASSUME NEW u \in Thread
       PROVE  Lives(k, s, u) /\ Owes(k, call, s, call, obj, u)
  <2>1. Lives(k, q, u) /\ Owes(k, call, q, call, obj, u)
    BY <1>5
  <2>2. Lives(q, s, u) /\ Owes(q, call, s, call, obj, u)
    BY <1>7
  <2> QED
    BY <2>1, <2>2, OwesTrans
<1>18. ASSUME NEW u \in Thread
       PROVE  Lives(k, k', u) /\ Owes(k, call, k', call', obj, u)
  <2>1. Lives(k, s, u) /\ Owes(k, call, s, call, obj, u)
    BY <1>17
  <2>2. Lives(s, k', u) /\ Owes(s, call, k', call', obj, u)
    BY <1>16
  <2> QED
    BY <2>1, <2>2, OwesTrans
<1>19. InClock(k, k')
  BY <1>5, <1>7, <1>11, BooksTrans
<1> QED
  BY <1>18, <1>19, LedgerKept

LEMMA MutexTakeBooks ==
  ASSUME SyncInv, SyncInv', Ledger, NEW t \in Thread, NEW o \in Object,
         NEW time \in Times \cup {0, Forever}, rt_mutex_take(t, o, time)
  PROVE  Ledger'
<1> DEFINE m == obj[o]
<1>1. Usable(t, o, "mutex")
  BY DEF rt_mutex_take
<1>2. /\ k.current = t /\ call[t].op # "sem_take" /\ Full(k) /\ m \in MutexRecord
      /\ m.kind = "mutex" /\ "EOK" \in Error
  BY <1>1, MutexTypes DEF SyncInv, Error
<1>3. CASE \E n : /\ n.kind = "mutex" /\ obj' = [obj EXCEPT ![o] = n]
                  /\ ghost' = [ghost EXCEPT !.held[o][t] = @ + 1]
                  /\ k' = [k EXCEPT !.thread[t].error = "EOK"] /\ UNCHANGED <<call, idle>>
  <2>1. PICK n : /\ n.kind = "mutex" /\ obj' = PutObject(obj, o, n)
                 /\ ghost' = PutGhost(ghost, o, t, ghost.held[o][t] + 1)
                 /\ k' = [k EXCEPT !.thread[t].error = "EOK"] /\ UNCHANGED <<call, idle>>
    BY <1>3 DEF PutObject, PutGhost
  <2>2. /\ InClock(k, k')
        /\ \A u \in Thread : Lives(k, k', u) /\ Owes(k, call, k', call, obj, u)
    BY <1>2, <2>1, ErrorBooks
  <2> QED
    BY <1>2, <2>1, <2>2, MutexMoves
<1>4. CASE k' = [k EXCEPT !.thread[t].error = "ETIMEOUT"] /\ UNCHANGED <<obj, ghost, call, idle>>
  <2>1. "ETIMEOUT" \in Error
    BY DEF Error
  <2> QED
    BY <1>1, <1>4, <2>1, MutexRefusedBooks
<1>5. CASE /\ m.owner # t /\ m.value = 0 /\ k.lock_nest = 0 /\ time # 0
           /\ k' = WaitIn(Lend([k EXCEPT !.thread[t].error = "EOK"], m, t), Waiters(o), t,
                          m.flag, time)
           /\ call' = [call EXCEPT ![t] = [op |-> "mutex_take", object |-> o]]
           /\ UNCHANGED <<obj, ghost, idle>>
  BY <1>1, <1>5, MutexBlocksBooks
<1>6. /\ [m EXCEPT !.hold = @ + 1].kind = "mutex"
      /\ [m EXCEPT !.value = @ - 1, !.owner = t, !.hold = @ + 1,
                   !.original_priority = k.thread[t].current_priority].kind = "mutex"
  BY <1>2 DEF MutexRecord
<1> QED
  BY <1>3, <1>4, <1>5, <1>6 DEF rt_mutex_take

LEMMA MutexTakenBooks ==
  ASSUME SyncInv, SyncInv', Ledger, NEW t \in Thread, MutexTaken(t)
  PROVE  Ledger'
<1> DEFINE o == call[t].object
           n == ghost.held[o][t] + 1
<1>1. k.current = t /\ call[t].op = "mutex_take" /\ UNCHANGED <<k, obj, idle>>
  BY DEF MutexTaken, Returns
<1>2. call' = [call EXCEPT ![t] = Running]
  BY DEF MutexTaken, Done
<1>3. ghost' = ghost \/ ghost' = PutGhost(ghost, o, t, n)
  BY DEF MutexTaken, PutGhost
<1> HIDE DEF o, n
<1>4. Full(k) /\ IsCalls(call) /\ IsGhost(ghost)
  BY DEF SyncInv, CallsOK
<1>5. ghost'.permits = ghost.permits
  BY <1>3, <1>4, SetGhostHeld
<1>6. call'[t].op # "sem_take" /\ \A u \in Thread \ {t} : call'[u] = call[u]
  BY <1>2, <1>4, SetCall DEF CallSet, Running
<1>7. ~Waits(k, t)
  BY <1>1, <1>4, OnCpu
<1>8. Owes(k, call, k', call', obj, t)
  BY <1>1, <1>6, <1>7, NotTakingSem, QuietOwes
<1>9. \A u \in Thread \ {t} : Owes(k, call, k', call', obj, u)
  BY <1>1, <1>6, LookSelf, LookOwes
<1>10. InClock(k, k') /\ \A u \in Thread : Lives(k, k', u)
  BY <1>1, KeptTimeSelf DEF InClock, Lives
<1> QED
  BY <1>1, <1>5, <1>8, <1>9, <1>10, LedgerKept

(* The last hold goes to the first thread that waits: no permit moves. *)
LEMMA HandOverBooks ==
  ASSUME SyncInv, SyncInv', Ledger, NEW t \in Thread, NEW o \in Object, Usable(t, o, "mutex"),
         obj[o].owner = t, obj[o].hold = 1, k.wait[Waiters(o)] # <<>>, NEW m, m.kind = "mutex",
         obj' = PutObject(obj, o, m), NEW n, ghost' = PutGhost(ghost, o, t, n),
         k' = rt_schedule(rt_ipc_list_resume(Restore(k, obj[o]), Waiters(o))),
         UNCHANGED <<call, idle>>
  PROVE  Ledger'
<1> DEFINE s == Restore(k, obj[o])
           u == Head(s.wait[Waiters(o)])
<1>1. /\ obj[o].kind = "mutex" /\ t # NoThread /\ MutexOK(k, call, obj[o], ghost.held[o], o)
      /\ call[t].op = "none"
  BY MutexTypes
<1>2. obj[o].original_priority \in Priority
  BY <1>1, OwnerHolds
<1>3. Full(k) /\ CallsOK(k, call, obj, ghost.held)
  BY DEF SyncInv
<1>4. /\ Full(s) /\ SameRegs(k, s) /\ s.wait = k.wait /\ s.tm = k.tm /\ s.defunct = k.defunct
      /\ \A v \in Thread : Look(k, s, v)
  BY <1>2, <1>3, RestoreIs
<1>5. k' = rt_schedule(rt_ipc_list_resume(s, Waiters(o)))
  OBVIOUS
<1> HIDE DEF s
<1>6. /\ InClock(k, s)
      /\ \A v \in Thread : Lives(k, s, v) /\ Owes(k, call, s, call, obj, v)
  BY <1>4, LookBooks
<1>7. /\ u \in Thread /\ WaitsAt(s, u, Waiters(o)) /\ s.thread[u].stat = "SUSPEND"
      /\ Woke(s, k', u)
  BY <1>4, <1>5, WaitersIn, WakeHead
<1> HIDE DEF u
<1>8. call[u].op # "sem_take"
  <2>1. WaitsAt(k, u, Waiters(o)) /\ CallOK(k, call, obj, ghost.held, u)
    BY <1>3, <1>4, <1>7 DEF WaitsAt, CallsOK
  <2>2. /\ call[u].op \in Takes /\ Waiters(o) = Waiters(call[u].object)
        /\ obj[call[u].object].kind = WaitKind(call[u].op)
    BY <2>1, WaitersIn DEF CallOK
  <2>3. call[u].object = o
    BY <2>2, WaitersDiffer
  <2> QED
    BY <1>1, <2>2, <2>3 DEF Takes, WaitKind
<1>9. Only(s, k', u) /\ InClock(s, k') /\ k'.thread[u].stat = "READY" /\ ~Waits(k', u)
  BY <1>7 DEF Woke, InClock, SameClock
<1>10. Lives(s, k', u) /\ Owes(s, call, k', call, obj, u)
  <2>1. Lives(s, k', u)
    BY <1>7, <1>9, UpAlive DEF Lives
  <2> QED
    BY <1>8, <1>9, <2>1, NotTakingSem, QuietOwes
<1>11. \A v \in Thread \ {u} : Lives(s, k', v) /\ Owes(s, call, k', call, obj, v)
  BY <1>9, OnlyLives, OnlyOwes
<1>12. ASSUME NEW v \in Thread
       PROVE  Lives(k, k', v) /\ Owes(k, call, k', call', obj, v)
  <2>1. Lives(k, s, v) /\ Owes(k, call, s, call, obj, v)
    BY <1>6
  <2>2. Lives(s, k', v) /\ Owes(s, call, k', call, obj, v)
    BY <1>10, <1>11
  <2> QED
    BY <2>1, <2>2, OwesTrans
<1>13. InClock(k, k')
  BY <1>6, <1>9, BooksTrans
<1> QED
  BY <1>1, <1>12, <1>13, MutexMoves

LEMMA MutexReleaseBooks ==
  ASSUME SyncInv, SyncInv', Ledger, NEW t \in Thread, NEW o \in Object, rt_mutex_release(t, o)
  PROVE  Ledger'
<1> DEFINE m == obj[o]
           queue == k.wait[Waiters(o)]
<1>1. Usable(t, o, "mutex") /\ UNCHANGED <<call, idle>>
  BY DEF rt_mutex_release
<1>2. /\ k.current = t /\ m \in MutexRecord /\ m.kind = "mutex" /\ t # NoThread
      /\ MutexOK(k, call, m, ghost.held[o], o) /\ call[t].op = "none"
  BY <1>1, MutexTypes
<1>3. CASE k' = [k EXCEPT !.thread[t].error = "ERROR"] /\ UNCHANGED <<obj, ghost>>
  <2>1. "ERROR" \in Error
    BY DEF Error
  <2> QED
    BY <1>1, <1>3, <2>1, MutexRefusedBooks
<1>4. CASE /\ obj' = [obj EXCEPT ![o].hold = @ - 1]
           /\ ghost' = [ghost EXCEPT !.held[o][t] = @ - 1] /\ UNCHANGED k
  <2>1. obj' = PutObject(obj, o, [obj[o] EXCEPT !.hold = obj[o].hold - 1])
    BY <1>4 DEF PutObject
  <2>2. ghost' = PutGhost(ghost, o, t, ghost.held[o][t] - 1)
    BY <1>4 DEF PutGhost
  <2> DEFINE l == [obj[o] EXCEPT !.hold = obj[o].hold - 1]
  <2>3. l.kind = "mutex" /\ obj' = PutObject(obj, o, l)
    BY <1>2, <2>1 DEF MutexRecord
  <2> HIDE DEF l
  <2>4. /\ InClock(k, k')
        /\ \A u \in Thread : Lives(k, k', u) /\ Owes(k, call, k', call', obj, u)
    BY <1>1, <1>4, StillBooks
  <2>5. idle' = idle /\ obj[o].kind = "mutex"
    BY <1>1, <1>2
  <2> QED
    BY <2>2, <2>3, <2>4, <2>5, MutexMoves
<1>5. CASE /\ m.owner = t /\ m.hold = 1 /\ queue # <<>>
           /\ obj' = [obj EXCEPT ![o] = HandOver(Restore(k, m), m, Head(queue))]
           /\ ghost' = [ghost EXCEPT !.held[o][t] = @ - 1]
           /\ k' = rt_schedule(rt_ipc_list_resume(Restore(k, m), Waiters(o)))
  <2> DEFINE h == HandOver(Restore(k, m), m, Head(queue))
  <2>1. obj' = PutObject(obj, o, h)
    BY <1>5 DEF PutObject
  <2>2. ghost' = PutGhost(ghost, o, t, ghost.held[o][t] - 1)
    BY <1>5 DEF PutGhost
  <2>3. h.kind = "mutex"
    BY <1>2 DEF HandOver, MutexRecord
  <2> HIDE DEF h
  <2> QED
    BY <1>1, <1>5, <2>1, <2>2, <2>3, HandOverBooks
<1>6. CASE /\ m.owner = t /\ m.hold = 1
           /\ obj' = [obj EXCEPT ![o] = [m EXCEPT !.value = @ + 1, !.owner = NoThread,
                                                  !.hold = 0, !.original_priority = 255]]
           /\ ghost' = [ghost EXCEPT !.held[o][t] = @ - 1] /\ k' = Restore(k, m)
  <2> DEFINE f == [m EXCEPT !.value = @ + 1, !.owner = NoThread, !.hold = 0,
                            !.original_priority = 255]
  <2>1. obj' = PutObject(obj, o, f)
    BY <1>6 DEF PutObject
  <2>2. ghost' = PutGhost(ghost, o, t, ghost.held[o][t] - 1)
    BY <1>6 DEF PutGhost
  <2>3. f.kind = "mutex"
    BY <1>2 DEF MutexRecord
  <2> HIDE DEF f
  <2>4. m.original_priority \in Priority /\ Full(k)
    BY <1>2, <1>6, OwnerHolds DEF SyncInv
  <2>5. /\ SameRegs(k, k') /\ k'.tm = k.tm /\ k'.defunct = k.defunct
        /\ \A u \in Thread : Look(k, k', u)
    BY <1>6, <2>4, RestoreIs
  <2>6. /\ InClock(k, k')
        /\ \A u \in Thread : Lives(k, k', u) /\ Owes(k, call, k', call, obj, u)
    BY <2>5, LookBooks
  <2> QED
    BY <1>1, <1>2, <2>1, <2>2, <2>3, <2>6, MutexMoves
<1> QED
  BY <1>3, <1>4, <1>5, <1>6 DEF rt_mutex_release

-----------------------------------------------------------------------------
(* The start of the system, and all its steps. *)
LEMMA SumZero ==
  ASSUME NEW w, NEW S, IsFiniteSet(S), \A x \in S : w[x] = 0
  PROVE  Sum(w, S) = 0
<1> SUFFICES ASSUME Sum(w, S) # 0 PROVE FALSE
  OBVIOUS
<1> DEFINE F == {T \in SUBSET S : Sum(w, T) # 0}
<1>1. F \in SUBSET (SUBSET S) /\ F # {}
  OBVIOUS
<1> HIDE DEF F
<1>2. PICK T \in F : \A U \in F : ~(U \subseteq T /\ U # T)
  BY <1>1, LeastSubset
<1>3. T \in SUBSET S /\ Sum(w, T) # 0
  BY DEF F
<1>4. T # {} /\ IsFiniteSet(T)
  BY <1>3, SumEmpty, FS_Subset
<1>5. Pick(T) \in T /\ Sum(w, T) = w[Pick(T)] + Sum(w, T \ {Pick(T)})
  BY <1>4, PickIn, SumPicked
<1>6. T \ {Pick(T)} \notin F
  BY <1>2, <1>5
<1>7. Sum(w, T \ {Pick(T)}) = 0
  BY <1>3, <1>6 DEF F
<1>8. w[Pick(T)] = 0
  BY <1>3, <1>5
<1> QED
  BY <1>3, <1>5, <1>7, <1>8

LEMMA LedgerStart ==
  ASSUME Init
  PROVE  Ledger
<1>1. SyncInv /\ Full(k) /\ TimersKept(k.tm)
  BY SyncStart DEF SyncInv, Full, Live, Sound, Tables
<1>2. k = rtthread_startup /\ call = [t \in Thread |-> Running] /\ idle = Looping
  BY DEF Init, KernelInit
<1>3. ghost = [permits |-> 0, held |-> [o \in Object |-> [t \in Thread |-> 0]]]
  BY DEF Init
<1>4. PICK f \in Setups : obj = [o \in Object |-> Absent(f[o])]
  BY DEF Init
<1>5. \A o \in Object : obj[o].kind = "absent" /\ ValueOf(obj[o]) = 0
  BY <1>4 DEF Absent, ValueOf
<1>6. /\ k.lock_nest = 0 /\ k.registered = {Main, Idle}
      /\ \A t \in All : /\ t \notin k.tm.active /\ ~IsDefunct(k, t)
                        /\ t \in {Main, Idle} <=> k.thread[t].stat \notin {"NONE", "CLOSE"}
  BY <1>2, SystemStart
<1>7. Filed(k, obj)
  <2>1. k.lock_nest <= MaxNest
    BY <1>6, KernelAssumption
  <2>2. \A t \in All : t \in k.registered <=> Alive(k, t)
    BY <1>6 DEF Alive
  <2>3. \A o \in Object : o \notin k.registered
    BY <1>6, IpcAssumption, KernelAssumption DEF All
  <2> QED
    BY <1>5, <2>1, <2>2, <2>3 DEF Filed
<1>8. InTime(k.tm, k.tick, Least(idle))
  <2>1. k.tm.active = {}
    BY <1>1, <1>6 DEF TimersKept, All
  <2>2. DOMAIN k.tm.list["hard"] = {}
    BY <1>1, <2>1 DEF TimersKept, ToSet
  <2> QED
    BY <2>1, <2>2 DEF InTime
<1>9. Account(k, call, obj, ghost.permits)
  <2>1. Gifts(k, call) = {}
    BY <1>2 DEF Gifts, Gift, Running
  <2>2. Cardinality(Gifts(k, call)) = 0
    BY <2>1, FS_EmptySet
  <2>3. Sum(Values(obj), Object) = 0
    <3>1. \A o \in Object : Values(obj)[o] = 0
      BY <1>5 DEF Values
    <3> QED
      BY <3>1, SumZero, FiniteAssumption
  <2>4. ghost.permits = 0
    BY <1>3
  <2> QED
    BY <1>5, <2>2, <2>3, <2>4 DEF Account
<1> QED
  BY <1>7, <1>8, <1>9 DEF Ledger

LEMMA ThreadLifeBooks ==
  ASSUME SyncInv, SyncInv', Ledger, ThreadLife
  PROVE  Ledger'
BY CreateBooks, InitThreadBooks, ThreadInitedBooks, StartupBooks, ExitBooks, DeleteBooks
   DEF ThreadLife

LEMMA SleepingBooks ==
  ASSUME SyncInv, SyncInv', Ledger, Sleeping
  PROVE  Ledger'
BY SleepBooks, DelayUntilBooks, AwakeBooks, YieldBooks DEF Sleeping

LEMMA ControlBooks ==
  ASSUME SyncInv, SyncInv', Ledger, Control
  PROVE  Ledger'
BY SuspendBooks, ResumeBooks, SetPriorityBooks, CriticalBooks DEF Control

LEMMA SemaphoresBooks ==
  ASSUME SyncInv, SyncInv', Ledger, Semaphores
  PROVE  Ledger'
<1>1. PICK t \in Thread, o \in Object :
        \/ \E v \in SemValue, f \in FlagsOf[o] : SemMade(t, o, v, f)
        \/ SemInited(t) \/ rt_sem_detach(t, o) \/ rt_sem_delete(t, o)
        \/ \E time \in Times \cup {0, Forever} : rt_sem_take(t, o, time)
        \/ SemTaken(t) \/ rt_sem_release(t, o)
        \/ \E v \in SemValue : rt_sem_control(t, o, v)
  BY DEF Semaphores
<1>2. FlagsOf[o] \subseteq Flag
  BY IpcAssumption
<1> QED
  BY <1>1, <1>2, SemMadeBooks, SemInitedBooks, SemGoneBooks, SemTakeBooks, SemTakenBooks,
     SemReleaseBooks, SemControlBooks

LEMMA MutexStepsBooks ==
  ASSUME SyncInv, SyncInv', Ledger, MutexSteps
  PROVE  Ledger'
<1>1. PICK t \in Thread, o \in Object :
        \/ \E f \in FlagsOf[o] : MutexMade(t, o, f)
        \/ MutexInited(t) \/ rt_mutex_detach(t, o) \/ rt_mutex_delete(t, o)
        \/ \E time \in Times \cup {0, Forever} : rt_mutex_take(t, o, time)
        \/ MutexTaken(t) \/ rt_mutex_release(t, o)
  BY DEF MutexSteps
<1>2. FlagsOf[o] \subseteq Flag
  BY IpcAssumption
<1> QED
  BY <1>1, <1>2, MutexMadeBooks, MutexInitedBooks, MutexGoneBooks, MutexTakeBooks,
     MutexTakenBooks, MutexReleaseBooks

LEMMA LedgerNext ==
  ASSUME SyncInv, SyncInv', Ledger, [Next]_vars
  PROVE  Ledger'
<1>1. CASE Next
  BY <1>1, ThreadLifeBooks, SleepingBooks, ControlBooks, IdleThreadBooks, SemaphoresBooks,
     MutexStepsBooks DEF Next
<1>2. CASE UNCHANGED vars
  <2>1. UNCHANGED <<k, call, idle, obj, ghost>>
    BY <1>2 DEF vars, kernelVars, ipcVars
  <2> QED
    BY <2>1 DEF Ledger
<1> QED
  BY <1>1, <1>2

(* The books are right in every behaviour. *)
THEOREM LedgerAlways == Spec => [](SyncInv /\ Ledger)
<1>1. Init => SyncInv /\ Ledger
  BY SyncStart, LedgerStart
<1>2. SyncInv /\ Ledger /\ [Next]_vars => (SyncInv /\ Ledger)'
  BY SyncNext, LedgerNext
<1> QED
  BY <1>1, <1>2, PTL DEF Spec

-----------------------------------------------------------------------------
LEMMA TypesHold ==
  ASSUME SyncInv, Ledger
  PROVE  TypeOK
<1>1. /\ Full(k) /\ Sound(k) /\ Tables(k) /\ idle \in IdlePlace /\ IsCalls(call)
      /\ CallsOK(k, call, obj, ghost.held)
  BY DEF SyncInv, CallsOK, Full, Live, Sound
<1>2. /\ k.thread \in [All -> ThreadRecord] /\ k.ready \in [Priority -> Seq(All)]
      /\ k.wait \in [WaitList -> Seq(Thread)] /\ k.defunct \in Seq(Thread)
      /\ k.group \in SUBSET Priority /\ k.lock_nest \in Nat
      /\ k.tick \in Tick /\ k.remaining_tick \in 1..IdleSlice
      /\ k.registered \in SUBSET (All \cup Object)
  BY <1>1, TablesTypes
<1>3. \A p \in Priority : ToSet(k.ready[p]) \subseteq All
  BY <1>2, ListEmpty
<1>4. \A l \in WaitList : ToSet(k.wait[l]) \subseteq Thread
  BY <1>2, ListEmpty
<1>5. ToSet(k.defunct) \subseteq Thread
  BY <1>2, ListEmpty
<1>6. k.lock_nest \in 0..MaxNest
  BY <1>2, KernelAssumption DEF Ledger, Filed
<1>7. k.current \in All /\ DOMAIN call = Thread
  BY <1>1 DEF Full, IsCalls
<1>8. idle.at \in {"loop", "yield", "callback"}
  BY <1>1 DEF IdlePlace, Looping
<1>9. KernelTypeOK
  BY <1>2, <1>3, <1>4, <1>5, <1>6, <1>7, <1>8 DEF KernelTypeOK
<1>10. ASSUME NEW o \in Object
       PROVE  obj[o] \in AbsentRecord \/ obj[o] \in SemRecord \/ obj[o] \in MutexRecord
  <2>1. ObjectOK(k, call, obj, ghost.held, o)
    BY <1>1 DEF CallsOK
  <2> QED
    BY <2>1 DEF ObjectOK
<1>11. ObjectTypeOK
  BY <1>10 DEF ObjectTypeOK, AbsentRecord, SemRecord, MutexRecord
<1> QED
  BY <1>9, <1>11 DEF TypeOK

LEMMA TimersHold ==
  ASSUME SyncInv, Ledger
  PROVE  ThreadTimers /\ NoneOverdue
<1>1. Sound(k) /\ TimersKept(k.tm) /\ k.tick \in Tick
  BY TablesTypes DEF SyncInv, Full, Live, Sound, Tables
<1>2. InTime(k.tm, k.tick, Least(idle))
  BY DEF Ledger
<1>3. InTime(k.tm, k.tick, 0)
  BY <1>2, LooserInTime DEF Least
<1>4. ToSet(k.tm.list["hard"]) = k.tm.active /\ k.tm.active \subseteq All
  BY <1>1 DEF TimersKept, All
<1>5. \A t \in k.tm.active : k.thread[t].stat = "SUSPEND"
  BY <1>1, <1>4 DEF Sound, Coherent
<1>6. \A i, j \in DOMAIN k.tm.list["hard"] : i < j =>
        Reached(k.tm.timeout_tick[k.tm.list["hard"][j]], k.tm.timeout_tick[k.tm.list["hard"][i]])
  BY <1>1, <1>3, TimersOrdered
<1>7. ThreadTimers
  BY <1>4, <1>5, <1>6 DEF ThreadTimers
<1>8. ASSUME idle = Looping, NEW t \in k.tm.active
      PROVE  Minus(k.tm.timeout_tick[t], k.tick) \in 1..(RT_TICK_MAX \div 2)
  <2>1. Left(k.tm, k.tick, t) \in 1..(Half - 1)
    BY <1>2, <1>8 DEF InTime, Least
  <2>2. Left(k.tm, k.tick, t) \in 1..Half
    BY <2>1, HalfTick
  <2> QED
    BY <2>2 DEF Left, Half
<1> QED
  BY <1>7, <1>8 DEF NoneOverdue

LEMMA RegisteredHolds ==
  ASSUME SyncInv, Ledger
  PROVE  Registered
<1>1. k.defunct \in Seq(Thread)
  BY TablesTypes DEF SyncInv, Full, Live, Sound
<1>2. \A t \in All : Contains(k.defunct, t) <=> IsDefunct(k, t)
  BY <1>1, ContainsIs DEF IsDefunct
<1> QED
  BY <1>2 DEF Ledger, Filed, Alive, Registered, Exists

LEMMA PermitsHold ==
  ASSUME SyncInv, Ledger
  PROVE  PermitsKept
<1>1. Sound(k) /\ Account(k, call, obj, ghost.permits)
  BY DEF SyncInv, Full, Live, Ledger
<1>2. \A t \in Thread : Granted(t) <=> Gift(k, call, t)
  BY <1>1, InWaitListIs DEF Granted, Gift
<1>3. {t \in Thread : Granted(t)} = Gifts(k, call)
  BY <1>2 DEF Gifts
<1>4. Permits = Values(obj)
  BY DEF Permits, Values, ValueOf
<1>5. ghost.permits = Cardinality({t \in Thread : Granted(t)}) + SumFunctionOnSet(Permits, Object)
  BY <1>1, <1>3, <1>4 DEF Account, Sum
<1>6. ASSUME NEW o \in Object, obj[o].kind = "sem", k.wait[Waiters(o)] # <<>>
      PROVE  obj[o].value = 0
  <2>1. \E t \in Thread : WaitsAt(k, t, Waiters(o))
    BY <1>1, <1>6, WaitersIn, NobodyWaits
  <2>2. ValueOf(obj[o]) = 0
    BY <1>1, <2>1 DEF Account
  <2> QED
    BY <1>6, <2>2 DEF ValueOf
<1> QED
  BY <1>5, <1>6 DEF PermitsKept

(* The tables of the kernel agree with each other between any two steps,   *)
(* for any number of threads, priorities and objects: types and maxima,    *)
(* the ready table of scheduler.c, the timers of timer.c with the threads  *)
(* they belong to, in the order in which they are due, none of them left   *)
(* behind by rt_timer_check, and the container of object.c.                *)
THEOREM KernelKept == Spec => []KernelInv
<1>1. SyncInv /\ Ledger => KernelInv
  BY TypesHold, TableHolds, TimersHold, RegisteredHolds DEF KernelInv
<1> QED
  BY <1>1, LedgerAlways, PTL

(* ipc.c neither loses nor doubles a permit of a semaphore between         *)
(* rt_sem_release and the takes that return RT_EOK, and lets nobody wait   *)
(* while there is one, for any number of threads and semaphores.           *)
THEOREM PermitsAlways == Spec => []PermitsKept
<1>1. SyncInv /\ Ledger => PermitsKept
  BY PermitsHold
<1> QED
  BY <1>1, LedgerAlways, PTL
=============================================================================
