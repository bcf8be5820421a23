--------------------------- MODULE RtKernelProofs ---------------------------
(***************************************************************************)
(* What the functions of scheduler.c, thread.c, timer.c and ipc.c do to    *)
(* the kernel's tables, for any number of threads, priorities and lists.   *)
(***************************************************************************)
EXTENDS RtIpc, SumProofs, SequenceTheorems, TLAPS

-----------------------------------------------------------------------------
(* Lists in which nothing is twice. *)
Once(q) == \A i, j \in DOMAIN q : q[i] = q[j] => i = j

LEMMA ContainsIs ==
  ASSUME NEW S, NEW q \in Seq(S), NEW x
  PROVE  Contains(q, x) <=> x \in ToSet(q)
BY DEF Contains, ToSet

LEMMA ListAppend ==
  ASSUME NEW S, NEW q \in Seq(S), NEW x \in S
  PROVE  LET r == Append(q, x)
         IN  /\ r \in Seq(S) /\ ToSet(r) = ToSet(q) \cup {x} /\ r # <<>>
             /\ Once(q) /\ x \notin ToSet(q) => Once(r)
<1> DEFINE r == Append(q, x)
<1>1. /\ r \in Seq(S) /\ Len(r) = Len(q) + 1 /\ Len(q) \in Nat
      /\ DOMAIN q = 1..Len(q) /\ DOMAIN r = 1..(Len(q) + 1)
      /\ \A i \in 1..Len(q) : r[i] = q[i]
      /\ r[Len(q) + 1] = x
  OBVIOUS
<1>2. r # <<>>
  BY <1>1
<1> HIDE DEF r
<1>3. ToSet(r) = ToSet(q) \cup {x}
  BY <1>1 DEF ToSet
<1>4. ASSUME Once(q), x \notin ToSet(q) PROVE Once(r)
  BY <1>1, <1>4 DEF Once, ToSet
<1> QED
  BY <1>1, <1>2, <1>3, <1>4 DEF r

LEMMA ListCons ==
  ASSUME NEW S, NEW q \in Seq(S), NEW x \in S
  PROVE  LET r == <<x>> \o q
         IN  /\ r \in Seq(S) /\ ToSet(r) = ToSet(q) \cup {x}
             /\ Once(q) /\ x \notin ToSet(q) => Once(r)
<1> DEFINE r == <<x>> \o q
<1>1. /\ r \in Seq(S) /\ Len(r) = Len(q) + 1 /\ Len(q) \in Nat
      /\ DOMAIN q = 1..Len(q) /\ DOMAIN r = 1..(Len(q) + 1)
      /\ \A i \in 1..Len(q) : r[i + 1] = q[i]
      /\ r[1] = x
  OBVIOUS
<1> HIDE DEF r
<1>2. \A j \in DOMAIN r : j # 1 => j - 1 \in DOMAIN q /\ r[j] = q[j - 1]
  BY <1>1
<1>3. ToSet(r) = ToSet(q) \cup {x}
  <2>1. ASSUME NEW i \in DOMAIN q PROVE i + 1 \in DOMAIN r /\ r[i + 1] = q[i]
    BY <1>1
  <2>2. 1 \in DOMAIN r
    BY <1>1
  <2> QED
    BY <1>1, <1>2, <2>1, <2>2 DEF ToSet
<1>4. ASSUME Once(q), x \notin ToSet(q) PROVE Once(r)
  BY <1>1, <1>2, <1>4 DEF Once, ToSet
<1> QED
  BY <1>1, <1>3, <1>4 DEF r

(* What InsertAt and RemoveAt put where. *)
IsInserted(S, q, r, n, x) ==
  /\ r \in Seq(S) /\ Len(r) = Len(q) + 1 /\ DOMAIN r = 1..(Len(q) + 1)
  /\ \A i \in 1..(n - 1) : r[i] = q[i]
  /\ r[n] = x
  /\ \A i \in (n + 1)..(Len(q) + 1) : r[i] = q[i - 1]

LEMMA InsertedAt ==
  ASSUME NEW S, NEW q \in Seq(S), NEW x \in S, NEW n \in 1..(Len(q) + 1)
  PROVE  IsInserted(S, q, InsertAt(q, n, x), n, x)
<1> DEFINE r == InsertAt(q, n, x)
           b == SubSeq(q, 1, n - 1)
           e == SubSeq(q, n, Len(q))
<1>1. /\ Len(q) \in Nat /\ DOMAIN q = 1..Len(q) /\ n \in Nat
      /\ b \in Seq(S) /\ e \in Seq(S) /\ Len(b) = n - 1 /\ Len(e) = Len(q) + 1 - n
      /\ \A i \in 1..(n - 1) : b[i] = q[i]
      /\ \A i \in 1..(Len(q) + 1 - n) : e[i] = q[n + i - 1]
  OBVIOUS
<1> HIDE DEF b, e
<1>2. /\ r \in Seq(S) /\ Len(r) = Len(q) + 1 /\ DOMAIN r = 1..(Len(q) + 1)
      /\ \A i \in 1..(n - 1) : r[i] = q[i]
      /\ r[n] = x
      /\ \A i \in (n + 1)..(Len(q) + 1) : r[i] = q[i - 1]
  <2>1. r = b \o <<x>> \o e
    BY DEF InsertAt, b, e
  <2>2. /\ r \in Seq(S) /\ Len(r) = Len(b) + 1 + Len(e)
        /\ \A i \in 1..Len(b) : r[i] = b[i]
        /\ r[Len(b) + 1] = x
        /\ \A i \in 1..Len(e) : r[Len(b) + 1 + i] = e[i]
    <3>1. /\ <<x>> \in Seq(S) /\ Len(<<x>>) = 1 /\ <<x>>[1] = x
      OBVIOUS
    <3> DEFINE bx == b \o <<x>>
    <3>2. /\ bx \in Seq(S) /\ Len(bx) = Len(b) + 1
          /\ \A i \in 1..(Len(b) + 1) : bx[i] = IF i <= Len(b) THEN b[i] ELSE <<x>>[i - Len(b)]
      BY <1>1, <3>1, ConcatProperties
    <3>3. /\ bx \o e \in Seq(S) /\ Len(bx \o e) = Len(bx) + Len(e)
          /\ \A i \in 1..(Len(bx) + Len(e)) : (bx \o e)[i] = IF i <= Len(bx) THEN bx[i] ELSE e[i - Len(bx)]
      BY <1>1, <3>2, ConcatProperties
    <3>4. r = bx \o e /\ Len(b) \in Nat /\ Len(e) \in Nat
      BY <1>1, <2>1
    <3> HIDE DEF bx, r
    <3>5. r \in Seq(S) /\ Len(r) = Len(b) + 1 + Len(e) /\ Len(bx) = Len(b) + 1
      BY <3>2, <3>3, <3>4
    <3>6. \A i \in 1..Len(bx) : r[i] = bx[i]
      BY <3>2, <3>3, <3>4
    <3>7. \A i \in 1..Len(b) : r[i] = b[i]
      BY <3>2, <3>4, <3>6
    <3>8. r[Len(b) + 1] = x
      BY <3>1, <3>2, <3>4, <3>6
    <3>9. ASSUME NEW i \in 1..Len(e) PROVE r[Len(b) + 1 + i] = e[i]
      <4>1. /\ Len(b) + 1 + i \in 1..(Len(bx) + Len(e)) /\ ~(Len(b) + 1 + i <= Len(bx))
            /\ Len(b) + 1 + i - Len(bx) = i
        BY <3>4, <3>5
      <4> QED
        BY <3>3, <3>4, <4>1
    <3> QED
      BY <3>5, <3>7, <3>8, <3>9
  <2> HIDE DEF r
  <2>3. ASSUME NEW i \in (n + 1)..(Len(q) + 1) PROVE r[i] = q[i - 1]
    <3>1. i - n \in 1..Len(e) /\ Len(b) + 1 + (i - n) = i /\ n + (i - n) - 1 = i - 1
      BY <1>1
    <3>2. r[Len(b) + 1 + (i - n)] = e[i - n]
      BY <2>2, <3>1
    <3> QED
      BY <1>1, <3>1, <3>2
  <2> QED
    BY <1>1, <2>2, <2>3
<1> HIDE DEF r
<1> QED
  BY <1>2 DEF r, IsInserted

LEMMA ListInsert ==
  ASSUME NEW S, NEW q \in Seq(S), NEW x \in S, NEW n \in 1..(Len(q) + 1)
  PROVE  LET r == InsertAt(q, n, x)
         IN  /\ r \in Seq(S) /\ ToSet(r) = ToSet(q) \cup {x}
             /\ Once(q) /\ x \notin ToSet(q) => Once(r)
<1> DEFINE r == InsertAt(q, n, x)
<1>1. Len(q) \in Nat /\ DOMAIN q = 1..Len(q) /\ n \in Nat
  OBVIOUS
<1>2. /\ r \in Seq(S) /\ Len(r) = Len(q) + 1 /\ DOMAIN r = 1..(Len(q) + 1)
      /\ \A i \in 1..(n - 1) : r[i] = q[i]
      /\ r[n] = x
      /\ \A i \in (n + 1)..(Len(q) + 1) : r[i] = q[i - 1]
  <2>1. IsInserted(S, q, r, n, x)
    BY InsertedAt
  <2> HIDE DEF r
  <2> QED
    BY <2>1 DEF IsInserted
<1> HIDE DEF r
<1>3. /\ \A i \in DOMAIN q : r[IF i < n THEN i ELSE i + 1] = q[i]
      /\ \A i \in DOMAIN q : (IF i < n THEN i ELSE i + 1) \in DOMAIN r
      /\ \A j \in DOMAIN r : j # n => (IF j < n THEN j ELSE j - 1) \in DOMAIN q
                                       /\ r[j] = q[IF j < n THEN j ELSE j - 1]
  <2>1. ASSUME NEW i \in DOMAIN q, i < n
        PROVE  i \in DOMAIN r /\ r[i] = q[i]
    BY <1>1, <1>2, <2>1
  <2>2. ASSUME NEW i \in DOMAIN q, ~(i < n)
        PROVE  i + 1 \in DOMAIN r /\ r[i + 1] = q[i]
    <3>1. i + 1 \in (n + 1)..(Len(q) + 1) /\ (i + 1) - 1 = i
      BY <1>1, <2>2
    <3> QED
      BY <1>1, <1>2, <3>1
  <2>3. ASSUME NEW j \in DOMAIN r, j < n
        PROVE  j \in DOMAIN q /\ r[j] = q[j]
    BY <1>1, <1>2, <2>3
  <2>4. ASSUME NEW j \in DOMAIN r, j # n, ~(j < n)
        PROVE  j - 1 \in DOMAIN q /\ r[j] = q[j - 1]
    BY <1>1, <1>2, <2>4
  <2> QED
    BY <2>1, <2>2, <2>3, <2>4
<1>4. ToSet(r) = ToSet(q) \cup {x}
  <2>1. n \in DOMAIN r /\ r[n] = x
    BY <1>1, <1>2
  <2> QED
    BY <1>3, <2>1 DEF ToSet
<1>5. ASSUME Once(q), x \notin ToSet(q) PROVE Once(r)
  <2> SUFFICES ASSUME NEW i \in DOMAIN r, NEW j \in DOMAIN r, r[i] = r[j] PROVE i = j
    BY DEF Once
  <2>1. CASE i = n \/ j = n
    BY <1>2, <1>3, <1>5, <2>1 DEF ToSet
  <2>2. CASE i # n /\ j # n
    <3>1. (IF i < n THEN i ELSE i - 1) = (IF j < n THEN j ELSE j - 1)
      BY <1>3, <1>5, <2>2 DEF Once
    <3> QED
      BY <1>1, <1>2, <2>2, <3>1
  <2> QED
    BY <2>1, <2>2
<1> QED
  BY <1>2, <1>4, <1>5 DEF r

LEMMA ListHead ==
  ASSUME NEW S, NEW q \in Seq(S), q # <<>>
  PROVE  /\ Head(q) \in ToSet(q) /\ Head(q) \in S
         /\ Tail(q) \in Seq(S) /\ ToSet(q) = ToSet(Tail(q)) \cup {Head(q)}
         /\ Once(q) => Once(Tail(q)) /\ Head(q) \notin ToSet(Tail(q))
<1> DEFINE r == Tail(q)
<1>1. /\ Len(q) \in Nat \ {0} /\ DOMAIN q = 1..Len(q) /\ r \in Seq(S) /\ Len(r) = Len(q) - 1
      /\ DOMAIN r = 1..(Len(q) - 1)
      /\ \A i \in 1..(Len(q) - 1) : r[i] = q[i + 1]
      /\ Head(q) = q[1] /\ q[1] \in S
  OBVIOUS
<1> HIDE DEF r
<1>2. /\ \A j \in DOMAIN q : j # 1 => j - 1 \in DOMAIN r /\ q[j] = r[j - 1]
      /\ \A i \in DOMAIN r : i + 1 \in DOMAIN q /\ i + 1 # 1 /\ r[i] = q[i + 1]
      /\ 1 \in DOMAIN q
  BY <1>1
<1>3. ToSet(q) = ToSet(r) \cup {q[1]} /\ q[1] \in ToSet(q)
  BY <1>2 DEF ToSet
<1>4. Once(q) => Once(r) /\ q[1] \notin ToSet(r)
  BY <1>1, <1>2 DEF Once, ToSet
<1> QED
  BY <1>1, <1>3, <1>4 DEF r

LEMMA ListEmpty ==
  ASSUME NEW S, NEW q \in Seq(S)
  PROVE  /\ q = <<>> <=> ToSet(q) = {}
         /\ ToSet(q) \subseteq S
         /\ ToSet(<<>>) = {} /\ Once(<<>>)
<1>1. Len(q) \in Nat /\ DOMAIN q = 1..Len(q) /\ (q = <<>> <=> Len(q) = 0)
  OBVIOUS
<1>2. \A i \in DOMAIN q : q[i] \in S
  OBVIOUS
<1>3. DOMAIN <<>> = {}
  OBVIOUS
<1>4. q # <<>> => ToSet(q) # {}
  <2>1. ASSUME q # <<>> PROVE q[1] \in ToSet(q)
    BY <1>1, <2>1 DEF ToSet
  <2> QED
    BY <2>1
<1>5. ToSet(<<>>) = {}
  BY <1>3 DEF ToSet
<1>6. Once(<<>>)
  BY <1>3 DEF Once
<1>7. ToSet(q) \subseteq S
  BY <1>2 DEF ToSet
<1> QED
  BY <1>4, <1>5, <1>6, <1>7

LEMMA RemovedAt ==
  ASSUME NEW S, NEW q \in Seq(S), NEW n \in DOMAIN q
  PROVE  LET r == RemoveAt(q, n)
         IN  /\ r \in Seq(S) /\ Len(r) = Len(q) - 1 /\ DOMAIN r = 1..(Len(q) - 1)
             /\ \A i \in 1..(n - 1) : r[i] = q[i]
             /\ \A i \in n..(Len(q) - 1) : r[i] = q[i + 1]
<1> DEFINE r == RemoveAt(q, n)
           b == SubSeq(q, 1, n - 1)
           e == SubSeq(q, n + 1, Len(q))
<1>1. r = b \o e
  BY DEF RemoveAt
<1> HIDE DEF r
<1>2. /\ Len(q) \in Nat /\ DOMAIN q = 1..Len(q) /\ n \in 1..Len(q)
      /\ b \in Seq(S) /\ e \in Seq(S) /\ Len(b) = n - 1 /\ Len(e) = Len(q) - n
      /\ \A i \in 1..(n - 1) : b[i] = q[i]
      /\ \A i \in 1..(Len(q) - n) : e[i] = q[n + i]
  OBVIOUS
<1> HIDE DEF b, e
<1>3. /\ r \in Seq(S) /\ Len(r) = Len(q) - 1 /\ DOMAIN r = 1..(Len(q) - 1)
      /\ \A i \in 1..(n - 1) : r[i] = q[i]
      /\ \A i \in n..(Len(q) - 1) : r[i] = q[i + 1]
  <2>1. /\ r \in Seq(S) /\ Len(r) = Len(b) + Len(e)
        /\ \A i \in 1..Len(b) : r[i] = b[i]
        /\ \A i \in 1..Len(e) : r[Len(b) + i] = e[i]
    <3>1. /\ b \o e \in Seq(S) /\ Len(b \o e) = Len(b) + Len(e)
          /\ \A i \in 1..(Len(b) + Len(e)) : (b \o e)[i] = IF i <= Len(b) THEN b[i] ELSE e[i - Len(b)]
      BY <1>2, ConcatProperties
    <3>2. Len(b) \in Nat /\ Len(e) \in Nat
      BY <1>2
    <3>3. \A i \in 1..Len(b) : r[i] = b[i]
      BY <1>1, <3>1, <3>2
    <3>4. ASSUME NEW i \in 1..Len(e) PROVE r[Len(b) + i] = e[i]
      <4>1. /\ Len(b) + i \in 1..(Len(b) + Len(e)) /\ ~(Len(b) + i <= Len(b))
            /\ Len(b) + i - Len(b) = i
        BY <3>2
      <4> QED
        BY <1>1, <3>1, <4>1
    <3> QED
      BY <1>1, <3>1, <3>3, <3>4
  <2>2. ASSUME NEW i \in n..(Len(q) - 1) PROVE r[i] = q[i + 1]
    <3>1. i - n + 1 \in 1..Len(e) /\ Len(b) + (i - n + 1) = i /\ n + (i - n + 1) = i + 1
      <4>1. Len(q) \in Nat /\ n \in 1..Len(q) /\ Len(b) = n - 1 /\ Len(e) = Len(q) - n
        BY <1>2
      <4> QED
        BY <4>1
    <3>2. r[Len(b) + (i - n + 1)] = e[i - n + 1]
      BY <2>1, <3>1
    <3> QED
      BY <1>2, <3>1, <3>2
  <2> QED
    BY <1>2, <2>1, <2>2
<1> QED
  BY <1>3 DEF r

LEMMA ListRemoved ==
  ASSUME NEW S, NEW q \in Seq(S), Once(q), NEW x
  PROVE  LET r == rt_list_remove(q, x)
         IN  r \in Seq(S) /\ ToSet(r) = ToSet(q) \ {x} /\ Once(r) /\ (x \notin ToSet(q) => r = q)
<1>1. CASE x \notin ToSet(q)
  BY <1>1, ContainsIs DEF rt_list_remove
<1>2. CASE x \in ToSet(q)
  <2> DEFINE n == CHOOSE i \in DOMAIN q : q[i] = x
             r == rt_list_remove(q, x)
  <2>1. n \in DOMAIN q /\ q[n] = x
    BY <1>2 DEF ToSet
  <2>2. r = RemoveAt(q, n)
    BY <1>2, ContainsIs DEF rt_list_remove
  <2> HIDE DEF n
  <2>4. /\ r \in Seq(S) /\ Len(r) = Len(q) - 1 /\ DOMAIN r = 1..(Len(q) - 1)
        /\ \A i \in 1..(n - 1) : r[i] = q[i]
        /\ \A i \in n..(Len(q) - 1) : r[i] = q[i + 1]
    BY <2>1, <2>2, RemovedAt
  <2> HIDE DEF r
  <2>5. /\ \A i \in DOMAIN q : i # n => (IF i < n THEN i ELSE i - 1) \in DOMAIN r
                                         /\ r[IF i < n THEN i ELSE i - 1] = q[i]
        /\ \A j \in DOMAIN r : (IF j < n THEN j ELSE j + 1) \in DOMAIN q \ {n}
                                /\ r[j] = q[IF j < n THEN j ELSE j + 1]
    <3>1. n \in Nat /\ n \in 1..Len(q) /\ Len(q) \in Nat /\ DOMAIN q = 1..Len(q)
      BY <2>1
    <3>2. ASSUME NEW i \in DOMAIN q, i < n
          PROVE  i \in DOMAIN r /\ r[i] = q[i]
      BY <2>4, <3>1, <3>2
    <3>3. ASSUME NEW i \in DOMAIN q, i # n, ~(i < n)
          PROVE  i - 1 \in DOMAIN r /\ r[i - 1] = q[i]
      <4>1. i - 1 \in n..(Len(q) - 1) /\ (i - 1) + 1 = i
        BY <3>1, <3>3
      <4> QED
        BY <2>4, <3>1, <4>1
    <3>4. ASSUME NEW j \in DOMAIN r, j < n
          PROVE  j \in DOMAIN q \ {n} /\ r[j] = q[j]
      BY <2>4, <3>1, <3>4
    <3>5. ASSUME NEW j \in DOMAIN r, ~(j < n)
          PROVE  j + 1 \in DOMAIN q \ {n} /\ r[j] = q[j + 1]
      BY <2>4, <3>1, <3>5
    <3> QED
      BY <3>2, <3>3, <3>4, <3>5
  <2>6. ToSet(r) = ToSet(q) \ {x}
    <3>1. \A i \in DOMAIN q \ {n} : q[i] # x
      BY <2>1 DEF Once
    <3> QED
      BY <2>1, <2>5, <3>1 DEF ToSet
  <2>7. Once(r)
    <3> SUFFICES ASSUME NEW i \in DOMAIN r, NEW j \in DOMAIN r, r[i] = r[j] PROVE i = j
      BY DEF Once
    <3>1. (IF i < n THEN i ELSE i + 1) = (IF j < n THEN j ELSE j + 1)
      BY <2>5 DEF Once
    <3>2. i \in Nat /\ j \in Nat /\ n \in Nat
      BY <2>1, <2>4
    <3> QED
      BY <3>1, <3>2
  <2> QED
    BY <1>2, <2>4, <2>6, <2>7 DEF r
<1> QED
  BY <1>1, <1>2

-----------------------------------------------------------------------------
(* The state of the kernel, and what holds of it between two calls.        *)
KernelState ==
  [thread : [All -> ThreadRecord], ready : [Priority -> Seq(All)],
   wait : [WaitList -> Seq(Thread)], defunct : Seq(Thread), group : SUBSET Priority,
   current : All \cup {NoThread}, lock_nest : Nat, registered : SUBSET (All \cup Object),
   tick : Tick, remaining_tick : 1..IdleSlice, tm : TimerState]

(* timer.c, for the timers of threads: one list, none in it twice, and     *)
(* those in it are the active ones.                                        *)
TimersKept(tm) ==
  /\ tm \in TimerState
  /\ Once(tm.list["hard"]) /\ ToSet(tm.list["hard"]) = tm.active
  /\ tm.active \subseteq Thread /\ tm.periodic \cap All = {}

(* scheduler.c: no list has a thread twice, and the bits are right. *)
Tables(s) ==
  /\ s \in KernelState
  /\ \A p \in Priority : Once(s.ready[p])
  /\ \A l \in WaitList : Once(s.wait[l])
  /\ Once(s.defunct)
  /\ s.group = {p \in Priority : s.ready[p] # <<>>}
  /\ TimersKept(s.tm)

IsReadyAt(s, t, p) == t \in ToSet(s.ready[p])
WaitsAt(s, t, l) == t \in ToSet(s.wait[l])
Waits(s, t) == \E l \in WaitList : WaitsAt(s, t, l)
IsDefunct(s, t) == t \in ToSet(s.defunct)

(* A thread is where its state says. *)
Coherent(s, t) ==
  /\ \A p \in Priority :
       IsReadyAt(s, t, p)
         <=> s.thread[t].stat = "READY" /\ p = s.thread[t].current_priority
  /\ s.thread[t].stat \in {"READY", "SUSPEND"}
       => s.thread[t].number_mask = {s.thread[t].current_priority}
  /\ \A l \in WaitList : WaitsAt(s, t, l) =>
       /\ s.thread[t].stat = "SUSPEND" /\ s.thread[t].error = "EOK"
       /\ \A m \in WaitList : WaitsAt(s, t, m) => l = m
  /\ IsDefunct(s, t) => s.thread[t].stat = "CLOSE" /\ t \notin StaticThread
  /\ t \in s.tm.active => s.thread[t].stat = "SUSPEND"

Sound(s) == Tables(s) /\ \A t \in All : Coherent(s, t)

(* A thread that is being moved is in no list. *)
Off(s, t) ==
  /\ \A p \in Priority : ~IsReadyAt(s, t, p)
  /\ ~Waits(s, t) /\ ~IsDefunct(s, t)

(* What a function leaves alone. *)
Same(s, r, t) ==
  /\ r.thread[t] = s.thread[t]
  /\ \A p \in Priority : IsReadyAt(r, t, p) <=> IsReadyAt(s, t, p)
  /\ \A l \in WaitList : WaitsAt(r, t, l) <=> WaitsAt(s, t, l)
  /\ IsDefunct(r, t) <=> IsDefunct(s, t)
  /\ t \in r.tm.active <=> t \in s.tm.active

Only(s, r, t) == \A u \in All \ {t} : Same(s, r, u)

SameRegs(s, r) ==
  /\ r.current = s.current /\ r.lock_nest = s.lock_nest /\ r.registered = s.registered
  /\ r.tick = s.tick /\ r.remaining_tick = s.remaining_tick

LEMMA SameCoherent ==
  ASSUME NEW s, NEW r, NEW t, Coherent(s, t), Same(s, r, t)
  PROVE  Coherent(r, t)
BY Zenon DEF Coherent, Same

LEMMA OnlyTrans ==
  ASSUME NEW s, NEW q, NEW r, NEW t, Only(s, q, t), Only(q, r, t)
  PROVE  Only(s, r, t)
BY Zenon DEF Only, Same

LEMMA RegsTrans ==
  ASSUME NEW s, NEW q, NEW r, SameRegs(s, q), SameRegs(q, r)
  PROVE  SameRegs(s, r)
BY DEF SameRegs

SoundBut(s, t) == Tables(s) /\ \A u \in All \ {t} : Coherent(s, u)

LEMMA SoundButAfter ==
  ASSUME NEW s, NEW r, NEW t, SoundBut(s, t), Tables(r), Only(s, r, t), Coherent(r, t)
  PROVE  Sound(r)
<1>1. ASSUME NEW u \in All PROVE Coherent(r, u)
  <2>1. CASE u = t
    BY <2>1
  <2>2. CASE u # t
    <3>1. Coherent(s, u) /\ Same(s, r, u)
      BY <2>2 DEF SoundBut, Only
    <3> QED
      BY <3>1, SameCoherent
  <2> QED
    BY <2>1, <2>2
<1> QED
  BY <1>1 DEF Sound

LEMMA SoundAfter ==
  ASSUME NEW s, NEW r, NEW t, Sound(s), Tables(r), Only(s, r, t), Coherent(r, t)
  PROVE  Sound(r)
<1>1. SoundBut(s, t)
  BY DEF Sound, SoundBut
<1> QED
  BY <1>1, SoundButAfter

LEMMA TablesTypes ==
  ASSUME NEW s, Tables(s)
  PROVE  /\ s.thread \in [All -> ThreadRecord] /\ s.ready \in [Priority -> Seq(All)]
         /\ s.wait \in [WaitList -> Seq(Thread)] /\ s.defunct \in Seq(Thread)
         /\ s.group \in SUBSET Priority /\ s.lock_nest \in Nat
         /\ s.tm \in TimerState /\ s.tick \in Tick /\ s.remaining_tick \in 1..IdleSlice
         /\ s.registered \in SUBSET (All \cup Object)
BY DEF Tables, KernelState

(* What the record of a thread may be set to. *)
LEMMA ThreadTypes ==
  ASSUME NEW f, f \in [All -> ThreadRecord], NEW t \in All
  PROVE  /\ f[t] \in ThreadRecord /\ f[t].current_priority \in Priority
         /\ f[t].number_mask \in SUBSET Priority /\ f[t].stat \in Stat /\ f[t].error \in Error
BY DEF ThreadRecord

-----------------------------------------------------------------------------
(* rtservice.h: a thread's node leaves the list it is in. *)
Unlinked(s, r, t) ==
  /\ r \in KernelState
  /\ r.thread = s.thread /\ r.group = s.group /\ r.tm = s.tm /\ SameRegs(s, r)
  /\ \A p \in Priority :
       /\ ToSet(r.ready[p]) = ToSet(s.ready[p]) \ {t} /\ Once(r.ready[p])
       /\ ~IsReadyAt(s, t, p) => r.ready[p] = s.ready[p]
  /\ \A l \in WaitList :
       /\ ToSet(r.wait[l]) = ToSet(s.wait[l]) \ {t} /\ Once(r.wait[l])
       /\ ~WaitsAt(s, t, l) => r.wait[l] = s.wait[l]
  /\ ToSet(r.defunct) = ToSet(s.defunct) \ {t} /\ Once(r.defunct)
  /\ ~IsDefunct(s, t) => r.defunct = s.defunct

LEMMA ListRemoveIs ==
  ASSUME NEW s, Tables(s), NEW t
  PROVE  Unlinked(s, ListRemove(s, t), t)
<1> DEFINE r == ListRemove(s, t)
           ready == [p \in Priority |-> rt_list_remove(s.ready[p], t)]
           wait == [l \in WaitList |-> rt_list_remove(s.wait[l], t)]
           defunct == rt_list_remove(s.defunct, t)
<1>1. /\ s \in KernelState
      /\ s.ready \in [Priority -> Seq(All)] /\ s.wait \in [WaitList -> Seq(Thread)]
      /\ s.defunct \in Seq(Thread)
  BY TablesTypes DEF Tables
<1>2. ASSUME NEW p \in Priority
      PROVE  /\ ready[p] \in Seq(All) /\ ToSet(ready[p]) = ToSet(s.ready[p]) \ {t}
             /\ Once(ready[p]) /\ (~IsReadyAt(s, t, p) => ready[p] = s.ready[p])
  <2>1. s.ready[p] \in Seq(All) /\ Once(s.ready[p])
    BY <1>1 DEF Tables
  <2> QED
    BY <2>1, ListRemoved DEF IsReadyAt
<1>3. ASSUME NEW l \in WaitList
      PROVE  /\ wait[l] \in Seq(Thread) /\ ToSet(wait[l]) = ToSet(s.wait[l]) \ {t}
             /\ Once(wait[l]) /\ (~WaitsAt(s, t, l) => wait[l] = s.wait[l])
  <2>1. s.wait[l] \in Seq(Thread) /\ Once(s.wait[l])
    BY <1>1 DEF Tables
  <2> QED
    BY <2>1, ListRemoved DEF WaitsAt
<1>4. /\ defunct \in Seq(Thread) /\ ToSet(defunct) = ToSet(s.defunct) \ {t}
      /\ Once(defunct) /\ (~IsDefunct(s, t) => defunct = s.defunct)
  <2>1. Once(s.defunct)
    BY DEF Tables
  <2> QED
    BY <1>1, <2>1, ListRemoved DEF IsDefunct
<1>5. ready \in [Priority -> Seq(All)] /\ wait \in [WaitList -> Seq(Thread)]
  BY <1>2, <1>3
<1>6. r = [s EXCEPT !.ready = ready, !.wait = wait, !.defunct = defunct]
  BY DEF ListRemove
<1> HIDE DEF ready, wait, defunct, r
<1>7. /\ r \in KernelState /\ r.ready = ready /\ r.wait = wait /\ r.defunct = defunct
      /\ r.thread = s.thread /\ r.group = s.group /\ r.tm = s.tm /\ SameRegs(s, r)
  BY <1>1, <1>4, <1>5, <1>6 DEF KernelState, SameRegs
<1>8. Unlinked(s, r, t)
  BY <1>2, <1>3, <1>4, <1>7 DEF Unlinked
<1> QED
  BY <1>8 DEF r

LEMMA UnlinkedOnly ==
  ASSUME NEW s, NEW r, NEW t, Unlinked(s, r, t)
  PROVE  Only(s, r, t) /\ Off(r, t)
BY Zenon DEF Unlinked, Only, Same, Off, IsReadyAt, WaitsAt, Waits, IsDefunct

(* The scheduler's bit goes with the last ready thread. *)
LEMMA ScheduleRemove ==
  ASSUME NEW s, Tables(s), NEW t \in All, Coherent(s, t),
         s.thread[t].stat \in {"READY", "SUSPEND"}
  PROVE  LET r == rt_schedule_remove_thread(s, t)
         IN  /\ Tables(r) /\ Only(s, r, t) /\ Off(r, t) /\ SameRegs(s, r)
             /\ r.thread = s.thread /\ r.tm = s.tm
             /\ ~Waits(s, t) => r.wait = s.wait
<1> DEFINE u == ListRemove(s, t)
           p == s.thread[t].current_priority
           r == rt_schedule_remove_thread(s, t)
           g == IF u.ready[p] = <<>> THEN s.group \ {p} ELSE s.group
<1>1. Unlinked(s, u, t) /\ Only(s, u, t) /\ Off(u, t)
  BY ListRemoveIs, UnlinkedOnly
<1>2. /\ s.thread[t].number_mask = {p} /\ p \in Priority
      /\ s.group \in SUBSET Priority
      /\ s.group = {x \in Priority : s.ready[x] # <<>>}
      /\ \A x \in Priority \ {p} : ~IsReadyAt(s, t, x)
  BY TablesTypes, ThreadTypes DEF Coherent, Tables
<1>3. r = IF u.ready[p] = <<>> THEN [u EXCEPT !.group = @ \ {p}] ELSE u
  BY <1>2 DEF rt_schedule_remove_thread
<1> HIDE DEF u, r, p
<1>4. /\ r \in KernelState /\ r.group = g
      /\ r.ready = u.ready /\ r.wait = u.wait /\ r.defunct = u.defunct
      /\ r.thread = u.thread /\ r.tm = u.tm /\ SameRegs(u, r)
  BY <1>1, <1>2, <1>3 DEF KernelState, SameRegs, Unlinked
<1>5. r.group = {x \in Priority : r.ready[x] # <<>>}
  <2>1. \A x \in Priority \ {p} : u.ready[x] = s.ready[x]
    BY <1>1, <1>2 DEF Unlinked
  <2>2. u.ready[p] # <<>> => s.ready[p] # <<>>
    <3>1. u.ready[p] \in Seq(All) /\ s.ready[p] \in Seq(All)
      BY <1>1, <1>2, TablesTypes DEF Unlinked, KernelState
    <3>2. ToSet(u.ready[p]) \subseteq ToSet(s.ready[p])
      BY <1>1, <1>2 DEF Unlinked
    <3>3. /\ u.ready[p] = <<>> <=> ToSet(u.ready[p]) = {}
          /\ s.ready[p] = <<>> <=> ToSet(s.ready[p]) = {}
      BY <3>1, ListEmpty
    <3> QED
      BY <3>2, <3>3
  <2> HIDE DEF g
  <2>3. \A x \in Priority : x \in g <=> u.ready[x] # <<>>
    <3> SUFFICES ASSUME NEW x \in Priority PROVE x \in g <=> u.ready[x] # <<>>
      OBVIOUS
    <3>1. CASE x = p
      BY <1>2, <2>2, <3>1 DEF g
    <3>2. CASE x # p
      BY <1>2, <2>1, <3>2 DEF g
    <3> QED
      BY <3>1, <3>2
  <2>4. g \subseteq Priority
    BY <1>2 DEF g
  <2> QED
    BY <1>4, <2>3, <2>4
<1>6. Tables(r)
  <2>1. TimersKept(r.tm)
    BY <1>1, <1>4 DEF Unlinked, Tables
  <2> QED
    BY <1>1, <1>4, <1>5, <2>1 DEF Unlinked, Tables
<1>7. Only(s, r, t) /\ Off(r, t)
  BY <1>1, <1>4 DEF Only, Same, Off, IsReadyAt, WaitsAt, Waits, IsDefunct
<1>8. SameRegs(s, r) /\ r.thread = s.thread /\ r.tm = s.tm
  BY <1>1, <1>4, RegsTrans DEF Unlinked
<1>9. ~Waits(s, t) => r.wait = s.wait
  <2> SUFFICES ASSUME ~Waits(s, t) PROVE u.wait = s.wait
    BY <1>4
  <2>1. \A l \in WaitList : u.wait[l] = s.wait[l]
    BY <1>1 DEF Unlinked, Waits
  <2>2. u.wait \in [WaitList -> Seq(Thread)] /\ s.wait \in [WaitList -> Seq(Thread)]
    BY <1>1, TablesTypes DEF Unlinked, KernelState
  <2> QED
    BY <2>1, <2>2
<1> QED
  BY <1>6, <1>7, <1>8, <1>9 DEF r

(* scheduler.c: a thread that is in no list becomes ready. *)
LEMMA ScheduleInsert ==
  ASSUME NEW s, Tables(s), NEW t \in All, Off(s, t), t \notin s.tm.active,
         s.thread[t].number_mask = {s.thread[t].current_priority}
  PROVE  LET r == rt_schedule_insert_thread(s, t)
         IN  /\ Tables(r) /\ Only(s, r, t) /\ Coherent(r, t) /\ SameRegs(s, r)
             /\ r.thread = [s.thread EXCEPT ![t].stat = "READY"] /\ r.tm = s.tm
             /\ r.wait = s.wait /\ r.defunct = s.defunct
<1> DEFINE p == s.thread[t].current_priority
           r == rt_schedule_insert_thread(s, t)
           list == Append(s.ready[p], t)
<1>1. /\ s \in KernelState /\ p \in Priority /\ s.thread[t].number_mask = {p}
      /\ s.ready \in [Priority -> Seq(All)] /\ s.thread \in [All -> ThreadRecord]
      /\ s.group = {x \in Priority : s.ready[x] # <<>>}
  BY TablesTypes, ThreadTypes DEF Tables
<1>2. /\ list \in Seq(All) /\ ToSet(list) = ToSet(s.ready[p]) \cup {t} /\ list # <<>>
      /\ Once(list)
  <2>1. s.ready[p] \in Seq(All) /\ Once(s.ready[p]) /\ t \notin ToSet(s.ready[p])
    BY <1>1 DEF Tables, Off, IsReadyAt
  <2> HIDE DEF p
  <2> QED
    BY <2>1, ListAppend
<1>3. r = [s EXCEPT !.thread[t].stat = "READY", !.ready[p] = list, !.group = @ \cup {p}]
  BY <1>1 DEF rt_schedule_insert_thread
<1> HIDE DEF p, list, r
<1>4. [s.thread EXCEPT ![t].stat = "READY"] \in [All -> ThreadRecord]
  BY <1>1 DEF ThreadRecord, Stat
<1>5. [s.ready EXCEPT ![p] = list] \in [Priority -> Seq(All)]
  BY <1>1, <1>2
<1>6. /\ r \in KernelState /\ r.thread = [s.thread EXCEPT ![t].stat = "READY"]
      /\ r.ready = [s.ready EXCEPT ![p] = list] /\ r.group = s.group \cup {p}
      /\ r.wait = s.wait /\ r.defunct = s.defunct /\ r.tm = s.tm /\ SameRegs(s, r)
  <2>1. /\ r.thread = [s.thread EXCEPT ![t].stat = "READY"]
        /\ r.ready = [s.ready EXCEPT ![p] = list] /\ r.group = s.group \cup {p}
        /\ r.wait = s.wait /\ r.defunct = s.defunct /\ r.tm = s.tm /\ SameRegs(s, r)
    BY <1>1, <1>3 DEF KernelState, SameRegs
  <2>2. s.group \cup {p} \in SUBSET Priority
    BY <1>1
  <2>3. r \in KernelState
    BY <1>1, <1>3, <1>4, <1>5, <2>2 DEF KernelState
  <2> QED
    BY <2>1, <2>3
<1>7. /\ \A x \in Priority : r.ready[x] = IF x = p THEN list ELSE s.ready[x]
      /\ \A u \in All : r.thread[u] = IF u = t THEN [s.thread[t] EXCEPT !.stat = "READY"] ELSE s.thread[u]
  BY <1>1, <1>6
<1>8. Tables(r)
  <2>1. r.group = {x \in Priority : r.ready[x] # <<>>}
    <3>1. \A x \in Priority : r.ready[x] # <<>> <=> x = p \/ s.ready[x] # <<>>
      BY <1>2, <1>7
    <3> QED
      BY <1>1, <1>6, <3>1
  <2>2. TimersKept(r.tm)
    BY <1>6 DEF Tables
  <2>3. \A x \in Priority : Once(r.ready[x])
    BY <1>2, <1>7 DEF Tables
  <2> QED
    BY <1>6, <2>1, <2>2, <2>3 DEF Tables
<1>9. Only(s, r, t)
  BY <1>2, <1>6, <1>7 DEF Only, Same, IsReadyAt, WaitsAt, IsDefunct
<1>10. Coherent(r, t)
  <2>1. /\ r.thread[t].stat = "READY" /\ r.thread[t].current_priority = p
        /\ r.thread[t].number_mask = {p}
    <3>1. s.thread[t] \in ThreadRecord
      BY <1>1
    <3> QED
      BY <1>1, <1>7, <3>1 DEF ThreadRecord, p
  <2>2. \A x \in Priority : IsReadyAt(r, t, x) <=> x = p
    BY <1>2, <1>7 DEF IsReadyAt, Off
  <2>3. ~Waits(r, t) /\ ~IsDefunct(r, t) /\ t \notin r.tm.active
    BY <1>6 DEF Off, Waits, WaitsAt, IsDefunct
  <2> QED
    BY <2>1, <2>2, <2>3 DEF Coherent, Waits
<1> QED
  BY <1>6, <1>8, <1>9, <1>10 DEF r

-----------------------------------------------------------------------------
(* timer.c *)
LEMMA TimerUnlinked ==
  ASSUME NEW tm, TimersKept(tm), NEW t \in All
  PROVE  LET r == rt_timer_remove(tm, t)
         IN  /\ r \in TimerState /\ Once(r.list["hard"])
             /\ ToSet(r.list["hard"]) = tm.active \ {t}
             /\ r.active = tm.active /\ r.periodic = tm.periodic
             /\ r.init_tick = tm.init_tick
<1> DEFINE list == rt_list_remove(tm.list["hard"], t)
           r == rt_timer_remove(tm, t)
<1>1. /\ tm \in TimerState /\ t \in Timer /\ t \notin SoftTimer /\ "hard" \in Lists
      /\ tm.list \in [Lists -> Seq(Timer)] /\ tm.temp \in [Lists -> SUBSET Timer]
      /\ tm.timeout_tick \in [Timer -> Tick] /\ 0 \in Tick
  <2>1. t \in Timer /\ t \notin SoftTimer
    BY KernelAssumption
  <2>2. tm \in TimerState
    BY DEF TimersKept
  <2>3. /\ tm.list \in [Lists -> Seq(Timer)] /\ tm.temp \in [Lists -> SUBSET Timer]
        /\ tm.timeout_tick \in [Timer -> Tick]
    BY <2>2 DEF TimerState
  <2>4. "hard" \in Lists /\ 0 \in Tick
    BY TickAssumption DEF Lists, Tick
  <2> QED
    BY <2>1, <2>2, <2>3, <2>4
<1>2. list \in Seq(Timer) /\ ToSet(list) = tm.active \ {t} /\ Once(list)
  <2>1. tm.list["hard"] \in Seq(Timer) /\ Once(tm.list["hard"]) /\ ToSet(tm.list["hard"]) = tm.active
    BY <1>1 DEF TimersKept
  <2> QED
    BY <2>1, ListRemoved
<1>3. r = [tm EXCEPT !.list["hard"] = list, !.temp["hard"] = @ \ {t}, !.timeout_tick[t] = 0]
  BY <1>1 DEF rt_timer_remove, ListOf
<1> HIDE DEF list, r
<1>4. /\ [tm.list EXCEPT !["hard"] = list] \in [Lists -> Seq(Timer)]
      /\ [tm.list EXCEPT !["hard"] = list]["hard"] = list
      /\ [tm.temp EXCEPT !["hard"] = @ \ {t}] \in [Lists -> SUBSET Timer]
      /\ [tm.timeout_tick EXCEPT ![t] = 0] \in [Timer -> Tick]
  BY <1>1, <1>2
<1>5. /\ r \in TimerState /\ r.list = [tm.list EXCEPT !["hard"] = list]
      /\ r.active = tm.active /\ r.periodic = tm.periodic /\ r.init_tick = tm.init_tick
  BY <1>1, <1>3, <1>4 DEF TimerState
<1> QED
  BY <1>2, <1>4, <1>5 DEF r

(* A timer that is stopped or detached is neither in the list nor active. *)
TimerOff(tm, r, t) ==
  TimersKept(r) /\ r.active = tm.active \ {t} /\ r.periodic = tm.periodic

LEMMA TimerDetach ==
  ASSUME NEW tm, TimersKept(tm), NEW t \in All
  PROVE  TimerOff(tm, rt_timer_detach(tm, t), t)
<1> DEFINE u == rt_timer_remove(tm, t)
           r == rt_timer_detach(tm, t)
<1>1. /\ u \in TimerState /\ Once(u.list["hard"]) /\ ToSet(u.list["hard"]) = tm.active \ {t}
      /\ u.active = tm.active /\ u.periodic = tm.periodic
  BY TimerUnlinked
<1>2. r = [u EXCEPT !.active = @ \ {t}]
  BY DEF rt_timer_detach
<1> HIDE DEF u, r
<1>3. /\ r \in TimerState /\ r.list = u.list /\ r.active = tm.active \ {t}
      /\ r.periodic = tm.periodic
  BY <1>1, <1>2 DEF TimerState
<1>4. TimerOff(tm, r, t)
  BY <1>1, <1>3 DEF TimerOff, TimersKept
<1> QED
  BY <1>4 DEF r

LEMMA TimerStop ==
  ASSUME NEW tm, TimersKept(tm), NEW t \in All
  PROVE  TimerOff(tm, rt_timer_stop(tm, t), t)
<1>1. CASE t \in tm.active
  BY <1>1, TimerDetach DEF rt_timer_stop
<1>2. CASE t \notin tm.active
  <2>1. rt_timer_stop(tm, t) = tm
    BY <1>2 DEF rt_timer_stop
  <2>2. tm.active = tm.active \ {t}
    BY <1>2
  <2> QED
    BY <2>1, <2>2 DEF TimerOff
<1> QED
  BY <1>1, <1>2

LEMMA ModTick ==
  ASSUME NEW a \in Nat
  PROVE  a % (RT_TICK_MAX + 1) \in Tick
BY TickAssumption DEF Tick

LEMMA MinusTick ==
  ASSUME NEW a \in Nat, NEW b \in Tick
  PROVE  Minus(a, b) \in Tick
<1>1. a + RT_TICK_MAX + 1 - b \in Nat
  BY TickAssumption DEF Tick
<1> QED
  BY <1>1, ModTick DEF Minus

(* The place in front of the first later timer is one in the list. *)
LEMMA InsertPlace ==
  ASSUME NEW n \in Nat, NEW D \in SUBSET (1..n)
  PROVE  (IF D = {} THEN n + 1 ELSE CHOOSE m \in D : \A j \in D : m <= j) \in 1..(n + 1)
<1>1. CASE D = {}
  BY <1>1
<1>2. CASE D # {}
  <2>1. D \in SUBSET Nat
    OBVIOUS
  <2>2. \E m \in D : \A j \in D : m <= j
    BY <1>2, <2>1, LeastNatural
  <2> DEFINE c == CHOOSE m \in D : \A j \in D : m <= j
  <2>3. c \in D
    BY <2>2
  <2> HIDE DEF c
  <2>4. c \in 1..(n + 1)
    BY <2>3
  <2> QED
    BY <1>2, <2>4 DEF c
<1> QED
  BY <1>1, <1>2

(* A timer that is started is in the list once, and active. *)
TimerOn(tm, r, t) ==
  TimersKept(r) /\ r.active = tm.active \cup {t} /\ r.periodic = tm.periodic

LEMMA TimerSetTime ==
  ASSUME NEW tm, TimersKept(tm), NEW t \in All, NEW time \in Tick
  PROVE  LET r == SetTime(tm, t, time)
         IN  /\ TimersKept(r) /\ r.active = tm.active /\ r.periodic = tm.periodic
             /\ r.list = tm.list /\ r.timeout_tick = tm.timeout_tick
             /\ r.init_tick = [tm.init_tick EXCEPT ![t] = time] /\ r.temp = tm.temp
<1> DEFINE r == SetTime(tm, t, time)
<1>1. tm \in TimerState /\ t \in Timer /\ tm.init_tick \in [Timer -> Tick]
  BY KernelAssumption DEF TimersKept, TimerState, All
<1>2. r = [tm EXCEPT !.init_tick[t] = time]
  BY DEF SetTime
<1> HIDE DEF r
<1>3. [tm.init_tick EXCEPT ![t] = time] \in [Timer -> Tick]
  BY <1>1
<1>4. /\ r \in TimerState /\ r.active = tm.active /\ r.periodic = tm.periodic
      /\ r.list = tm.list /\ r.timeout_tick = tm.timeout_tick
      /\ r.init_tick = [tm.init_tick EXCEPT ![t] = time] /\ r.temp = tm.temp
  BY <1>1, <1>2, <1>3 DEF TimerState
<1>5. TimersKept(r)
  BY <1>4 DEF TimersKept
<1> QED
  BY <1>4, <1>5 DEF r

LEMMA TimerCleared ==
  ASSUME NEW tm, TimersKept(tm), NEW t \in All
  PROVE  /\ TimersKept(SetTime(tm, t, 0)) /\ SetTime(tm, t, 0).active = tm.active
         /\ SetTime(tm, t, 0).list = tm.list
         /\ SetTime(tm, t, 0).timeout_tick = tm.timeout_tick
<1>1. 0 \in Tick
  BY TickAssumption DEF Tick
<1> QED
  BY <1>1, TimerSetTime, Zenon

LEMMA TimerStart ==
  ASSUME NEW tm, TimersKept(tm), NEW t \in Thread, NEW now \in Tick
  PROVE  TimerOn(tm, rt_timer_start(tm, now, t), t)
<1> DEFINE v == rt_timer_remove(tm, t)
           due == (now + tm.init_tick[t]) % (RT_TICK_MAX + 1)
           u == [v EXCEPT !.timeout_tick[t] = due]
           list == u.list["hard"]
           later == {i \in DOMAIN list : TimerBefore(u, t, list[i])}
           i == IF later = {} THEN Len(list) + 1
                ELSE CHOOSE m \in later : \A j \in later : m <= j
           w == InsertByTimeout(u, t)
           r == rt_timer_start(tm, now, t)
<1>1. /\ v \in TimerState /\ Once(v.list["hard"]) /\ ToSet(v.list["hard"]) = tm.active \ {t}
      /\ v.active = tm.active /\ v.periodic = tm.periodic /\ t \in All
  BY TimerUnlinked DEF All
<1>2. t \in Timer /\ t \notin SoftTimer /\ "hard" \in Lists
  BY KernelAssumption DEF All, Lists
<1>3. due \in Tick
  <2>1. tm.init_tick[t] \in Tick
    BY <1>2 DEF TimersKept, TimerState
  <2>2. now + tm.init_tick[t] \in Nat
    BY <2>1, TickAssumption DEF Tick
  <2> QED
    BY <2>2, ModTick
<1>4. r = [w EXCEPT !.active = @ \cup {t}]
  BY DEF rt_timer_start
<1>5. w = [u EXCEPT !.list["hard"] = InsertAt(list, i, t)]
  BY <1>2 DEF InsertByTimeout, ListOf
<1> HIDE DEF v, due, w, r
<1>6. u \in TimerState /\ u.list = v.list /\ u.active = v.active /\ u.periodic = v.periodic
  <2>1. [v.timeout_tick EXCEPT ![t] = due] \in [Timer -> Tick]
    BY <1>1, <1>2, <1>3 DEF TimerState
  <2> QED
    BY <1>1, <2>1 DEF TimerState
<1> HIDE DEF u
<1>7. list \in Seq(Timer) /\ Once(list) /\ ToSet(list) = tm.active \ {t}
      /\ u.list \in [Lists -> Seq(Timer)]
  BY <1>1, <1>2, <1>6 DEF TimerState
<1>8. Len(list) \in Nat /\ i \in 1..(Len(list) + 1)
  <2>1. Len(list) \in Nat /\ DOMAIN list = 1..Len(list)
    BY <1>7
  <2>2. later \in SUBSET (1..Len(list))
    BY <2>1
  <2> HIDE DEF later, list
  <2> QED
    BY <2>1, <2>2, InsertPlace
<1> HIDE DEF i, later, list
<1> DEFINE longer == InsertAt(list, i, t)
<1>9. /\ longer \in Seq(Timer) /\ ToSet(longer) = (tm.active \ {t}) \cup {t} /\ Once(longer)
  BY <1>2, <1>7, <1>8, ListInsert
<1> HIDE DEF longer
<1>10. /\ [u.list EXCEPT !["hard"] = longer] \in [Lists -> Seq(Timer)]
       /\ [u.list EXCEPT !["hard"] = longer]["hard"] = longer
  BY <1>2, <1>7, <1>9
<1>11. /\ w \in TimerState /\ w.list = [u.list EXCEPT !["hard"] = longer]
       /\ w.active = tm.active /\ w.periodic = tm.periodic
  BY <1>1, <1>5, <1>6, <1>10 DEF TimerState, longer
<1>12. /\ r \in TimerState /\ r.list = w.list /\ r.active = tm.active \cup {t}
       /\ r.periodic = tm.periodic
  BY <1>2, <1>4, <1>11 DEF TimerState
<1>13. (tm.active \ {t}) \cup {t} = tm.active \cup {t}
  OBVIOUS
<1>14. TimerOn(tm, r, t)
  BY <1>9, <1>10, <1>11, <1>12, <1>13 DEF TimerOn, TimersKept
<1> QED
  BY <1>14 DEF r

LEMMA TimerInit ==
  ASSUME NEW tm, TimersKept(tm), NEW t \in All, t \notin tm.active
  PROVE  LET r == rt_timer_init(tm, t, 0, FALSE)
         IN  TimersKept(r) /\ r.active = tm.active /\ r.list = tm.list
<1> DEFINE r == rt_timer_init(tm, t, 0, FALSE)
<1>1. /\ tm \in TimerState /\ t \in Timer /\ tm.init_tick \in [Timer -> Tick]
      /\ tm.timeout_tick \in [Timer -> Tick] /\ 0 \in Tick
  <2>1. 0 \in Tick
    BY TickAssumption DEF Tick
  <2>2. t \in Timer
    BY KernelAssumption
  <2>3. tm \in TimerState
    BY DEF TimersKept
  <2>4. tm.init_tick \in [Timer -> Tick] /\ tm.timeout_tick \in [Timer -> Tick]
    BY <2>3 DEF TimerState
  <2> QED
    BY <2>1, <2>2, <2>3, <2>4
<1>2. r = [tm EXCEPT !.active = @ \ {t}, !.init_tick[t] = 0, !.timeout_tick[t] = 0,
                     !.periodic = @ \ {t}]
  BY DEF rt_timer_init
<1> HIDE DEF r
<1>3. /\ [tm.init_tick EXCEPT ![t] = 0] \in [Timer -> Tick]
      /\ [tm.timeout_tick EXCEPT ![t] = 0] \in [Timer -> Tick]
  BY <1>1
<1>4. /\ r \in TimerState /\ r.active = tm.active \ {t} /\ r.list = tm.list
      /\ r.periodic = tm.periodic \ {t}
  BY <1>1, <1>2, <1>3 DEF TimerState
<1>5. r.active = tm.active
  BY <1>4
<1> QED
  BY <1>4, <1>5 DEF TimersKept, r

-----------------------------------------------------------------------------
(* The parts of the kernel that a function sets one by one. *)
LEMMA SetTm ==
  ASSUME NEW s, Tables(s), NEW t \in All, NEW tm, TimersKept(tm),
         \A u \in All \ {t} : u \in tm.active <=> u \in s.tm.active
  PROVE  LET r == [s EXCEPT !.tm = tm]
         IN  /\ Tables(r) /\ Only(s, r, t) /\ SameRegs(s, r) /\ (Off(s, t) => Off(r, t))
             /\ r.thread = s.thread /\ r.ready = s.ready /\ r.wait = s.wait
             /\ r.defunct = s.defunct /\ r.tm = tm
<1> DEFINE r == [s EXCEPT !.tm = tm]
<1>1. s \in KernelState /\ tm \in TimerState
  BY DEF Tables, TimersKept
<1>2. /\ r \in KernelState /\ SameRegs(s, r) /\ r.group = s.group
      /\ r.thread = s.thread /\ r.ready = s.ready /\ r.wait = s.wait
      /\ r.defunct = s.defunct /\ r.tm = tm
  BY <1>1 DEF KernelState, SameRegs
<1> HIDE DEF r
<1>3. Tables(r)
  BY <1>2 DEF Tables
<1>4. Only(s, r, t) /\ (Off(s, t) => Off(r, t))
  BY <1>2 DEF Only, Same, Off, IsReadyAt, WaitsAt, Waits, IsDefunct
<1> QED
  BY <1>2, <1>3, <1>4 DEF r

LEMMA SetThread ==
  ASSUME NEW s, Tables(s), NEW t \in All, NEW rec \in ThreadRecord
  PROVE  LET r == [s EXCEPT !.thread[t] = rec]
         IN  /\ Tables(r) /\ Only(s, r, t) /\ SameRegs(s, r) /\ (Off(s, t) => Off(r, t))
             /\ r.thread = [s.thread EXCEPT ![t] = rec] /\ r.ready = s.ready
             /\ r.wait = s.wait /\ r.defunct = s.defunct /\ r.tm = s.tm
             /\ r.thread[t] = rec
<1> DEFINE r == [s EXCEPT !.thread[t] = rec]
<1>1. s \in KernelState /\ s.thread \in [All -> ThreadRecord]
  BY TablesTypes DEF Tables
<1>2. [s.thread EXCEPT ![t] = rec] \in [All -> ThreadRecord]
  BY <1>1
<1>3. /\ r \in KernelState /\ SameRegs(s, r) /\ r.group = s.group
      /\ r.thread = [s.thread EXCEPT ![t] = rec] /\ r.ready = s.ready /\ r.wait = s.wait
      /\ r.defunct = s.defunct /\ r.tm = s.tm
  BY <1>1, <1>2 DEF KernelState, SameRegs
<1> HIDE DEF r
<1>4. r.thread[t] = rec /\ \A u \in All \ {t} : r.thread[u] = s.thread[u]
  BY <1>1, <1>3
<1>5. Tables(r)
  BY <1>3 DEF Tables
<1>6. Only(s, r, t) /\ (Off(s, t) => Off(r, t))
  BY <1>3, <1>4 DEF Only, Same, Off, IsReadyAt, WaitsAt, Waits, IsDefunct
<1> QED
  BY <1>3, <1>4, <1>5, <1>6 DEF r

(* Fields of a thread. *)
LEMMA SetFields ==
  ASSUME NEW s, Tables(s), NEW t \in All
  PROVE  /\ \A e \in Error :
              /\ [s.thread[t] EXCEPT !.error = e] \in ThreadRecord
              /\ [s EXCEPT !.thread[t].error = e]
                   = [s EXCEPT !.thread[t] = [s.thread[t] EXCEPT !.error = e]]
         /\ \A x \in Stat :
              /\ [s.thread[t] EXCEPT !.stat = x] \in ThreadRecord
              /\ [s EXCEPT !.thread[t].stat = x]
                   = [s EXCEPT !.thread[t] = [s.thread[t] EXCEPT !.stat = x]]
<1>1. s \in KernelState /\ s.thread \in [All -> ThreadRecord] /\ s.thread[t] \in ThreadRecord
  BY TablesTypes, ThreadTypes DEF Tables
<1> QED
  BY <1>1 DEF KernelState, ThreadRecord

LEMMA SetError ==
  ASSUME NEW s, Tables(s), NEW t \in All, NEW e \in Error
  PROVE  LET r == [s EXCEPT !.thread[t].error = e]
         IN  /\ Tables(r) /\ Only(s, r, t) /\ SameRegs(s, r) /\ (Off(s, t) => Off(r, t))
             /\ r.thread = [s.thread EXCEPT ![t].error = e] /\ r.ready = s.ready
             /\ r.wait = s.wait /\ r.defunct = s.defunct /\ r.tm = s.tm
             /\ r.thread[t] = [s.thread[t] EXCEPT !.error = e]
<1>1. [s.thread EXCEPT ![t].error = e] = [s.thread EXCEPT ![t] = [s.thread[t] EXCEPT !.error = e]]
  BY TablesTypes
<1> QED
  BY <1>1, SetFields, SetThread

(* A thread that is not ready leaves the list it waits in. *)
LEMMA UnlinkWaiting ==
  ASSUME NEW s, Tables(s), NEW t \in All, \A p \in Priority : ~IsReadyAt(s, t, p)
  PROVE  LET r == ListRemove(s, t)
         IN  /\ Tables(r) /\ Only(s, r, t) /\ Off(r, t) /\ SameRegs(s, r)
             /\ r.thread = s.thread /\ r.tm = s.tm
             /\ \A l \in WaitList : /\ ToSet(r.wait[l]) = ToSet(s.wait[l]) \ {t}
                                    /\ ~WaitsAt(s, t, l) => r.wait[l] = s.wait[l]
<1> DEFINE r == ListRemove(s, t)
<1>1. Unlinked(s, r, t) /\ Only(s, r, t) /\ Off(r, t)
  BY ListRemoveIs, UnlinkedOnly
<1> HIDE DEF r
<1>2. \A p \in Priority : r.ready[p] = s.ready[p]
  BY <1>1 DEF Unlinked
<1>3. Tables(r)
  BY <1>1, <1>2 DEF Unlinked, Tables
<1> QED
  BY <1>1, <1>3 DEF Unlinked, r

-----------------------------------------------------------------------------
(* thread.c: a ready thread is taken from the ready table. *)
LEMMA ThreadSuspend ==
  ASSUME NEW s, Sound(s), NEW t \in All, s.thread[t].stat = "READY"
  PROVE  LET r == rt_thread_suspend(s, t)
         IN  /\ Sound(r) /\ Only(s, r, t) /\ Off(r, t) /\ SameRegs(s, r)
             /\ r.thread[t] = [s.thread[t] EXCEPT !.stat = "SUSPEND"]
             /\ r.wait = s.wait /\ r.tm = rt_timer_stop(s.tm, t) /\ t \notin r.tm.active
<1> DEFINE a == rt_schedule_remove_thread(s, t)
           rec == [a.thread[t] EXCEPT !.stat = "SUSPEND"]
           b == [a EXCEPT !.thread[t] = rec]
           tm == rt_timer_stop(s.tm, t)
           r == rt_thread_suspend(s, t)
<1>1. Tables(s) /\ Coherent(s, t) /\ ~Waits(s, t)
  <2>1. Tables(s) /\ Coherent(s, t)
    BY DEF Sound
  <2> QED
    BY <2>1 DEF Coherent, Waits
<1>2. /\ Tables(a) /\ Only(s, a, t) /\ Off(a, t) /\ SameRegs(s, a)
      /\ a.thread = s.thread /\ a.tm = s.tm /\ a.wait = s.wait
  BY <1>1, ScheduleRemove
<1>3. r = [a EXCEPT !.thread[t].stat = "SUSPEND", !.tm = rt_timer_stop(@, t)]
  BY DEF rt_thread_suspend
<1> HIDE DEF a, r
<1>4. /\ rec \in ThreadRecord /\ [a EXCEPT !.thread[t].stat = "SUSPEND"] = b
      /\ a \in KernelState
  BY <1>2, SetFields DEF Stat, Tables
<1>5. r = [b EXCEPT !.tm = tm]
  BY <1>2, <1>3, <1>4 DEF KernelState
<1> HIDE DEF rec
<1>6. /\ Tables(b) /\ Only(a, b, t) /\ Off(b, t) /\ SameRegs(a, b)
      /\ b.wait = a.wait /\ b.tm = a.tm /\ b.thread[t] = rec
  BY <1>2, <1>4, SetThread
<1> HIDE DEF b
<1>7. TimersKept(tm) /\ tm.active = s.tm.active \ {t}
  BY <1>1, TimerStop DEF Tables, TimerOff
<1> HIDE DEF tm
<1>8. /\ Tables(r) /\ Only(b, r, t) /\ Off(r, t) /\ SameRegs(b, r)
      /\ r.thread = b.thread /\ r.wait = b.wait /\ r.tm = tm
  BY <1>2, <1>5, <1>6, <1>7, SetTm
<1>9. Only(s, r, t) /\ SameRegs(s, r)
  BY <1>2, <1>6, <1>8, OnlyTrans, RegsTrans
<1>10. r.thread[t] = [s.thread[t] EXCEPT !.stat = "SUSPEND"]
  BY <1>2, <1>6, <1>8 DEF rec
<1>11. Coherent(r, t)
  <2>1. s.thread[t] \in ThreadRecord
    BY <1>1, TablesTypes
  <2>2. /\ r.thread[t].stat = "SUSPEND"
        /\ r.thread[t].number_mask = {r.thread[t].current_priority}
    BY <1>1, <1>10, <2>1 DEF Coherent, ThreadRecord
  <2> QED
    BY <1>8, <2>2 DEF Coherent, Off, Waits
<1>12. Sound(r)
  BY <1>8, <1>9, <1>11, SoundAfter
<1> QED
  BY <1>2, <1>6, <1>7, <1>8, <1>9, <1>10, <1>12 DEF r, tm

(* A suspended thread becomes ready; its timer stops. *)
LEMMA ThreadResumed ==
  ASSUME NEW s, NEW t \in All, SoundBut(s, t), s.thread[t].stat = "SUSPEND",
         s.thread[t].number_mask = {s.thread[t].current_priority},
         \A p \in Priority : ~IsReadyAt(s, t, p)
  PROVE  LET r == rt_thread_resume(s, t)
         IN  /\ Sound(r) /\ Only(s, r, t) /\ SameRegs(s, r)
             /\ r.thread[t] = [s.thread[t] EXCEPT !.stat = "READY"]
             /\ r.tm = rt_timer_stop(s.tm, t) /\ t \notin r.tm.active /\ ~Waits(r, t)
             /\ \A l \in WaitList : /\ ToSet(r.wait[l]) = ToSet(s.wait[l]) \ {t}
                                    /\ ~WaitsAt(s, t, l) => r.wait[l] = s.wait[l]
<1> DEFINE a == ListRemove(s, t)
           tm == rt_timer_stop(s.tm, t)
           b == [a EXCEPT !.tm = tm]
           r == rt_thread_resume(s, t)
<1>1. Tables(s)
  BY DEF SoundBut
<1>2. /\ Tables(a) /\ Only(s, a, t) /\ Off(a, t) /\ SameRegs(s, a)
      /\ a.thread = s.thread /\ a.tm = s.tm
      /\ \A l \in WaitList : /\ ToSet(a.wait[l]) = ToSet(s.wait[l]) \ {t}
                             /\ ~WaitsAt(s, t, l) => a.wait[l] = s.wait[l]
  BY <1>1, UnlinkWaiting
<1>3. r = rt_schedule_insert_thread([a EXCEPT !.tm = rt_timer_stop(@, t)], t)
  BY DEF rt_thread_resume
<1> HIDE DEF a
<1>4. r = rt_schedule_insert_thread(b, t)
  BY <1>2, <1>3
<1>5. TimersKept(tm) /\ tm.active = s.tm.active \ {t}
  BY <1>1, TimerStop DEF Tables, TimerOff
<1> HIDE DEF tm, r
<1>6. /\ Tables(b) /\ Only(a, b, t) /\ Off(b, t) /\ SameRegs(a, b)
      /\ b.thread = a.thread /\ b.wait = a.wait /\ b.tm = tm
  BY <1>2, <1>5, SetTm
<1> HIDE DEF b
<1>7. b.thread[t].number_mask = {b.thread[t].current_priority}
  BY <1>2, <1>6
<1>8. /\ Tables(r) /\ Only(b, r, t) /\ Coherent(r, t) /\ SameRegs(b, r)
      /\ r.thread = [b.thread EXCEPT ![t].stat = "READY"] /\ r.tm = b.tm /\ r.wait = b.wait
  BY <1>4, <1>5, <1>6, <1>7, ScheduleInsert
<1>9. Only(s, r, t) /\ SameRegs(s, r)
  BY <1>2, <1>6, <1>8, OnlyTrans, RegsTrans
<1>10. r.thread[t] = [s.thread[t] EXCEPT !.stat = "READY"]
  BY <1>1, <1>2, <1>6, <1>8, TablesTypes
<1>11. Sound(r)
  BY <1>8, <1>9, SoundButAfter
<1>12. ~Waits(r, t)
  BY <1>6, <1>8 DEF Off, Waits, WaitsAt
<1> QED
  BY <1>2, <1>5, <1>6, <1>8, <1>9, <1>10, <1>11, <1>12 DEF r, tm

LEMMA ThreadResume ==
  ASSUME NEW s, Sound(s), NEW t \in All, s.thread[t].stat = "SUSPEND"
  PROVE  LET r == rt_thread_resume(s, t)
         IN  /\ Sound(r) /\ Only(s, r, t) /\ SameRegs(s, r)
             /\ r.thread[t] = [s.thread[t] EXCEPT !.stat = "READY"]
             /\ r.tm = rt_timer_stop(s.tm, t) /\ t \notin r.tm.active /\ ~Waits(r, t)
             /\ \A l \in WaitList : /\ ToSet(r.wait[l]) = ToSet(s.wait[l]) \ {t}
                                    /\ ~WaitsAt(s, t, l) => r.wait[l] = s.wait[l]
<1>1. SoundBut(s, t) /\ Coherent(s, t)
  BY DEF Sound, SoundBut
<1>2. /\ s.thread[t].number_mask = {s.thread[t].current_priority}
      /\ \A p \in Priority : ~IsReadyAt(s, t, p)
  BY <1>1 DEF Coherent
<1> QED
  BY <1>1, <1>2, ThreadResumed

(* The timeout function of a thread's timer, before its rt_schedule. *)
TimedOut(s, t) ==
  rt_schedule_insert_thread(ListRemove([s EXCEPT !.thread[t].error = "ETIMEOUT"], t), t)

LEMMA ThreadExpires ==
  ASSUME NEW s, Sound(s), NEW t \in All, s.thread[t].stat = "SUSPEND", t \notin s.tm.active
  PROVE  LET r == TimedOut(s, t)
         IN  /\ Sound(r) /\ Only(s, r, t) /\ SameRegs(s, r)
             /\ r.thread[t].stat = "READY" /\ r.thread[t].error = "ETIMEOUT"
             /\ r.thread[t].current_priority = s.thread[t].current_priority
             /\ r.tm = s.tm /\ ~Waits(r, t)
             /\ \A l \in WaitList : /\ ToSet(r.wait[l]) = ToSet(s.wait[l]) \ {t}
                                    /\ ~WaitsAt(s, t, l) => r.wait[l] = s.wait[l]
<1> DEFINE q == [s EXCEPT !.thread[t].error = "ETIMEOUT"]
           a == ListRemove(q, t)
           aa == ListRemove(s, t)
           r == rt_schedule_insert_thread(a, t)
<1>1. Tables(s) /\ Coherent(s, t) /\ s.thread[t] \in ThreadRecord
  <2>1. Tables(s) /\ Coherent(s, t)
    BY DEF Sound
  <2> QED
    BY <2>1, TablesTypes
<1>2. /\ Tables(q) /\ Only(s, q, t) /\ SameRegs(s, q)
      /\ q.thread[t] = [s.thread[t] EXCEPT !.error = "ETIMEOUT"] /\ q.ready = s.ready
      /\ q.wait = s.wait /\ q.defunct = s.defunct /\ q.tm = s.tm
  <2>1. "ETIMEOUT" \in Error
    BY DEF Error
  <2> QED
    BY <1>1, <2>1, SetError
<1> HIDE DEF q
<1>3. /\ q.thread[t].stat = "SUSPEND"
      /\ q.thread[t].number_mask = {q.thread[t].current_priority}
  BY <1>1, <1>2 DEF Coherent, ThreadRecord
<1>4. Unlinked(q, a, t) /\ Only(q, a, t) /\ Off(a, t)
  BY <1>2, ListRemoveIs, UnlinkedOnly
<1> HIDE DEF a
<1>5. Tables(a)
  <2>1. \A p \in Priority : a.ready[p] = q.ready[p]
    BY <1>1, <1>2, <1>4 DEF Unlinked, Coherent, IsReadyAt
  <2> QED
    BY <1>2, <1>4, <2>1 DEF Unlinked, Tables
<1>6. a.thread = q.thread /\ a.tm = q.tm /\ SameRegs(q, a)
  BY <1>4 DEF Unlinked
<1>7. /\ Tables(r) /\ Only(a, r, t) /\ Coherent(r, t) /\ SameRegs(a, r)
      /\ r.thread = [a.thread EXCEPT ![t].stat = "READY"] /\ r.tm = a.tm /\ r.wait = a.wait
  <2>1. /\ t \notin a.tm.active
        /\ a.thread[t].number_mask = {a.thread[t].current_priority}
    BY <1>2, <1>3, <1>6
  <2> QED
    BY <1>4, <1>5, <2>1, ScheduleInsert
<1> HIDE DEF r
<1>8. Only(s, r, t) /\ SameRegs(s, r)
  BY <1>2, <1>4, <1>6, <1>7, OnlyTrans, RegsTrans
<1>9. /\ r.thread[t].stat = "READY" /\ r.thread[t].error = "ETIMEOUT"
      /\ r.thread[t].current_priority = s.thread[t].current_priority
  <2>1. a.thread \in [All -> ThreadRecord]
    BY <1>5, TablesTypes
  <2>2. r.thread[t] = [a.thread[t] EXCEPT !.stat = "READY"]
    BY <1>7, <2>1
  <2> QED
    BY <1>1, <1>2, <1>6, <2>2 DEF ThreadRecord
<1>10. Sound(r)
  BY <1>7, <1>8, SoundAfter
<1>11. ~Waits(r, t)
  BY <1>4, <1>7 DEF Off, Waits, WaitsAt
<1>12. \A l \in WaitList : /\ ToSet(r.wait[l]) = ToSet(s.wait[l]) \ {t}
                           /\ ~WaitsAt(s, t, l) => r.wait[l] = s.wait[l]
  BY <1>2, <1>4, <1>7 DEF Unlinked, WaitsAt
<1> QED
  BY <1>2, <1>6, <1>7, <1>8, <1>9, <1>10, <1>11, <1>12 DEF r, a, q, TimedOut

(* RT_THREAD_CTRL_CHANGE_PRIORITY *)
AtPriority(rec, p) == [rec EXCEPT !.current_priority = p, !.number_mask = {p}]
SetTo(s, t, p) ==
  [s EXCEPT !.thread[t].current_priority = p, !.thread[t].number_mask = {p}]

LEMMA SetPriorityFields ==
  ASSUME NEW s, Tables(s), NEW t \in All, NEW p \in Priority
  PROVE  LET rec == AtPriority(s.thread[t], p)
         IN  /\ rec \in ThreadRecord
             /\ rec.stat = s.thread[t].stat /\ rec.error = s.thread[t].error
             /\ rec.current_priority = p /\ rec.number_mask = {p}
             /\ SetTo(s, t, p) = [s EXCEPT !.thread[t] = rec]
<1>1. s \in KernelState /\ s.thread \in [All -> ThreadRecord] /\ s.thread[t] \in ThreadRecord
  BY TablesTypes, ThreadTypes DEF Tables
<1> QED
  BY <1>1 DEF KernelState, ThreadRecord, AtPriority, SetTo

Reprioritised(s, r, t, p) ==
  /\ Sound(r) /\ Only(s, r, t) /\ SameRegs(s, r)
  /\ r.thread[t].stat = s.thread[t].stat /\ r.thread[t].error = s.thread[t].error
  /\ r.thread[t].current_priority = p
  /\ r.wait = s.wait /\ r.tm = s.tm /\ r.defunct = s.defunct

LEMMA ThreadControl ==
  ASSUME NEW s, Sound(s), NEW t \in All, NEW p \in Priority
  PROVE  Reprioritised(s, rt_thread_control(s, t, p), t, p)
<1> DEFINE set(x) == SetTo(x, t, p)
           r == rt_thread_control(s, t, p)
<1>1. Tables(s) /\ Coherent(s, t) /\ s.thread[t] \in ThreadRecord
  <2>1. Tables(s) /\ Coherent(s, t)
    BY DEF Sound
  <2> QED
    BY <2>1, TablesTypes
<1>2. ASSUME NEW x, Tables(x)
      PROVE  /\ Tables(set(x)) /\ Only(x, set(x), t) /\ SameRegs(x, set(x))
             /\ (Off(x, t) => Off(set(x), t)) /\ set(x).tm = x.tm
             /\ set(x).ready = x.ready /\ set(x).wait = x.wait /\ set(x).defunct = x.defunct
             /\ set(x).thread[t].stat = x.thread[t].stat
             /\ set(x).thread[t].error = x.thread[t].error
             /\ set(x).thread[t].current_priority = p /\ set(x).thread[t].number_mask = {p}
  <2> DEFINE rec == AtPriority(x.thread[t], p)
  <2>1. /\ rec \in ThreadRecord
        /\ rec.stat = x.thread[t].stat /\ rec.error = x.thread[t].error
        /\ rec.current_priority = p /\ rec.number_mask = {p}
        /\ set(x) = [x EXCEPT !.thread[t] = rec]
    BY <1>2, SetPriorityFields
  <2> HIDE DEF rec, set
  <2> QED
    BY <1>2, <2>1, SetThread
<1>3. CASE s.thread[t].stat = "READY"
  <2> DEFINE a == rt_schedule_remove_thread(s, t)
             b == set(a)
  <2>1. ~Waits(s, t) /\ ~IsDefunct(s, t) /\ t \notin s.tm.active
    BY <1>1, <1>3 DEF Coherent, Waits
  <2>2. /\ Tables(a) /\ Only(s, a, t) /\ Off(a, t) /\ SameRegs(s, a)
        /\ a.thread = s.thread /\ a.tm = s.tm /\ a.wait = s.wait
    BY <1>1, <1>3, <2>1, ScheduleRemove
  <2>3. a.defunct = s.defunct
    <3>1. Unlinked(s, ListRemove(s, t), t)
      BY <1>1, ListRemoveIs
    <3>2. ListRemove(s, t).defunct = s.defunct /\ ListRemove(s, t) \in KernelState
      BY <2>1, <3>1 DEF Unlinked
    <3> QED
      BY <3>2 DEF rt_schedule_remove_thread, KernelState
  <2>4. r = rt_schedule_insert_thread(b, t)
    BY <1>3 DEF rt_thread_control, SetTo
  <2> HIDE DEF a, r, set
  <2>5. /\ Tables(b) /\ Only(a, b, t) /\ SameRegs(a, b) /\ Off(b, t) /\ b.tm = a.tm
        /\ b.wait = a.wait /\ b.defunct = a.defunct
        /\ b.thread[t].stat = a.thread[t].stat /\ b.thread[t].error = a.thread[t].error
        /\ b.thread[t].current_priority = p /\ b.thread[t].number_mask = {p}
    BY <1>2, <2>2
  <2> HIDE DEF b
  <2>6. /\ Tables(r) /\ Only(b, r, t) /\ Coherent(r, t) /\ SameRegs(b, r)
        /\ r.thread = [b.thread EXCEPT ![t].stat = "READY"] /\ r.tm = b.tm /\ r.wait = b.wait
        /\ r.defunct = b.defunct
    <3>1. t \notin b.tm.active
      BY <2>1, <2>2, <2>5
    <3>2. b.thread[t].number_mask = {b.thread[t].current_priority}
      BY <2>5
    <3>3. Tables(b) /\ Off(b, t)
      BY <2>5
    <3> QED
      BY <2>4, <3>1, <3>2, <3>3, ScheduleInsert
  <2>7. Only(s, r, t) /\ SameRegs(s, r)
    BY <2>2, <2>5, <2>6, OnlyTrans, RegsTrans
  <2>8. Sound(r)
    BY <2>6, <2>7, SoundAfter
  <2>9. /\ r.thread[t].stat = s.thread[t].stat /\ r.thread[t].error = s.thread[t].error
        /\ r.thread[t].current_priority = p
    <3>1. b.thread \in [All -> ThreadRecord] /\ b.thread[t] \in ThreadRecord
      BY <2>5, TablesTypes
    <3>2. r.thread[t] = [b.thread[t] EXCEPT !.stat = "READY"]
      BY <2>6, <3>1
    <3> QED
      BY <1>3, <2>2, <2>5, <3>1, <3>2 DEF ThreadRecord
  <2>10. Reprioritised(s, r, t, p)
    BY <2>2, <2>3, <2>5, <2>6, <2>7, <2>8, <2>9 DEF Reprioritised
  <2> QED
    BY <2>10 DEF r
<1>4. CASE s.thread[t].stat # "READY"
  <2>1. r = set(s)
    BY <1>4 DEF rt_thread_control, SetTo
  <2> HIDE DEF set, r
  <2>2. /\ Tables(r) /\ Only(s, r, t) /\ SameRegs(s, r) /\ r.tm = s.tm
        /\ r.ready = s.ready /\ r.wait = s.wait /\ r.defunct = s.defunct
        /\ r.thread[t].stat = s.thread[t].stat /\ r.thread[t].error = s.thread[t].error
        /\ r.thread[t].current_priority = p /\ r.thread[t].number_mask = {p}
    BY <1>1, <1>2, <2>1
  <2>3. Coherent(r, t)
    BY <1>1, <1>4, <2>2 DEF Coherent, IsReadyAt, WaitsAt, IsDefunct
  <2>4. Sound(r)
    BY <2>2, <2>3, SoundAfter
  <2>5. Reprioritised(s, r, t, p)
    BY <2>2, <2>4 DEF Reprioritised
  <2> QED
    BY <2>5 DEF r
<1> QED
  BY <1>3, <1>4

-----------------------------------------------------------------------------
(* The idle thread is always ready, so there is one to switch to; and the  *)
(* thread that has the CPU is ready.                                       *)
Live(s) == Sound(s) /\ s.thread[Idle].stat = "READY"
Full(s) == Live(s) /\ s.current \in All /\ s.thread[s.current].stat = "READY"

(* Nothing but the current thread changes. *)
Switched(s, r) ==
  /\ r.thread = s.thread /\ r.ready = s.ready /\ r.wait = s.wait /\ r.defunct = s.defunct
  /\ r.group = s.group /\ r.tm = s.tm /\ r.lock_nest = s.lock_nest
  /\ r.registered = s.registered /\ r.tick = s.tick /\ r.remaining_tick = s.remaining_tick

LEMMA SoundSwitched ==
  ASSUME NEW s, NEW r, Sound(s), Switched(s, r), r \in KernelState
  PROVE  Sound(r) /\ \A t \in All : Same(s, r, t)
<1>1. Tables(r)
  BY DEF Sound, Tables, Switched
<1>2. ASSUME NEW t \in All PROVE Same(s, r, t)
  BY DEF Switched, Same, IsReadyAt, WaitsAt, IsDefunct
<1>3. ASSUME NEW t \in All PROVE Coherent(r, t)
  BY <1>2, SameCoherent DEF Sound
<1> QED
  BY <1>1, <1>2, <1>3 DEF Sound

LEMMA HighestThread ==
  ASSUME NEW s, Live(s)
  PROVE  LET x == Head(s.ready[HighestReady(s)])
         IN  x \in All /\ s.thread[x].stat = "READY"
<1> DEFINE h == HighestReady(s)
<1>1. Tables(s) /\ Coherent(s, Idle) /\ Idle \in All
  BY DEF Live, Sound, All
<1>2. s.thread[Idle].current_priority \in s.group
  <2> DEFINE p == s.thread[Idle].current_priority
  <2>1. p \in Priority /\ s.ready[p] \in Seq(All) /\ Idle \in ToSet(s.ready[p])
    BY <1>1, TablesTypes, ThreadTypes DEF Live, Coherent, IsReadyAt
  <2>2. s.ready[p] # <<>>
    BY <2>1, ListEmpty
  <2> QED
    BY <1>1, <2>1, <2>2 DEF Tables
<1>3. h \in s.group
  <2>1. s.group \in SUBSET Nat /\ s.group # {}
    <3>1. ThreadPriority[Idle] \in Nat /\ Priority \subseteq Nat
      BY KernelAssumption, <1>1
    <3> QED
      BY <1>1, <1>2, <3>1, TablesTypes
  <2>2. \E p \in s.group : \A q \in s.group : p <= q
    BY <2>1, LeastNatural
  <2> QED
    BY <2>2 DEF HighestReady
<1> HIDE DEF h
<1>4. h \in Priority /\ s.ready[h] \in Seq(All) /\ s.ready[h] # <<>>
  BY <1>1, <1>3, TablesTypes DEF Tables
<1> DEFINE x == Head(s.ready[h])
<1>5. x \in All /\ x \in ToSet(s.ready[h])
  BY <1>4, ListHead
<1>6. Coherent(s, x)
  BY <1>5 DEF Live, Sound
<1>7. s.thread[x].stat = "READY"
  BY <1>4, <1>5, <1>6 DEF Coherent, IsReadyAt
<1> QED
  BY <1>5, <1>7 DEF h

LEMMA SetCurrent ==
  ASSUME NEW s, Sound(s), NEW x \in All \cup {NoThread}
  PROVE  LET r == [s EXCEPT !.current = x]
         IN  Switched(s, r) /\ r.current = x /\ r \in KernelState
<1>1. s \in KernelState
  BY DEF Sound, Tables
<1> QED
  BY <1>1 DEF KernelState, Switched

(* rt_schedule gives the CPU to a ready thread, or leaves it where it is.  *)
LEMMA Schedule ==
  ASSUME NEW s, Live(s), s.lock_nest = 0 \/ Full(s)
  PROVE  LET r == rt_schedule(s)
         IN  Full(r) /\ Switched(s, r) /\ \A t \in All : Same(s, r, t)
<1> DEFINE r == rt_schedule(s)
           x == Head(s.ready[HighestReady(s)])
<1>1. CASE s.lock_nest = 0
  <2>1. x \in All /\ s.thread[x].stat = "READY" /\ Sound(s)
    BY HighestThread DEF Live
  <2>2. r = [s EXCEPT !.current = x]
    BY <1>1 DEF rt_schedule
  <2> HIDE DEF x, r
  <2>3. Switched(s, r) /\ r.current = x /\ r \in KernelState
    BY <2>1, <2>2, SetCurrent
  <2>4. Sound(r) /\ \A t \in All : Same(s, r, t)
    BY <2>1, <2>3, SoundSwitched
  <2>5. Full(r)
    BY <2>1, <2>3, <2>4 DEF Full, Live, Switched
  <2> QED
    BY <2>3, <2>4, <2>5 DEF r
<1>2. CASE s.lock_nest # 0
  <2>1. r = s
    BY <1>2 DEF rt_schedule
  <2>2. Switched(s, s) /\ \A t \in All : Same(s, s, t)
    BY DEF Switched, Same
  <2> QED
    BY <1>2, <2>1, <2>2
<1> QED
  BY <1>1, <1>2

(* All that a change of the running thread may also change is the order of *)
(* the ready threads.                                                      *)
Rescheduled(s, r) ==
  /\ Full(r) /\ r.thread = s.thread /\ r.wait = s.wait /\ r.defunct = s.defunct
  /\ r.tm = s.tm /\ r.lock_nest = s.lock_nest /\ r.registered = s.registered
  /\ r.tick = s.tick /\ r.remaining_tick = s.remaining_tick

LEMMA ScheduleIs ==
  ASSUME NEW s, Live(s), s.lock_nest = 0 \/ Full(s)
  PROVE  Rescheduled(s, rt_schedule(s))
BY Schedule DEF Rescheduled, Switched

LEMMA ThreadYield ==
  ASSUME NEW s, Full(s)
  PROVE  Rescheduled(s, rt_thread_yield(s))
<1> DEFINE t == s.current
           p == s.thread[t].current_priority
           a == ListRemove(s, t)
           list == Append(a.ready[p], t)
           b == [a EXCEPT !.ready[p] = list]
           r == rt_thread_yield(s)
<1>1. /\ Sound(s) /\ Tables(s) /\ t \in All /\ Coherent(s, t) /\ s.thread[t].stat = "READY"
      /\ p \in Priority /\ s.thread[Idle].stat = "READY"
  <2>1. Sound(s) /\ t \in All /\ s.thread[t].stat = "READY" /\ s.thread[Idle].stat = "READY"
    BY DEF Full, Live
  <2> QED
    BY <2>1, TablesTypes, ThreadTypes DEF Sound
<1>2. CASE ~(Len(s.ready[p]) > 1)
  <2>1. r = s
    BY <1>2 DEF rt_thread_yield
  <2> QED
    BY <2>1 DEF Rescheduled
<1>3. CASE Len(s.ready[p]) > 1
  <2>1. r = rt_schedule(b)
    BY <1>1, <1>3 DEF rt_thread_yield
  <2> HIDE DEF t, p, r
  <2>2. Unlinked(s, a, t) /\ Only(s, a, t) /\ Off(a, t) /\ a \in KernelState
    <3>1. Unlinked(s, a, t)
      BY <1>1, ListRemoveIs
    <3> QED
      BY <3>1, UnlinkedOnly DEF Unlinked
  <2> HIDE DEF a
  <2>3. a.ready[p] \in Seq(All) /\ a.ready \in [Priority -> Seq(All)]
    BY <1>1, <2>2 DEF KernelState
  <2>4. /\ list \in Seq(All) /\ ToSet(list) = ToSet(a.ready[p]) \cup {t} /\ list # <<>>
        /\ Once(list)
    <3>1. t \notin ToSet(a.ready[p]) /\ Once(a.ready[p])
      BY <1>1, <2>2 DEF Unlinked, Off, IsReadyAt
    <3> QED
      BY <1>1, <2>3, <3>1, ListAppend
  <2> HIDE DEF list
  <2>5. [a.ready EXCEPT ![p] = list] \in [Priority -> Seq(All)]
    BY <2>3, <2>4
  <2>6. /\ b \in KernelState /\ b.ready = [a.ready EXCEPT ![p] = list] /\ b.group = a.group
        /\ b.thread = a.thread /\ b.wait = a.wait /\ b.defunct = a.defunct /\ b.tm = a.tm
        /\ SameRegs(a, b)
    BY <2>2, <2>5 DEF KernelState, SameRegs
  <2> HIDE DEF b
  <2>7. \A x \in Priority : b.ready[x] = IF x = p THEN list ELSE a.ready[x]
    BY <2>3, <2>6
  <2>8. \A x \in Priority \ {p} : a.ready[x] = s.ready[x]
    BY <1>1, <2>2 DEF Unlinked, Coherent, p
  <2>9. b.group = {x \in Priority : b.ready[x] # <<>>}
    <3>1. s.group = {x \in Priority : s.ready[x] # <<>>} /\ a.group = s.group
      BY <1>1, <2>2 DEF Tables, Unlinked
    <3>2. s.ready[p] # <<>>
      <4>1. s.ready[p] \in Seq(All) /\ t \in ToSet(s.ready[p])
        BY <1>1, TablesTypes DEF Coherent, IsReadyAt, p
      <4> QED
        BY <4>1, ListEmpty
    <3>3. \A x \in Priority : b.ready[x] # <<>> <=> s.ready[x] # <<>>
      BY <2>4, <2>7, <2>8, <3>2
    <3> QED
      BY <2>6, <3>1, <3>3
  <2>10. Tables(b)
    <3>1. \A x \in Priority : Once(b.ready[x])
      BY <2>2, <2>4, <2>7 DEF Unlinked
    <3>2. TimersKept(b.tm)
      BY <1>1, <2>2, <2>6 DEF Unlinked, Tables
    <3> QED
      BY <2>2, <2>6, <2>9, <3>1, <3>2 DEF Unlinked, Tables
  <2>11. Same(s, b, t) /\ Only(s, b, t)
    <3>1. ~Waits(s, t) /\ ~IsDefunct(s, t)
      BY <1>1 DEF Coherent, Waits
    <3>2. \A x \in Priority : IsReadyAt(s, t, x) <=> x = p
      BY <1>1 DEF Coherent, p
    <3>3. \A x \in Priority : IsReadyAt(b, t, x) <=> x = p
      BY <2>2, <2>4, <2>7 DEF Off, IsReadyAt
    <3>4. ~Waits(b, t) /\ ~IsDefunct(b, t)
      BY <2>2, <2>6 DEF Off, Waits, WaitsAt, IsDefunct
    <3>5. b.thread = s.thread /\ b.tm = s.tm
      BY <2>2, <2>6 DEF Unlinked
    <3>6. Same(s, b, t)
      BY <3>1, <3>2, <3>3, <3>4, <3>5 DEF Same, Waits
    <3>7. Only(a, b, t)
      BY <2>4, <2>6, <2>7 DEF Only, Same, IsReadyAt, WaitsAt, IsDefunct
    <3> QED
      BY <2>2, <3>6, <3>7, OnlyTrans
  <2>12. Sound(b)
    BY <1>1, <2>10, <2>11, SameCoherent, SoundAfter
  <2>13. /\ b.thread = s.thread /\ b.tm = s.tm /\ SameRegs(s, b)
         /\ b.wait = s.wait /\ b.defunct = s.defunct
    <3>1. ~Waits(s, t) /\ ~IsDefunct(s, t)
      BY <1>1 DEF Coherent, Waits
    <3>2. \A l \in WaitList : b.wait[l] = s.wait[l]
      BY <2>2, <2>6, <3>1 DEF Unlinked, Waits
    <3>3. b.wait \in [WaitList -> Seq(Thread)] /\ s.wait \in [WaitList -> Seq(Thread)]
      BY <1>1, <2>10, TablesTypes
    <3>4. b.wait = s.wait
      BY <3>2, <3>3
    <3> QED
      BY <2>2, <2>6, <3>1, <3>4, RegsTrans DEF Unlinked
  <2>14. Live(b) /\ Full(b)
    BY <1>1, <2>12, <2>13 DEF Live, Full, SameRegs, t
  <2>15. Rescheduled(b, r)
    BY <2>1, <2>14, ScheduleIs
  <2> QED
    BY <2>13, <2>15 DEF Rescheduled, SameRegs, r
<1> QED
  BY <1>2, <1>3

(* object.c: rt_object_find. *)
LEMMA SetNest ==
  ASSUME NEW s, Full(s), NEW n \in Nat
  PROVE  LET r == [s EXCEPT !.lock_nest = n]
         IN  /\ Full(r) /\ r.lock_nest = n /\ r.current = s.current
             /\ r.thread = s.thread /\ r.wait = s.wait /\ r.defunct = s.defunct
             /\ r.tm = s.tm /\ r.registered = s.registered
             /\ r.tick = s.tick /\ r.remaining_tick = s.remaining_tick
<1> DEFINE r == [s EXCEPT !.lock_nest = n]
<1>1. Tables(s) /\ s \in KernelState
  BY DEF Full, Live, Sound, Tables
<1>2. /\ r \in KernelState /\ r.lock_nest = n /\ r.current = s.current
      /\ r.thread = s.thread /\ r.wait = s.wait /\ r.defunct = s.defunct
      /\ r.tm = s.tm /\ r.registered = s.registered /\ r.ready = s.ready /\ r.group = s.group
      /\ r.tick = s.tick /\ r.remaining_tick = s.remaining_tick
  BY <1>1 DEF KernelState
<1> HIDE DEF r
<1>3. Tables(r)
  BY <1>1, <1>2 DEF Tables
<1>4. ASSUME NEW t \in All PROVE Coherent(r, t)
  <2>1. Same(s, r, t)
    BY <1>2 DEF Same, IsReadyAt, WaitsAt, IsDefunct
  <2> QED
    BY <2>1, SameCoherent DEF Full, Live, Sound
<1>5. Full(r)
  BY <1>2, <1>3, <1>4 DEF Full, Live, Sound
<1> QED
  BY <1>2, <1>5 DEF r

LEMMA ExitCriticalIs ==
  ASSUME NEW s, Full(s), s.lock_nest > 0
  PROVE  LET r == rt_exit_critical(s)
         IN  /\ Full(r) /\ r.lock_nest = s.lock_nest - 1
             /\ r.thread = s.thread /\ r.wait = s.wait /\ r.defunct = s.defunct
             /\ r.tm = s.tm /\ r.registered = s.registered
             /\ r.tick = s.tick /\ r.remaining_tick = s.remaining_tick
<1> DEFINE u == [s EXCEPT !.lock_nest = @ - 1]
           r == rt_exit_critical(s)
<1>1. s.lock_nest - 1 \in Nat
  BY TablesTypes DEF Full, Live, Sound
<1>2. u = [s EXCEPT !.lock_nest = s.lock_nest - 1]
  OBVIOUS
<1>3. r = IF u.lock_nest = 0 THEN rt_schedule(u) ELSE u
  BY DEF rt_exit_critical
<1> HIDE DEF u, r
<1>4. /\ Full(u) /\ u.lock_nest = s.lock_nest - 1 /\ u.current = s.current
      /\ u.thread = s.thread /\ u.wait = s.wait /\ u.defunct = s.defunct
      /\ u.tm = s.tm /\ u.registered = s.registered
      /\ u.tick = s.tick /\ u.remaining_tick = s.remaining_tick
  BY <1>1, <1>2, SetNest
<1>5. CASE u.lock_nest = 0
  <2>1. Rescheduled(u, r)
    BY <1>3, <1>4, <1>5, ScheduleIs DEF Full
  <2> QED
    BY <1>4, <2>1 DEF Rescheduled, r
<1>6. CASE u.lock_nest # 0
  BY <1>3, <1>4, <1>6 DEF r
<1> QED
  BY <1>5, <1>6

LEMMA EnterCriticalIs ==
  ASSUME NEW s, Full(s)
  PROVE  LET r == rt_enter_critical(s)
         IN  /\ Full(r) /\ r.lock_nest = s.lock_nest + 1 /\ r.current = s.current
             /\ r.thread = s.thread /\ r.wait = s.wait /\ r.defunct = s.defunct
             /\ r.tm = s.tm /\ r.registered = s.registered
             /\ r.tick = s.tick /\ r.remaining_tick = s.remaining_tick
<1>1. s.lock_nest + 1 \in Nat
  BY TablesTypes DEF Full, Live, Sound
<1>2. rt_enter_critical(s) = [s EXCEPT !.lock_nest = s.lock_nest + 1]
  BY DEF rt_enter_critical
<1> QED
  BY <1>1, <1>2, SetNest

LEMMA ObjectFind ==
  ASSUME NEW s, Full(s)
  PROVE  Rescheduled(s, rt_object_find(s))
<1> DEFINE u == rt_enter_critical(s)
           r == rt_exit_critical(u)
<1>1. /\ Full(u) /\ u.lock_nest = s.lock_nest + 1
      /\ u.thread = s.thread /\ u.wait = s.wait /\ u.defunct = s.defunct
      /\ u.tm = s.tm /\ u.registered = s.registered
      /\ u.tick = s.tick /\ u.remaining_tick = s.remaining_tick
  BY EnterCriticalIs
<1>2. s.lock_nest \in Nat
  BY TablesTypes DEF Full, Live, Sound
<1> HIDE DEF u
<1>3. /\ Full(r) /\ r.lock_nest = u.lock_nest - 1
      /\ r.thread = u.thread /\ r.wait = u.wait /\ r.defunct = u.defunct
      /\ r.tm = u.tm /\ r.registered = u.registered
      /\ r.tick = u.tick /\ r.remaining_tick = u.remaining_tick
  BY <1>1, <1>2, ExitCriticalIs
<1> HIDE DEF r
<1>4. Rescheduled(s, r)
  BY <1>1, <1>2, <1>3 DEF Rescheduled
<1> QED
  BY <1>4 DEF rt_object_find, r, u

LEMMA RescheduledSame ==
  ASSUME NEW s, NEW r, Sound(s), Rescheduled(s, r)
  PROVE  \A t \in All : Same(s, r, t)
<1> SUFFICES ASSUME NEW t \in All PROVE Same(s, r, t)
  OBVIOUS
<1>1. Coherent(s, t) /\ Coherent(r, t)
  BY DEF Rescheduled, Full, Live, Sound
<1>2. \A p \in Priority : IsReadyAt(r, t, p) <=> IsReadyAt(s, t, p)
  BY <1>1 DEF Coherent, Rescheduled
<1> QED
  BY <1>2 DEF Same, Rescheduled, WaitsAt, IsDefunct

(* All but the thread that runs. *)
SameClock(s, r) ==
  /\ r.lock_nest = s.lock_nest /\ r.registered = s.registered
  /\ r.tick = s.tick /\ r.remaining_tick = s.remaining_tick

(* A change of one thread and then a switch. *)
LEMMA ThenSchedule ==
  ASSUME NEW s, NEW q, NEW t \in Thread, Full(s), Sound(q), Only(s, q, t), SameRegs(s, q),
         s.lock_nest = 0 \/ q.thread[s.current].stat = "READY"
  PROVE  LET r == rt_schedule(q)
         IN  /\ Full(r) /\ Only(s, r, t) /\ SameClock(s, r) /\ Same(q, r, t)
             /\ r.thread = q.thread /\ r.wait = q.wait /\ r.defunct = q.defunct /\ r.tm = q.tm
<1> DEFINE r == rt_schedule(q)
<1>1. q.thread[Idle].stat = "READY"
  BY KernelAssumption DEF Only, Same, Full, Live, All
<1>2. Live(q) /\ (q.lock_nest = 0 \/ Full(q))
  BY <1>1 DEF Live, Full, SameRegs
<1>3. Rescheduled(q, r) /\ \A u \in All : Same(q, r, u)
  BY <1>2, Schedule, ScheduleIs
<1> HIDE DEF r
<1>4. Only(q, r, t)
  BY <1>3 DEF Only
<1>5. Only(s, r, t)
  BY <1>4, OnlyTrans
<1>6. Same(q, r, t)
  BY <1>3 DEF All
<1> QED
  BY <1>3, <1>5, <1>6 DEF Rescheduled, SameClock, SameRegs, r

LEMMA StartTimer ==
  ASSUME NEW s, Sound(s), NEW t \in Thread, s.thread[t].stat = "SUSPEND", NEW time \in Tick
  PROVE  LET r == StartThreadTimer(s, t, time)
         IN  /\ Sound(r) /\ Only(s, r, t) /\ SameRegs(s, r)
             /\ r.thread = s.thread /\ r.wait = s.wait /\ r.defunct = s.defunct
             /\ r.tm.active = s.tm.active \cup {t}
             /\ r.tm = SetTime(rt_timer_start(SetTime(s.tm, t, time), s.tick, t), t, 0)
<1> DEFINE a == SetTime(s.tm, t, time)
           b == rt_timer_start(a, s.tick, t)
           tm == SetTime(b, t, 0)
           r == StartThreadTimer(s, t, time)
<1>1. Tables(s) /\ TimersKept(s.tm) /\ t \in All /\ s.tick \in Tick /\ 0 \in Tick
  <2>1. Tables(s)
    BY DEF Sound
  <2> QED
    BY <2>1, TablesTypes, TickAssumption DEF Tables, All, Tick
<1>2. r = [s EXCEPT !.tm = tm]
  BY DEF StartThreadTimer
<1> HIDE DEF r
<1>3. TimersKept(a) /\ a.active = s.tm.active
  BY <1>1, TimerSetTime
<1> HIDE DEF a
<1>4. TimersKept(b) /\ b.active = s.tm.active \cup {t}
  BY <1>1, <1>3, TimerStart DEF TimerOn
<1> HIDE DEF b
<1>5. TimersKept(tm) /\ tm.active = s.tm.active \cup {t}
  <2>1. TimersKept(tm) /\ tm.active = b.active
    BY <1>1, <1>4, TimerCleared
  <2> QED
    BY <1>4, <2>1
<1> HIDE DEF tm
<1>6. /\ Tables(r) /\ Only(s, r, t) /\ SameRegs(s, r)
      /\ r.thread = s.thread /\ r.ready = s.ready /\ r.wait = s.wait
      /\ r.defunct = s.defunct /\ r.tm = tm
  BY <1>1, <1>2, <1>5, SetTm
<1>7. Coherent(r, t)
  <2>1. Coherent(s, t)
    BY <1>1 DEF Sound
  <2> QED
    BY <1>6, <2>1 DEF Coherent, IsReadyAt, WaitsAt, IsDefunct
<1>8. Sound(r)
  BY <1>6, <1>7, SoundAfter
<1> QED
  BY <1>5, <1>6, <1>8 DEF r, tm, b, a

LEMMA ThreadSleep ==
  ASSUME NEW s, Full(s), s.lock_nest = 0, s.current \in Thread, NEW time \in Tick
  PROVE  LET r == rt_thread_sleep(s, time)
             t == s.current
         IN  /\ Full(r) /\ Only(s, r, t) /\ SameClock(s, r)
             /\ r.thread[t] = [s.thread[t] EXCEPT !.stat = "SUSPEND"]
             /\ ~Waits(r, t) /\ r.tm.active = s.tm.active \cup {t}
             /\ r.tm = SetTime(rt_timer_start(SetTime(rt_timer_stop(s.tm, t), t, time), s.tick, t), t, 0)
<1> DEFINE t == s.current
           u == rt_thread_suspend(s, t)
           v == StartThreadTimer(u, t, time)
           r == rt_schedule(v)
<1>1. t \in All /\ t \in Thread /\ Sound(s) /\ s.thread[t].stat = "READY" /\ s.current = t
  BY DEF Full, Live, All
<1>t. rt_thread_sleep(s, time) = r
  BY DEF rt_thread_sleep
<1> HIDE DEF t
<1>2. /\ Sound(u) /\ Only(s, u, t) /\ Off(u, t) /\ SameRegs(s, u)
      /\ u.thread[t] = [s.thread[t] EXCEPT !.stat = "SUSPEND"]
      /\ u.wait = s.wait /\ u.tm = rt_timer_stop(s.tm, t)
  BY <1>1, ThreadSuspend
<1>3. u.thread[t].stat = "SUSPEND"
  <2>1. s.thread[t] \in ThreadRecord
    BY <1>1, TablesTypes DEF Sound
  <2> QED
    BY <1>2, <2>1 DEF ThreadRecord
<1>4. u.tm.active = s.tm.active \ {t}
  BY <1>1, <1>2, TimerStop DEF Sound, Tables, TimerOff
<1> HIDE DEF u
<1>5. /\ Sound(v) /\ Only(u, v, t) /\ SameRegs(u, v)
      /\ v.thread = u.thread /\ v.wait = u.wait /\ v.defunct = u.defunct
      /\ v.tm.active = u.tm.active \cup {t}
      /\ v.tm = SetTime(rt_timer_start(SetTime(u.tm, t, time), u.tick, t), t, 0)
  <2>1. Sound(u)
    BY <1>2
  <2> QED
    BY <1>1, <1>3, <2>1, StartTimer
<1> HIDE DEF v
<1>6. Only(s, v, t) /\ SameRegs(s, v)
  BY <1>2, <1>5, OnlyTrans, RegsTrans
<1>7. /\ Full(r) /\ Only(s, r, t) /\ SameClock(s, r)
      /\ r.thread = v.thread /\ r.wait = v.wait /\ r.tm = v.tm
  BY <1>1, <1>5, <1>6, ThenSchedule
<1> HIDE DEF r
<1>8. ~Waits(r, t)
  BY <1>2, <1>5, <1>7 DEF Off, Waits, WaitsAt
<1>9. r.tm.active = s.tm.active \cup {t}
  BY <1>4, <1>5, <1>7
<1>10. u.tick = s.tick
  BY <1>2 DEF SameRegs
<1> QED
  BY <1>2, <1>5, <1>7, <1>8, <1>9, <1>10, <1>t DEF t

-----------------------------------------------------------------------------
(* object.c: the container. *)
LEMMA SetRegistered ==
  ASSUME NEW s, Sound(s), NEW R \in SUBSET (All \cup Object)
  PROVE  LET r == [s EXCEPT !.registered = R]
         IN  /\ Sound(r) /\ (\A t \in All : Same(s, r, t)) /\ r.registered = R
             /\ r.current = s.current /\ r.lock_nest = s.lock_nest /\ r.tick = s.tick
             /\ r.remaining_tick = s.remaining_tick /\ r.thread = s.thread
             /\ r.ready = s.ready /\ r.wait = s.wait /\ r.defunct = s.defunct /\ r.tm = s.tm
<1> DEFINE r == [s EXCEPT !.registered = R]
<1>1. Tables(s) /\ s \in KernelState
  BY DEF Sound, Tables
<1>2. /\ r \in KernelState /\ r.registered = R /\ r.group = s.group
      /\ r.current = s.current /\ r.lock_nest = s.lock_nest /\ r.tick = s.tick
      /\ r.remaining_tick = s.remaining_tick /\ r.thread = s.thread
      /\ r.ready = s.ready /\ r.wait = s.wait /\ r.defunct = s.defunct /\ r.tm = s.tm
  BY <1>1 DEF KernelState
<1> HIDE DEF r
<1>3. Tables(r)
  BY <1>1, <1>2 DEF Tables
<1>4. ASSUME NEW t \in All PROVE Same(s, r, t)
  BY <1>2 DEF Same, IsReadyAt, WaitsAt, IsDefunct
<1>5. Sound(r)
  BY <1>3, <1>4, SameCoherent DEF Sound
<1> QED
  BY <1>2, <1>4, <1>5 DEF r

(* rt_thread_init and rt_thread_create: a thread that is in no list. *)
LEMMA Setup ==
  ASSUME NEW s, Sound(s), NEW t \in All, s.thread[t].stat \in {"NONE", "CLOSE"},
         ~IsDefunct(s, t)
  PROVE  LET r == ThreadSetup(s, t)
         IN  /\ Sound(r) /\ Only(s, r, t) /\ SameRegs(s, r)
             /\ r.thread[t] = [stat |-> "INIT", current_priority |-> ThreadPriority[t],
                               number_mask |-> {}, error |-> "EOK"]
             /\ ~Waits(r, t) /\ r.wait = s.wait /\ r.defunct = s.defunct
             /\ r.tm = rt_timer_init(s.tm, t, 0, FALSE) /\ r.tm.active = s.tm.active
             /\ t \notin r.tm.active
<1> DEFINE rec == [stat |-> "INIT", current_priority |-> ThreadPriority[t],
                   number_mask |-> {}, error |-> "EOK"]
           a == [s EXCEPT !.thread[t] = rec]
           tm == rt_timer_init(s.tm, t, 0, FALSE)
           r == ThreadSetup(s, t)
<1>1. Tables(s) /\ Coherent(s, t) /\ s \in KernelState
  BY DEF Sound, Tables
<1>2. Off(s, t) /\ t \notin s.tm.active
  BY <1>1 DEF Coherent, Off, Waits
<1>3. rec \in ThreadRecord
  BY KernelAssumption DEF ThreadRecord, Stat, Error
<1>4. r = [a EXCEPT !.tm = tm]
  BY <1>1 DEF ThreadSetup, KernelState
<1>5. rec.stat = "INIT"
  OBVIOUS
<1> HIDE DEF rec, r
<1>6. /\ Tables(a) /\ Only(s, a, t) /\ SameRegs(s, a) /\ Off(a, t)
      /\ a.wait = s.wait /\ a.defunct = s.defunct /\ a.tm = s.tm /\ a.thread[t] = rec
  BY <1>1, <1>2, <1>3, SetThread
<1> HIDE DEF a
<1>7. TimersKept(tm) /\ tm.active = s.tm.active
  BY <1>1, <1>2, TimerInit DEF Tables
<1> HIDE DEF tm
<1>8. /\ Tables(r) /\ Only(a, r, t) /\ SameRegs(a, r) /\ Off(r, t)
      /\ r.thread = a.thread /\ r.wait = a.wait /\ r.defunct = a.defunct /\ r.tm = tm
  BY <1>4, <1>6, <1>7, SetTm
<1>9. Only(s, r, t) /\ SameRegs(s, r)
  BY <1>6, <1>8, OnlyTrans, RegsTrans
<1>10. Coherent(r, t)
  BY <1>2, <1>5, <1>6, <1>7, <1>8 DEF Coherent, Off, Waits
<1>11. Sound(r)
  BY <1>8, <1>9, <1>10, SoundAfter
<1>12. ~Waits(r, t) /\ t \notin r.tm.active
  BY <1>2, <1>7, <1>8 DEF Off
<1> QED
  BY <1>6, <1>7, <1>8, <1>9, <1>11, <1>12 DEF r, rec, tm

(* rt_thread_startup, before its rt_schedule. *)
StartedRec(rec, p) ==
  [rec EXCEPT !.stat = "SUSPEND", !.current_priority = p, !.number_mask = {p}]
StartedUp(s, t) ==
  [s EXCEPT !.thread[t].stat = "SUSPEND", !.thread[t].current_priority = ThreadPriority[t],
            !.thread[t].number_mask = {ThreadPriority[t]}]

LEMMA StartedFields ==
  ASSUME NEW s, Tables(s), NEW t \in All
  PROVE  LET p == ThreadPriority[t]
             rec == StartedRec(s.thread[t], p)
         IN  /\ rec \in ThreadRecord /\ rec.stat = "SUSPEND" /\ rec.error = s.thread[t].error
             /\ rec.current_priority = p /\ rec.number_mask = {p}
             /\ StartedUp(s, t) = [s EXCEPT !.thread[t] = rec]
<1>1. s \in KernelState /\ s.thread \in [All -> ThreadRecord] /\ s.thread[t] \in ThreadRecord
  BY TablesTypes, ThreadTypes DEF Tables
<1>2. ThreadPriority[t] \in Priority
  BY KernelAssumption
<1> QED
  BY <1>1, <1>2 DEF KernelState, ThreadRecord, Stat, StartedRec, StartedUp

LEMMA Start ==
  ASSUME NEW s, Sound(s), NEW t \in All, s.thread[t].stat = "INIT"
  PROVE  LET r == rt_thread_resume(StartedUp(s, t), t)
         IN  /\ Sound(r) /\ Only(s, r, t) /\ SameRegs(s, r)
             /\ r.thread[t].stat = "READY" /\ r.thread[t].error = s.thread[t].error
             /\ r.thread[t].current_priority = ThreadPriority[t]
             /\ ~Waits(r, t) /\ r.wait = s.wait
             /\ r.tm.active = s.tm.active /\ r.tm = s.tm /\ t \notin r.tm.active
<1> DEFINE p == ThreadPriority[t]
           rec == StartedRec(s.thread[t], p)
           a == StartedUp(s, t)
           r == rt_thread_resume(a, t)
<1>1. Tables(s) /\ Coherent(s, t)
  BY DEF Sound
<1>2. Off(s, t) /\ t \notin s.tm.active
  BY <1>1 DEF Coherent, Off, Waits
<1>3. /\ rec \in ThreadRecord /\ rec.stat = "SUSPEND" /\ rec.error = s.thread[t].error
      /\ rec.current_priority = p /\ rec.number_mask = {p}
      /\ a = [s EXCEPT !.thread[t] = rec]
  BY <1>1, StartedFields
<1> HIDE DEF rec, a, p
<1>4. /\ Tables(a) /\ Only(s, a, t) /\ SameRegs(s, a) /\ Off(a, t)
      /\ a.wait = s.wait /\ a.defunct = s.defunct /\ a.tm = s.tm /\ a.thread[t] = rec
  BY <1>1, <1>2, <1>3, SetThread
<1>5. Coherent(a, t)
  BY <1>2, <1>3, <1>4 DEF Coherent, Off, Waits
<1>6. Sound(a) /\ a.thread[t].stat = "SUSPEND"
  BY <1>3, <1>4, <1>5, SoundAfter
<1>7. /\ Sound(r) /\ Only(a, r, t) /\ SameRegs(a, r)
      /\ r.thread[t] = [a.thread[t] EXCEPT !.stat = "READY"]
      /\ r.tm = rt_timer_stop(a.tm, t) /\ ~Waits(r, t)
      /\ \A l \in WaitList : ~WaitsAt(a, t, l) => r.wait[l] = a.wait[l]
  BY <1>6, ThreadResume
<1> HIDE DEF r
<1>8. Only(s, r, t) /\ SameRegs(s, r)
  BY <1>4, <1>7, OnlyTrans, RegsTrans
<1>9. /\ r.thread[t].stat = "READY" /\ r.thread[t].error = s.thread[t].error
      /\ r.thread[t].current_priority = p
  BY <1>3, <1>4, <1>7 DEF ThreadRecord
<1>10. r.tm = s.tm
  BY <1>2, <1>4, <1>7 DEF rt_timer_stop
<1>11. r.wait = s.wait
  <2>1. \A l \in WaitList : r.wait[l] = s.wait[l]
    BY <1>4, <1>7 DEF Off, Waits
  <2>2. r.wait \in [WaitList -> Seq(Thread)] /\ s.wait \in [WaitList -> Seq(Thread)]
    BY <1>1, <1>7, TablesTypes DEF Sound
  <2> QED
    BY <2>1, <2>2
<1> QED
  BY <1>2, <1>7, <1>8, <1>9, <1>10, <1>11 DEF r, a, p

-----------------------------------------------------------------------------
(* The end of a thread: no list, no timer. *)
LEMMA UnscheduleIs ==
  ASSUME NEW s, Sound(s), NEW t \in All, s.thread[t].stat \in {"INIT", "READY", "SUSPEND"}
  PROVE  LET r == Unschedule(s, t)
         IN  /\ Sound(r) /\ Only(s, r, t) /\ Off(r, t) /\ SameRegs(s, r)
             /\ r.thread[t].stat = "CLOSE" /\ r.thread[t].error = s.thread[t].error
             /\ r.tm = rt_timer_detach(s.tm, t) /\ t \notin r.tm.active
<1> DEFINE u == IF s.thread[t].stat = "INIT" THEN s ELSE rt_schedule_remove_thread(s, t)
           tm == rt_timer_detach(s.tm, t)
           rec == [u.thread[t] EXCEPT !.stat = "CLOSE"]
           a == [u EXCEPT !.thread[t] = rec]
           r == Unschedule(s, t)
<1>1. Tables(s) /\ Coherent(s, t)
  BY DEF Sound
<1>2. /\ Tables(u) /\ Only(s, u, t) /\ Off(u, t) /\ SameRegs(s, u)
      /\ u.thread = s.thread /\ u.tm = s.tm
  <2>1. CASE s.thread[t].stat = "INIT"
    <3>1. u = s /\ Off(s, t)
      BY <1>1, <2>1 DEF Coherent, Off, Waits
    <3>2. Only(s, s, t) /\ SameRegs(s, s)
      BY DEF Only, Same, SameRegs
    <3> HIDE DEF u
    <3> QED
      BY <1>1, <3>1, <3>2
  <2>2. CASE s.thread[t].stat # "INIT"
    <3>1. u = rt_schedule_remove_thread(s, t) /\ s.thread[t].stat \in {"READY", "SUSPEND"}
      BY <2>2
    <3> HIDE DEF u
    <3> QED
      BY <1>1, <3>1, ScheduleRemove
  <2> QED
    BY <2>1, <2>2
<1>3. r = [u EXCEPT !.tm = rt_timer_detach(@, t), !.thread[t].stat = "CLOSE"]
  BY DEF Unschedule
<1> HIDE DEF u, r
<1>4. u \in KernelState /\ u.thread[t] \in ThreadRecord
  BY <1>2, TablesTypes DEF Tables
<1>5. rec \in ThreadRecord /\ rec.stat = "CLOSE" /\ rec.error = s.thread[t].error
  BY <1>2, <1>4 DEF ThreadRecord, Stat
<1>6. r = [a EXCEPT !.tm = tm]
  BY <1>2, <1>3, <1>4 DEF KernelState
<1> HIDE DEF rec
<1>7. /\ Tables(a) /\ Only(u, a, t) /\ SameRegs(u, a) /\ Off(a, t)
      /\ a.tm = u.tm /\ a.thread[t] = rec
  BY <1>2, <1>5, SetThread
<1> HIDE DEF a
<1>8. TimersKept(tm) /\ tm.active = s.tm.active \ {t}
  BY <1>1, TimerDetach DEF Tables, TimerOff
<1> HIDE DEF tm
<1>9. /\ Tables(r) /\ Only(a, r, t) /\ SameRegs(a, r) /\ Off(r, t)
      /\ r.thread = a.thread /\ r.tm = tm
  BY <1>2, <1>6, <1>7, <1>8, SetTm
<1>10. Only(s, r, t) /\ SameRegs(s, r)
  BY <1>2, <1>7, <1>9, OnlyTrans, RegsTrans
<1>11. Coherent(r, t)
  BY <1>5, <1>7, <1>8, <1>9 DEF Coherent, Off, Waits
<1>12. Sound(r)
  BY <1>9, <1>10, <1>11, SoundAfter
<1> QED
  BY <1>5, <1>7, <1>8, <1>9, <1>10, <1>12 DEF r, tm

(* Both ends of a thread, before rt_thread_exit's rt_schedule. *)
Ended(s, r, t) ==
  /\ Sound(r) /\ Only(s, r, t)
  /\ r.current = s.current /\ r.lock_nest = s.lock_nest
  /\ r.tick = s.tick /\ r.remaining_tick = s.remaining_tick
  /\ r.thread[t].stat = "CLOSE" /\ r.thread[t].error = s.thread[t].error
  /\ ~Waits(r, t) /\ t \notin r.tm.active /\ r.tm = rt_timer_detach(s.tm, t)
  /\ \/ r.registered = s.registered \ {t} /\ ~IsDefunct(r, t)
     \/ r.registered = s.registered /\ IsDefunct(r, t)

LEMMA ThreadDetach ==
  ASSUME NEW s, Sound(s), NEW t \in All, s.thread[t].stat \in {"INIT", "READY", "SUSPEND"}
  PROVE  Ended(s, rt_thread_detach(s, t), t)
<1> DEFINE u == Unschedule(s, t)
           R == u.registered \ {t}
           r == rt_thread_detach(s, t)
<1>1. /\ Sound(u) /\ Only(s, u, t) /\ Off(u, t) /\ SameRegs(s, u)
      /\ u.thread[t].stat = "CLOSE" /\ u.thread[t].error = s.thread[t].error
      /\ u.tm = rt_timer_detach(s.tm, t) /\ t \notin u.tm.active
  BY UnscheduleIs
<1>2. r = [u EXCEPT !.registered = R]
  BY DEF rt_thread_detach, rt_object_detach
<1> HIDE DEF u, r
<1>3. R \in SUBSET (All \cup Object)
  BY <1>1, TablesTypes DEF Sound
<1> HIDE DEF R
<1>4. /\ Sound(r) /\ (\A x \in All : Same(u, r, x)) /\ r.registered = R
      /\ r.current = u.current /\ r.lock_nest = u.lock_nest /\ r.tick = u.tick
      /\ r.remaining_tick = u.remaining_tick /\ r.thread = u.thread
      /\ r.wait = u.wait /\ r.defunct = u.defunct /\ r.tm = u.tm
  BY <1>1, <1>2, <1>3, SetRegistered
<1>5. Only(s, r, t)
  <2>1. Only(u, r, t)
    BY <1>4 DEF Only
  <2> QED
    BY <1>1, <2>1, OnlyTrans
<1>6. ~Waits(r, t) /\ ~IsDefunct(r, t)
  BY <1>1, <1>4 DEF Off, Waits, WaitsAt, IsDefunct
<1>7. Ended(s, r, t)
  BY <1>1, <1>4, <1>5, <1>6 DEF Ended, SameRegs, R
<1> QED
  BY <1>7 DEF r

LEMMA ThreadDelete ==
  ASSUME NEW s, Sound(s), NEW t \in Thread \ StaticThread,
         s.thread[t].stat \in {"INIT", "READY", "SUSPEND"}
  PROVE  Ended(s, rt_thread_delete(s, t), t)
<1> DEFINE u == Unschedule(s, t)
           list == <<t>> \o u.defunct
           r == rt_thread_delete(s, t)
<1>1. /\ Sound(u) /\ Only(s, u, t) /\ Off(u, t) /\ SameRegs(s, u) /\ t \in All
      /\ u.thread[t].stat = "CLOSE" /\ u.thread[t].error = s.thread[t].error
      /\ u.tm = rt_timer_detach(s.tm, t) /\ t \notin u.tm.active
  BY UnscheduleIs DEF All
<1>2. r = [u EXCEPT !.defunct = list]
  BY DEF rt_thread_delete
<1> HIDE DEF u, r
<1>3. Tables(u) /\ u \in KernelState /\ u.defunct \in Seq(Thread)
  BY <1>1, TablesTypes DEF Sound, Tables
<1>4. list \in Seq(Thread) /\ ToSet(list) = ToSet(u.defunct) \cup {t} /\ Once(list)
  <2>1. Once(u.defunct) /\ t \notin ToSet(u.defunct)
    BY <1>1, <1>3 DEF Tables, Off, IsDefunct
  <2> QED
    BY <1>3, <2>1, ListCons
<1> HIDE DEF list
<1>5. /\ r \in KernelState /\ r.group = u.group /\ SameRegs(u, r) /\ r.thread = u.thread
      /\ r.ready = u.ready /\ r.wait = u.wait /\ r.defunct = list /\ r.tm = u.tm
  BY <1>2, <1>3, <1>4 DEF KernelState, SameRegs
<1>6. Tables(r)
  BY <1>3, <1>4, <1>5 DEF Tables
<1>7. Only(s, r, t)
  <2>1. Only(u, r, t)
    BY <1>4, <1>5 DEF Only, Same, IsReadyAt, WaitsAt, IsDefunct
  <2> QED
    BY <1>1, <2>1, OnlyTrans
<1>8. ~Waits(r, t) /\ IsDefunct(r, t) /\ \A p \in Priority : ~IsReadyAt(r, t, p)
  BY <1>1, <1>4, <1>5 DEF Off, Waits, WaitsAt, IsDefunct, IsReadyAt
<1>9. Coherent(r, t)
  BY <1>1, <1>5, <1>8 DEF Coherent, Waits
<1>10. Sound(r)
  BY <1>6, <1>7, <1>9, SoundAfter
<1>11. Ended(s, r, t)
  BY <1>1, <1>5, <1>7, <1>8, <1>10 DEF Ended, SameRegs
<1> QED
  BY <1>11 DEF r

(* The idle thread frees the threads that were deleted. *)
LEMMA IdleExcute ==
  ASSUME NEW s, Full(s), s.current = Idle
  PROVE  LET r == rt_thread_idle_excute(s)
         IN  /\ Full(r) /\ SameRegs([s EXCEPT !.registered = @ \ ToSet(s.defunct)], r)
             /\ r.wait = s.wait /\ r.tm = s.tm
             /\ \A t \in All :
                  IF IsDefunct(s, t)
                  THEN /\ r.thread[t].stat = "NONE" /\ s.thread[t].stat = "CLOSE"
                       /\ r.thread[t].error = s.thread[t].error
                  ELSE Same(s, r, t)
             /\ \A t \in All : ~IsDefunct(r, t)
<1> DEFINE thread == [t \in All |-> IF IsDefunct(s, t) THEN [s.thread[t] EXCEPT !.stat = "NONE"]
                                    ELSE s.thread[t]]
           R == s.registered \ ToSet(s.defunct)
           r == rt_thread_idle_excute(s)
<1>1. Sound(s) /\ Tables(s) /\ s \in KernelState /\ s.thread[Idle].stat = "READY"
  BY DEF Full, Live, Sound, Tables
<1>2. /\ s.thread \in [All -> ThreadRecord] /\ s.defunct \in Seq(Thread)
      /\ R \in SUBSET (All \cup Object)
  BY <1>1, TablesTypes
<1>3. \A t : Contains(s.defunct, t) <=> IsDefunct(s, t)
  BY <1>2, ContainsIs DEF IsDefunct
<1>4. thread \in [All -> ThreadRecord]
  <2> SUFFICES ASSUME NEW t \in All
               PROVE  (IF IsDefunct(s, t) THEN [s.thread[t] EXCEPT !.stat = "NONE"]
                       ELSE s.thread[t]) \in ThreadRecord
    OBVIOUS
  <2>1. s.thread[t] \in ThreadRecord
    BY <1>2
  <2>2. [s.thread[t] EXCEPT !.stat = "NONE"] \in ThreadRecord
    BY <2>1 DEF ThreadRecord, Stat
  <2> QED
    BY <2>1, <2>2
<1>5. r = [s EXCEPT !.defunct = <<>>, !.registered = R, !.thread = thread]
  BY <1>1, <1>3 DEF rt_thread_idle_excute, KernelState
<1>6. \A t \in All :
        /\ IsDefunct(s, t) => thread[t] = [s.thread[t] EXCEPT !.stat = "NONE"]
        /\ ~IsDefunct(s, t) => thread[t] = s.thread[t]
  OBVIOUS
<1>7. <<>> \in Seq(Thread) /\ Once(<<>>) /\ ToSet(<<>>) = {}
  BY <1>2, ListEmpty
<1> HIDE DEF thread, R, r
<1>8. /\ r \in KernelState /\ r.thread = thread /\ r.defunct = <<>> /\ r.registered = R
      /\ r.ready = s.ready /\ r.wait = s.wait /\ r.group = s.group /\ r.tm = s.tm
      /\ r.current = s.current /\ r.lock_nest = s.lock_nest /\ r.tick = s.tick
      /\ r.remaining_tick = s.remaining_tick
  BY <1>1, <1>2, <1>4, <1>5, <1>7 DEF KernelState
<1>9. Tables(r)
  BY <1>1, <1>7, <1>8 DEF Tables
<1>10. ASSUME NEW t \in All, IsDefunct(s, t)
       PROVE  /\ Coherent(r, t) /\ r.thread[t].stat = "NONE" /\ s.thread[t].stat = "CLOSE"
              /\ r.thread[t].error = s.thread[t].error
  <2>1. Coherent(s, t) /\ s.thread[t] \in ThreadRecord
    BY <1>1, <1>2 DEF Sound
  <2>2. r.thread[t].stat = "NONE" /\ r.thread[t].error = s.thread[t].error
    BY <1>6, <1>8, <1>10, <2>1 DEF ThreadRecord
  <2>3. s.thread[t].stat = "CLOSE" /\ t \notin s.tm.active /\ ~Waits(s, t)
        /\ \A p \in Priority : ~IsReadyAt(s, t, p)
    BY <1>10, <2>1 DEF Coherent, Waits
  <2>4. Coherent(r, t)
    BY <1>7, <1>8, <2>2, <2>3 DEF Coherent, Waits, WaitsAt, IsReadyAt, IsDefunct
  <2> QED
    BY <2>2, <2>3, <2>4
<1>11. ASSUME NEW t \in All, ~IsDefunct(s, t)
       PROVE  Same(s, r, t)
  BY <1>6, <1>7, <1>8, <1>11 DEF Same, IsReadyAt, WaitsAt, IsDefunct
<1>12. ASSUME NEW t \in All PROVE Coherent(r, t)
  <2>1. CASE IsDefunct(s, t)
    BY <1>10, <2>1
  <2>2. CASE ~IsDefunct(s, t)
    BY <1>1, <1>11, <2>2, SameCoherent DEF Sound
  <2> QED
    BY <2>1, <2>2
<1>13. Full(r)
  <2>1. Idle \in All /\ Coherent(s, Idle)
    BY <1>1 DEF All, Sound
  <2>2. ~IsDefunct(s, Idle)
    BY <1>1, <2>1 DEF Coherent
  <2>3. r.thread[Idle].stat = "READY"
    BY <1>1, <1>6, <1>8, <2>1, <2>2
  <2> QED
    BY <1>8, <1>9, <1>12, <2>1, <2>3 DEF Full, Live, Sound
<1>14. SameRegs([s EXCEPT !.registered = @ \ ToSet(s.defunct)], r)
  BY <1>1, <1>8 DEF SameRegs, KernelState, R
<1>15. \A t \in All : ~IsDefunct(r, t)
  BY <1>7, <1>8 DEF IsDefunct
<1> QED
  BY <1>8, <1>10, <1>11, <1>13, <1>14, <1>15 DEF r

-----------------------------------------------------------------------------
(* timer.c: rt_timer_check. *)
LEMMA TimerTaken ==
  ASSUME NEW tm, TimersKept(tm), tm.list["hard"] # <<>>
  PROVE  LET r == TakeExpired(tm, "hard")
             t == Head(tm.list["hard"])
         IN  t \in tm.active /\ TimerOff(tm, r, t)
<1> DEFINE list == tm.list["hard"]
           t == Head(list)
           r == TakeExpired(tm, "hard")
<1>1. /\ tm \in TimerState /\ "hard" \in Lists /\ 0 \in Tick
      /\ tm.list \in [Lists -> Seq(Timer)] /\ tm.temp \in [Lists -> SUBSET Timer]
      /\ tm.timeout_tick \in [Timer -> Tick]
  BY TickAssumption DEF TimersKept, TimerState, Lists, Tick
<1>2. list \in Seq(Timer) /\ Once(list) /\ ToSet(list) = tm.active
  BY <1>1 DEF TimersKept
<1> HIDE DEF list
<1>3. /\ t \in tm.active /\ t \in Timer /\ Tail(list) \in Seq(Timer)
      /\ Once(Tail(list)) /\ ToSet(Tail(list)) = tm.active \ {t}
  <2>1. list # <<>>
    BY DEF list
  <2>2. /\ t \in ToSet(list) /\ t \in Timer /\ Tail(list) \in Seq(Timer)
        /\ ToSet(list) = ToSet(Tail(list)) \cup {t} /\ Once(Tail(list))
        /\ t \notin ToSet(Tail(list))
    BY <1>2, <2>1, ListHead
  <2> QED
    BY <1>2, <2>2
<1>4. t \notin tm.periodic
  BY <1>3 DEF TimersKept, All
<1>5. r = [tm EXCEPT !.list["hard"] = Tail(list), !.temp["hard"] = {t}, !.timeout_tick[t] = 0,
                     !.active = @ \ {t}]
  BY <1>1, <1>4 DEF TakeExpired, list
<1> HIDE DEF r, t
<1>6. /\ [tm.list EXCEPT !["hard"] = Tail(list)] \in [Lists -> Seq(Timer)]
      /\ [tm.list EXCEPT !["hard"] = Tail(list)]["hard"] = Tail(list)
      /\ [tm.temp EXCEPT !["hard"] = {t}] \in [Lists -> SUBSET Timer]
      /\ [tm.timeout_tick EXCEPT ![t] = 0] \in [Timer -> Tick]
  BY <1>1, <1>3
<1>7. /\ r \in TimerState /\ r.list = [tm.list EXCEPT !["hard"] = Tail(list)]
      /\ r.active = tm.active \ {t} /\ r.periodic = tm.periodic
  BY <1>1, <1>5, <1>6 DEF TimerState
<1>8. TimerOff(tm, r, t)
  BY <1>3, <1>6, <1>7 DEF TimerOff, TimersKept
<1> QED
  BY <1>3, <1>8 DEF r, t, list

LEMMA TimerAfter ==
  ASSUME NEW tm, TimersKept(tm), NEW now, NEW t \in Thread
  PROVE  LET r == AfterTimeout(tm, now, t)
         IN  /\ TimersKept(r) /\ r.active = tm.active /\ r.list = tm.list
             /\ r.timeout_tick = tm.timeout_tick
<1> DEFINE u == [tm EXCEPT !.temp["hard"] = {}]
           r == AfterTimeout(tm, now, t)
<1>1. tm \in TimerState /\ "hard" \in Lists /\ tm.temp \in [Lists -> SUBSET Timer]
  BY DEF TimersKept, TimerState, Lists
<1>2. t \notin SoftTimer /\ t \notin tm.periodic
  BY KernelAssumption DEF TimersKept, All
<1>3. /\ u \in TimerState /\ u.active = tm.active /\ u.periodic = tm.periodic /\ u.list = tm.list
      /\ u.timeout_tick = tm.timeout_tick
  <2>1. [tm.temp EXCEPT !["hard"] = {}] \in [Lists -> SUBSET Timer]
    BY <1>1
  <2> QED
    BY <1>1, <2>1 DEF TimerState
<1>4. r = tm \/ r = u
  <2> HIDE DEF u
  <2>1. r = IF tm.temp["hard"] = {} THEN tm
            ELSE IF t \in u.periodic /\ t \in u.active THEN rt_timer_start(u, now, t) ELSE u
    BY <1>2 DEF AfterTimeout, ListOf, u
  <2> QED
    BY <1>2, <1>3, <2>1
<1> HIDE DEF u, r
<1>5. TimersKept(u)
  BY <1>3 DEF TimersKept
<1> QED
  BY <1>3, <1>4, <1>5 DEF r

-----------------------------------------------------------------------------
(* The arithmetic of unsigned ticks: what is left of a time that is below  *)
(* half the range.                                                         *)
LEMMA ModSmall ==
  ASSUME NEW n \in Nat \ {0}, NEW x \in Nat, x < n
  PROVE  x % n = x /\ (x + n) % n = x
OBVIOUS

LEMMA MinusIs ==
  ASSUME NEW a \in Tick, NEW b \in Tick
  PROVE  Minus(a, b) = IF a >= b THEN a - b ELSE a - b + RT_TICK_MAX + 1
<1> DEFINE n == RT_TICK_MAX + 1
<1>0. n \in Nat \ {0} /\ a \in Nat /\ b \in Nat /\ a < n /\ b < n
  BY TickAssumption DEF Tick
<1>1. Minus(a, b) = (a + n - b) % n
  BY <1>0, TickAssumption DEF Minus
<1> HIDE DEF n
<1>2. CASE a >= b
  <2>1. a - b \in Nat /\ a - b < n /\ a + n - b = (a - b) + n
    BY <1>0, <1>2
  <2>2. ((a - b) + n) % n = a - b
    BY <1>0, <2>1, ModSmall
  <2> QED
    BY <1>1, <1>2, <2>1, <2>2
<1>3. CASE ~(a >= b)
  <2>1. a + n - b \in Nat /\ a + n - b < n
    BY <1>0, <1>3
  <2>2. (a + n - b) % n = a + n - b
    BY <1>0, <2>1, ModSmall
  <2>3. a + n - b = a - b + RT_TICK_MAX + 1
    BY <1>0, TickAssumption DEF n
  <2> QED
    BY <1>1, <1>3, <2>2, <2>3
<1> QED
  BY <1>2, <1>3

(* The longest time that the order of unsigned ticks tells apart, and what *)
(* is left of the time of a timer.                                         *)
Half == RT_TICK_MAX \div 2

LEMMA HalfTick ==
  Half \in Nat /\ Half > 0 /\ Half + Half <= RT_TICK_MAX
BY TickAssumption DEF Half

Left(tm, now, t) == Minus(tm.timeout_tick[t], now)

LEMMA LeftOrder ==
  ASSUME NEW a \in Tick, NEW b \in Tick, NEW now \in Tick,
         Minus(a, now) < Half, Minus(b, now) < Half
  PROVE  /\ Minus(a, b) # 0 /\ Minus(a, b) < Half <=> Minus(b, now) < Minus(a, now)
         /\ Minus(b, now) <= Minus(a, now) => Reached(a, b)
<1>1. a \in Nat /\ b \in Nat /\ now \in Nat /\ a <= RT_TICK_MAX /\ b <= RT_TICK_MAX
       /\ now <= RT_TICK_MAX /\ RT_TICK_MAX \in Nat
  BY TickAssumption DEF Tick
<1>2. Half \in Nat /\ Half > 0 /\ Half + Half <= RT_TICK_MAX
  BY HalfTick
<1>3. /\ Minus(a, b) = IF a >= b THEN a - b ELSE a - b + RT_TICK_MAX + 1
      /\ Minus(a, now) = IF a >= now THEN a - now ELSE a - now + RT_TICK_MAX + 1
      /\ Minus(b, now) = IF b >= now THEN b - now ELSE b - now + RT_TICK_MAX + 1
  BY MinusIs
<1>4. Reached(a, b) <=> Minus(a, b) < Half
  BY DEF Reached, Half
<1> DEFINE x == Minus(a, b)
           y == Minus(a, now)
           z == Minus(b, now)
<1> HIDE DEF x, y, z
<1> SUFFICES /\ x # 0 /\ x < Half <=> z < y
             /\ z <= y => x < Half
  BY <1>4 DEF x, y, z
<1>5. /\ x = IF a >= b THEN a - b ELSE a - b + RT_TICK_MAX + 1
      /\ y = IF a >= now THEN a - now ELSE a - now + RT_TICK_MAX + 1
      /\ z = IF b >= now THEN b - now ELSE b - now + RT_TICK_MAX + 1
      /\ y < Half /\ z < Half
  BY <1>3 DEF x, y, z
<1> QED
  BY <1>1, <1>2, <1>5

(* A time that is started, and the tick that passes. *)
LEMMA LeftStarted ==
  ASSUME NEW now \in Tick, NEW time \in Tick
  PROVE  Minus((now + time) % (RT_TICK_MAX + 1), now) = time
<1> DEFINE n == RT_TICK_MAX + 1
           a == (now + time) % n
<1>0. n \in Nat \ {0} /\ now \in Nat /\ time \in Nat /\ now < n /\ time < n
  BY TickAssumption DEF Tick
<1>1. a \in Tick
  BY <1>0, ModTick
<1>2. Minus(a, now) = IF a >= now THEN a - now ELSE a - now + n
  BY <1>0, <1>1, MinusIs, TickAssumption DEF Tick
<1>3. a = IF now + time < n THEN now + time ELSE now + time - n
  <2> HIDE DEF n
  <2>1. CASE now + time < n
    BY <1>0, <2>1, ModSmall
  <2>2. CASE ~(now + time < n)
    <3>1. now + time - n \in Nat /\ now + time - n < n /\ now + time = (now + time - n) + n
      BY <1>0, <2>2
    <3> QED
      BY <1>0, <2>2, <3>1, ModSmall
  <2> QED
    BY <2>1, <2>2
<1> HIDE DEF n, a
<1>4. Minus(a, now) = time
  BY <1>0, <1>2, <1>3
<1> QED
  BY <1>4 DEF a, n

LEMMA LeftTicked ==
  ASSUME NEW a \in Tick, NEW now \in Tick, Minus(a, now) > 0
  PROVE  Minus(a, (now + 1) % (RT_TICK_MAX + 1)) = Minus(a, now) - 1
<1> DEFINE n == RT_TICK_MAX + 1
           b == (now + 1) % n
<1>0. n \in Nat \ {0} /\ now \in Nat /\ a \in Nat /\ now < n /\ a < n /\ n > 1
  BY TickAssumption DEF Tick
<1>1. b \in Tick
  BY <1>0, ModTick
<1>2. /\ Minus(a, now) = IF a >= now THEN a - now ELSE a - now + n
      /\ Minus(a, b) = IF a >= b THEN a - b ELSE a - b + n
  BY <1>0, <1>1, MinusIs, TickAssumption DEF Tick
<1>3. b = IF now + 1 < n THEN now + 1 ELSE 0
  <2> HIDE DEF n
  <2>1. CASE now + 1 < n
    BY <1>0, <2>1, ModSmall
  <2>2. CASE ~(now + 1 < n)
    <3>1. now + 1 = 0 + n /\ 0 < n
      BY <1>0, <2>2
    <3> QED
      BY <1>0, <2>2, <3>1, ModSmall
  <2> QED
    BY <2>1, <2>2
<1> HIDE DEF n, b
<1>4. Minus(a, b) = Minus(a, now) - 1
  BY <1>0, <1>2, <1>3
<1> QED
  BY <1>4 DEF b, n

(* rt_thread_delay_until: what is left of inc ticks after last. *)
LEMMA LeftUntil ==
  ASSUME NEW last \in Tick, NEW now \in Tick, NEW inc \in 1..(Half - 1),
         Minus(now, last) < inc
  PROVE  Minus(last + inc, now) \in 1..(Half - 1)
<1> DEFINE n == RT_TICK_MAX + 1
           d == Minus(now, last)
<1>0. /\ n \in Nat \ {0} /\ now \in Nat /\ last \in Nat /\ now < n /\ last < n
      /\ inc \in Nat /\ inc < Half /\ Half + Half < n /\ Half \in Nat /\ inc > 0
  BY TickAssumption, HalfTick DEF Tick
<1>1. d = IF now >= last THEN now - last ELSE now - last + n
  BY <1>0, MinusIs, TickAssumption DEF Tick
<1>2. Minus(last + inc, now) = (last + inc + n - now) % n
  BY <1>0, TickAssumption DEF Minus
<1> HIDE DEF n, d
<1>3. d < inc
  BY DEF d
<1>4. d \in Nat /\ inc - d \in Nat /\ inc - d < n
  BY <1>0, <1>1, <1>3
<1>5. ASSUME now >= last
      PROVE  Minus(last + inc, now) = inc - d
  <2>1. last + inc + n - now = (inc - d) + n
    BY <1>0, <1>1, <1>4, <1>5
  <2>2. ((inc - d) + n) % n = inc - d
    BY <1>0, <1>4, ModSmall
  <2> QED
    BY <1>2, <2>1, <2>2
<1>6. ASSUME ~(now >= last)
      PROVE  Minus(last + inc, now) = inc - d
  <2>1. last + inc + n - now = ((inc - d) + n) + n
    BY <1>0, <1>1, <1>4, <1>6
  <2>2. (((inc - d) + n) + n) % n = ((inc - d) + n) % n
    BY <1>0, <1>4
  <2>3. ((inc - d) + n) % n = inc - d
    BY <1>0, <1>4, ModSmall
  <2> QED
    BY <1>2, <2>1, <2>2, <2>3
<1>7. Minus(last + inc, now) = inc - d
  BY <1>5, <1>6
<1>8. inc - d \in 1..(Half - 1)
  BY <1>0, <1>3, <1>4
<1> QED
  BY <1>7, <1>8

(* The list of the timers is in the order of what is left of them, and     *)
(* that is at least lo ticks and less than half the range.                 *)
InTime(tm, now, lo) ==
  /\ \A t \in tm.active : Left(tm, now, t) \in lo..(Half - 1)
  /\ \A i, j \in DOMAIN tm.list["hard"] :
       i < j => Left(tm, now, tm.list["hard"][i]) <= Left(tm, now, tm.list["hard"][j])

(* The elements of r are elements of q, in the same order. *)
Within(q, r) ==
  \E f \in [DOMAIN r -> DOMAIN q] :
    /\ \A i \in DOMAIN r : r[i] = q[f[i]]
    /\ \A i, j \in DOMAIN r : i < j => f[i] < f[j]

LEMMA WithinInTime ==
  ASSUME NEW tm, NEW r, NEW now, NEW lo, InTime(tm, now, lo),
         Within(tm.list["hard"], r.list["hard"]), r.active \subseteq tm.active,
         ToSet(r.list["hard"]) = r.active,
         \A t \in r.active : r.timeout_tick[t] = tm.timeout_tick[t]
  PROVE  InTime(r, now, lo)
<1> DEFINE q == tm.list["hard"]
           p == r.list["hard"]
<1>1. \A t \in r.active : Left(r, now, t) = Left(tm, now, t)
  BY DEF Left
<1>2. PICK f \in [DOMAIN p -> DOMAIN q] :
        /\ \A i \in DOMAIN p : p[i] = q[f[i]]
        /\ \A i, j \in DOMAIN p : i < j => f[i] < f[j]
  BY DEF Within
<1>3. ASSUME NEW i \in DOMAIN p, NEW j \in DOMAIN p, i < j
      PROVE  Left(r, now, p[i]) <= Left(r, now, p[j])
  <2>1. p[i] \in r.active /\ p[j] \in r.active
    BY DEF ToSet
  <2>2. f[i] \in DOMAIN q /\ f[j] \in DOMAIN q /\ f[i] < f[j] /\ p[i] = q[f[i]] /\ p[j] = q[f[j]]
    BY <1>2, <1>3
  <2>3. Left(tm, now, q[f[i]]) <= Left(tm, now, q[f[j]])
    BY <2>2 DEF InTime
  <2> QED
    BY <1>1, <2>1, <2>2, <2>3
<1> QED
  BY <1>1, <1>3 DEF InTime

LEMMA WithinTail ==
  ASSUME NEW S, NEW q \in Seq(S), q # <<>>
  PROVE  Within(q, Tail(q))
<1> DEFINE f == [i \in DOMAIN Tail(q) |-> i + 1]
<1>1. f \in [DOMAIN Tail(q) -> DOMAIN q]
  OBVIOUS
<1>2. \A i \in DOMAIN Tail(q) : Tail(q)[i] = q[f[i]]
  OBVIOUS
<1>3. \A i, j \in DOMAIN Tail(q) : i < j => f[i] < f[j]
  OBVIOUS
<1> HIDE DEF f
<1> QED
  BY <1>1, <1>2, <1>3 DEF Within

LEMMA WithinSelf ==
  ASSUME NEW S, NEW q \in Seq(S)
  PROVE  Within(q, q)
<1> DEFINE f == [i \in DOMAIN q |-> i]
<1>1. f \in [DOMAIN q -> DOMAIN q] /\ \A i \in DOMAIN q : f[i] = i
  OBVIOUS
<1> HIDE DEF f
<1> QED
  BY <1>1 DEF Within

LEMMA WithinRemoved ==
  ASSUME NEW S, NEW q \in Seq(S), NEW x
  PROVE  Within(q, rt_list_remove(q, x))
<1>1. CASE ~Contains(q, x)
  BY <1>1, WithinSelf DEF rt_list_remove
<1>2. CASE Contains(q, x)
  <2> DEFINE n == CHOOSE i \in DOMAIN q : q[i] = x
             r == RemoveAt(q, n)
             f == [i \in DOMAIN r |-> IF i < n THEN i ELSE i + 1]
  <2>1. n \in DOMAIN q
    BY <1>2 DEF Contains
  <2>0. rt_list_remove(q, x) = r
    BY <1>2 DEF rt_list_remove
  <2> HIDE DEF n
  <2>2. DOMAIN q = 1..Len(q) /\ n \in 1..Len(q) /\ Len(q) \in Nat
    BY <2>1
  <2>3. /\ DOMAIN r = 1..(Len(q) - 1)
        /\ \A i \in DOMAIN r : r[i] = q[IF i < n THEN i ELSE i + 1]
    <3>1. /\ DOMAIN r = 1..(Len(q) - 1)
          /\ \A i \in 1..(n - 1) : r[i] = q[i]
          /\ \A i \in n..(Len(q) - 1) : r[i] = q[i + 1]
      BY <2>1, RemovedAt
    <3> HIDE DEF r
    <3> QED
      BY <2>2, <3>1
  <2> HIDE DEF r
  <2>4. f \in [DOMAIN r -> DOMAIN q]
    BY <2>2, <2>3
  <2>5. \A i, j \in DOMAIN r : i < j => f[i] < f[j]
    BY <2>2, <2>3
  <2>6. \A i \in DOMAIN r : r[i] = q[f[i]]
    BY <2>3
  <2> HIDE DEF f
  <2> QED
    BY <2>0, <2>4, <2>5, <2>6 DEF Within
<1> QED
  BY <1>1, <1>2

(* A function that leaves the timers in time. *)
KeptTime(tm, r, now) == \A lo \in {0, 1} : InTime(tm, now, lo) => InTime(r, now, lo)

LEMMA KeptTimeTrans ==
  ASSUME NEW tm, NEW q, NEW r, NEW now, KeptTime(tm, q, now), KeptTime(q, r, now)
  PROVE  KeptTime(tm, r, now)
BY DEF KeptTime

(* The timers that are left are as they were. *)
LEMMA FewerInTime ==
  ASSUME NEW tm, NEW r, NEW now, TimersKept(r), Within(tm.list["hard"], r.list["hard"]),
         r.active \subseteq tm.active,
         \A t \in r.active : r.timeout_tick[t] = tm.timeout_tick[t]
  PROVE  KeptTime(tm, r, now)
<1>1. ToSet(r.list["hard"]) = r.active
  BY DEF TimersKept
<1> QED
  BY <1>1, WithinInTime DEF KeptTime

LEMMA SameInTime ==
  ASSUME NEW tm, NEW r, NEW now, r.list = tm.list, r.active = tm.active,
         \A t \in tm.active : r.timeout_tick[t] = tm.timeout_tick[t],
         TimersKept(tm)
  PROVE  KeptTime(tm, r, now)
<1>1. ToSet(r.list["hard"]) = r.active
  BY DEF TimersKept
<1>2. tm.list["hard"] \in Seq(Timer)
  BY DEF TimersKept, TimerState, Lists
<1>3. Within(tm.list["hard"], r.list["hard"])
  BY <1>2, WithinSelf
<1> QED
  BY <1>1, <1>3, WithinInTime DEF KeptTime

(* What rt_timer_remove leaves of the list. *)
LEMMA RemovedTimer ==
  ASSUME NEW tm, TimersKept(tm), NEW t \in All
  PROVE  LET r == rt_timer_remove(tm, t)
         IN  /\ r.list["hard"] = rt_list_remove(tm.list["hard"], t)
             /\ r.timeout_tick = [tm.timeout_tick EXCEPT ![t] = 0]
             /\ Within(tm.list["hard"], r.list["hard"])
             /\ \A u \in Timer \ {t} : r.timeout_tick[u] = tm.timeout_tick[u]
<1> DEFINE list == rt_list_remove(tm.list["hard"], t)
           r == rt_timer_remove(tm, t)
<1>1. /\ tm \in TimerState /\ t \in Timer /\ t \notin SoftTimer /\ "hard" \in Lists
      /\ tm.list \in [Lists -> Seq(Timer)] /\ tm.timeout_tick \in [Timer -> Tick]
  BY KernelAssumption DEF TimersKept, TimerState, Lists
<1>2. r = [tm EXCEPT !.list["hard"] = list, !.temp["hard"] = @ \ {t}, !.timeout_tick[t] = 0]
  BY <1>1 DEF rt_timer_remove, ListOf
<1>3. tm.list["hard"] \in Seq(Timer)
  BY <1>1
<1>4. Within(tm.list["hard"], list)
  BY <1>3, WithinRemoved
<1> HIDE DEF list, r
<1>5. r.list = [tm.list EXCEPT !["hard"] = list] /\ r.timeout_tick = [tm.timeout_tick EXCEPT ![t] = 0]
  BY <1>1, <1>2 DEF TimerState
<1>6. r.list["hard"] = list
  BY <1>1, <1>5
<1>7. \A u \in Timer \ {t} : r.timeout_tick[u] = tm.timeout_tick[u]
  BY <1>1, <1>5
<1> QED
  BY <1>4, <1>5, <1>6, <1>7 DEF r, list

LEMMA DetachInTime ==
  ASSUME NEW tm, TimersKept(tm), NEW t \in All, NEW now
  PROVE  KeptTime(tm, rt_timer_detach(tm, t), now)
<1> DEFINE u == rt_timer_remove(tm, t)
           r == rt_timer_detach(tm, t)
<1>1. /\ u \in TimerState /\ Within(tm.list["hard"], u.list["hard"])
      /\ \A x \in Timer \ {t} : u.timeout_tick[x] = tm.timeout_tick[x]
  BY TimerUnlinked, RemovedTimer
<1>2. r = [u EXCEPT !.active = @ \ {t}]
  BY DEF rt_timer_detach
<1>3. TimersKept(r) /\ r.active = tm.active \ {t}
  BY TimerDetach DEF TimerOff
<1> HIDE DEF u, r
<1>4. r.list = u.list /\ r.timeout_tick = u.timeout_tick
  BY <1>1, <1>2 DEF TimerState
<1>5. r.active \subseteq Timer \ {t}
  BY <1>3 DEF TimersKept, TimerState
<1>6. KeptTime(tm, r, now)
  BY <1>1, <1>3, <1>4, <1>5, FewerInTime
<1> QED
  BY <1>6 DEF r

LEMMA StopInTime ==
  ASSUME NEW tm, TimersKept(tm), NEW t \in All, NEW now
  PROVE  KeptTime(tm, rt_timer_stop(tm, t), now)
<1>1. CASE t \in tm.active
  BY <1>1, DetachInTime DEF rt_timer_stop
<1>2. CASE t \notin tm.active
  BY <1>2 DEF rt_timer_stop, KeptTime
<1> QED
  BY <1>1, <1>2

LEMMA TakenInTime ==
  ASSUME NEW tm, TimersKept(tm), tm.list["hard"] # <<>>, NEW now
  PROVE  KeptTime(tm, TakeExpired(tm, "hard"), now)
<1> DEFINE list == tm.list["hard"]
           t == Head(list)
           r == TakeExpired(tm, "hard")
<1>1. /\ tm \in TimerState /\ "hard" \in Lists
      /\ tm.list \in [Lists -> Seq(Timer)] /\ tm.timeout_tick \in [Timer -> Tick]
  BY DEF TimersKept, TimerState, Lists
<1>2. TimersKept(r) /\ r.active = tm.active \ {t}
  BY TimerTaken DEF TimerOff
<1>3. list \in Seq(Timer) /\ list # <<>>
  BY <1>1
<1>4. Within(list, Tail(list))
  BY <1>3, WithinTail
<1>5. r = [tm EXCEPT !.list["hard"] = Tail(list), !.temp["hard"] = {t}, !.timeout_tick[t] = 0,
                     !.active = IF t \in tm.periodic THEN @ ELSE @ \ {t}]
  BY <1>1 DEF TakeExpired
<1> HIDE DEF r, t, list
<1>6. r.list = [tm.list EXCEPT !["hard"] = Tail(list)] /\ r.timeout_tick = [tm.timeout_tick EXCEPT ![t] = 0]
  BY <1>1, <1>5 DEF TimerState
<1>7. r.list["hard"] = Tail(list)
  BY <1>1, <1>6
<1>8. \A u \in r.active : r.timeout_tick[u] = tm.timeout_tick[u]
  <2>1. r.active \subseteq Timer
    BY <1>2 DEF TimersKept, TimerState
  <2> QED
    BY <1>1, <1>2, <1>6, <2>1
<1>9. KeptTime(tm, r, now)
  <2>1. Within(tm.list["hard"], r.list["hard"])
    BY <1>4, <1>7 DEF list
  <2> QED
    BY <1>2, <1>8, <2>1, FewerInTime
<1> QED
  BY <1>9 DEF r

LEMMA InitInTime ==
  ASSUME NEW tm, TimersKept(tm), NEW t \in All, t \notin tm.active, NEW now
  PROVE  KeptTime(tm, rt_timer_init(tm, t, 0, FALSE), now)
<1> DEFINE r == rt_timer_init(tm, t, 0, FALSE)
<1>1. /\ tm \in TimerState /\ t \in Timer /\ tm.timeout_tick \in [Timer -> Tick]
      /\ tm.active \subseteq Timer
  BY KernelAssumption DEF TimersKept, TimerState, All
<1>2. r = [tm EXCEPT !.active = @ \ {t}, !.init_tick[t] = 0, !.timeout_tick[t] = 0,
                     !.periodic = @ \ {t}]
  BY DEF rt_timer_init
<1>3. r.list = tm.list /\ r.active = tm.active
  BY TimerInit
<1> HIDE DEF r
<1>4. r.timeout_tick = [tm.timeout_tick EXCEPT ![t] = 0]
  BY <1>1, <1>2 DEF TimerState
<1>5. \A u \in tm.active : r.timeout_tick[u] = tm.timeout_tick[u]
  BY <1>1, <1>4
<1> QED
  BY <1>3, <1>5, SameInTime DEF r

(* A list in the order of key, and one element more at its place. *)
Ordered(q, key) == \A i, j \in DOMAIN q : i < j => key[q[i]] <= key[q[j]]

LEMMA InsertOrdered ==
  ASSUME NEW S, NEW key \in [S -> Nat], NEW q \in Seq(S), NEW x \in S, NEW n \in 1..(Len(q) + 1),
         NEW r, IsInserted(S, q, r, n, x), Ordered(q, key),
         \A i \in 1..(n - 1) : key[q[i]] <= key[x],
         n \in DOMAIN q => key[x] <= key[q[n]]
  PROVE  Ordered(r, key)
<1>1. Len(q) \in Nat /\ DOMAIN q = 1..Len(q) /\ n \in Nat /\ n > 0 /\ n <= Len(q) + 1
  OBVIOUS
<1>2. \A i \in DOMAIN q : q[i] \in S /\ key[q[i]] \in Nat
  OBVIOUS
<1>3. \A i \in n..Len(q) : key[x] <= key[q[i]]
  <2> TAKE i \in n..Len(q)
  <2>1. n \in DOMAIN q /\ i \in DOMAIN q /\ (i = n \/ n < i)
    BY <1>1
  <2>2. key[q[n]] <= key[q[i]]
    BY <1>2, <2>1 DEF Ordered
  <2> QED
    BY <1>2, <2>1, <2>2
<1>4. /\ DOMAIN r = 1..(Len(q) + 1)
      /\ \A i \in 1..(n - 1) : r[i] = q[i]
      /\ r[n] = x
      /\ \A i \in (n + 1)..(Len(q) + 1) : r[i] = q[i - 1]
  BY DEF IsInserted
<1> SUFFICES ASSUME NEW i \in 1..(Len(q) + 1), NEW j \in 1..(Len(q) + 1), i < j
             PROVE  key[r[i]] <= key[r[j]]
  BY <1>4 DEF Ordered
<1>5. CASE j < n
  <2>1. r[i] = q[i] /\ r[j] = q[j] /\ i \in DOMAIN q /\ j \in DOMAIN q
    BY <1>1, <1>4, <1>5
  <2> QED
    BY <2>1 DEF Ordered
<1>6. CASE j = n
  <2>1. r[i] = q[i] /\ r[j] = x /\ i \in 1..(n - 1)
    BY <1>1, <1>4, <1>6
  <2> QED
    BY <2>1
<1>7. CASE j > n
  <2>1. r[j] = q[j - 1] /\ j - 1 \in DOMAIN q /\ j - 1 \in n..Len(q)
    BY <1>1, <1>4, <1>7
  <2>2. CASE i < n
    <3>1. r[i] = q[i] /\ i \in DOMAIN q /\ i < j - 1
      BY <1>1, <1>4, <1>7, <2>2
    <3> QED
      BY <2>1, <3>1 DEF Ordered
  <2>3. CASE i = n
    BY <1>3, <1>4, <2>1, <2>3
  <2>4. CASE i > n
    <3>1. r[i] = q[i - 1] /\ i - 1 \in DOMAIN q /\ i - 1 < j - 1
      BY <1>1, <1>4, <2>4
    <3> QED
      BY <2>1, <3>1 DEF Ordered
  <2> QED
    BY <1>1, <2>2, <2>3, <2>4
<1> QED
  BY <1>1, <1>5, <1>6, <1>7

(* The first place in D: none before it is in D. *)
IsFirst(n, D, i) ==
  /\ i \in 1..(n + 1)
  /\ \A j \in 1..(i - 1) : j \in 1..n /\ j \notin D
  /\ i \in 1..n => i \in D

LEMMA FirstPlace ==
  ASSUME NEW n \in Nat, NEW D \in SUBSET (1..n)
  PROVE  IsFirst(n, D, IF D = {} THEN n + 1 ELSE CHOOSE m \in D : \A j \in D : m <= j)
<1>1. CASE D = {}
  BY <1>1 DEF IsFirst
<1>2. CASE D # {}
  <2>1. D \in SUBSET Nat
    OBVIOUS
  <2>2. \E m \in D : \A j \in D : m <= j
    BY <1>2, <2>1, LeastNatural
  <2> DEFINE c == CHOOSE m \in D : \A j \in D : m <= j
  <2>3. c \in D /\ \A j \in D : c <= j
    BY <2>2
  <2> HIDE DEF c
  <2>4. c \in 1..n
    BY <2>3
  <2>5. ASSUME NEW j \in 1..(c - 1) PROVE j \in 1..n /\ j \notin D
    <3>1. j < c /\ j \in 1..n
      BY <2>4
    <3>2. ASSUME j \in D PROVE FALSE
      <4>1. c <= j
        BY <2>3, <3>2
      <4> QED
        BY <2>4, <3>1, <4>1
    <3> QED
      BY <3>1, <3>2
  <2>6. c \in 1..(n + 1)
    BY <2>4
  <2>7. IsFirst(n, D, c)
    BY <2>3, <2>5, <2>6 DEF IsFirst
  <2> QED
    BY <1>2, <2>7 DEF c
<1> QED
  BY <1>1, <1>2

LEMMA StartInTime ==
  ASSUME NEW tm, TimersKept(tm), NEW t \in Thread, NEW now \in Tick,
         tm.init_tick[t] \in 1..(Half - 1)
  PROVE  KeptTime(tm, rt_timer_start(tm, now, t), now)
<1> DEFINE v == rt_timer_remove(tm, t)
           due == (now + tm.init_tick[t]) % (RT_TICK_MAX + 1)
           u == [v EXCEPT !.timeout_tick[t] = due]
           list == u.list["hard"]
           later == {i \in DOMAIN list : TimerBefore(u, t, list[i])}
           i == IF later = {} THEN Len(list) + 1
                ELSE CHOOSE m \in later : \A j \in later : m <= j
           w == InsertByTimeout(u, t)
           r == rt_timer_start(tm, now, t)
           time == tm.init_tick[t]
<1> SUFFICES ASSUME NEW lo \in {0, 1}, InTime(tm, now, lo) PROVE InTime(r, now, lo)
  BY DEF KeptTime
<1>0. t \in All
  BY DEF All
<1>1. /\ v \in TimerState /\ ToSet(v.list["hard"]) = tm.active \ {t} /\ Once(v.list["hard"])
      /\ v.active = tm.active /\ Within(tm.list["hard"], v.list["hard"])
      /\ \A x \in Timer \ {t} : v.timeout_tick[x] = tm.timeout_tick[x]
  BY <1>0, TimerUnlinked, RemovedTimer
<1>2. t \in Timer /\ t \notin SoftTimer /\ "hard" \in Lists
  BY KernelAssumption DEF All, Lists
<1>3. due \in Tick /\ time \in Tick /\ Half \in Nat /\ Half > 0 /\ time < Half /\ time > 0 /\ time \in Nat
  <2>1. Half \in Nat /\ Half > 0 /\ Half + Half <= RT_TICK_MAX
    BY HalfTick
  <2> HIDE DEF time
  <2>2. time \in 1..(Half - 1)
    BY DEF time
  <2>3. time \in Tick /\ time < Half /\ time > 0 /\ time \in Nat
    BY <2>1, <2>2, TickAssumption DEF Tick
  <2>4. now + time \in Nat
    BY <2>3, TickAssumption DEF Tick
  <2>5. (now + time) % (RT_TICK_MAX + 1) \in Tick
    BY <2>4, ModTick
  <2> QED
    BY <2>1, <2>3, <2>5 DEF time
<1>30. Minus(due, now) = time
  BY <1>3, LeftStarted
<1>4. r = [w EXCEPT !.active = @ \cup {t}]
  BY DEF rt_timer_start
<1>5. w = [u EXCEPT !.list["hard"] = InsertAt(list, i, t)]
  BY <1>2 DEF InsertByTimeout, ListOf
<1>50. r.active = tm.active \cup {t} /\ TimersKept(r)
  BY TimerStart DEF TimerOn
<1> HIDE DEF v, due, w, r, time
<1>6. /\ u \in TimerState /\ u.list = v.list /\ u.active = v.active
      /\ u.timeout_tick = [v.timeout_tick EXCEPT ![t] = due]
  <2>1. [v.timeout_tick EXCEPT ![t] = due] \in [Timer -> Tick]
    BY <1>1, <1>2, <1>3 DEF TimerState
  <2> QED
    BY <1>1, <2>1 DEF TimerState
<1> HIDE DEF u
<1>60. v.timeout_tick \in [Timer -> Tick] /\ u.timeout_tick \in [Timer -> Tick]
       /\ tm.timeout_tick \in [Timer -> Tick] /\ tm.active \subseteq Timer
  BY <1>1, <1>6 DEF TimersKept, TimerState
<1>61. u.timeout_tick[t] = due /\ \A x \in Timer \ {t} : u.timeout_tick[x] = tm.timeout_tick[x]
  BY <1>1, <1>2, <1>6, <1>60
<1>7. list \in Seq(Timer) /\ ToSet(list) = tm.active \ {t} /\ u.list \in [Lists -> Seq(Timer)]
      /\ Len(list) \in Nat /\ DOMAIN list = 1..Len(list)
  BY <1>1, <1>2, <1>6 DEF TimerState
<1>70. \A j \in DOMAIN list : list[j] \in tm.active \ {t}
  BY <1>7 DEF ToSet
<1>8. /\ i \in 1..(Len(list) + 1)
      /\ \A j \in 1..(i - 1) : j \in DOMAIN list /\ j \notin later
      /\ i \in DOMAIN list => i \in later
  <2>2. later \in SUBSET (1..Len(list))
    BY <1>7
  <2> HIDE DEF later, list
  <2>3. IsFirst(Len(list), later, i)
    BY <1>7, <2>2, FirstPlace
  <2> HIDE DEF i
  <2> QED
    BY <1>7, <2>3 DEF IsFirst
<1>80. \A j \in DOMAIN list : j \in later <=> TimerBefore(u, t, list[j])
  OBVIOUS
<1> HIDE DEF i, later, list
<1> DEFINE longer == InsertAt(list, i, t)
<1>9. IsInserted(Timer, list, longer, i, t)
  BY <1>2, <1>7, <1>8, InsertedAt
<1> HIDE DEF longer
<1>10. w.list["hard"] = longer /\ w \in TimerState /\ w.timeout_tick = u.timeout_tick
  <2>1. longer \in Seq(Timer)
    BY <1>9 DEF IsInserted
  <2>2. /\ [u.list EXCEPT !["hard"] = longer] \in [Lists -> Seq(Timer)]
        /\ [u.list EXCEPT !["hard"] = longer]["hard"] = longer
    BY <1>2, <1>7, <2>1
  <2> QED
    BY <1>5, <1>6, <2>2 DEF TimerState, longer
<1>11. r.list["hard"] = longer /\ r.timeout_tick = u.timeout_tick
  BY <1>4, <1>10 DEF TimerState
<1> DEFINE key == [x \in Timer |-> Left(r, now, x)]
<1>12. key \in [Timer -> Nat]
  <2>1. \A x \in Timer : r.timeout_tick[x] \in Nat /\ Minus(r.timeout_tick[x], now) \in Tick
    <3> TAKE x \in Timer
    <3>1. r.timeout_tick[x] \in Tick
      BY <1>11, <1>60
    <3>2. r.timeout_tick[x] \in Nat
      BY <3>1, TickAssumption DEF Tick
    <3> QED
      BY <3>2, MinusTick
  <2> QED
    BY <2>1, TickAssumption DEF Left, Tick
<1>13. key[t] = time
  BY <1>2, <1>11, <1>30, <1>61 DEF Left
<1>14. \A x \in tm.active \ {t} : key[x] = Left(tm, now, x) /\ key[x] \in lo..(Half - 1)
  BY <1>11, <1>60, <1>61 DEF Left, InTime
<1>15. Left(r, now, t) = time /\ \A x \in Timer : key[x] = Left(r, now, x)
  BY <1>2, <1>13
<1> HIDE DEF key
<1>16. Ordered(list, key)
  <2>1. PICK f \in [DOMAIN list -> DOMAIN tm.list["hard"]] :
          /\ \A a \in DOMAIN list : list[a] = tm.list["hard"][f[a]]
          /\ \A a, b \in DOMAIN list : a < b => f[a] < f[b]
    BY <1>1, <1>6 DEF Within, list
  <2> SUFFICES ASSUME NEW a \in DOMAIN list, NEW b \in DOMAIN list, a < b
               PROVE  key[list[a]] <= key[list[b]]
    BY DEF Ordered
  <2>2. Left(tm, now, list[a]) <= Left(tm, now, list[b])
    BY <2>1 DEF InTime
  <2> QED
    BY <1>14, <1>70, <2>2
<1>17. \A j \in DOMAIN list : TimerBefore(u, t, list[j]) <=> time < key[list[j]]
  <2> TAKE j \in DOMAIN list
  <2> DEFINE a == u.timeout_tick[list[j]]
  <2>1. list[j] \in tm.active \ {t} /\ list[j] \in Timer /\ a \in Tick
    BY <1>60, <1>70
  <2>2. Minus(a, now) = key[list[j]] /\ Minus(a, now) < Half /\ Minus(due, now) < Half
    <3>1. Minus(a, now) = key[list[j]]
      BY <1>11, <1>15, <2>1 DEF Left
    <3>2. key[list[j]] \in lo..(Half - 1)
      BY <1>14, <2>1
    <3>3. key[list[j]] < Half
      BY <1>3, <3>2
    <3> QED
      BY <1>3, <1>30, <3>1, <3>3
  <2>3. TimerBefore(u, t, list[j]) <=> Minus(a, due) # 0 /\ Minus(a, due) < Half
    BY <1>61 DEF TimerBefore, Half
  <2> HIDE DEF a
  <2> QED
    BY <1>3, <1>30, <2>1, <2>2, <2>3, LeftOrder
<1>18. Ordered(longer, key)
  <2>1. \A j \in 1..(i - 1) : key[list[j]] <= key[t]
    <3> TAKE j \in 1..(i - 1)
    <3>1. j \in DOMAIN list /\ ~(time < key[list[j]])
      BY <1>8, <1>17, <1>80
    <3>2. key[list[j]] \in Nat
      BY <1>12, <1>60, <1>70, <3>1
    <3> QED
      BY <1>3, <1>13, <3>1, <3>2
  <2>2. i \in DOMAIN list => key[t] <= key[list[i]]
    <3>1. ASSUME i \in DOMAIN list PROVE key[t] <= key[list[i]]
      <4>1. time < key[list[i]] /\ key[list[i]] \in Nat
        BY <1>8, <1>12, <1>17, <1>60, <1>70, <1>80, <3>1
      <4> QED
        BY <1>3, <1>13, <4>1
    <3> QED
      BY <3>1
  <2> QED
    BY <1>2, <1>7, <1>8, <1>9, <1>12, <1>16, <2>1, <2>2, InsertOrdered
<1>19. \A x \in r.active : Left(r, now, x) \in lo..(Half - 1)
  <2>1. time \in lo..(Half - 1)
    BY <1>3
  <2>2. ASSUME NEW x \in tm.active \ {t} PROVE Left(r, now, x) \in lo..(Half - 1)
    BY <1>14, <1>15, <1>60
  <2> QED
    BY <1>15, <1>50, <2>1, <2>2
<1>20. \A a, b \in DOMAIN longer : a < b => Left(r, now, longer[a]) <= Left(r, now, longer[b])
  <2>1. \A a \in DOMAIN longer : longer[a] \in Timer
    BY <1>9 DEF IsInserted
  <2> QED
    BY <1>15, <1>18, <2>1 DEF Ordered
<1>21. InTime(r, now, lo)
  BY <1>11, <1>19, <1>20 DEF InTime
<1> QED
  BY <1>21

(* A thread's timer that is set and started. *)
LEMMA SetStartInTime ==
  ASSUME NEW tm, TimersKept(tm), NEW t \in Thread, NEW now \in Tick, NEW time \in 1..(Half - 1)
  PROVE  KeptTime(tm, SetTime(rt_timer_start(SetTime(tm, t, time), now, t), t, 0), now)
<1> DEFINE a == SetTime(tm, t, time)
           b == rt_timer_start(a, now, t)
           r == SetTime(b, t, 0)
<1>1. t \in All /\ t \in Timer /\ time \in Tick /\ 0 \in Tick
  BY KernelAssumption, TickAssumption, HalfTick DEF All, Tick
<1>2. /\ TimersKept(a) /\ a.list = tm.list /\ a.active = tm.active
      /\ a.timeout_tick = tm.timeout_tick /\ a.init_tick = [tm.init_tick EXCEPT ![t] = time]
  BY <1>1, TimerSetTime
<1>3. a.init_tick[t] = time
  <2>1. tm.init_tick \in [Timer -> Tick]
    BY DEF TimersKept, TimerState
  <2> QED
    BY <1>1, <1>2, <2>1
<1> HIDE DEF a
<1>4. KeptTime(tm, a, now)
  BY <1>2, SameInTime
<1>5. KeptTime(a, b, now) /\ TimersKept(b)
  <2>1. KeptTime(a, b, now)
    BY <1>2, <1>3, StartInTime
  <2>2. TimerOn(a, b, t)
    BY <1>1, <1>2, TimerStart
  <2> QED
    BY <2>1, <2>2 DEF TimerOn
<1> HIDE DEF b
<1>6. r.list = b.list /\ r.active = b.active /\ r.timeout_tick = b.timeout_tick
  <2>1. TimersKept(b) /\ t \in All
    BY <1>1, <1>5
  <2> QED
    BY <2>1, TimerCleared
<1> HIDE DEF r
<1>7. KeptTime(b, r, now)
  BY <1>5, <1>6, SameInTime
<1>8. KeptTime(tm, r, now)
  BY <1>4, <1>5, <1>7, KeptTimeTrans
<1> QED
  BY <1>8 DEF r, b, a

(* A tick passes. *)
LEMMA TickInTime ==
  ASSUME NEW tm, TimersKept(tm), NEW now \in Tick, InTime(tm, now, 1)
  PROVE  InTime(tm, (now + 1) % (RT_TICK_MAX + 1), 0)
<1> DEFINE next == (now + 1) % (RT_TICK_MAX + 1)
           list == tm.list["hard"]
<1>1. Half \in Nat
  BY HalfTick
<1>2. \A t \in tm.active : /\ Left(tm, now, t) \in 1..(Half - 1)
                           /\ Left(tm, next, t) = Left(tm, now, t) - 1
  <2> TAKE t \in tm.active
  <2>1. tm.timeout_tick[t] \in Tick
    BY DEF TimersKept, TimerState
  <2>2. Left(tm, now, t) \in 1..(Half - 1)
    BY DEF InTime
  <2>3. Left(tm, now, t) > 0
    BY <1>1, <2>2
  <2>4. Left(tm, next, t) = Left(tm, now, t) - 1
    BY <2>1, <2>3, LeftTicked DEF Left
  <2> QED
    BY <2>2, <2>4
<1> HIDE DEF next
<1>3. \A i \in DOMAIN list : list[i] \in tm.active
  BY DEF TimersKept, ToSet
<1>4. \A t \in tm.active : Left(tm, next, t) \in 0..(Half - 1)
  BY <1>1, <1>2
<1>5. ASSUME NEW i \in DOMAIN list, NEW j \in DOMAIN list, i < j
      PROVE  Left(tm, next, list[i]) <= Left(tm, next, list[j])
  <2>1. Left(tm, now, list[i]) <= Left(tm, now, list[j])
    BY <1>5 DEF InTime
  <2>2. list[i] \in tm.active /\ list[j] \in tm.active
    BY <1>3
  <2> QED
    BY <1>1, <1>2, <2>1, <2>2
<1> QED
  BY <1>4, <1>5 DEF InTime, next

(* When the first timer has not expired, none has. *)
LEMMA NoneExpired ==
  ASSUME NEW tm, TimersKept(tm), NEW now \in Tick, InTime(tm, now, 0),
         ~Expires(tm, "hard", now)
  PROVE  InTime(tm, now, 1)
<1> DEFINE list == tm.list["hard"]
<1>1. Half \in Nat /\ Half > 0
  BY HalfTick
<1>2. list \in Seq(Timer) /\ ToSet(list) = tm.active
  BY DEF TimersKept, TimerState, Lists
<1> SUFFICES ASSUME NEW t \in tm.active PROVE Left(tm, now, t) \in 1..(Half - 1)
  BY DEF InTime
<1>3. PICK i \in DOMAIN list : list[i] = t
  BY <1>2 DEF ToSet
<1>4. DOMAIN list = 1..Len(list) /\ Len(list) \in Nat /\ 1 \in DOMAIN list /\ list # <<>>
       /\ Head(list) = list[1] /\ (i = 1 \/ 1 < i)
  <2>1. DOMAIN list = 1..Len(list) /\ Len(list) \in Nat
    BY <1>2
  <2>2. i \in 1..Len(list)
    BY <2>1
  <2>3. 1 \in 1..Len(list) /\ (i = 1 \/ 1 < i) /\ Len(list) > 0
    BY <2>1, <2>2
  <2>4. list # <<>> /\ Head(list) = list[1]
    BY <1>2, <2>3
  <2> QED
    BY <2>1, <2>3, <2>4
<1>5. list[1] \in tm.active /\ tm.timeout_tick[list[1]] \in Tick
  <2>1. list[1] \in tm.active
    BY <1>2, <1>4 DEF ToSet
  <2> QED
    BY <2>1 DEF TimersKept, TimerState
<1>6. /\ Left(tm, now, list[1]) \in 0..(Half - 1) /\ Left(tm, now, t) \in 0..(Half - 1)
      /\ Left(tm, now, list[1]) <= Left(tm, now, t)
  <2>1. Left(tm, now, list[1]) \in 0..(Half - 1) /\ Left(tm, now, t) \in 0..(Half - 1)
    BY <1>5 DEF InTime
  <2>2. 1 < i => Left(tm, now, list[1]) <= Left(tm, now, list[i])
    BY <1>4 DEF InTime
  <2> QED
    BY <1>1, <1>3, <1>4, <2>1, <2>2
<1>7. ~Reached(now, tm.timeout_tick[list[1]])
  BY <1>4 DEF Expires
<1>8. Left(tm, now, list[1]) # 0
  <2>1. SUFFICES ASSUME Left(tm, now, list[1]) = 0 PROVE FALSE
    OBVIOUS
  <2> DEFINE a == tm.timeout_tick[list[1]]
  <2>2. Minus(a, now) = 0
    BY <2>1 DEF Left
  <2> HIDE DEF a
  <2>3. a \in Tick
    BY <1>5 DEF a
  <2>4. /\ Minus(a, now) = IF a >= now THEN a - now ELSE a - now + RT_TICK_MAX + 1
        /\ Minus(now, a) = IF now >= a THEN now - a ELSE now - a + RT_TICK_MAX + 1
    BY <2>3, MinusIs
  <2>5. Minus(now, a) = 0
    BY <2>2, <2>3, <2>4, TickAssumption DEF Tick
  <2> QED
    BY <1>1, <1>7, <2>5 DEF Reached, Half, a
<1> QED
  BY <1>1, <1>6, <1>8

(* What ThreadTimers says of the order of the list. *)
LEMMA TimersOrdered ==
  ASSUME NEW tm, TimersKept(tm), NEW now \in Tick, InTime(tm, now, 0)
  PROVE  LET list == tm.list["hard"]
         IN  \A i, j \in DOMAIN list :
               i < j => Reached(tm.timeout_tick[list[j]], tm.timeout_tick[list[i]])
<1> DEFINE list == tm.list["hard"]
<1> SUFFICES ASSUME NEW i \in DOMAIN list, NEW j \in DOMAIN list, i < j
             PROVE  Reached(tm.timeout_tick[list[j]], tm.timeout_tick[list[i]])
  OBVIOUS
<1>1. list[i] \in tm.active /\ list[j] \in tm.active
  BY DEF TimersKept, ToSet
<1>2. tm.timeout_tick[list[i]] \in Tick /\ tm.timeout_tick[list[j]] \in Tick
  BY <1>1 DEF TimersKept, TimerState
<1>3. Left(tm, now, list[i]) \in 0..(Half - 1) /\ Left(tm, now, list[j]) \in 0..(Half - 1)
      /\ Left(tm, now, list[i]) <= Left(tm, now, list[j])
  BY <1>1 DEF InTime
<1>4. Half \in Nat
  BY HalfTick
<1>5. Left(tm, now, list[i]) < Half /\ Left(tm, now, list[j]) < Half
  BY <1>3, <1>4
<1> QED
  BY <1>2, <1>3, <1>5, LeftOrder DEF Left

(* More time is left than the least that is asked. *)
LEMMA LooserInTime ==
  ASSUME NEW tm, NEW now, InTime(tm, now, 1)
  PROVE  InTime(tm, now, 0)
<1>1. \A x \in 1..(Half - 1) : x \in 0..(Half - 1)
  BY HalfTick
<1> QED
  BY <1>1 DEF InTime

-----------------------------------------------------------------------------
(* A thread's time is over: it leaves the list it waits in, with           *)
(* RT_ETIMEOUT.                                                            *)
Expired(s, r, t) ==
  /\ Full(r) /\ Only(s, r, t) /\ SameClock(s, r)
  /\ t \in s.tm.active /\ s.thread[t].stat = "SUSPEND"
  /\ r.thread[t].stat = "READY" /\ r.thread[t].error = "ETIMEOUT"
  /\ ~Waits(r, t) /\ t \notin r.tm.active
  /\ r.tm = TakeExpired(s.tm, "hard") /\ t = Head(s.tm.list["hard"])
  /\ Expires(s.tm, "hard", s.tick)

LEMMA CheckTimersIs ==
  ASSUME NEW s, Full(s), s.current = Idle, NEW r \in ThreadTimeout(CheckTimers(s))
  PROVE  \/ r = s /\ CheckTimers(s).idle = Looping /\ ~Expires(s.tm, "hard", s.tick)
         \/ \E t \in Thread :
              Expired(s, r, t) /\ CheckTimers(s).idle = [at |-> "callback", timer |-> t]
<1>1. CASE ~Expires(s.tm, "hard", s.tick)
  <2>1. CheckTimers(s) = [k |-> s, idle |-> Looping]
    BY <1>1 DEF CheckTimers
  <2>2. CheckTimers(s).idle = Looping /\ CheckTimers(s).k = s /\ Looping.at # "callback"
    BY <2>1 DEF Looping
  <2> HIDE DEF CheckTimers
  <2> QED
    BY <1>1, <2>2 DEF ThreadTimeout
<1>2. CASE Expires(s.tm, "hard", s.tick)
  <2> DEFINE t == Head(s.tm.list["hard"])
             tm == TakeExpired(s.tm, "hard")
             q == [s EXCEPT !.tm = tm]
             u == TimedOut(q, t)
  <2>1. Sound(s) /\ Tables(s) /\ TimersKept(s.tm) /\ s.tm.list["hard"] # <<>>
    BY <1>2 DEF Full, Live, Sound, Tables, Expires
  <2>2. /\ CheckTimers(s).k = q /\ CheckTimers(s).idle.at = "callback"
        /\ CheckTimers(s).idle.timer = t
        /\ CheckTimers(s).idle = [at |-> "callback", timer |-> t]
    BY <1>2 DEF CheckTimers
  <2>3. r = rt_schedule(u)
    <3> HIDE DEF CheckTimers, q, t
    <3> QED
      BY <2>2 DEF ThreadTimeout, rt_thread_timeout, TimedOut
  <2>4. t \in s.tm.active /\ TimerOff(s.tm, tm, t)
    BY <2>1, TimerTaken
  <2> HIDE DEF t, tm
  <2>5. t \in Thread /\ t \in All /\ s.thread[t].stat = "SUSPEND"
    <3>1. t \in Thread /\ t \in All
      BY <2>1, <2>4 DEF TimersKept, All
    <3> QED
      BY <2>1, <2>4, <3>1 DEF Sound, Coherent
  <2>6. /\ Tables(q) /\ Only(s, q, t) /\ SameRegs(s, q)
        /\ q.thread = s.thread /\ q.ready = s.ready /\ q.wait = s.wait
        /\ q.defunct = s.defunct /\ q.tm = tm
    BY <2>1, <2>4, <2>5, SetTm DEF TimerOff
  <2> HIDE DEF q
  <2>7. t \notin q.tm.active
    BY <2>4, <2>6 DEF TimerOff
  <2>8. Sound(q)
    <3>1. Coherent(q, t)
      BY <2>1, <2>5, <2>6, <2>7 DEF Coherent, Sound, IsReadyAt, WaitsAt, IsDefunct
    <3> QED
      BY <2>1, <2>6, <3>1, SoundAfter
  <2>9. /\ Sound(u) /\ Only(q, u, t) /\ SameRegs(q, u)
        /\ u.thread[t].stat = "READY" /\ u.thread[t].error = "ETIMEOUT"
        /\ u.tm = q.tm /\ ~Waits(u, t)
    BY <2>5, <2>6, <2>7, <2>8, ThreadExpires
  <2> HIDE DEF u
  <2>11. Sound(u) /\ Only(s, u, t) /\ SameRegs(s, u)
    BY <2>6, <2>9, OnlyTrans, RegsTrans
  <2>12. u.thread[s.current].stat = "READY"
    BY <2>5, <2>11, KernelAssumption DEF Only, Same, Full, Live, All
  <2>13. /\ Full(r) /\ Only(s, r, t) /\ SameClock(s, r)
         /\ r.thread = u.thread /\ r.wait = u.wait /\ r.tm = u.tm
    BY <2>3, <2>5, <2>11, <2>12, ThenSchedule
  <2>14. ~Waits(r, t)
    BY <2>9, <2>13 DEF Waits, WaitsAt
  <2>15. Expired(s, r, t)
    BY <1>2, <2>4, <2>5, <2>6, <2>7, <2>9, <2>13, <2>14 DEF Expired, tm, t
  <2> QED
    BY <2>2, <2>5, <2>15
<1> QED
  BY <1>1, <1>2

(* A step of the idle thread: up to rt_timer_check, and one timer of it. *)
Unmoved(s, q) ==
  /\ Full(q) /\ (\A t \in All : Same(s, q, t))
  /\ q.lock_nest = s.lock_nest /\ q.registered = s.registered
  /\ q.tm.list = s.tm.list /\ q.tm.timeout_tick = s.tm.timeout_tick
  /\ q.tm.active = s.tm.active

IdleStep(s, r, i, now) ==
  \E q :
    /\ Unmoved(s, q) /\ q.tick = now
    /\ \/ r = q /\ i = [at |-> "yield"]
       \/ r = q /\ i = Looping /\ ~Expires(q.tm, "hard", q.tick)
       \/ \E t \in Thread : Expired(q, r, t) /\ i = [at |-> "callback", timer |-> t]

Clocked(s, tick, left) == [s EXCEPT !.tick = tick, !.remaining_tick = left]

LEMMA SetClock ==
  ASSUME NEW s, Full(s), NEW tick \in Tick, NEW left \in 1..IdleSlice
  PROVE  LET q == Clocked(s, tick, left)
         IN  Unmoved(s, q) /\ q.tick = tick /\ q.current = s.current /\ q.tm = s.tm
<1> DEFINE q == Clocked(s, tick, left)
<1>1. Tables(s) /\ s \in KernelState /\ Sound(s)
  BY DEF Full, Live, Sound, Tables
<1>2. /\ q \in KernelState /\ q.tick = tick /\ q.current = s.current /\ q.tm = s.tm
      /\ q.thread = s.thread /\ q.ready = s.ready /\ q.wait = s.wait
      /\ q.defunct = s.defunct /\ q.group = s.group /\ q.lock_nest = s.lock_nest
      /\ q.registered = s.registered
  BY <1>1 DEF KernelState, Clocked
<1> HIDE DEF q
<1>3. Tables(q)
  BY <1>1, <1>2 DEF Tables
<1>4. ASSUME NEW t \in All PROVE Same(s, q, t)
  BY <1>2 DEF Same, IsReadyAt, WaitsAt, IsDefunct
<1>5. Full(q)
  <2>1. Sound(q)
    BY <1>1, <1>3, <1>4, SameCoherent DEF Sound
  <2> QED
    BY <1>2, <2>1 DEF Full, Live
<1>6. Unmoved(s, q)
  BY <1>2, <1>4, <1>5 DEF Unmoved
<1> QED
  BY <1>2, <1>6 DEF q

LEMMA TickIncrease ==
  ASSUME NEW s, Full(s), s.current = Idle, NEW r \in ThreadTimeout(rt_tick_increase(s))
  PROVE  IdleStep(s, r, rt_tick_increase(s).idle, (s.tick + 1) % (RT_TICK_MAX + 1))
<1> DEFINE tick == (s.tick + 1) % (RT_TICK_MAX + 1)
           left == IF s.remaining_tick = 1 THEN IdleSlice ELSE s.remaining_tick - 1
           x == Clocked(s, tick, left)
           y == IF s.remaining_tick = 1 THEN rt_thread_yield(x) ELSE x
           z == rt_tick_increase(s)
<1>1. tick \in Tick /\ left \in 1..IdleSlice
  <2>1. s.tick \in Tick /\ s.remaining_tick \in 1..IdleSlice
    BY TablesTypes DEF Full, Live, Sound
  <2>2. tick \in Tick
    <3>1. s.tick + 1 \in Nat
      BY <2>1, TickAssumption DEF Tick
    <3> QED
      BY <3>1, ModTick
  <2>3. left \in 1..IdleSlice
    BY <2>1, KernelAssumption
  <2> QED
    BY <2>2, <2>3
<1>2. z = IF y.current = Idle THEN CheckTimers(y) ELSE [k |-> y, idle |-> [at |-> "yield"]]
  BY DEF rt_tick_increase, Clocked
<1> HIDE DEF tick, left, z
<1>3. Unmoved(s, x) /\ x.tick = tick /\ x.current = s.current /\ x.tm = s.tm
  BY <1>1, SetClock
<1> HIDE DEF x
<1>4. Unmoved(s, y) /\ y.tick = tick
  <2>1. CASE s.remaining_tick # 1
    BY <1>3, <2>1
  <2>2. CASE s.remaining_tick = 1
    <3>1. Sound(x) /\ Full(x) /\ Rescheduled(x, y)
      BY <1>3, <2>2, ThreadYield DEF Unmoved, Full, Live
    <3> HIDE DEF y
    <3>2. \A t \in All : Same(x, y, t)
      BY <3>1, RescheduledSame
    <3>3. \A t \in All : Same(s, y, t)
      BY <1>3, <3>2 DEF Unmoved, Same
    <3> QED
      BY <1>3, <3>1, <3>3 DEF Unmoved, Rescheduled
  <2> QED
    BY <2>1, <2>2
<1> HIDE DEF y
<1>5. CASE y.current = Idle
  <2>1. z = CheckTimers(y) /\ r \in ThreadTimeout(CheckTimers(y)) /\ Full(y)
    BY <1>2, <1>4, <1>5 DEF z, Unmoved
  <2>2. \/ r = y /\ z.idle = Looping /\ ~Expires(y.tm, "hard", y.tick)
        \/ \E t \in Thread : Expired(y, r, t) /\ z.idle = [at |-> "callback", timer |-> t]
    BY <1>5, <2>1, CheckTimersIs
  <2>3. IdleStep(s, r, z.idle, tick)
    BY <1>4, <2>2 DEF IdleStep
  <2> QED
    BY <2>3 DEF z, tick
<1>6. CASE y.current # Idle
  <2>1. z.k = y /\ z.idle = [at |-> "yield"] /\ z.idle.at # "callback"
    BY <1>2, <1>6
  <2>2. r = y
    BY <2>1 DEF ThreadTimeout, z
  <2>3. IdleStep(s, r, z.idle, tick)
    BY <1>4, <2>1, <2>2 DEF IdleStep
  <2> QED
    BY <2>3 DEF z, tick
<1> QED
  BY <1>5, <1>6

IdlePlace == {Looping, [at |-> "yield"]} \cup [at : {"callback"}, timer : Thread]

LEMMA RestIs ==
  ASSUME Full(k), k.current = Idle, idle \in IdlePlace, idle # Looping,
         NEW r \in ThreadTimeout(Rest)
  PROVE  IdleStep(k, r, Rest.idle, k.tick)
<1> DEFINE tm == AfterTimeout(k.tm, k.tick, idle.timer)
           q == IF idle.at = "yield" THEN k ELSE [k EXCEPT !.tm = tm]
<1>1. Rest = CheckTimers(q)
  BY DEF Rest
<1>2. Sound(k) /\ Tables(k) /\ TimersKept(k.tm)
  BY DEF Full, Live, Sound, Tables
<1>3. Unmoved(k, q) /\ q.tick = k.tick /\ q.current = Idle
  <2>1. CASE idle.at = "yield"
    BY <2>1 DEF Unmoved, Same
  <2>2. CASE idle.at # "yield"
    <3>1. idle \in [at : {"callback"}, timer : Thread]
      BY <2>2 DEF IdlePlace
    <3>2. idle.timer \in Thread /\ idle.timer \in All
      BY <3>1 DEF All
    <3>3. /\ TimersKept(tm) /\ tm.active = k.tm.active /\ tm.list = k.tm.list
          /\ tm.timeout_tick = k.tm.timeout_tick
      BY <1>2, <3>2, TimerAfter
    <3>4. q = [k EXCEPT !.tm = tm]
      BY <2>2
    <3> HIDE DEF tm, q
    <3>5. /\ Tables(q) /\ Only(k, q, idle.timer) /\ SameRegs(k, q)
          /\ q.thread = k.thread /\ q.ready = k.ready /\ q.wait = k.wait
          /\ q.defunct = k.defunct /\ q.tm = tm
      BY <1>2, <3>2, <3>3, <3>4, SetTm
    <3>6. \A t \in All : Same(k, q, t)
      BY <3>3, <3>5 DEF Same, IsReadyAt, WaitsAt, IsDefunct
    <3>7. Sound(q)
      BY <1>2, <3>5, <3>6, SameCoherent DEF Sound
    <3>8. Full(q)
      BY <3>5, <3>7 DEF Full, Live, SameRegs
    <3> QED
      BY <3>3, <3>5, <3>6, <3>8 DEF Unmoved, SameRegs
  <2> QED
    BY <2>1, <2>2
<1> HIDE DEF q
<1>4. \/ r = q /\ CheckTimers(q).idle = Looping /\ ~Expires(q.tm, "hard", q.tick)
      \/ \E t \in Thread :
           Expired(q, r, t) /\ CheckTimers(q).idle = [at |-> "callback", timer |-> t]
  BY <1>1, <1>3, CheckTimersIs DEF Unmoved
<1> QED
  BY <1>1, <1>3, <1>4 DEF IdleStep

-----------------------------------------------------------------------------
(* ipc.c: a thread waits in a list of an object, in either order. *)
InList(s, l, t, flag) ==
  IF flag = "FIFO" THEN Append(s.wait[l], t)
  ELSE InsertAt(s.wait[l], PriorityPlace(s, s.wait[l], t), t)

LEMMA InListIs ==
  ASSUME NEW s, Tables(s), NEW l \in WaitList, NEW t \in Thread, ~WaitsAt(s, t, l), NEW flag
  PROVE  LET q == InList(s, l, t, flag)
         IN  q \in Seq(Thread) /\ ToSet(q) = ToSet(s.wait[l]) \cup {t} /\ Once(q)
<1> DEFINE list == s.wait[l]
<1>1. list \in Seq(Thread) /\ Once(list) /\ t \notin ToSet(list)
  BY TablesTypes DEF Tables, WaitsAt
<1>2. CASE flag = "FIFO"
  BY <1>1, <1>2, ListAppend DEF InList
<1>3. CASE flag # "FIFO"
  <2> DEFINE lower == {i \in DOMAIN list :
                         s.thread[t].current_priority < s.thread[list[i]].current_priority}
             n == IF lower = {} THEN Len(list) + 1
                  ELSE CHOOSE i \in lower : \A j \in lower : i <= j
  <2>1. PriorityPlace(s, list, t) = n
    BY DEF PriorityPlace
  <2> HIDE DEF list
  <2>2. Len(list) \in Nat /\ lower \in SUBSET (1..Len(list))
    BY <1>1
  <2> HIDE DEF lower
  <2>3. n \in 1..(Len(list) + 1)
    BY <2>2, InsertPlace
  <2> HIDE DEF n
  <2>4. LET r == InsertAt(list, n, t)
        IN  r \in Seq(Thread) /\ ToSet(r) = ToSet(list) \cup {t} /\ Once(r)
    BY <1>1, <2>3, ListInsert
  <2> QED
    BY <1>3, <2>1, <2>4 DEF InList, list
<1> QED
  BY <1>2, <1>3

(* The thread t waits in l and nowhere else. *)
WaitsOnlyAt(r, t, l) == \A m \in WaitList : WaitsAt(r, t, m) <=> m = l

LEMMA ListSuspend ==
  ASSUME NEW s, Sound(s), NEW t \in Thread, s.thread[t].stat = "READY",
         s.thread[t].error = "EOK", NEW l \in WaitList, NEW flag
  PROVE  LET r == rt_ipc_list_suspend(s, l, t, flag)
         IN  /\ Sound(r) /\ Only(s, r, t) /\ SameRegs(s, r)
             /\ r.thread[t].stat = "SUSPEND" /\ r.thread[t].error = "EOK"
             /\ WaitsOnlyAt(r, t, l) /\ t \notin r.tm.active
             /\ r.tm = rt_timer_stop(s.tm, t)
<1> DEFINE u == rt_thread_suspend(s, t)
           q == InList(s, l, t, flag)
           r == rt_ipc_list_suspend(s, l, t, flag)
<1>1. t \in All /\ s.thread[t] \in ThreadRecord /\ Tables(s) /\ Coherent(s, t) /\ ~Waits(s, t)
  <2>1. t \in All /\ Tables(s) /\ Coherent(s, t)
    BY DEF Sound, All
  <2> QED
    BY <2>1, TablesTypes DEF Coherent, Waits
<1>2. /\ Sound(u) /\ Only(s, u, t) /\ Off(u, t) /\ SameRegs(s, u)
      /\ u.thread[t] = [s.thread[t] EXCEPT !.stat = "SUSPEND"]
      /\ u.wait = s.wait /\ u.tm = rt_timer_stop(s.tm, t) /\ t \notin u.tm.active
  BY <1>1, ThreadSuspend
<1>3. u.thread[t].stat = "SUSPEND" /\ u.thread[t].error = "EOK"
  BY <1>1, <1>2 DEF ThreadRecord
<1>4. Sound(u) /\ u \in KernelState /\ u.wait \in [WaitList -> Seq(Thread)]
  BY <1>2, TablesTypes DEF Sound, Tables
<1>5. r = [u EXCEPT !.wait[l] = q]
  <2>1. u.wait = s.wait
    BY <1>2
  <2> HIDE DEF u
  <2> QED
    BY <1>4, <2>1 DEF rt_ipc_list_suspend, u, InList
<1> HIDE DEF u, r
<1>6. q \in Seq(Thread) /\ ToSet(q) = ToSet(s.wait[l]) \cup {t} /\ Once(q)
  BY <1>1, InListIs DEF Waits
<1> HIDE DEF q
<1>7. [u.wait EXCEPT ![l] = q] \in [WaitList -> Seq(Thread)]
  BY <1>4, <1>6
<1>8. /\ r \in KernelState /\ r.wait = [u.wait EXCEPT ![l] = q] /\ r.thread = u.thread
      /\ r.ready = u.ready /\ r.defunct = u.defunct /\ r.group = u.group /\ r.tm = u.tm
      /\ SameRegs(u, r)
  BY <1>4, <1>5, <1>7 DEF KernelState, SameRegs
<1>9. \A m \in WaitList : r.wait[m] = IF m = l THEN q ELSE s.wait[m]
  BY <1>2, <1>4, <1>8
<1>10. Tables(r)
  <2>1. \A m \in WaitList : Once(r.wait[m])
    BY <1>1, <1>6, <1>9 DEF Tables
  <2> QED
    BY <1>4, <1>8, <2>1 DEF Sound, Tables
<1>11. Only(s, r, t)
  <2>1. \A m \in WaitList : \A x \in All \ {t} : WaitsAt(r, x, m) <=> WaitsAt(s, x, m)
    BY <1>6, <1>9 DEF WaitsAt
  <2>2. \A m \in WaitList : \A x \in All \ {t} : WaitsAt(u, x, m) <=> WaitsAt(s, x, m)
    BY <1>2 DEF Only, Same
  <2>3. Only(u, r, t)
    BY <1>8, <2>1, <2>2 DEF Only, Same, IsReadyAt, IsDefunct
  <2>4. Only(s, u, t)
    BY <1>2
  <2> QED
    BY <2>3, <2>4, OnlyTrans
<1>12. WaitsOnlyAt(r, t, l)
  BY <1>1, <1>6, <1>9 DEF WaitsOnlyAt, WaitsAt, Waits
<1>13. Coherent(r, t)
  <2>1. Coherent(u, t) /\ Off(u, t) /\ t \notin u.tm.active
    BY <1>1, <1>2 DEF Sound
  <2> QED
    BY <1>3, <1>8, <1>12, <2>1 DEF Coherent, WaitsOnlyAt, Off, IsReadyAt, IsDefunct
<1>14. Sound(r)
  BY <1>10, <1>11, <1>13, SoundAfter
<1>15. SameRegs(s, r)
  <2>1. SameRegs(s, u)
    BY <1>2
  <2> QED
    BY <1>8, <2>1, RegsTrans
<1>16. r.tm = rt_timer_stop(s.tm, t) /\ t \notin r.tm.active
  BY <1>2, <1>8
<1> QED
  BY <1>3, <1>8, <1>11, <1>12, <1>14, <1>15, <1>16 DEF r

(* The blocking half of a take: another thread runs, and t waits in l. *)
Blocked(s, r, t, l) ==
  /\ Full(r) /\ Only(s, r, t) /\ SameClock(s, r)
  /\ r.thread[t].stat = "SUSPEND" /\ r.thread[t].error = "EOK" /\ WaitsOnlyAt(r, t, l)
  /\ KeptTime(s.tm, r.tm, s.tick)

LEMMA WaitInIs ==
  ASSUME NEW s, Full(s), s.lock_nest = 0, NEW t \in Thread, s.current = t,
         NEW l \in WaitList, NEW flag, NEW time, time # Forever => time \in 1..(Half - 1)
  PROVE  Blocked(s, WaitIn(s, l, t, flag, time), t, l)
<1> DEFINE q == [s EXCEPT !.thread[t].error = "EOK"]
           u == rt_ipc_list_suspend(q, l, t, flag)
           v == IF time = Forever THEN u ELSE StartThreadTimer(u, t, time)
           r == rt_schedule(v)
<1>1. /\ t \in All /\ Sound(s) /\ Tables(s) /\ Coherent(s, t) /\ s.thread[t].stat = "READY"
      /\ s.thread[t] \in ThreadRecord
  <2>1. t \in All /\ Sound(s) /\ Tables(s) /\ Coherent(s, t) /\ s.thread[t].stat = "READY"
    BY DEF Full, Live, Sound, All
  <2> QED
    BY <2>1, TablesTypes
<1>2. WaitIn(s, l, t, flag, time) = r
  BY DEF WaitIn
<1>3. /\ Tables(q) /\ Only(s, q, t) /\ SameRegs(s, q) /\ q.ready = s.ready
      /\ q.wait = s.wait /\ q.defunct = s.defunct /\ q.tm = s.tm
      /\ q.thread[t] = [s.thread[t] EXCEPT !.error = "EOK"]
  <2>1. "EOK" \in Error
    BY DEF Error
  <2> QED
    BY <1>1, <2>1, SetError
<1> HIDE DEF q
<1>4. /\ q.thread[t].stat = "READY" /\ q.thread[t].error = "EOK"
      /\ q.thread[t].current_priority = s.thread[t].current_priority
      /\ q.thread[t].number_mask = s.thread[t].number_mask
  BY <1>1, <1>3 DEF ThreadRecord
<1>5. Tables(q) /\ Only(s, q, t) /\ SameRegs(s, q)
  BY <1>3
<1>6. Coherent(q, t)
  BY <1>1, <1>3, <1>4 DEF Coherent, IsReadyAt, WaitsAt, IsDefunct
<1>7. Sound(q)
  BY <1>1, <1>5, <1>6, SoundAfter
<1>8. /\ Sound(u) /\ Only(q, u, t) /\ SameRegs(q, u)
      /\ u.thread[t].stat = "SUSPEND" /\ u.thread[t].error = "EOK"
      /\ WaitsOnlyAt(u, t, l) /\ t \notin u.tm.active /\ u.tm = rt_timer_stop(q.tm, t)
  BY <1>4, <1>7, ListSuspend
<1> HIDE DEF u
<1>80. /\ KeptTime(s.tm, u.tm, s.tick) /\ TimersKept(u.tm) /\ u.tick = s.tick /\ s.tick \in Tick
  <2>1. TimersKept(s.tm) /\ TimersKept(u.tm) /\ s.tick \in Tick
    BY <1>1, <1>8, TablesTypes DEF Sound, Tables
  <2>2. u.tick = s.tick
    BY <1>5, <1>8 DEF SameRegs
  <2> QED
    BY <1>1, <1>3, <1>8, <2>1, <2>2, StopInTime
<1>9. /\ Sound(v) /\ Only(u, v, t) /\ SameRegs(u, v)
      /\ v.thread = u.thread /\ v.wait = u.wait /\ KeptTime(u.tm, v.tm, s.tick)
  <2>1. CASE time = Forever
    <3>1. v = u
      BY <2>1
    <3>2. Only(u, u, t) /\ SameRegs(u, u) /\ KeptTime(u.tm, u.tm, s.tick)
      BY DEF Only, Same, SameRegs, KeptTime
    <3> QED
      BY <1>8, <3>1, <3>2
  <2>2. CASE time # Forever
    <3>1. v = StartThreadTimer(u, t, time) /\ time \in 1..(Half - 1)
      BY <2>2
    <3>2. time \in Tick
      BY <3>1, HalfTick, TickAssumption DEF Tick
    <3> HIDE DEF v
    <3>3. /\ Sound(v) /\ Only(u, v, t) /\ SameRegs(u, v) /\ v.thread = u.thread /\ v.wait = u.wait
          /\ v.tm = SetTime(rt_timer_start(SetTime(u.tm, t, time), u.tick, t), t, 0)
      BY <1>8, <3>1, <3>2, StartTimer
    <3>4. KeptTime(u.tm, v.tm, s.tick)
      BY <1>80, <3>1, <3>3, SetStartInTime
    <3> QED
      BY <3>3, <3>4
  <2> QED
    BY <2>1, <2>2
<1> HIDE DEF v
<1>10. Only(s, v, t) /\ SameRegs(s, v)
  BY <1>5, <1>8, <1>9, OnlyTrans, RegsTrans
<1>11. /\ Full(r) /\ Only(s, r, t) /\ SameClock(s, r)
       /\ r.thread = v.thread /\ r.wait = v.wait /\ r.tm = v.tm
  BY <1>9, <1>10, ThenSchedule
<1> HIDE DEF r
<1>110. KeptTime(s.tm, r.tm, s.tick)
  BY <1>9, <1>11, <1>80, KeptTimeTrans
<1>12. WaitsOnlyAt(r, t, l)
  BY <1>8, <1>9, <1>11 DEF WaitsOnlyAt, WaitsAt
<1>13. Blocked(s, r, t, l)
  BY <1>8, <1>9, <1>11, <1>110, <1>12 DEF Blocked
<1> QED
  BY <1>2, <1>13

-----------------------------------------------------------------------------
(* ipc.c: rt_ipc_list_resume_all, thread by thread. *)
Released(s, t) == rt_thread_resume([s EXCEPT !.thread[t].error = "ERROR"], t)

IsTold(s, r, t) ==
  /\ r.thread[t].stat = "READY" /\ r.thread[t].error = "ERROR"
  /\ r.thread[t].current_priority = s.thread[t].current_priority
  /\ ~Waits(r, t) /\ t \notin r.tm.active

LEMMA ReleasedIs ==
  ASSUME NEW s, Sound(s), NEW t \in All, s.thread[t].stat = "SUSPEND"
  PROVE  LET r == Released(s, t)
         IN  /\ Sound(r) /\ Only(s, r, t) /\ SameRegs(s, r) /\ IsTold(s, r, t)
             /\ r.tm = rt_timer_stop(s.tm, t)
             /\ \A l \in WaitList : /\ ToSet(r.wait[l]) = ToSet(s.wait[l]) \ {t}
                                    /\ ~WaitsAt(s, t, l) => r.wait[l] = s.wait[l]
<1> DEFINE q == [s EXCEPT !.thread[t].error = "ERROR"]
           r == rt_thread_resume(q, t)
<1>0. "ERROR" \in Error
  BY DEF Error
<1>1. /\ Tables(s) /\ s.thread \in [All -> ThreadRecord] /\ Coherent(s, t)
      /\ s.thread[t] \in ThreadRecord
  BY TablesTypes DEF Sound
<1>2. /\ Tables(q) /\ Only(s, q, t) /\ SameRegs(s, q)
      /\ q.wait = s.wait /\ q.ready = s.ready /\ q.tm = s.tm
      /\ q.thread[t] = [s.thread[t] EXCEPT !.error = "ERROR"]
  BY <1>0, <1>1, SetError
<1> HIDE DEF q
<1>3. /\ q.thread[t].stat = "SUSPEND" /\ q.thread[t].error = "ERROR"
      /\ q.thread[t].current_priority = s.thread[t].current_priority
      /\ q.thread[t].number_mask = s.thread[t].number_mask
  BY <1>1, <1>2 DEF ThreadRecord
<1>4. /\ q.thread[t].number_mask = {q.thread[t].current_priority}
      /\ \A p \in Priority : ~IsReadyAt(q, t, p)
  BY <1>1, <1>2, <1>3 DEF Coherent, IsReadyAt
<1>5. SoundBut(q, t)
  <2>1. \A u \in All \ {t} : Coherent(s, u) /\ Same(s, q, u)
    BY <1>2 DEF Sound, Only
  <2>2. \A u \in All \ {t} : Coherent(q, u)
    BY <2>1, SameCoherent
  <2> QED
    BY <1>2, <2>2 DEF SoundBut
<1>6. q.thread[t] \in ThreadRecord
  BY <1>2, TablesTypes
<1>7. /\ Sound(r) /\ Only(q, r, t) /\ SameRegs(q, r)
      /\ r.thread[t] = [q.thread[t] EXCEPT !.stat = "READY"]
      /\ r.tm = rt_timer_stop(q.tm, t) /\ t \notin r.tm.active /\ ~Waits(r, t)
      /\ \A l \in WaitList : /\ ToSet(r.wait[l]) = ToSet(q.wait[l]) \ {t}
                             /\ ~WaitsAt(q, t, l) => r.wait[l] = q.wait[l]
  BY <1>3, <1>4, <1>5, ThreadResumed
<1> HIDE DEF r
<1>8. /\ r.thread[t].stat = "READY" /\ r.thread[t].error = "ERROR"
      /\ r.thread[t].current_priority = s.thread[t].current_priority
  BY <1>3, <1>6, <1>7 DEF ThreadRecord
<1>9. Only(s, r, t) /\ SameRegs(s, r)
  BY <1>2, <1>7, OnlyTrans, RegsTrans
<1>10. \A l \in WaitList : WaitsAt(q, t, l) <=> WaitsAt(s, t, l)
  BY <1>2 DEF WaitsAt
<1>11. r = Released(s, t)
  BY DEF r, q, Released
<1>12. IsTold(s, r, t)
  BY <1>7, <1>8 DEF IsTold
<1> QED
  BY <1>2, <1>7, <1>9, <1>10, <1>11, <1>12

(* The states through which the loop of rt_ipc_list_resume_all goes. *)
IsPassed(f, s, q, m) ==
  f = [n \in 0..m |-> IF n = 0 THEN s ELSE Released(f[n - 1], q[n])]

LEMMA PassedExists ==
  ASSUME NEW s, NEW q, NEW m \in Nat
  PROVE  \E f : IsPassed(f, s, q, m)
<1> DEFINE Bad == {n \in Nat : ~\E f : IsPassed(f, s, q, n)}
<1> SUFFICES ASSUME Bad # {} PROVE FALSE
  OBVIOUS
<1>1. PICK n \in Bad : \A i \in Bad : n <= i
  <2>1. Bad \in SUBSET Nat
    OBVIOUS
  <2> HIDE DEF Bad
  <2> QED
    BY <2>1, LeastNatural
<1>2. n # 0
  <2> DEFINE f == [i \in 0..0 |-> s]
  <2>1. IsPassed(f, s, q, 0)
    BY DEF IsPassed
  <2> HIDE DEF f
  <2> QED
    BY <2>1
<1>3. n - 1 \in Nat /\ n - 1 \notin Bad
  BY <1>1, <1>2
<1>4. PICK f : IsPassed(f, s, q, n - 1)
  BY <1>3
<1> DEFINE g == [i \in 0..n |-> IF i = n THEN Released(f[n - 1], q[n]) ELSE f[i]]
<1>5. \A i \in 0..(n - 1) : g[i] = f[i]
  BY <1>3
<1>6. \A i \in 0..(n - 1) : f[i] = IF i = 0 THEN s ELSE Released(f[i - 1], q[i])
  BY <1>4 DEF IsPassed
<1>7. \A i \in 0..n : g[i] = IF i = 0 THEN s ELSE Released(g[i - 1], q[i])
  <2> SUFFICES ASSUME NEW i \in 0..n
               PROVE  g[i] = IF i = 0 THEN s ELSE Released(g[i - 1], q[i])
    OBVIOUS
  <2>1. CASE i = n
    <3>1. g[n] = Released(f[n - 1], q[n]) /\ n - 1 \in 0..(n - 1)
      BY <1>3
    <3>2. g[n - 1] = f[n - 1]
      BY <1>5, <3>1
    <3> HIDE DEF g
    <3> QED
      BY <1>2, <2>1, <3>1, <3>2
  <2>2. CASE i # n
    <3>1. i \in 0..(n - 1) /\ (i # 0 => i - 1 \in 0..(n - 1))
      BY <1>3, <2>2
    <3>2. g[i] = f[i] /\ (i # 0 => g[i - 1] = f[i - 1])
      BY <1>5, <3>1
    <3> HIDE DEF g
    <3> QED
      BY <1>6, <3>1, <3>2
  <2> QED
    BY <2>1, <2>2
<1>8. IsPassed(g, s, q, n)
  <2>1. g = [i \in 0..n |-> g[i]]
    OBVIOUS
  <2> HIDE DEF g
  <2> QED
    BY <1>7, <2>1 DEF IsPassed
<1> HIDE DEF g
<1> QED
  BY <1>8

(* Every thread that waits in l gets RT_ERROR and is ready; no other thread *)
(* is touched.                                                             *)
ResumedAll(s, r, l) ==
  /\ Sound(r) /\ SameRegs(s, r) /\ KeptTime(s.tm, r.tm, s.tick)
  /\ \A t \in All : IF WaitsAt(s, t, l) THEN IsTold(s, r, t) ELSE Same(s, r, t)

(* After the first n threads of the queue. *)
Upto(q, n) == {q[i] : i \in 1..n}
ResumedUpto(s, r, q, n) ==
  /\ Sound(r) /\ SameRegs(s, r) /\ KeptTime(s.tm, r.tm, s.tick)
  /\ \A t \in All : IF t \in Upto(q, n) THEN IsTold(s, r, t) ELSE Same(s, r, t)

LEMMA ToldStays ==
  ASSUME NEW s, NEW q, NEW r, NEW t, IsTold(s, q, t), Same(q, r, t)
  PROVE  IsTold(s, r, t)
BY DEF IsTold, Same, Waits

LEMMA SameTrans ==
  ASSUME NEW s, NEW q, NEW r, NEW t, Same(s, q, t), Same(q, r, t)
  PROVE  Same(s, r, t)
BY DEF Same

LEMMA SameSelf ==
  ASSUME NEW s, NEW t
  PROVE  Same(s, s, t) /\ SameRegs(s, s)
BY DEF Same, SameRegs

LEMMA ResumedNext ==
  ASSUME NEW s, Sound(s), NEW l \in WaitList, NEW n \in Nat, n + 1 \in DOMAIN s.wait[l],
         NEW x, ResumedUpto(s, x, s.wait[l], n)
  PROVE  ResumedUpto(s, Released(x, s.wait[l][n + 1]), s.wait[l], n + 1)
<1> DEFINE q == s.wait[l]
           t == q[n + 1]
           r == Released(x, t)
<1>1. q \in Seq(Thread) /\ Once(q) /\ s.thread \in [All -> ThreadRecord]
  BY TablesTypes DEF Sound, Tables
<1>2. n + 1 \in 1..Len(q) /\ DOMAIN q = 1..Len(q) /\ Len(q) \in Nat
  BY <1>1
<1>3. t \in Thread /\ t \in All /\ t \in ToSet(q)
  BY <1>1, <1>2 DEF All, ToSet
<1>4. s.thread[t].stat = "SUSPEND"
  BY <1>3 DEF Sound, Coherent, WaitsAt
<1>5. t \notin Upto(q, n)
  BY <1>1, <1>2 DEF Upto, Once
<1>6. Upto(q, n + 1) = Upto(q, n) \cup {t}
  <2>1. \A i \in 1..(n + 1) : i \in 1..n \/ i = n + 1
    OBVIOUS
  <2>2. 1..n \subseteq 1..(n + 1) /\ n + 1 \in 1..(n + 1)
    OBVIOUS
  <2> QED
    BY <2>1, <2>2 DEF Upto
<1>7. Sound(x) /\ SameRegs(s, x) /\ Same(s, x, t)
  BY <1>3, <1>5 DEF ResumedUpto
<1>8. x.thread[t] = s.thread[t]
  BY <1>7 DEF Same
<1>9. /\ Sound(r) /\ Only(x, r, t) /\ SameRegs(x, r) /\ IsTold(x, r, t)
      /\ r.tm = rt_timer_stop(x.tm, t)
  BY <1>3, <1>4, <1>7, <1>8, ReleasedIs
<1>10. IsTold(s, r, t)
  BY <1>8, <1>9 DEF IsTold
<1>11. ASSUME NEW u \in All
       PROVE  IF u \in Upto(q, n + 1) THEN IsTold(s, r, u) ELSE Same(s, r, u)
  <2>1. CASE u = t
    BY <1>6, <1>10, <2>1
  <2>2. CASE u # t
    <3>1. Same(x, r, u)
      BY <1>9, <2>2 DEF Only
    <3>2. u \in Upto(q, n + 1) <=> u \in Upto(q, n)
      BY <1>6, <2>2
    <3>3. IF u \in Upto(q, n) THEN IsTold(s, x, u) ELSE Same(s, x, u)
      BY DEF ResumedUpto
    <3> HIDE DEF r
    <3> QED
      BY <3>1, <3>2, <3>3, ToldStays, SameTrans
  <2> QED
    BY <2>1, <2>2
<1>12. SameRegs(s, r)
  BY <1>7, <1>9, RegsTrans
<1>13. KeptTime(s.tm, r.tm, s.tick)
  <2>1. KeptTime(s.tm, x.tm, s.tick) /\ TimersKept(x.tm)
    BY <1>7 DEF ResumedUpto, Sound, Tables
  <2>2. KeptTime(x.tm, r.tm, s.tick)
    BY <1>3, <1>9, <2>1, StopInTime
  <2> QED
    BY <2>1, <2>2, KeptTimeTrans
<1> QED
  BY <1>9, <1>11, <1>12, <1>13 DEF ResumedUpto

LEMMA ResumeAll ==
  ASSUME NEW s, Sound(s), NEW l \in WaitList
  PROVE  ResumedAll(s, rt_ipc_list_resume_all(s, l), l)
<1> DEFINE q == s.wait[l]
           f == CHOOSE g : IsPassed(g, s, q, Len(q))
<1>1. q \in Seq(Thread) /\ Len(q) \in Nat /\ DOMAIN q = 1..Len(q)
  BY TablesTypes DEF Sound, Tables
<1>2. IsPassed(f, s, q, Len(q))
  BY <1>1, PassedExists
<1>3. rt_ipc_list_resume_all(s, l) = f[Len(q)]
  BY DEF rt_ipc_list_resume_all, IsPassed, Released
<1> HIDE DEF f
<1>4. \A n \in 0..Len(q) : f[n] = IF n = 0 THEN s ELSE Released(f[n - 1], q[n])
  BY <1>2 DEF IsPassed
<1> DEFINE Bad == {n \in 0..Len(q) : ~ResumedUpto(s, f[n], q, n)}
<1>5. Bad = {}
  <2> SUFFICES ASSUME Bad # {} PROVE FALSE
    OBVIOUS
  <2>1. PICK n \in Bad : \A i \in Bad : n <= i
    <3>1. Bad \in SUBSET Nat
      BY <1>1
    <3> HIDE DEF Bad
    <3> QED
      BY <3>1, LeastNatural
  <2>2. n # 0
    <3>1. Upto(q, 0) = {}
      BY DEF Upto
    <3>2. ResumedUpto(s, s, q, 0)
      BY <3>1, SameSelf DEF ResumedUpto, KeptTime
    <3>3. f[0] = s
      BY <1>1, <1>4
    <3> QED
      BY <3>2, <3>3
  <2>3. n \in 1..Len(q) /\ n - 1 \in 0..Len(q) /\ n - 1 \in Nat /\ n - 1 + 1 = n
    BY <1>1, <2>2
  <2>4. ResumedUpto(s, f[n - 1], q, n - 1)
    BY <2>1, <2>3
  <2>5. n - 1 + 1 \in DOMAIN q
    BY <1>1, <2>3
  <2>6. ResumedUpto(s, Released(f[n - 1], q[n - 1 + 1]), q, n - 1 + 1)
    BY <2>3, <2>4, <2>5, ResumedNext
  <2>7. f[n] = Released(f[n - 1], q[n])
    BY <1>4, <2>2
  <2>8. ResumedUpto(s, f[n], q, n)
    BY <2>3, <2>6, <2>7
  <2> QED
    BY <2>1, <2>8
<1>6. ResumedUpto(s, f[Len(q)], q, Len(q))
  BY <1>1, <1>5
<1>7. Upto(q, Len(q)) = ToSet(q)
  BY <1>1 DEF Upto, ToSet
<1> QED
  BY <1>3, <1>6, <1>7 DEF ResumedUpto, ResumedAll, WaitsAt

-----------------------------------------------------------------------------
(* The start of the system: rtthread_startup. *)
LEMMA StartedSystem ==
  LET s == rt_system_scheduler_init
  IN  /\ Sound(s) /\ s.current = NoThread /\ s.lock_nest = 0 /\ s.registered = {}
      /\ \A t \in All : /\ s.thread[t].stat \in {"NONE", "CLOSE"} /\ s.thread[t].error = "EOK"
                        /\ ~Waits(s, t) /\ ~IsDefunct(s, t) /\ t \notin s.tm.active
<1> DEFINE s == rt_system_scheduler_init
<1>1. RT_TICK_MAX \in Nat /\ 0 \in Tick
  BY TickAssumption DEF Tick
<1>2. ToSet(<<>>) = {} /\ Once(<<>>)
  BY DEF ToSet, Once
<1>3. TimersKept(s.tm) /\ s.tm.active = {}
  <2>1. rt_system_timer_init \in TimerState
    BY <1>1 DEF rt_system_timer_init, TimerState, Lists
  <2>2. rt_system_timer_init.list["hard"] = <<>> /\ rt_system_timer_init.active = {}
         /\ rt_system_timer_init.periodic = {}
    BY DEF rt_system_timer_init, Lists
  <2>3. s.tm = rt_system_timer_init
    BY DEF rt_system_scheduler_init
  <2> HIDE DEF s
  <2> QED
    BY <1>2, <2>1, <2>2, <2>3 DEF TimersKept
<1>4. ASSUME NEW t \in All
      PROVE  /\ s.thread[t].stat \in {"NONE", "CLOSE"} /\ s.thread[t].error = "EOK"
             /\ s.thread[t] \in ThreadRecord
  BY KernelAssumption DEF rt_system_scheduler_init, ThreadRecord, Stat, Error
<1>5. /\ s.ready = [p \in Priority |-> <<>>] /\ s.wait = [l \in WaitList |-> <<>>]
      /\ s.defunct = <<>> /\ s.group = {} /\ s.current = NoThread /\ s.lock_nest = 0
      /\ s.registered = {} /\ s.tick = 0 /\ s.remaining_tick = IdleSlice
  BY DEF rt_system_scheduler_init
<1>6. s \in KernelState
  <2>1. s.thread = [t \in All |-> s.thread[t]]
    BY DEF rt_system_scheduler_init
  <2>2. s.thread \in [All -> ThreadRecord]
    BY <1>4, <2>1
  <2>3. /\ s.ready \in [Priority -> Seq(All)] /\ s.wait \in [WaitList -> Seq(Thread)]
        /\ s.defunct \in Seq(Thread)
    BY <1>5
  <2>4. s.remaining_tick \in 1..IdleSlice
    BY <1>5, KernelAssumption
  <2>5. s = [thread |-> s.thread, ready |-> s.ready, wait |-> s.wait, defunct |-> s.defunct,
             group |-> s.group, current |-> s.current, lock_nest |-> s.lock_nest,
             registered |-> s.registered, tick |-> s.tick,
             remaining_tick |-> s.remaining_tick, tm |-> s.tm]
    BY DEF rt_system_scheduler_init
  <2>6. s.tm \in TimerState
    BY <1>3 DEF TimersKept
  <2> HIDE DEF s
  <2>7. /\ s.group \in SUBSET Priority /\ s.current \in All \cup {NoThread} /\ s.lock_nest \in Nat
        /\ s.registered \in SUBSET (All \cup Object) /\ s.tick \in Tick
    BY <1>1, <1>5
  <2> QED
    BY <2>2, <2>3, <2>4, <2>5, <2>6, <2>7 DEF KernelState
<1> HIDE DEF s
<1>7. Tables(s)
  BY <1>2, <1>3, <1>5, <1>6 DEF Tables
<1>8. ASSUME NEW t \in All
      PROVE  ~Waits(s, t) /\ ~IsDefunct(s, t) /\ \A p \in Priority : ~IsReadyAt(s, t, p)
  BY <1>2, <1>5 DEF Waits, WaitsAt, IsDefunct, IsReadyAt
<1>9. \A t \in All : Coherent(s, t)
  BY <1>3, <1>4, <1>8 DEF Coherent, Waits
<1> QED
  BY <1>3, <1>4, <1>5, <1>7, <1>8, <1>9 DEF Sound, s

(* A thread is made and started before there is one to switch from. *)
Brought(s, r, t) ==
  /\ Sound(r) /\ r.current = NoThread /\ r.lock_nest = s.lock_nest /\ Only(s, r, t)
  /\ r.thread[t].stat = "READY" /\ r.thread[t].error = "EOK"
  /\ ~Waits(r, t) /\ t \notin r.tm.active /\ r.registered = s.registered \cup {t}

LEMMA BringUp ==
  ASSUME NEW s, Sound(s), s.current = NoThread, NEW t \in All,
         s.thread[t].stat \in {"NONE", "CLOSE"}, ~IsDefunct(s, t)
  PROVE  Brought(s, rt_thread_startup(
                      ThreadSetup([s EXCEPT !.registered = @ \cup {t}], t), t), t)
<1> DEFINE R == s.registered \cup {t}
           q == [s EXCEPT !.registered = R]
           x == ThreadSetup(q, t)
           r == rt_thread_resume(StartedUp(x, t), t)
<1>1. R \in SUBSET (All \cup Object)
  BY TablesTypes DEF Sound
<1> HIDE DEF R
<1>2. Sound(q) /\ (\A u \in All : Same(s, q, u)) /\ q.current = s.current
       /\ q.lock_nest = s.lock_nest /\ q.thread = s.thread /\ q.defunct = s.defunct
       /\ q.registered = s.registered \cup {t}
  BY <1>1, SetRegistered DEF R
<1> HIDE DEF q
<1>3. q.thread[t].stat \in {"NONE", "CLOSE"} /\ ~IsDefunct(q, t)
  BY <1>2 DEF IsDefunct
<1>4. /\ Sound(x) /\ Only(q, x, t) /\ SameRegs(q, x)
      /\ x.thread[t] = [stat |-> "INIT", current_priority |-> ThreadPriority[t],
                        number_mask |-> {}, error |-> "EOK"]
  BY <1>2, <1>3, Setup
<1>5. x.thread[t].stat = "INIT" /\ x.thread[t].error = "EOK"
  BY <1>4
<1> HIDE DEF x
<1>6. /\ Sound(r) /\ Only(x, r, t) /\ SameRegs(x, r)
      /\ r.thread[t].stat = "READY" /\ r.thread[t].error = x.thread[t].error
      /\ ~Waits(r, t) /\ t \notin r.tm.active
  BY <1>4, <1>5, Start
<1>7. x.current = NoThread /\ x.lock_nest = s.lock_nest /\ x.registered = s.registered \cup {t}
  BY <1>2, <1>4 DEF SameRegs
<1>8. rt_thread_startup(x, t) = r
  BY <1>7 DEF rt_thread_startup, StartedUp
<1> HIDE DEF r
<1>9. r.current = NoThread /\ r.lock_nest = s.lock_nest /\ r.registered = s.registered \cup {t}
  BY <1>6, <1>7 DEF SameRegs
<1>10. Only(s, q, t)
  BY <1>2 DEF Only
<1>11. Only(s, r, t)
  BY <1>4, <1>6, <1>10, OnlyTrans
<1>12. rt_thread_startup(ThreadSetup([s EXCEPT !.registered = @ \cup {t}], t), t) = r
  BY <1>8 DEF x, q, R
<1> QED
  BY <1>5, <1>6, <1>9, <1>11, <1>12 DEF Brought

LEMMA SystemStart ==
  /\ Full(rtthread_startup)
  /\ rtthread_startup.lock_nest = 0
  /\ rtthread_startup.registered = {Main, Idle}
  /\ \A t \in All : /\ ~Waits(rtthread_startup, t) /\ t \notin rtthread_startup.tm.active
                    /\ ~IsDefunct(rtthread_startup, t)
                    /\ t \in {Main, Idle}
                         <=> rtthread_startup.thread[t].stat \notin {"NONE", "CLOSE"}
<1> DEFINE s == rt_system_scheduler_init
           x == rt_application_init(s)
           y == rt_thread_idle_init(x)
           r == rtthread_startup
<1>0. Main \in All /\ Idle \in All /\ Main # Idle
  BY KernelAssumption DEF All
<1>1. /\ Sound(s) /\ s.current = NoThread /\ s.lock_nest = 0 /\ s.registered = {}
      /\ \A t \in All : /\ s.thread[t].stat \in {"NONE", "CLOSE"}
                        /\ ~Waits(s, t) /\ ~IsDefunct(s, t) /\ t \notin s.tm.active
  BY StartedSystem
<1> HIDE DEF s
<1>2. Brought(s, x, Main)
  BY <1>0, <1>1, BringUp DEF rt_application_init, rt_thread_create, rt_object_allocate
<1> HIDE DEF x
<1>3. Same(s, x, Idle) /\ Sound(x) /\ x.current = NoThread
  BY <1>0, <1>2 DEF Brought, Only
<1>4. x.thread[Idle].stat \in {"NONE", "CLOSE"} /\ ~IsDefunct(x, Idle)
  BY <1>0, <1>1, <1>3 DEF Same
<1>5. Brought(x, y, Idle)
  BY <1>0, <1>3, <1>4, BringUp DEF rt_thread_idle_init, rt_thread_init, rt_object_init
<1> HIDE DEF y
<1>6. Live(y) /\ y.lock_nest = 0 /\ y.registered = {Main, Idle}
  BY <1>1, <1>2, <1>5 DEF Live, Brought
<1>7. r = rt_schedule(y)
  BY <1>6 DEF rtthread_startup, rt_system_scheduler_start, rt_schedule, y, x, s
<1>8. Full(r) /\ Rescheduled(y, r)
  BY <1>6, <1>7, ScheduleIs DEF Rescheduled
<1> HIDE DEF r
<1>9. ASSUME NEW t \in All
      PROVE  /\ ~Waits(r, t) /\ t \notin r.tm.active /\ ~IsDefunct(r, t)
             /\ t \in {Main, Idle} <=> r.thread[t].stat \notin {"NONE", "CLOSE"}
  <2>1. /\ ~Waits(y, t) /\ t \notin y.tm.active
        /\ y.thread[t].stat \in IF t \in {Main, Idle} THEN {"READY"} ELSE {"NONE", "CLOSE"}
        /\ ~IsDefunct(y, t)
    <3>1. CASE t = Idle
      <4>1. ~Waits(y, t) /\ t \notin y.tm.active /\ y.thread[t].stat = "READY" /\ Coherent(y, t)
        BY <1>5, <3>1 DEF Brought, Sound
      <4> QED
        BY <3>1, <4>1 DEF Coherent
    <3>2. CASE t = Main
      <4>1. ~Waits(x, t) /\ t \notin x.tm.active /\ x.thread[t].stat = "READY" /\ Coherent(x, t)
        BY <1>2, <3>2 DEF Brought, Sound
      <4>2. Same(x, y, t)
        BY <1>0, <1>5, <3>2 DEF Brought, Only
      <4>3. ~IsDefunct(x, t)
        BY <4>1 DEF Coherent
      <4> QED
        BY <3>2, <4>1, <4>2, <4>3 DEF Same, Waits
    <3>3. CASE t \notin {Main, Idle}
      <4>1. Same(s, x, t) /\ Same(x, y, t)
        BY <1>2, <1>5, <3>3 DEF Brought, Only
      <4>2. Same(s, y, t)
        BY <4>1, SameTrans
      <4> QED
        BY <1>1, <3>3, <4>2 DEF Same, Waits
    <3> QED
      BY <3>1, <3>2, <3>3
  <2>2. r.wait = y.wait /\ r.tm = y.tm /\ r.thread = y.thread /\ r.defunct = y.defunct
    BY <1>8 DEF Rescheduled
  <2>3. ~Waits(r, t) /\ t \notin r.tm.active /\ ~IsDefunct(r, t) /\ r.thread[t] = y.thread[t]
    BY <2>1, <2>2 DEF Waits, WaitsAt, IsDefunct
  <2>4. t \in {Main, Idle} <=> y.thread[t].stat \notin {"NONE", "CLOSE"}
    BY <2>1
  <2> QED
    BY <2>3, <2>4
<1>10. r.lock_nest = 0 /\ r.registered = {Main, Idle}
  BY <1>6, <1>8 DEF Rescheduled
<1> QED
  BY <1>8, <1>9, <1>10 DEF r
=============================================================================
