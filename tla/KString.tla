------------------------------ MODULE KString ------------------------------
(***************************************************************************)
(* The memory and string functions of rt-thread/kernel/src/kservice.c that *)
(* the shell uses.  Memory is a function from addresses to bytes; a string *)
(* that is only read is the sequence of its bytes before NUL.              *)
(***************************************************************************)
EXTENDS Integers, Sequences, FiniteSetsExt

CONSTANT NUL

RECURSIVE Upwards(_, _, _, _)
Upwards(m, dest, src, n) ==
  IF n = 0 THEN m ELSE Upwards([m EXCEPT ![dest] = m[src]], dest + 1, src + 1, n - 1)

RECURSIVE Downwards(_, _, _, _)
Downwards(m, dest, src, n) ==
  IF n = 0 THEN m
  ELSE Downwards([m EXCEPT ![dest + n - 1] = m[src + n - 1]], dest, src, n - 1)


rt_memmove(m, dest, src, n) ==
  IF src < dest /\ dest < src + n THEN Downwards(m, dest, src, n)
  ELSE Upwards(m, dest, src, n)

rt_memcpy(m, src, n) == [a \in DOMAIN m |-> IF a < n THEN src[a] ELSE m[a]]

rt_memset(m, c) == [a \in DOMAIN m |-> c]

(* rt_memcmp: whether the first n bytes differ. *)
rt_memcmp(m1, m2, n) == \E a \in 0..n - 1 : m1[a] # m2[a]

rt_strlen(m, s) ==
  (CHOOSE a \in DOMAIN m : a >= s /\ m[a] = NUL /\ \A b \in s..a - 1 : m[b] # NUL) - s

(* The string at address s. *)
StringAt(m, s) == [i \in 1..rt_strlen(m, s) |-> m[s + i - 1]]

ByteOf(str, i) == IF i <= Len(str) THEN str[i] ELSE NUL

(* rt_strncmp: whether two strings differ in their first n bytes. *)
rt_strncmp(cs, ct, n) == \E i \in 1..n : ByteOf(cs, i) # ByteOf(ct, i)

rt_strncpy(m, src, n) == [a \in DOMAIN m |-> IF a < n THEN ByteOf(src, a + 1) ELSE m[a]]
=============================================================================
