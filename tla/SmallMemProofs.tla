--------------------------- MODULE SmallMemProofs ---------------------------
(***************************************************************************)
(* The heap keeps its structure and its promise to the callers, for every  *)
(* region, alignment, header size and request.                             *)
(***************************************************************************)
EXTENDS SmallMem, SumProofs, TLAPS

A == RT_ALIGN_SIZE
H == SIZEOF_STRUCT_MEM

-----------------------------------------------------------------------------
(* Alignment. *)
LEMMA MultipleAligned ==
  ASSUME NEW k \in Int, NEW n \in Nat \ {0}
  PROVE  (k * n) % n = 0
OBVIOUS

LEMMA AlignedMultiple ==
  ASSUME NEW x \in Int, NEW n \in Nat \ {0}, x % n = 0
  PROVE  x = (x \div n) * n /\ x \div n \in Int
OBVIOUS

LEMMA DivBounds ==
  ASSUME NEW x \in Nat, NEW n \in Nat \ {0}
  PROVE  /\ x \div n \in Nat
         /\ (x \div n) * n <= x /\ x < (x \div n) * n + n
OBVIOUS

LEMMA AlignedSums ==
  ASSUME NEW x \in Int, NEW y \in Int, NEW n \in Nat \ {0}, x % n = 0, y % n = 0
  PROVE  (x + y) % n = 0 /\ (x - y) % n = 0
<1> DEFINE i == x \div n
           j == y \div n
<1>1. i \in Int /\ j \in Int /\ x = i * n /\ y = j * n
  BY AlignedMultiple
<1> HIDE DEF i, j
<1>2. x + y = (i + j) * n /\ x - y = (i - j) * n
  BY <1>1
<1>3. ((i + j) * n) % n = 0 /\ ((i - j) * n) % n = 0
  BY <1>1, MultipleAligned
<1> QED
  BY <1>2, <1>3

(* RT_ALIGN rounds up to a multiple, unless it wraps; RT_ALIGN_DOWN rounds *)
(* down.                                                                   *)
LEMMA AlignUp ==
  ASSUME NEW n \in Nat
  PROVE  /\ RT_ALIGN(n) \in Nat /\ RT_ALIGN(n) % A = 0
         /\ n + A <= SizeWrap => n <= RT_ALIGN(n) /\ RT_ALIGN(n) < n + A
<1>1. A \in Nat \ {0} /\ SizeWrap \in Nat \ {0}
  BY HeapAssumption DEF A
<1> DEFINE y == (n + A - 1) % SizeWrap
<1>2. y \in Nat
  BY <1>1
<1>3. n + A <= SizeWrap => y = n + A - 1
  BY <1>1
<1> HIDE DEF y
<1>4. RT_ALIGN(n) = (y \div A) * A
  BY DEF RT_ALIGN, A, y
<1>5. y \div A \in Nat /\ (y \div A) * A <= y /\ y < (y \div A) * A + A
  BY <1>1, <1>2, DivBounds
<1>6. ((y \div A) * A) % A = 0
  BY <1>1, <1>5, MultipleAligned
<1>7. (y \div A) * A \in Nat
  BY <1>1, <1>5
<1>8. CASE n + A <= SizeWrap
  <2> DEFINE z == (y \div A) * A
  <2>1. z \in Nat /\ z <= y /\ y < z + A /\ y = n + A - 1
    BY <1>3, <1>5, <1>7, <1>8
  <2> HIDE DEF z
  <2>2. n <= z /\ z < n + A
    BY <1>1, <2>1
  <2> QED
    BY <1>4, <1>6, <1>7, <2>2 DEF z
<1> QED
  BY <1>4, <1>6, <1>7, <1>8

LEMMA AlignDown ==
  ASSUME NEW n \in Nat
  PROVE  RT_ALIGN_DOWN(n) \in Nat /\ RT_ALIGN_DOWN(n) <= n /\ RT_ALIGN_DOWN(n) % A = 0
<1>1. A \in Nat \ {0}
  BY HeapAssumption DEF A
<1>2. n \div A \in Nat /\ (n \div A) * A <= n
  BY <1>1, DivBounds
<1>3. ((n \div A) * A) % A = 0 /\ (n \div A) * A \in Nat
  BY <1>1, <1>2, MultipleAligned
<1> QED
  BY <1>2, <1>3 DEF RT_ALIGN_DOWN, A

(* The sizes that every block is made of. *)
LEMMA HeaderSize ==
  /\ A \in Nat \ {0}
  /\ H \in Nat /\ H >= A /\ H % A = 0
  /\ MIN_SIZE_ALIGNED \in Nat /\ MIN_SIZE_ALIGNED >= MIN_SIZE /\ MIN_SIZE_ALIGNED % A = 0
<1>1. A \in Nat \ {0} /\ HeaderBytes \in Nat \ {0} /\ MIN_SIZE \in Nat \ {0}
  BY HeapAssumption DEF A
<1>2. /\ HeaderBytes + A <= SizeWrap /\ MIN_SIZE + A <= SizeWrap
  BY HeapAssumption DEF A
<1>3. H \in Nat /\ H % A = 0 /\ H >= HeaderBytes
  BY <1>1, <1>2, AlignUp DEF H, SIZEOF_STRUCT_MEM
<1>4. H >= A
  <2> DEFINE k == H \div A
  <2>1. k \in Int /\ H = k * A
    BY <1>1, <1>3, AlignedMultiple
  <2> HIDE DEF k
  <2>2. k >= 1
    BY <1>1, <1>3, <2>1
  <2> QED
    BY <1>1, <2>1, <2>2
<1>5. MIN_SIZE_ALIGNED \in Nat /\ MIN_SIZE_ALIGNED % A = 0 /\ MIN_SIZE_ALIGNED >= MIN_SIZE
  BY <1>1, <1>2, AlignUp DEF MIN_SIZE_ALIGNED
<1> QED
  BY <1>1, <1>3, <1>4, <1>5

(* A request is rounded up to a block that holds it. *)
LEMMA BlockSizes ==
  ASSUME NEW n \in Nat, n + A <= SizeWrap
  PROVE  /\ BlockSize(n) \in Nat /\ BlockSize(n) % A = 0
         /\ BlockSize(n) >= n /\ BlockSize(n) >= MIN_SIZE_ALIGNED /\ BlockSize(n) >= RT_ALIGN(n)
         /\ BlockSize(n) \in {RT_ALIGN(n), MIN_SIZE_ALIGNED}
BY AlignUp, HeaderSize DEF BlockSize

-----------------------------------------------------------------------------
(* The chain of headers, as mem.c walks it: m is what the headers hold and *)
(* E the address of heap_end.                                              *)
Header == [used : BOOLEAN, next : Nat, prev : Nat]

Link(m, E, a) ==
  LET n == m[a].next
  IN  /\ n \in DOMAIN m /\ a + H <= n
      /\ \A b \in DOMAIN m : b <= a \/ n <= b
      /\ n # E => m[n].prev = a

BackLink(m, a) ==
  LET p == m[a].prev
  IN  p \in DOMAIN m /\ p < a /\ m[p].next = a

Chain(m, E) ==
  /\ m \in [DOMAIN m -> Header] /\ DOMAIN m \subseteq Nat
  /\ \A a \in DOMAIN m : a <= E /\ a % A = 0
  /\ 0 \in DOMAIN m /\ E \in DOMAIN m /\ 0 < E
  /\ m[E].used /\ m[0].prev = 0
  /\ \A a \in DOMAIN m \ {E} : Link(m, E, a)
  /\ \A a \in DOMAIN m \ {0, E} : BackLink(m, a)

(* The block behind a is made part of a, as both halves of plug_holes do. *)
Merge(m, a) ==
  LET n == m[a].next
  IN  Without([m EXCEPT ![a].next = m[n].next, ![m[n].next].prev = a], n)

(* What that leaves in r of the headers in m. *)
Merged(m, E, a, r) ==
  LET n == m[a].next
      k == m[n].next
  IN  /\ n \in DOMAIN m \ {0, E} /\ a < n /\ k \in DOMAIN m /\ n < k
      /\ DOMAIN r = DOMAIN m \ {n} /\ r \in [DOMAIN r -> Header]
      /\ \A x \in DOMAIN r :
           /\ r[x].used = m[x].used
           /\ r[x].next = IF x = a THEN k ELSE m[x].next
           /\ r[x].prev = IF x = k THEN a ELSE m[x].prev

LEMMA MergeFields ==
  ASSUME NEW m, NEW E, Chain(m, E), NEW a \in DOMAIN m \ {E}, m[a].next # E
  PROVE  Merged(m, E, a, Merge(m, a))
<1> DEFINE n == m[a].next
           k == m[n].next
           f == [m EXCEPT ![a].next = k, ![k].prev = a]
           r == Merge(m, a)
<1>1. a \in Nat /\ n \in Nat /\ H \in Nat /\ H >= 1
  BY HeaderSize DEF Chain, Link
<1>2. n \in DOMAIN m \ {0, E} /\ a < n
  BY <1>1 DEF Chain, Link
<1>3. k \in DOMAIN m /\ k \in Nat /\ n < k
  BY <1>1, <1>2 DEF Chain, Link
<1>4. /\ f \in [DOMAIN m -> Header]
      /\ \A x \in DOMAIN m :
           /\ f[x].used = m[x].used
           /\ f[x].next = IF x = a THEN k ELSE m[x].next
           /\ f[x].prev = IF x = k THEN a ELSE m[x].prev
  <2>1. m \in [DOMAIN m -> Header] /\ a \in DOMAIN m /\ a # k
    BY <1>1, <1>2, <1>3 DEF Chain
  <2> HIDE DEF n, k
  <2> QED
    BY <1>1, <1>3, <2>1 DEF Header
<1>5. r = [x \in DOMAIN m \ {n} |-> f[x]]
  <2>1. DOMAIN f = DOMAIN m
    BY <1>4
  <2> QED
    BY <2>1 DEF Merge, Without
<1> HIDE DEF f, r, k
<1>6. DOMAIN r = DOMAIN m \ {n} /\ \A x \in DOMAIN r : r[x] = f[x] /\ f[x] \in Header
  BY <1>4, <1>5
<1> QED
  BY <1>2, <1>3, <1>4, <1>5, <1>6 DEF Merged, r, k

LEMMA MergeChain ==
  ASSUME NEW m, NEW E, Chain(m, E), NEW a \in DOMAIN m \ {E}, m[a].next # E
  PROVE  Chain(Merge(m, a), E)
<1> DEFINE n == m[a].next
           k == m[n].next
           r == Merge(m, a)
<1>1. /\ n \in DOMAIN m \ {0, E} /\ a < n /\ k \in DOMAIN m /\ n < k
      /\ DOMAIN r = DOMAIN m \ {n} /\ r \in [DOMAIN r -> Header]
      /\ \A x \in DOMAIN r :
           /\ r[x].used = m[x].used
           /\ r[x].next = IF x = a THEN k ELSE m[x].next
           /\ r[x].prev = IF x = k THEN a ELSE m[x].prev
  <2>1. Merged(m, E, a, r)
    BY MergeFields
  <2> HIDE DEF r
  <2> QED
    BY <2>1 DEF Merged
<1>2. /\ m \in [DOMAIN m -> Header] /\ DOMAIN m \subseteq Nat
      /\ \A x \in DOMAIN m : x <= E /\ x % A = 0
      /\ 0 \in DOMAIN m /\ E \in DOMAIN m /\ 0 < E
      /\ m[E].used /\ m[0].prev = 0
  BY DEF Chain
<1>3. /\ \A x \in DOMAIN m \ {E} : Link(m, E, x)
      /\ \A x \in DOMAIN m \ {0, E} : BackLink(m, x)
  BY DEF Chain
<1>4. H \in Nat /\ H >= 1
  BY HeaderSize
<1>5. \A b \in DOMAIN m : (b <= a \/ n <= b) /\ (b <= n \/ k <= b)
  BY <1>1, <1>3 DEF Link
<1>6. a + H <= n /\ n + H <= k
  BY <1>1, <1>3 DEF Link
<1> HIDE DEF n, k, r
<1>7. ASSUME NEW x \in DOMAIN r \ {E}
      PROVE  Link(r, E, x)
  <2>1. CASE x = a
    BY <1>1, <1>2, <1>4, <1>5, <1>6, <2>1 DEF Link
  <2>2. CASE x # a
    <3>1. x \in DOMAIN m \ {E} /\ Link(m, E, x) /\ r[x].next = m[x].next
      BY <1>1, <1>3, <2>2
    <3>2. m[x].next # n
      <4>1. x <= a \/ n <= x
        BY <1>5, <3>1
      <4>2. a <= x \/ m[x].next <= a
        BY <3>1 DEF Link
      <4> QED
        BY <1>1, <1>2, <1>4, <2>2, <3>1, <4>1, <4>2 DEF Link
    <3>3. m[x].next # k
      BY <1>1, <1>2, <1>4, <1>5, <3>1, <3>2 DEF Link
    <3> QED
      BY <1>1, <3>1, <3>2, <3>3 DEF Link
  <2> QED
    BY <2>1, <2>2
<1>8. ASSUME NEW x \in DOMAIN r \ {0, E}
      PROVE  BackLink(r, x)
  <2>1. x \in DOMAIN m \ {0, E} /\ BackLink(m, x)
    BY <1>1, <1>3
  <2>2. CASE x = k
    BY <1>1, <1>2, <2>2 DEF BackLink
  <2>3. CASE x # k
    <3>1. r[x].prev = m[x].prev
      BY <1>1, <2>3
    <3>2. m[x].prev # n
      BY <2>1, <2>3 DEF BackLink, k
    <3>3. m[x].prev # a
      BY <1>1, <2>1 DEF BackLink, n
    <3> QED
      BY <1>1, <2>1, <3>1, <3>2, <3>3 DEF BackLink
  <2> QED
    BY <2>2, <2>3
<1> QED
  BY <1>1, <1>2, <1>7, <1>8 DEF Chain, r

(* A free block is cut off the end of a, as Split does. *)
Insert(m, E, a, b) ==
  LET n == m[a].next
      m2 == With([m EXCEPT ![a].next = b], b, [used |-> FALSE, next |-> n, prev |-> a])
  IN  IF n # E THEN [m2 EXCEPT ![n].prev = b] ELSE m2

Inserted(m, E, a, b, r) ==
  LET n == m[a].next
  IN  /\ b \notin DOMAIN m /\ a < b /\ b < n /\ n \in DOMAIN m
      /\ DOMAIN r = DOMAIN m \cup {b} /\ r \in [DOMAIN r -> Header]
      /\ ~r[b].used /\ r[b].next = n /\ r[b].prev = a
      /\ \A x \in DOMAIN m :
           /\ r[x].used = m[x].used
           /\ r[x].next = IF x = a THEN b ELSE m[x].next
           /\ r[x].prev = IF x = n /\ n # E THEN b ELSE m[x].prev

LEMMA InsertFields ==
  ASSUME NEW m, NEW E, Chain(m, E), NEW a \in DOMAIN m \ {E},
         NEW b \in Nat, a + H <= b, b + H <= m[a].next
  PROVE  Inserted(m, E, a, b, Insert(m, E, a, b))
<1> DEFINE n == m[a].next
           f == [m EXCEPT ![a].next = b]
           g == With(f, b, [used |-> FALSE, next |-> n, prev |-> a])
           r == Insert(m, E, a, b)
<1>1. a \in Nat /\ H \in Nat /\ H >= 1 /\ m \in [DOMAIN m -> Header] /\ n \in Nat
  BY HeaderSize DEF Chain, Link
<1>2. n \in DOMAIN m /\ \A x \in DOMAIN m : x \in Nat /\ (x <= a \/ n <= x)
  BY DEF Chain, Link
<1>3. b \notin DOMAIN m /\ a < b /\ b < n
  BY <1>1, <1>2
<1>4. /\ f \in [DOMAIN m -> Header]
      /\ \A x \in DOMAIN m : /\ f[x].used = m[x].used /\ f[x].prev = m[x].prev
                             /\ f[x].next = IF x = a THEN b ELSE m[x].next
  BY <1>1 DEF Header
<1> HIDE DEF n
<1>5. g = [x \in DOMAIN m \cup {b} |->
             IF x = b THEN [used |-> FALSE, next |-> n, prev |-> a] ELSE f[x]]
  BY <1>4 DEF With
<1> HIDE DEF f, g
<1>6. /\ g \in [DOMAIN m \cup {b} -> Header]
      /\ g[b] = [used |-> FALSE, next |-> n, prev |-> a]
      /\ \A x \in DOMAIN m : g[x] = f[x]
  BY <1>1, <1>3, <1>4, <1>5 DEF Header
<1>7. r = IF n # E THEN [g EXCEPT ![n].prev = b] ELSE g
  BY DEF Insert, n, f, g
<1> HIDE DEF r
<1>8. r \in [DOMAIN m \cup {b} -> Header]
  BY <1>1, <1>2, <1>6, <1>7 DEF Header
<1>9. ~r[b].used /\ r[b].next = n /\ r[b].prev = a
  BY <1>2, <1>3, <1>6, <1>7
<1>10. ASSUME NEW x \in DOMAIN m
       PROVE  /\ r[x].used = m[x].used
              /\ r[x].next = IF x = a THEN b ELSE m[x].next
              /\ r[x].prev = IF x = n /\ n # E THEN b ELSE m[x].prev
  <2>1. g[x] = f[x] /\ g[x] \in Header
    BY <1>6
  <2>2. /\ r[x].used = g[x].used /\ r[x].next = g[x].next
        /\ r[x].prev = IF x = n /\ n # E THEN b ELSE g[x].prev
    BY <1>2, <1>6, <1>7, <2>1 DEF Header
  <2> QED
    BY <1>4, <2>1, <2>2
<1> QED
  BY <1>2, <1>3, <1>8, <1>9, <1>10 DEF Inserted, n, r

LEMMA InsertChain ==
  ASSUME NEW m, NEW E, Chain(m, E), NEW a \in DOMAIN m \ {E},
         NEW b \in Nat, a + H <= b, b + H <= m[a].next, b % A = 0
  PROVE  Chain(Insert(m, E, a, b), E)
<1> DEFINE n == m[a].next
           r == Insert(m, E, a, b)
<1>1. /\ b \notin DOMAIN m /\ a < b /\ b < n /\ n \in DOMAIN m
      /\ DOMAIN r = DOMAIN m \cup {b} /\ r \in [DOMAIN r -> Header]
      /\ ~r[b].used /\ r[b].next = n /\ r[b].prev = a
      /\ \A x \in DOMAIN m :
           /\ r[x].used = m[x].used
           /\ r[x].next = IF x = a THEN b ELSE m[x].next
           /\ r[x].prev = IF x = n /\ n # E THEN b ELSE m[x].prev
  <2>1. Inserted(m, E, a, b, r)
    BY InsertFields
  <2> HIDE DEF r
  <2> QED
    BY <2>1 DEF Inserted
<1>2. /\ m \in [DOMAIN m -> Header] /\ DOMAIN m \subseteq Nat
      /\ \A x \in DOMAIN m : x <= E /\ x % A = 0
      /\ 0 \in DOMAIN m /\ E \in DOMAIN m /\ 0 < E
      /\ m[E].used /\ m[0].prev = 0
  BY DEF Chain
<1>3. /\ \A x \in DOMAIN m \ {E} : Link(m, E, x)
      /\ \A x \in DOMAIN m \ {0, E} : BackLink(m, x)
  BY DEF Chain
<1>4. H \in Nat /\ H >= 1
  BY HeaderSize
<1>5. \A x \in DOMAIN m : x <= a \/ n <= x
  BY <1>3 DEF Link
<1> HIDE DEF r
<1>6. ASSUME NEW x \in DOMAIN r \ {E}
      PROVE  Link(r, E, x)
  <2>1. CASE x = a
    BY <1>1, <1>2, <1>5, <2>1 DEF Link
  <2>2. CASE x = b
    BY <1>1, <1>2, <1>5, <2>2 DEF Link
  <2>3. CASE x # a /\ x # b
    <3>1. x \in DOMAIN m \ {E} /\ Link(m, E, x) /\ r[x].next = m[x].next
      BY <1>1, <1>3, <2>3
    <3>2. x <= a \/ n <= x
      BY <1>5, <3>1
    <3>3. m[x].next <= a \/ a <= x
      BY <3>1 DEF Link
    <3>4. m[x].next # n /\ (b <= x \/ m[x].next <= b)
      BY <1>1, <1>2, <1>4, <2>3, <3>1, <3>2, <3>3 DEF Link
    <3> QED
      BY <1>1, <3>1, <3>4 DEF Link
  <2> QED
    BY <2>1, <2>2, <2>3
<1>7. ASSUME NEW x \in DOMAIN r \ {0, E}
      PROVE  BackLink(r, x)
  <2>1. CASE x = b
    BY <1>1, <2>1 DEF BackLink
  <2>2. CASE x # b
    <3>1. x \in DOMAIN m \ {0, E} /\ BackLink(m, x)
      BY <1>1, <1>3, <2>2
    <3>2. CASE x = n
      BY <1>1, <1>2, <3>1, <3>2 DEF BackLink
    <3>3. CASE x # n
      <4>1. r[x].prev = m[x].prev /\ m[x].prev # a
        BY <1>1, <3>1, <3>3 DEF BackLink
      <4> QED
        BY <1>1, <3>1, <4>1 DEF BackLink
    <3> QED
      BY <3>2, <3>3
  <2> QED
    BY <2>1, <2>2
<1> QED
  BY <1>1, <1>2, <1>6, <1>7 DEF Chain, r

(* Marking a block changes no link. *)
Marked(m, a, x, r) ==
  /\ DOMAIN r = DOMAIN m
  /\ \A y \in DOMAIN m : /\ r[y].used = IF y = a THEN x ELSE m[y].used
                         /\ r[y].next = m[y].next /\ r[y].prev = m[y].prev

LEMMA MarkChain ==
  ASSUME NEW m, NEW E, Chain(m, E), NEW a \in DOMAIN m \ {E}, NEW x \in BOOLEAN
  PROVE  Chain([m EXCEPT ![a].used = x], E) /\ Marked(m, a, x, [m EXCEPT ![a].used = x])
<1> DEFINE r == [m EXCEPT ![a].used = x]
<1>1. m \in [DOMAIN m -> Header]
  BY DEF Chain
<1>2. /\ DOMAIN r = DOMAIN m /\ r \in [DOMAIN m -> Header]
      /\ \A y \in DOMAIN m : /\ r[y].used = IF y = a THEN x ELSE m[y].used
                             /\ r[y].next = m[y].next /\ r[y].prev = m[y].prev
  BY <1>1 DEF Header
<1> HIDE DEF r
<1>3. \A y \in DOMAIN m \ {E} : Link(r, E, y)
  BY <1>2 DEF Chain, Link
<1>4. \A y \in DOMAIN m \ {0, E} : BackLink(r, y)
  BY <1>2 DEF Chain, BackLink
<1>5. Chain(r, E)
  BY <1>2, <1>3, <1>4 DEF Chain
<1> QED
  BY <1>2, <1>5 DEF Marked, r

-----------------------------------------------------------------------------
(* The blocks of a chain, and the books: what the blocks in use and the    *)
(* free blocks occupy makes up the heap.                                   *)
FreeIn(m) == {x \in DOMAIN m : ~m[x].used}
UsedIn(m, E) == {x \in DOMAIN m \ {E} : m[x].used}
Ext(m) == [x \in DOMAIN m |-> m[x].next - x]

Book(m, E, u) ==
  /\ u \in Nat /\ u = Sum(Ext(m), UsedIn(m, E))
  /\ E = u + Sum(Ext(m), FreeIn(m))

LEMMA ChainFinite ==
  ASSUME NEW m, NEW E, Chain(m, E)
  PROVE  /\ E \in Nat /\ IsFiniteSet(DOMAIN m)
         /\ IsFiniteSet(FreeIn(m)) /\ IsFiniteSet(UsedIn(m, E)) /\ E \notin FreeIn(m)
         /\ FreeIn(m) \cup UsedIn(m, E) = DOMAIN m \ {E}
         /\ \A x \in DOMAIN m \ {E} : Ext(m)[x] \in Nat /\ Ext(m)[x] = m[x].next - x
<1>1. E \in Nat /\ DOMAIN m \in SUBSET Nat /\ \A x \in DOMAIN m : x <= E
  BY DEF Chain
<1>2. IsFiniteSet(DOMAIN m)
  BY <1>1, FS_BoundedSetOfNaturals
<1>3. FreeIn(m) \in SUBSET (DOMAIN m) /\ UsedIn(m, E) \in SUBSET (DOMAIN m)
  BY DEF FreeIn, UsedIn
<1>4. IsFiniteSet(FreeIn(m)) /\ IsFiniteSet(UsedIn(m, E))
  BY <1>2, <1>3, FS_Subset
<1>5. E \notin FreeIn(m) /\ FreeIn(m) \cup UsedIn(m, E) = DOMAIN m \ {E}
  BY DEF FreeIn, UsedIn, Chain
<1>6. ASSUME NEW x \in DOMAIN m \ {E}
      PROVE  Ext(m)[x] \in Nat /\ Ext(m)[x] = m[x].next - x
  <2>1. x \in Nat /\ m[x].next \in Nat /\ x + H <= m[x].next /\ H \in Nat
    BY HeaderSize DEF Chain, Link
  <2> QED
    BY <2>1 DEF Ext
<1> QED
  BY <1>1, <1>2, <1>4, <1>5, <1>6

LEMMA BookBound ==
  ASSUME NEW m, NEW E, Chain(m, E), NEW u, Book(m, E, u)
  PROVE  u \in Nat /\ u <= E /\ \A x \in UsedIn(m, E) : m[x].next - x <= u
<1>1. Sum(Ext(m), FreeIn(m)) \in Nat
  BY ChainFinite, SumNat
<1>2. ASSUME NEW x \in UsedIn(m, E)
      PROVE  m[x].next - x <= u
  <2>1. \A y \in UsedIn(m, E) : Ext(m)[y] \in Nat /\ Ext(m)[y] = m[y].next - y
    BY ChainFinite
  <2>2. Sum(Ext(m), UsedIn(m, E)) = Ext(m)[x] + Sum(Ext(m), UsedIn(m, E) \ {x})
    BY <2>1, ChainFinite, SumTake
  <2>3. IsFiniteSet(UsedIn(m, E) \ {x})
    BY ChainFinite, FS_RemoveElement
  <2>4. Sum(Ext(m), UsedIn(m, E) \ {x}) \in Nat
    BY <2>1, <2>3, SumNat
  <2> QED
    BY <2>1, <2>2, <2>4 DEF Book
<1> QED
  BY <1>1, <1>2, ChainFinite DEF Book

(* Two free blocks become one. *)
LEMMA MergeBook ==
  ASSUME NEW m, NEW E, Chain(m, E), NEW a \in FreeIn(m), m[a].next \in FreeIn(m),
         NEW u, Book(m, E, u)
  PROVE  /\ Book(Merge(m, a), E, u)
         /\ UsedIn(Merge(m, a), E) = UsedIn(m, E)
         /\ FreeIn(Merge(m, a)) = FreeIn(m) \ {m[a].next}
<1> DEFINE n == m[a].next
           r == Merge(m, a)
           F == FreeIn(m)
           U == UsedIn(m, E)
<1>1. a \in DOMAIN m \ {E} /\ n # E
  BY DEF Chain, FreeIn
<1>2. Merged(m, E, a, r) /\ Chain(r, E)
  BY <1>1, MergeFields, MergeChain
<1> HIDE DEF r
<1>3. FreeIn(r) = F \ {n} /\ UsedIn(r, E) = U
  BY <1>2 DEF Merged, FreeIn, UsedIn
<1>4. /\ \A x \in U : Ext(r)[x] = Ext(m)[x]
      /\ \A x \in (F \ {n}) \ {a} : Ext(r)[x] = Ext(m)[x]
  BY <1>2 DEF Merged, FreeIn, UsedIn, Ext
<1>5. /\ IsFiniteSet(F) /\ IsFiniteSet(U) /\ IsFiniteSet(F \ {n}) /\ IsFiniteSet((F \ {n}) \ {a})
  BY ChainFinite, FS_RemoveElement
<1>6. /\ \A x \in F : Ext(m)[x] \in Nat
      /\ \A x \in F \ {n} : Ext(r)[x] \in Nat
  BY <1>2, <1>3, ChainFinite
<1>7. Sum(Ext(r), U) = Sum(Ext(m), U)
  BY <1>4, <1>5, SumSame
<1>8. a \in F \ {n} /\ n \in F
  BY <1>2 DEF Merged, Chain
<1> DEFINE R == Sum(Ext(m), (F \ {n}) \ {a})
<1>9. Sum(Ext(m), F) = Ext(m)[n] + Sum(Ext(m), F \ {n})
  BY <1>5, <1>6, <1>8, SumTake
<1>10. Sum(Ext(m), F \ {n}) = Ext(m)[a] + R
  BY <1>5, <1>6, <1>8, SumTake
<1>11. Sum(Ext(r), F \ {n}) = Ext(r)[a] + R
  <2>1. Sum(Ext(r), F \ {n}) = Ext(r)[a] + Sum(Ext(r), (F \ {n}) \ {a})
    BY <1>5, <1>6, <1>8, SumTake
  <2>2. Sum(Ext(r), (F \ {n}) \ {a}) = R
    BY <1>4, <1>5, SumSame
  <2> QED
    BY <2>1, <2>2
<1>12. R \in Nat
  BY <1>5, <1>6, SumNat
<1> HIDE DEF R
<1>13. Ext(r)[a] = Ext(m)[a] + Ext(m)[n]
  <2>1. n \in DOMAIN m /\ a \in DOMAIN r /\ a \in Nat /\ n \in Nat /\ m[n].next \in Nat
    BY <1>1, <1>2, <1>8 DEF Merged, Chain, FreeIn
  <2>2. Ext(r)[a] = m[n].next - a /\ Ext(m)[a] = n - a /\ Ext(m)[n] = m[n].next - n
    BY <1>1, <1>2, <2>1 DEF Merged, Ext
  <2> QED
    BY <2>1, <2>2
<1>14. Sum(Ext(r), F \ {n}) = Sum(Ext(m), F)
  BY <1>6, <1>8, <1>9, <1>10, <1>11, <1>12, <1>13
<1>15. Book(r, E, u)
  BY <1>3, <1>7, <1>14 DEF Book
<1> QED
  BY <1>3, <1>15 DEF r

(* A free block is cut off a block: one that is free, or one in use, which *)
(* then occupies less.                                                     *)
LEMMA InsertBook ==
  ASSUME NEW m, NEW E, Chain(m, E), NEW a \in DOMAIN m \ {E}, NEW b \in Nat,
         a + H <= b, b + H <= m[a].next, b % A = 0, NEW u, Book(m, E, u)
  PROVE  /\ Book(Insert(m, E, a, b), E, IF m[a].used THEN u - (m[a].next - b) ELSE u)
         /\ UsedIn(Insert(m, E, a, b), E) = UsedIn(m, E)
         /\ FreeIn(Insert(m, E, a, b)) = FreeIn(m) \cup {b}
<1> DEFINE n == m[a].next
           r == Insert(m, E, a, b)
           F == FreeIn(m)
           U == UsedIn(m, E)
<1>1. Inserted(m, E, a, b, r) /\ Chain(r, E)
  BY InsertFields, InsertChain
<1> HIDE DEF r
<1>2. FreeIn(r) = F \cup {b} /\ UsedIn(r, E) = U /\ b \notin F
  <2>1. b # E
    BY <1>1 DEF Inserted, Chain
  <2> QED
    BY <1>1, <2>1 DEF Inserted, FreeIn, UsedIn
<1>3. /\ \A x \in DOMAIN m \ {a} : Ext(r)[x] = Ext(m)[x]
  BY <1>1 DEF Inserted, Ext
<1>4. IsFiniteSet(F) /\ IsFiniteSet(U) /\ IsFiniteSet(F \ {a}) /\ IsFiniteSet(U \ {a})
  BY ChainFinite, FS_RemoveElement
<1>5. /\ \A x \in F \cup U : Ext(m)[x] \in Nat
      /\ \A x \in F \cup {b} \cup U : Ext(r)[x] \in Nat
  BY <1>1, <1>2, ChainFinite
<1>6. Sum(Ext(r), F \cup {b}) = Ext(r)[b] + Sum(Ext(r), F)
  BY <1>2, <1>4, <1>5, SumAdd
<1>7. /\ a \in Nat /\ n \in Nat
      /\ Ext(r)[b] = n - b /\ Ext(r)[a] = b - a /\ Ext(m)[a] = n - a
  BY <1>1 DEF Inserted, Chain, Link, Ext
<1>8. /\ F \ {a} \subseteq DOMAIN m \ {a} /\ U \ {a} \subseteq DOMAIN m \ {a}
  BY DEF FreeIn, UsedIn
<1>9. /\ Sum(Ext(r), F \ {a}) = Sum(Ext(m), F \ {a}) /\ Sum(Ext(m), F \ {a}) \in Nat
      /\ Sum(Ext(r), U \ {a}) = Sum(Ext(m), U \ {a}) /\ Sum(Ext(m), U \ {a}) \in Nat
  BY <1>3, <1>4, <1>5, <1>8, SumSame, SumNat
<1>10. CASE m[a].used
  <2>1. a \in U /\ F \ {a} = F
    BY <1>10 DEF FreeIn, UsedIn
  <2>2. Sum(Ext(m), U) = Ext(m)[a] + Sum(Ext(m), U \ {a})
    BY <1>4, <1>5, <2>1, SumTake
  <2>3. Sum(Ext(r), U) = Ext(r)[a] + Sum(Ext(r), U \ {a})
    BY <1>4, <1>5, <2>1, SumTake
  <2>4. Book(r, E, u - (n - b))
    <3>1. u = (n - a) + Sum(Ext(m), U \ {a}) /\ E = u + Sum(Ext(m), F)
      BY <1>7, <2>2 DEF Book
    <3>2. Sum(Ext(r), U) = (b - a) + Sum(Ext(m), U \ {a})
      BY <1>7, <1>9, <2>3
    <3>3. Sum(Ext(r), F \cup {b}) = (n - b) + Sum(Ext(m), F)
      BY <1>6, <1>7, <1>9, <2>1
    <3>4. a <= b /\ b <= n
      BY <1>1, <1>7 DEF Inserted
    <3>5. Sum(Ext(m), U \ {a}) \in Nat /\ Sum(Ext(m), F) \in Nat
      BY <1>9, <2>1
    <3>6. u - (n - b) = Sum(Ext(r), U) /\ u - (n - b) \in Nat
      BY <1>7, <3>1, <3>2, <3>4, <3>5
    <3>7. E = (u - (n - b)) + Sum(Ext(r), F \cup {b})
      BY <1>7, <3>1, <3>3, <3>4, <3>5
    <3> QED
      BY <1>2, <3>6, <3>7 DEF Book
  <2> QED
    BY <1>2, <1>10, <2>4 DEF r
<1>11. CASE ~m[a].used
  <2>1. a \in F /\ U \ {a} = U
    BY <1>11 DEF FreeIn, UsedIn
  <2>2. Sum(Ext(m), F) = Ext(m)[a] + Sum(Ext(m), F \ {a})
    BY <1>4, <1>5, <2>1, SumTake
  <2>3. Sum(Ext(r), F) = Ext(r)[a] + Sum(Ext(r), F \ {a})
    BY <1>4, <1>5, <2>1, SumTake
  <2>4. Sum(Ext(r), F \cup {b}) = Sum(Ext(m), F)
    BY <1>6, <1>7, <1>9, <2>2, <2>3
  <2>5. Book(r, E, u)
    BY <1>2, <1>9, <2>1, <2>4 DEF Book
  <2> QED
    BY <1>2, <1>11, <2>5 DEF r
<1> QED
  BY <1>10, <1>11

(* A block changes sides. *)
LEMMA MarkBook ==
  ASSUME NEW m, NEW E, Chain(m, E), NEW a \in DOMAIN m \ {E}, NEW u, Book(m, E, u)
  PROVE  /\ ~m[a].used =>
              LET r == [m EXCEPT ![a].used = TRUE]
              IN  /\ Book(r, E, u + (m[a].next - a))
                  /\ UsedIn(r, E) = UsedIn(m, E) \cup {a} /\ FreeIn(r) = FreeIn(m) \ {a}
         /\ m[a].used =>
              LET r == [m EXCEPT ![a].used = FALSE]
              IN  /\ Book(r, E, u - (m[a].next - a))
                  /\ UsedIn(r, E) = UsedIn(m, E) \ {a} /\ FreeIn(r) = FreeIn(m) \cup {a}
<1> DEFINE F == FreeIn(m)
           U == UsedIn(m, E)
           w == m[a].next - a
<1>1. IsFiniteSet(F) /\ IsFiniteSet(U) /\ IsFiniteSet(F \ {a}) /\ IsFiniteSet(U \ {a})
  BY ChainFinite, FS_RemoveElement
<1>2. w \in Nat /\ Ext(m)[a] = w
  BY ChainFinite
<1>3. \A x \in F \cup U : Ext(m)[x] \in Nat
  BY ChainFinite
<1> HIDE DEF w
<1>4. ASSUME NEW x \in BOOLEAN, NEW r, Marked(m, a, x, r), Chain(r, E)
      PROVE  /\ \A y \in DOMAIN m : Ext(r)[y] = Ext(m)[y]
             /\ x => UsedIn(r, E) = U \cup {a} /\ FreeIn(r) = F \ {a}
             /\ ~x => UsedIn(r, E) = U \ {a} /\ FreeIn(r) = F \cup {a}
             /\ Sum(Ext(r), UsedIn(r, E)) = Sum(Ext(m), UsedIn(r, E))
             /\ Sum(Ext(r), FreeIn(r)) = Sum(Ext(m), FreeIn(r))
  <2>1. \A y \in DOMAIN m : Ext(r)[y] = Ext(m)[y]
    BY <1>4 DEF Marked, Ext
  <2>2. /\ x => UsedIn(r, E) = U \cup {a} /\ FreeIn(r) = F \ {a}
        /\ ~x => UsedIn(r, E) = U \ {a} /\ FreeIn(r) = F \cup {a}
    BY <1>4 DEF Marked, UsedIn, FreeIn
  <2>3. /\ IsFiniteSet(UsedIn(r, E)) /\ IsFiniteSet(FreeIn(r))
        /\ UsedIn(r, E) \subseteq DOMAIN m /\ FreeIn(r) \subseteq DOMAIN m
    BY <1>4, ChainFinite DEF Marked, UsedIn, FreeIn
  <2> QED
    BY <2>1, <2>2, <2>3, SumSame
<1>5. CASE ~m[a].used
  <2> DEFINE r == [m EXCEPT ![a].used = TRUE]
  <2>1. Marked(m, a, TRUE, r) /\ Chain(r, E)
    BY MarkChain
  <2> HIDE DEF r
  <2>2. a \in F /\ a \notin U
    BY <1>5 DEF FreeIn, UsedIn
  <2>3. UsedIn(r, E) = U \cup {a} /\ FreeIn(r) = F \ {a}
    BY <1>4, <2>1
  <2>4. Sum(Ext(r), U \cup {a}) = Sum(Ext(m), U \cup {a})
        /\ Sum(Ext(r), F \ {a}) = Sum(Ext(m), F \ {a})
    BY <1>4, <2>1, <2>3
  <2>5. Sum(Ext(m), U \cup {a}) = w + Sum(Ext(m), U)
    BY <1>1, <1>2, <1>3, <2>2, SumAdd
  <2>6. Sum(Ext(m), F) = w + Sum(Ext(m), F \ {a}) /\ Sum(Ext(m), F \ {a}) \in Nat
    BY <1>1, <1>2, <1>3, <2>2, SumTake, SumNat
  <2>7. Book(r, E, u + w)
    <3> DEFINE x == Sum(Ext(m), U)
               y == Sum(Ext(m), F)
               z == Sum(Ext(m), F \ {a})
    <3>1. u \in Nat /\ u = x /\ E = u + y
      BY DEF Book
    <3>2. Sum(Ext(r), UsedIn(r, E)) = w + x /\ y = w + z /\ z \in Nat
      BY <2>3, <2>4, <2>5, <2>6
    <3>3. Sum(Ext(r), FreeIn(r)) = z
      BY <2>3, <2>4
    <3> HIDE DEF x, y, z
    <3>4. u + w \in Nat /\ u + w = w + x /\ E = (u + w) + z
      BY <1>2, <3>1, <3>2
    <3> QED
      BY <3>2, <3>3, <3>4 DEF Book
  <2> QED
    BY <1>5, <2>3, <2>7 DEF r, w
<1>6. CASE m[a].used
  <2> DEFINE r == [m EXCEPT ![a].used = FALSE]
  <2>1. Marked(m, a, FALSE, r) /\ Chain(r, E)
    BY MarkChain
  <2> HIDE DEF r
  <2>2. a \in U /\ a \notin F
    BY <1>6 DEF FreeIn, UsedIn
  <2>3. UsedIn(r, E) = U \ {a} /\ FreeIn(r) = F \cup {a}
    BY <1>4, <2>1
  <2>4. Sum(Ext(r), U \ {a}) = Sum(Ext(m), U \ {a})
        /\ Sum(Ext(r), F \cup {a}) = Sum(Ext(m), F \cup {a})
    BY <1>4, <2>1, <2>3
  <2>5. Sum(Ext(m), F \cup {a}) = w + Sum(Ext(m), F)
    BY <1>1, <1>2, <1>3, <2>2, SumAdd
  <2>6. /\ Sum(Ext(m), U) = w + Sum(Ext(m), U \ {a}) /\ Sum(Ext(m), U \ {a}) \in Nat
        /\ Sum(Ext(m), F) \in Nat
    BY <1>1, <1>2, <1>3, <2>2, SumTake, SumNat
  <2>7. Book(r, E, u - w)
    <3>1. u = Sum(Ext(m), U) /\ E = u + Sum(Ext(m), F)
      BY DEF Book
    <3> HIDE DEF U, F
    <3>2. u - w = Sum(Ext(m), U \ {a}) /\ u - w \in Nat
      BY <1>2, <2>6, <3>1
    <3>3. E = (u - w) + Sum(Ext(m), F \cup {a})
      BY <1>2, <2>5, <2>6, <3>1
    <3> QED
      BY <2>3, <2>4, <3>2, <3>3 DEF Book
  <2> QED
    BY <1>6, <2>3, <2>7 DEF r, w
<1> QED
  BY <1>5, <1>6

-----------------------------------------------------------------------------
(* A heap that is whole but for free neighbours. *)
Heap(m, l, u, x, z) ==
  [mem |-> m, lfree |-> l, used_mem |-> u, max_mem |-> x, mem_size_aligned |-> z]

Lowest(m, E, l) ==
  l \in FreeIn(m) \cup {E} /\ \A x \in FreeIn(m) : l <= x

Sound(s) ==
  LET E == HeapEnd(s)
  IN  /\ s = Heap(s.mem, s.lfree, s.used_mem, s.max_mem, s.mem_size_aligned)
      /\ s.mem_size_aligned \in Nat /\ E + H < SizeWrap
      /\ Chain(s.mem, E) /\ Lowest(s.mem, E, s.lfree) /\ Book(s.mem, E, s.used_mem)
      /\ s.max_mem \in Nat /\ s.used_mem <= s.max_mem /\ s.max_mem <= E

(* The free blocks side by side are none, some before a, or some at a. *)
Pair(m, E, x) == x \in FreeIn(m) \ {E} /\ m[x].next \in FreeIn(m)
Apart(m, E) == \A x \in DOMAIN m : ~Pair(m, E, x)
Before(m, E, a) == \A x \in DOMAIN m : Pair(m, E, x) => m[x].next = a
Near(m, E, a) == \A x \in DOMAIN m : Pair(m, E, x) => x = a \/ m[x].next = a

(* The callers' blocks are as they were. *)
KeepsUsed(s, r) ==
  /\ r.mem_size_aligned = s.mem_size_aligned
  /\ UsedIn(r.mem, HeapEnd(s)) = UsedIn(s.mem, HeapEnd(s))
  /\ \A x \in UsedIn(s.mem, HeapEnd(s)) : r.mem[x].next = s.mem[x].next

(* The two halves of plug_holes merge, and move lfree where they must. *)
LEMMA MergeSound ==
  ASSUME NEW s, Sound(s), NEW a \in FreeIn(s.mem), s.mem[a].next \in FreeIn(s.mem),
         NEW r, r = Heap(Merge(s.mem, a),
                         IF s.lfree = s.mem[a].next THEN a ELSE s.lfree,
                         s.used_mem, s.max_mem, s.mem_size_aligned)
  PROVE  Sound(r) /\ KeepsUsed(s, r)
<1> DEFINE E == HeapEnd(s)
           m == s.mem
           n == m[a].next
<1>1. /\ r.mem = Merge(m, a) /\ r.used_mem = s.used_mem /\ r.max_mem = s.max_mem
      /\ r.mem_size_aligned = s.mem_size_aligned
      /\ r.lfree = IF s.lfree = n THEN a ELSE s.lfree
      /\ r = Heap(r.mem, r.lfree, r.used_mem, r.max_mem, r.mem_size_aligned)
  BY DEF Heap
<1>2. HeapEnd(r) = E
  BY <1>1 DEF HeapEnd
<1>3. Chain(m, E) /\ Book(m, E, s.used_mem) /\ Lowest(m, E, s.lfree)
  BY DEF Sound
<1>4. a \in DOMAIN m \ {E} /\ n # E
  BY <1>3 DEF Chain, FreeIn
<1>5. Chain(r.mem, E) /\ Merged(m, E, a, r.mem)
  BY <1>1, <1>3, <1>4, MergeChain, MergeFields
<1>6. /\ Book(r.mem, E, r.used_mem) /\ UsedIn(r.mem, E) = UsedIn(m, E)
      /\ FreeIn(r.mem) = FreeIn(m) \ {n}
  BY <1>1, <1>3, MergeBook
<1>7. Lowest(r.mem, E, r.lfree)
  <2>1. a \in Nat /\ n \in Nat /\ a < n
    BY <1>3, <1>4, <1>5 DEF Merged, Chain
  <2>2. s.lfree <= a
    BY <1>3 DEF Lowest
  <2>3. s.lfree \in FreeIn(m) \cup {E}
    BY <1>3 DEF Lowest
  <2>4. s.lfree # n
    BY <2>1, <2>2
  <2>5. r.lfree = s.lfree
    BY <1>1, <2>4
  <2> QED
    BY <1>3, <1>6, <2>3, <2>4, <2>5 DEF Lowest
<1>8. Sound(r)
  BY <1>1, <1>2, <1>5, <1>6, <1>7 DEF Sound
<1>9. \A x \in UsedIn(m, E) : r.mem[x].next = m[x].next
  BY <1>5, <1>6 DEF Merged, UsedIn, FreeIn
<1> QED
  BY <1>1, <1>6, <1>8, <1>9 DEF KeepsUsed

LEMMA PlugForwardSound ==
  ASSUME NEW s, Sound(s), NEW a \in FreeIn(s.mem), Near(s.mem, HeapEnd(s), a)
  PROVE  LET r == PlugForward(s, a)
         IN  /\ Sound(r) /\ KeepsUsed(s, r)
             /\ a \in FreeIn(r.mem) /\ Before(r.mem, HeapEnd(s), a)
<1> DEFINE E == HeapEnd(s)
           m == s.mem
           n == m[a].next
           r == PlugForward(s, a)
<1>1. Chain(m, E) /\ s = Heap(m, s.lfree, s.used_mem, s.max_mem, s.mem_size_aligned)
  BY DEF Sound
<1>2. a \in DOMAIN m \ {E} /\ n \in DOMAIN m /\ n # a
  <2>1. a \in DOMAIN m \ {E}
    BY <1>1 DEF Chain, FreeIn
  <2>2. Link(m, E, a) /\ a \in Nat
    BY <1>1, <2>1 DEF Chain
  <2> QED
    BY <2>1, <2>2, HeaderSize DEF Link
<1>3. CASE n \in FreeIn(m)
  <2>1. n # E
    BY <1>1, <1>3 DEF Chain, FreeIn
  <2>2. r = Heap(Merge(m, a), IF s.lfree = n THEN a ELSE s.lfree,
                 s.used_mem, s.max_mem, s.mem_size_aligned)
    <3>1. r = [s EXCEPT !.lfree = IF @ = n THEN a ELSE @, !.mem = Merge(m, a)]
      BY <1>2, <1>3, <2>1 DEF PlugForward, Merge, FreeIn, Used
    <3> HIDE DEF r, n
    <3> QED
      BY <1>1, <3>1 DEF Heap
  <2> HIDE DEF r
  <2>3. Sound(r) /\ KeepsUsed(s, r)
    BY <1>3, <2>2, MergeSound
  <2>4. Merged(m, E, a, r.mem)
    <3>1. r.mem = Merge(m, a)
      BY <2>2 DEF Heap
    <3> QED
      BY <1>1, <1>2, <2>1, <3>1, MergeFields
  <2>5. a \in FreeIn(r.mem)
    BY <1>2, <2>4 DEF Merged, FreeIn
  <2>6. Before(r.mem, E, a)
    <3> SUFFICES ASSUME NEW x \in DOMAIN r.mem, Pair(r.mem, E, x), r.mem[x].next # a
                 PROVE  FALSE
      BY DEF Before
    <3>1. x \in DOMAIN m /\ x # n /\ x # E
      BY <2>4 DEF Merged, Pair
    <3>2. CASE x = a
      <4>1. r.mem[x].next = m[n].next /\ m[n].next \in FreeIn(m)
        BY <2>4, <3>2 DEF Merged, Pair, FreeIn
      <4>2. Pair(m, E, n) /\ n # a /\ m[n].next # a
        BY <1>1, <1>2, <1>3, <2>1, <2>4, <4>1 DEF Merged, Pair, Chain
      <4> QED
        BY <1>2, <4>2 DEF Near
    <3>3. CASE x # a
      <4>1. r.mem[x].next = m[x].next /\ Pair(m, E, x)
        BY <2>4, <3>3 DEF Merged, Pair, FreeIn
      <4> QED
        BY <3>1, <3>3, <4>1 DEF Near
    <3> QED
      BY <3>2, <3>3
  <2> QED
    BY <2>3, <2>5, <2>6 DEF r
<1>4. CASE n \notin FreeIn(m)
  <2>1. r = s
    BY <1>2, <1>4 DEF PlugForward, FreeIn, Used
  <2>2. Before(m, E, a)
    BY <1>4 DEF Before, Near, Pair
  <2>3. KeepsUsed(s, s)
    BY DEF KeepsUsed
  <2> QED
    BY <2>1, <2>2, <2>3
<1> QED
  BY <1>3, <1>4

LEMMA PlugBackwardSound ==
  ASSUME NEW s, Sound(s), NEW a \in FreeIn(s.mem), Before(s.mem, HeapEnd(s), a)
  PROVE  LET r == PlugBackward(s, a)
         IN  Sound(r) /\ KeepsUsed(s, r) /\ Apart(r.mem, HeapEnd(s))
<1> DEFINE E == HeapEnd(s)
           m == s.mem
           p == m[a].prev
           r == PlugBackward(s, a)
<1>1. Chain(m, E) /\ s = Heap(m, s.lfree, s.used_mem, s.max_mem, s.mem_size_aligned)
  BY DEF Sound
<1>2. a \in DOMAIN m \ {E}
  BY <1>1 DEF Chain, FreeIn
<1>3. \A x \in DOMAIN m : m[x].next = a /\ x # E => x = p
  <2> SUFFICES ASSUME NEW x \in DOMAIN m \ {E}, m[x].next = a
               PROVE  x = p
    OBVIOUS
  <2> QED
    BY <1>1, <1>2 DEF Chain, Link
<1>4. CASE p # a /\ ~m[p].used
  <2>1. a # 0
    BY <1>1, <1>4 DEF Chain
  <2>2. p \in FreeIn(m) /\ p \in DOMAIN m \ {E} /\ m[p].next = a /\ p < a
    BY <1>1, <1>2, <1>4, <2>1 DEF Chain, BackLink, FreeIn
  <2>3. r = Heap(Merge(m, p), IF s.lfree = m[p].next THEN p ELSE s.lfree,
                 s.used_mem, s.max_mem, s.mem_size_aligned)
    <3>1. r = [s EXCEPT !.lfree = IF @ = a THEN p ELSE @, !.mem = Merge(m, p)]
      BY <1>4, <2>2 DEF PlugBackward, Merge, Used
    <3> HIDE DEF r, p
    <3> QED
      BY <1>1, <2>2, <3>1 DEF Heap
  <2> HIDE DEF r
  <2>4. Sound(r) /\ KeepsUsed(s, r)
    BY <2>2, <2>3, MergeSound
  <2>5. Merged(m, E, p, r.mem)
    <3>1. r.mem = Merge(m, p)
      BY <2>3 DEF Heap
    <3> QED
      BY <1>1, <1>2, <2>2, <3>1, MergeFields
  <2>6. Apart(r.mem, E)
    <3> SUFFICES ASSUME NEW x \in DOMAIN r.mem, Pair(r.mem, E, x)
                 PROVE  FALSE
      BY DEF Apart
    <3>1. x \in DOMAIN m /\ x # a /\ x # E
      BY <2>2, <2>5 DEF Merged, Pair
    <3>2. CASE x = p
      <4>1. m[a].next \in FreeIn(m)
        BY <2>2, <2>5, <3>2 DEF Merged, Pair, FreeIn
      <4>2. Pair(m, E, a) /\ m[a].next # a
        BY <1>1, <1>2, <2>2, <2>5, <4>1 DEF Merged, Pair, Chain
      <4> QED
        BY <1>2, <4>2 DEF Before
    <3>3. CASE x # p
      <4>1. r.mem[x].next = m[x].next /\ Pair(m, E, x)
        BY <2>5, <3>3 DEF Merged, Pair, FreeIn
      <4> QED
        BY <1>3, <3>1, <3>3, <4>1 DEF Before
    <3> QED
      BY <3>2, <3>3
  <2> QED
    BY <2>4, <2>6 DEF r
<1>5. CASE ~(p # a /\ ~m[p].used)
  <2>1. r = s
    BY <1>5 DEF PlugBackward, Used
  <2>2. Apart(m, E)
    <3> SUFFICES ASSUME NEW x \in DOMAIN m, Pair(m, E, x)
                 PROVE  FALSE
      BY DEF Apart
    <3>1. x # E /\ m[x].next = a /\ ~m[x].used
      BY DEF Before, Pair, FreeIn
    <3>2. x = p
      BY <1>3, <3>1
    <3>3. x # a
      <4>1. Link(m, E, x) /\ x \in Nat
        BY <1>1, <3>1 DEF Chain
      <4> QED
        BY <3>1, <4>1, HeaderSize DEF Link
    <3> QED
      BY <1>5, <3>1, <3>2, <3>3
  <2>3. KeepsUsed(s, s)
    BY DEF KeepsUsed
  <2> QED
    BY <2>1, <2>2, <2>3
<1> QED
  BY <1>4, <1>5

LEMMA PlugSound ==
  ASSUME NEW s, Sound(s), NEW a \in FreeIn(s.mem), Near(s.mem, HeapEnd(s), a)
  PROVE  LET r == plug_holes(s, a)
         IN  Sound(r) /\ KeepsUsed(s, r) /\ Apart(r.mem, HeapEnd(s))
<1> DEFINE f == PlugForward(s, a)
           r == PlugBackward(f, a)
<1>1. /\ Sound(f) /\ KeepsUsed(s, f)
      /\ a \in FreeIn(f.mem) /\ Before(f.mem, HeapEnd(s), a)
  BY PlugForwardSound
<1>2. HeapEnd(f) = HeapEnd(s)
  BY <1>1 DEF KeepsUsed, HeapEnd
<1> HIDE DEF f
<1>3. Sound(r) /\ KeepsUsed(f, r) /\ Apart(r.mem, HeapEnd(s))
  BY <1>1, <1>2, PlugBackwardSound
<1> HIDE DEF r
<1>4. KeepsUsed(s, r)
  BY <1>1, <1>2, <1>3 DEF KeepsUsed
<1> QED
  BY <1>3, <1>4 DEF r, f, plug_holes

-----------------------------------------------------------------------------
Whole(s) == Sound(s) /\ Apart(s.mem, HeapEnd(s))

(* The callers' blocks after a block at a went, or came. *)
Gone(s, a, r) ==
  /\ r.mem_size_aligned = s.mem_size_aligned
  /\ UsedIn(r.mem, HeapEnd(s)) = UsedIn(s.mem, HeapEnd(s)) \ {a}
  /\ \A x \in UsedIn(s.mem, HeapEnd(s)) \ {a} : r.mem[x].next = s.mem[x].next

Came(s, a, size, r) ==
  /\ a \in FreeIn(s.mem)
  /\ r.mem_size_aligned = s.mem_size_aligned
  /\ UsedIn(r.mem, HeapEnd(s)) = UsedIn(s.mem, HeapEnd(s)) \cup {a}
  /\ \A x \in UsedIn(s.mem, HeapEnd(s)) : r.mem[x].next = s.mem[x].next
  /\ DataSize(r, a) >= size

(* The assignments of rt_free and rt_malloc to a heap. *)
Flag(m, a, v) == [m EXCEPT ![a].used = v]

Freed(s, a, v, w) ==
  [s EXCEPT !.mem[a].used = v, !.lfree = IF a < @ THEN a ELSE @, !.used_mem = @ - w]

Taken(s, a, v, w) ==
  [s EXCEPT !.mem[a].used = v, !.used_mem = w, !.max_mem = IF @ < w THEN w ELSE @]

LEMMA HeapFreed ==
  ASSUME NEW m, NEW l, NEW u, NEW x, NEW z, NEW a, NEW v, NEW w
  PROVE  Freed(Heap(m, l, u, x, z), a, v, w)
           = Heap(Flag(m, a, v), IF a < l THEN a ELSE l, u - w, x, z)
<1> DEFINE s == Heap(m, l, u, x, z)
           f == [m EXCEPT ![a].used = v]
           k == IF a < l THEN a ELSE l
<1> HIDE DEF s
<1>1. [s EXCEPT !.mem[a].used = v, !.lfree = IF a < @ THEN a ELSE @, !.used_mem = @ - w]
           = [[[s EXCEPT !.mem[a].used = v] EXCEPT !.lfree = IF a < @ THEN a ELSE @] EXCEPT !.used_mem = @ - w]
  BY Zenon
<1>2. [s EXCEPT !.mem[a].used = v] = Heap(f, l, u, x, z)
  BY DEF Heap, s
<1> HIDE DEF f
<1>3. [Heap(f, l, u, x, z) EXCEPT !.lfree = IF a < @ THEN a ELSE @] = Heap(f, k, u, x, z)
  <2>1. [Heap(f, l, u, x, z) EXCEPT !.lfree = k] = Heap(f, k, u, x, z)
    BY DEF Heap
  <2>2. Heap(f, l, u, x, z).lfree = l
    BY DEF Heap
  <2> QED
    BY <2>1, <2>2, Zenon
<1> HIDE DEF k
<1>4. [Heap(f, k, u, x, z) EXCEPT !.used_mem = @ - w] = Heap(f, k, u - w, x, z)
  <2>1. [Heap(f, k, u, x, z) EXCEPT !.used_mem = u - w] = Heap(f, k, u - w, x, z)
    BY DEF Heap
  <2>2. Heap(f, k, u, x, z).used_mem = u
    BY DEF Heap
  <2> QED
    BY <2>1, <2>2, Zenon
<1> QED
  BY <1>1, <1>2, <1>3, <1>4, Zenon DEF f, k, s, Freed, Taken, Flag

LEMMA HeapTaken ==
  ASSUME NEW m, NEW l, NEW u, NEW x, NEW z, NEW a, NEW v, NEW w
  PROVE  Taken(Heap(m, l, u, x, z), a, v, w)
           = Heap(Flag(m, a, v), l, w, IF x < w THEN w ELSE x, z)
<1> DEFINE s == Heap(m, l, u, x, z)
           f == [m EXCEPT ![a].used = v]
           k == IF x < w THEN w ELSE x
<1> HIDE DEF s
<1>1. [s EXCEPT !.mem[a].used = v, !.used_mem = w, !.max_mem = IF @ < w THEN w ELSE @]
        = [[[s EXCEPT !.mem[a].used = v] EXCEPT !.used_mem = w]
             EXCEPT !.max_mem = IF @ < w THEN w ELSE @]
  BY Zenon
<1>2. [s EXCEPT !.mem[a].used = v] = Heap(f, l, u, x, z)
  BY DEF Heap, s
<1> HIDE DEF f
<1>3. [Heap(f, l, u, x, z) EXCEPT !.used_mem = w] = Heap(f, l, w, x, z)
  BY DEF Heap
<1>4. [Heap(f, l, w, x, z) EXCEPT !.max_mem = IF @ < w THEN w ELSE @] = Heap(f, l, w, k, z)
  <2>1. [Heap(f, l, w, x, z) EXCEPT !.max_mem = k] = Heap(f, l, w, k, z)
    BY DEF Heap
  <2>2. Heap(f, l, w, x, z).max_mem = x
    BY DEF Heap
  <2> QED
    BY <2>1, <2>2, Zenon
<1> QED
  BY <1>1, <1>2, <1>3, <1>4, Zenon DEF f, k, s, Freed, Taken, Flag

(* rt_free gives back the block of a caller, and no other. *)
LEMMA FreeWhole ==
  ASSUME NEW s, Whole(s), NEW a \in UsedIn(s.mem, HeapEnd(s))
  PROVE  Whole(rt_free(s, a + H)) /\ Gone(s, a, rt_free(s, a + H))
<1> DEFINE E == HeapEnd(s)
           m == s.mem
           f == [m EXCEPT ![a].used = FALSE]
           w == m[a].next - a
           t == Heap(f, IF a < s.lfree THEN a ELSE s.lfree, s.used_mem - w, s.max_mem,
                     s.mem_size_aligned)
           r == plug_holes(t, a)
<1>1. /\ Chain(m, E) /\ Lowest(m, E, s.lfree) /\ Book(m, E, s.used_mem) /\ Apart(m, E)
      /\ s = Heap(m, s.lfree, s.used_mem, s.max_mem, s.mem_size_aligned)
      /\ s.max_mem \in Nat /\ s.used_mem <= s.max_mem /\ s.max_mem <= E
      /\ s.mem_size_aligned \in Nat /\ E + H < SizeWrap
  BY DEF Whole, Sound
<1>2. a \in DOMAIN m \ {E} /\ m[a].used /\ a \in Nat /\ E \in Nat
  BY <1>1 DEF UsedIn, Chain
<1>3. rt_free(s, a + H) = r
  <2>1. (a + H) - SIZEOF_STRUCT_MEM = a
    BY <1>2, HeaderSize DEF H
  <2>2. ASSUME NEW x
        PROVE  Freed(s, a, x, w)
               = Heap(Flag(m, a, x), IF a < s.lfree THEN a ELSE s.lfree,
                      s.used_mem - w, s.max_mem, s.mem_size_aligned)
    <3>1. Freed(Heap(m, s.lfree, s.used_mem, s.max_mem, s.mem_size_aligned), a, x, w)
           = Heap(Flag(m, a, x), IF a < s.lfree THEN a ELSE s.lfree,
                  s.used_mem - w, s.max_mem, s.mem_size_aligned)
      BY HeapFreed
    <3> HIDE DEF w
    <3> QED
      BY <1>1, <3>1, Zenon
  <2>3. [s EXCEPT !.mem[a].used = FALSE, !.lfree = IF a < @ THEN a ELSE @,
                  !.used_mem = @ - w] = t
    BY <2>2, Zenon DEF Freed, Flag
  <2> QED
    BY <2>1, <2>3 DEF rt_free
<1>4. /\ t.mem = f /\ t.lfree = (IF a < s.lfree THEN a ELSE s.lfree)
      /\ t.used_mem = s.used_mem - w /\ t.max_mem = s.max_mem
      /\ t.mem_size_aligned = s.mem_size_aligned /\ HeapEnd(t) = E
      /\ t = Heap(t.mem, t.lfree, t.used_mem, t.max_mem, t.mem_size_aligned)
  BY DEF Heap, HeapEnd
<1>5. Chain(f, E) /\ Marked(m, a, FALSE, f)
  BY <1>1, <1>2, MarkChain
<1>6. /\ Book(f, E, s.used_mem - w)
      /\ UsedIn(f, E) = UsedIn(m, E) \ {a} /\ FreeIn(f) = FreeIn(m) \cup {a}
  BY <1>1, <1>2, MarkBook
<1>7. w \in Nat /\ s.used_mem \in Nat
  BY <1>1, <1>2, ChainFinite DEF Book
<1> HIDE DEF t, f, w, r
<1>8. Lowest(f, E, t.lfree)
  <2>1. s.lfree \in Nat /\ FreeIn(m) \subseteq Nat
    BY <1>1, <1>2 DEF Lowest, FreeIn, Chain
  <2> QED
    BY <1>1, <1>2, <1>4, <1>6, <2>1 DEF Lowest
<1>9. Sound(t)
  <2>1. t.used_mem <= t.max_mem
    BY <1>1, <1>4, <1>7
  <2> QED
    BY <1>1, <1>4, <1>5, <1>6, <1>8, <2>1 DEF Sound
<1>10. Near(f, E, a)
  <2> SUFFICES ASSUME NEW x \in DOMAIN f, Pair(f, E, x), x # a, f[x].next # a
               PROVE  FALSE
    BY DEF Near
  <2>1. Pair(m, E, x)
    BY <1>5, <1>6 DEF Pair, Marked
  <2> QED
    BY <1>1, <1>5, <2>1 DEF Apart, Marked
<1>11. Sound(r) /\ KeepsUsed(t, r) /\ Apart(r.mem, E)
  <2>1. a \in FreeIn(t.mem)
    BY <1>4, <1>6
  <2> QED
    BY <1>4, <1>9, <1>10, <2>1, PlugSound DEF r
<1>12. HeapEnd(r) = E
  BY <1>4, <1>11 DEF KeepsUsed, HeapEnd
<1>13. Gone(s, a, r)
  BY <1>4, <1>5, <1>6, <1>11 DEF Gone, KeepsUsed, Marked, UsedIn
<1> QED
  BY <1>3, <1>11, <1>12, <1>13 DEF Whole

(* Split is Insert.  *)
LEMMA SplitHeap ==
  ASSUME NEW m, NEW l, NEW u, NEW x, NEW z, NEW a, NEW size
  PROVE  Split(Heap(m, l, u, x, z), a, size) =
           Heap(Insert(m, z + H, a, a + H + size), l, u, x, z)
<1> DEFINE s == Heap(m, l, u, x, z)
           M == Insert(m, z + H, a, a + H + size)
<1>1. s.mem = m /\ HeapEnd(s) = z + H
  BY DEF Heap, HeapEnd, H
<1>2. Split(s, a, size) = [s EXCEPT !.mem = M]
  <2> HIDE DEF s
  <2> QED
    BY <1>1, Zenon DEF Split, Insert, H
<1> HIDE DEF M
<1>3. [s EXCEPT !.mem = M] = Heap(M, l, u, x, z)
  BY DEF Heap
<1> QED
  BY <1>2, <1>3 DEF M

(* The block that rt_malloc takes: it leaves the list of the free ones,    *)
(* and lfree goes on to the next.                                          *)
LEMMA TakeWhole ==
  ASSUME NEW s, Sound(s), NEW a \in FreeIn(s.mem),
         \A x \in DOMAIN s.mem : Pair(s.mem, HeapEnd(s), x) => x = a
  PROVE  LET r == MoveLfree(Take(s, a), a)
         IN  /\ Whole(r) /\ r.mem_size_aligned = s.mem_size_aligned
             /\ UsedIn(r.mem, HeapEnd(s)) = UsedIn(s.mem, HeapEnd(s)) \cup {a}
             /\ \A x \in DOMAIN s.mem : r.mem[x].next = s.mem[x].next
<1> DEFINE E == HeapEnd(s)
           m == s.mem
           f == [m EXCEPT ![a].used = TRUE]
           used == s.used_mem + (m[a].next - a)
           max == IF s.max_mem < used THEN used ELSE s.max_mem
           t == Heap(f, s.lfree, used, max, s.mem_size_aligned)
           low == Min({b \in DOMAIN f : b > a /\ ~Used(t, b)} \cup {E})
           l == IF a # s.lfree THEN s.lfree ELSE low
           r == Heap(f, l, used, max, s.mem_size_aligned)
<1>1. /\ Chain(m, E) /\ Lowest(m, E, s.lfree) /\ Book(m, E, s.used_mem)
      /\ s = Heap(m, s.lfree, s.used_mem, s.max_mem, s.mem_size_aligned)
      /\ s.max_mem \in Nat /\ s.max_mem <= E
      /\ s.mem_size_aligned \in Nat /\ E + H < SizeWrap
  BY DEF Sound
<1>2. a \in DOMAIN m \ {E} /\ ~m[a].used /\ a \in Nat /\ E \in Nat /\ m[a].next \in Nat
  BY <1>1 DEF FreeIn, Chain, Link
<1>3. Chain(f, E) /\ Marked(m, a, TRUE, f)
  BY <1>1, <1>2, MarkChain
<1>4. /\ Book(f, E, used)
      /\ UsedIn(f, E) = UsedIn(m, E) \cup {a} /\ FreeIn(f) = FreeIn(m) \ {a}
  BY <1>1, <1>2, MarkBook
<1>5. used \in Nat /\ used <= E
  BY <1>3, <1>4, BookBound
<1>6. Take(s, a) = t
  <2>1. s.used_mem + m[a].next - a = used
    BY <1>1, <1>2 DEF Book
  <2> HIDE DEF used
  <2>2. ASSUME NEW x
        PROVE  Taken(s, a, x, used)
               = Heap(Flag(m, a, x), s.lfree, used, max, s.mem_size_aligned)
    <3>1. Taken(Heap(m, s.lfree, s.used_mem, s.max_mem, s.mem_size_aligned), a, x, used)
           = Heap(Flag(m, a, x), s.lfree, used, max, s.mem_size_aligned)
      BY HeapTaken
    <3> QED
      BY <1>1, <3>1, Zenon
  <2>3. [s EXCEPT !.mem[a].used = TRUE, !.used_mem = used,
                  !.max_mem = IF @ < used THEN used ELSE @] = t
    BY <2>2, Zenon DEF Taken, Flag
  <2> QED
    BY <2>1, <2>3 DEF Take
<1> HIDE DEF used
<1>7. t.mem = f /\ t.lfree = s.lfree /\ HeapEnd(t) = E
  BY DEF Heap, HeapEnd
<1>8. MoveLfree(t, a) = r
  <2>1. CASE a # s.lfree
    BY <1>7, <2>1 DEF MoveLfree
  <2>2. CASE a = s.lfree
    <3>1. MoveLfree(t, a) = [t EXCEPT !.lfree = low]
      BY <1>7, <2>2 DEF MoveLfree
    <3> HIDE DEF low
    <3> QED
      BY <2>2, <3>1 DEF Heap
  <2> QED
    BY <2>1, <2>2
<1> DEFINE S == {b \in DOMAIN f : b > a /\ b \in FreeIn(f)} \cup {E}
<1>9. low = Min(S)
  <2>1. {b \in DOMAIN f : b > a /\ ~Used(t, b)} = {b \in DOMAIN f : b > a /\ b \in FreeIn(f)}
    BY <1>7 DEF Used, FreeIn
  <2> QED
    BY <2>1
<1> HIDE DEF low, t, f, max
<1>10. low \in S /\ \A b \in S : low <= b
  <2>1. S \in SUBSET Nat /\ S # {}
    BY <1>2, <1>3 DEF Chain
  <2> QED
    BY <1>9, <2>1, MinIsLeast
<1>11. Lowest(f, E, l)
  <2>1. FreeIn(m) \subseteq Nat /\ FreeIn(f) \subseteq DOMAIN f
    BY <1>1 DEF FreeIn, Chain
  <2>2. CASE a # s.lfree
    BY <1>1, <1>4, <2>2 DEF Lowest
  <2>3. CASE a = s.lfree
    <3>1. \A x \in FreeIn(f) : x \in S
      <4> SUFFICES ASSUME NEW x \in FreeIn(f) PROVE x > a
        BY <2>1
      <4>1. x \in FreeIn(m) /\ x # a /\ a <= x
        BY <1>1, <1>4, <2>3 DEF Lowest
      <4> QED
        BY <1>2, <2>1, <4>1
    <3>2. low \in FreeIn(f) \cup {E}
      BY <1>10
    <3> QED
      BY <1>10, <2>3, <3>1, <3>2 DEF Lowest
  <2> QED
    BY <2>2, <2>3
<1> HIDE DEF l, S
<1>12. /\ r.mem = f /\ r.lfree = l /\ r.used_mem = used /\ r.max_mem = max
       /\ r.mem_size_aligned = s.mem_size_aligned /\ HeapEnd(r) = E
       /\ r = Heap(r.mem, r.lfree, r.used_mem, r.max_mem, r.mem_size_aligned)
  BY DEF Heap, HeapEnd
<1>13. max \in Nat /\ used <= max /\ max <= E
  BY <1>1, <1>5 DEF max
<1> HIDE DEF r
<1>14. Sound(r)
  BY <1>1, <1>3, <1>4, <1>11, <1>12, <1>13 DEF Sound
<1>15. Apart(f, E)
  <2> SUFFICES ASSUME NEW x \in DOMAIN f, Pair(f, E, x)
               PROVE  FALSE
    BY DEF Apart
  <2>1. Pair(m, E, x) /\ x # a
    BY <1>3, <1>4 DEF Pair, Marked
  <2> QED
    BY <1>3, <2>1 DEF Marked
<1>16. MoveLfree(Take(s, a), a) = r
  BY <1>6, <1>8
<1>17. Whole(r)
  BY <1>12, <1>14, <1>15 DEF Whole
<1>18. \A x \in DOMAIN m : r.mem[x].next = m[x].next
  BY <1>3, <1>12 DEF Marked
<1> QED
  BY <1>4, <1>12, <1>16, <1>17, <1>18

(* What Split leaves, when it cuts a block b off a: b is free, and pairs   *)
(* with no free block but perhaps with a or with the one behind it.        *)
Cut(m, E, a, b, r) ==
  /\ Inserted(m, E, a, b, r) /\ Chain(r, E)
  /\ UsedIn(r, E) = UsedIn(m, E) /\ FreeIn(r) = FreeIn(m) \cup {b}
  /\ \A x \in DOMAIN r : Pair(r, E, x) => x = a \/ x = b

LEMMA CutPairs ==
  ASSUME NEW m, NEW E, Chain(m, E), Apart(m, E), NEW a \in DOMAIN m \ {E}, NEW b \in Nat,
         a + H <= b, b + H <= m[a].next, b % A = 0, NEW u, Book(m, E, u)
  PROVE  Cut(m, E, a, b, Insert(m, E, a, b))
<1> DEFINE r == Insert(m, E, a, b)
<1>1. Inserted(m, E, a, b, r) /\ Chain(r, E)
  BY InsertFields, InsertChain
<1>2. UsedIn(r, E) = UsedIn(m, E) /\ FreeIn(r) = FreeIn(m) \cup {b}
  BY InsertBook
<1> HIDE DEF r
<1>3. ASSUME NEW x \in DOMAIN r, Pair(r, E, x), x # a, x # b
      PROVE  FALSE
  <2>1. x \in FreeIn(m) \ {E} /\ x \in DOMAIN m /\ r[x].next = m[x].next
    BY <1>1, <1>2, <1>3 DEF Pair, Inserted, FreeIn
  <2>2. m[x].next # b
    BY <1>1, <2>1 DEF Chain, Link, Inserted
  <2> QED
    BY <1>2, <1>3, <2>1, <2>2 DEF Pair, Apart
<1> QED
  BY <1>1, <1>2, <1>3 DEF Cut, r

LEMMA SplitFree ==
  ASSUME NEW s, Whole(s), NEW a \in FreeIn(s.mem), NEW size \in Nat, size % A = 0,
         a + H + size + H <= s.mem[a].next
  PROVE  LET r == Split(s, a, size)
         IN  /\ Sound(r) /\ KeepsUsed(s, r)
             /\ a \in FreeIn(r.mem) /\ r.mem[a].next = a + H + size
             /\ \A x \in DOMAIN r.mem : Pair(r.mem, HeapEnd(s), x) => x = a
<1> DEFINE E == HeapEnd(s)
           m == s.mem
           b == a + H + size
           f == Insert(m, E, a, b)
           r == Heap(f, s.lfree, s.used_mem, s.max_mem, s.mem_size_aligned)
<1>1. /\ Chain(m, E) /\ Lowest(m, E, s.lfree) /\ Book(m, E, s.used_mem) /\ Apart(m, E)
      /\ s = Heap(m, s.lfree, s.used_mem, s.max_mem, s.mem_size_aligned)
      /\ s.max_mem \in Nat /\ s.used_mem <= s.max_mem /\ s.max_mem <= E
      /\ s.mem_size_aligned \in Nat /\ E + H < SizeWrap
  BY DEF Whole, Sound
<1>2. a \in DOMAIN m \ {E} /\ ~m[a].used /\ a \in Nat /\ E \in Nat /\ m[a].next \in Nat
      /\ a % A = 0
  BY <1>1 DEF FreeIn, Chain, Link
<1>3. b \in Nat /\ a + H <= b /\ b + H <= m[a].next /\ b % A = 0
  <2>1. a \in Int /\ H \in Int /\ size \in Int /\ A \in Nat \ {0} /\ a + H \in Int
    BY <1>2, HeaderSize
  <2>2. (a + H) % A = 0
    BY <1>2, <2>1, HeaderSize, AlignedSums, Zenon
  <2>3. b % A = 0
    BY <2>1, <2>2, AlignedSums, Zenon
  <2> QED
    BY <1>2, <2>3, HeaderSize
<1> HIDE DEF b
<1>4. Cut(m, E, a, b, f)
  BY <1>1, <1>2, <1>3, CutPairs
<1>5. Book(f, E, s.used_mem)
  BY <1>1, <1>2, <1>3, InsertBook
<1>6. Split(s, a, size) = r
  <2>1. s.mem_size_aligned + H = E
    BY DEF HeapEnd, H
  <2>2. Split(Heap(m, s.lfree, s.used_mem, s.max_mem, s.mem_size_aligned), a, size)
          = Heap(Insert(m, s.mem_size_aligned + H, a, a + H + size), s.lfree, s.used_mem,
                 s.max_mem, s.mem_size_aligned)
    BY SplitHeap
  <2> QED
    BY <1>1, <2>1, <2>2 DEF b
<1> HIDE DEF f
<1>7. /\ r.mem = f /\ r.lfree = s.lfree /\ r.used_mem = s.used_mem /\ r.max_mem = s.max_mem
      /\ r.mem_size_aligned = s.mem_size_aligned /\ HeapEnd(r) = E
      /\ r = Heap(r.mem, r.lfree, r.used_mem, r.max_mem, r.mem_size_aligned)
  BY DEF Heap, HeapEnd
<1> HIDE DEF r
<1>8. Lowest(f, E, s.lfree)
  <2>1. s.lfree <= a /\ a < b /\ s.lfree \in Nat
    BY <1>1, <1>2, <1>3, HeaderSize DEF Lowest, FreeIn, Chain
  <2> QED
    BY <1>1, <1>2, <1>3, <1>4, <2>1 DEF Lowest, Cut
<1>9. Sound(r)
  BY <1>1, <1>4, <1>5, <1>7, <1>8 DEF Sound, Cut
<1>10. KeepsUsed(s, r)
  <2>1. \A x \in UsedIn(m, E) : x \in DOMAIN m /\ x # a
    BY <1>2 DEF UsedIn
  <2> QED
    BY <1>4, <1>7, <2>1 DEF KeepsUsed, Cut, Inserted
<1>11. a \in FreeIn(r.mem) /\ r.mem[a].next = b
  BY <1>2, <1>4, <1>7 DEF Cut, Inserted
<1>12. ASSUME NEW x \in DOMAIN f, Pair(f, E, x), x # a
       PROVE  FALSE
  <2>1. x = b
    BY <1>4, <1>12 DEF Cut
  <2>2. m[a].next \in FreeIn(f) /\ m[a].next # b
    BY <1>4, <1>12, <2>1 DEF Pair, Cut, Inserted
  <2>3. Pair(m, E, a)
    BY <1>2, <1>4, <2>2 DEF Pair, Cut
  <2> QED
    BY <1>1, <1>2, <2>3 DEF Apart
<1> QED
  BY <1>6, <1>7, <1>9, <1>10, <1>11, <1>12 DEF b

(* rt_malloc leaves the heap alone, or takes a free block that is large    *)
(* enough.                                                                 *)
Fails(s, n) == n = 0 \/ RT_ALIGN(n) > s.mem_size_aligned \/ FitFor(s, BlockSize(n)) = {}

Malloced(s, n, r) ==
  /\ Fails(s, n) => r = [heap |-> s, ptr |-> NULL]
  /\ ~Fails(s, n) =>
       \E a \in FreeIn(s.mem) :
         /\ r = [heap |-> r.heap, ptr |-> a + H]
         /\ Whole(r.heap) /\ Came(s, a, BlockSize(n), r.heap)

LEMMA TakeCame ==
  ASSUME NEW s, NEW u, Sound(u), KeepsUsed(s, u), NEW a \in FreeIn(s.mem), a \in FreeIn(u.mem),
         \A x \in DOMAIN u.mem : Pair(u.mem, HeapEnd(s), x) => x = a,
         NEW size, DataSize(u, a) >= size
  PROVE  LET r == MoveLfree(Take(u, a), a)
         IN  Whole(r) /\ Came(s, a, size, r)
<1> DEFINE r == MoveLfree(Take(u, a), a)
<1>1. HeapEnd(u) = HeapEnd(s)
  BY DEF KeepsUsed, HeapEnd
<1>2. /\ Whole(r) /\ r.mem_size_aligned = u.mem_size_aligned
      /\ UsedIn(r.mem, HeapEnd(s)) = UsedIn(u.mem, HeapEnd(s)) \cup {a}
      /\ \A x \in DOMAIN u.mem : r.mem[x].next = u.mem[x].next
  BY <1>1, TakeWhole
<1> HIDE DEF r
<1>3. DataSize(r, a) = DataSize(u, a)
  BY <1>2 DEF DataSize, FreeIn
<1>4. \A x \in UsedIn(s.mem, HeapEnd(s)) : x \in DOMAIN u.mem
  BY DEF KeepsUsed, UsedIn
<1>5. Came(s, a, size, r)
  BY <1>2, <1>3, <1>4 DEF Came, KeepsUsed
<1> QED
  BY <1>2, <1>5 DEF r

LEMMA MallocWhole ==
  ASSUME NEW s, Whole(s), NEW n \in Nat, n + A <= SizeWrap
  PROVE  Malloced(s, n, rt_malloc(s, n))
<1> DEFINE r == rt_malloc(s, n)
           size == BlockSize(n)
           F == FitFor(s, size)
           a == Min(F)
           u == IF DataSize(s, a) >= size + H + MIN_SIZE_ALIGNED THEN Split(s, a, size) ELSE s
<1>1. CASE Fails(s, n)
  BY <1>1 DEF Malloced, Fails, rt_malloc
<1>2. CASE ~Fails(s, n)
  <2>1. r = [heap |-> MoveLfree(Take(u, a), a), ptr |-> a + H]
    BY <1>2 DEF rt_malloc, Fails, H
  <2>2. size \in Nat /\ size % A = 0
    BY BlockSizes
  <2>3. Sound(s) /\ Chain(s.mem, HeapEnd(s)) /\ DOMAIN s.mem \subseteq Nat
    BY DEF Whole, Sound, Chain
  <2>4. F # {} /\ F \in SUBSET Nat
    BY <1>2, <2>3 DEF Fails, FitFor
  <2>5. a \in F
    BY <2>4, MinIsLeast
  <2> HIDE DEF size, a
  <2>6. a \in FreeIn(s.mem) /\ a \in Nat /\ DataSize(s, a) >= size
    BY <2>3, <2>5 DEF FitFor, FreeIn, Used
  <2>7. s.mem[a].next \in Nat /\ DataSize(s, a) = s.mem[a].next - (a + H)
    BY <2>3, <2>6 DEF Chain, Header, FreeIn, DataSize, H
  <2>8. /\ Sound(u) /\ KeepsUsed(s, u) /\ a \in FreeIn(u.mem) /\ DataSize(u, a) >= size
        /\ \A x \in DOMAIN u.mem : Pair(u.mem, HeapEnd(s), x) => x = a
    <3>1. CASE DataSize(s, a) >= size + H + MIN_SIZE_ALIGNED
      <4> DEFINE v == Split(s, a, size)
      <4>1. a + H + size + H <= s.mem[a].next
        BY <2>2, <2>6, <2>7, <3>1, HeaderSize
      <4>2. /\ Sound(v) /\ KeepsUsed(s, v)
            /\ a \in FreeIn(v.mem) /\ v.mem[a].next = a + H + size
            /\ \A x \in DOMAIN v.mem : Pair(v.mem, HeapEnd(s), x) => x = a
        BY <2>2, <2>6, <4>1, SplitFree
      <4>3. u = v
        BY <3>1
      <4> HIDE DEF u, v
      <4>4. DataSize(u, a) = size
        BY <2>2, <2>6, <4>2, <4>3, HeaderSize DEF DataSize, H
      <4> QED
        BY <2>2, <4>2, <4>3, <4>4
    <3>2. CASE ~(DataSize(s, a) >= size + H + MIN_SIZE_ALIGNED)
      <4>1. u = s
        BY <3>2
      <4>2. \A x \in DOMAIN s.mem : ~Pair(s.mem, HeapEnd(s), x)
        BY DEF Whole, Apart
      <4> HIDE DEF u
      <4> QED
        BY <2>3, <2>6, <4>1, <4>2 DEF KeepsUsed
    <3> QED
      BY <3>1, <3>2
  <2> DEFINE q == MoveLfree(Take(u, a), a)
  <2> HIDE DEF u
  <2>9. Whole(q) /\ Came(s, a, size, q)
    BY <2>6, <2>8, TakeCame
  <2> HIDE DEF q, r
  <2>10. r.heap = q /\ r = [heap |-> r.heap, ptr |-> a + H]
    BY <2>1 DEF q
  <2> QED
    BY <1>2, <2>6, <2>9, <2>10 DEF Malloced, size, r
<1> QED
  BY <1>1, <1>2

(* rt_realloc in place: the end of the block a becomes free. *)
Shrunk(s, a, b, r) ==
  /\ r.mem_size_aligned = s.mem_size_aligned
  /\ UsedIn(r.mem, HeapEnd(s)) = UsedIn(s.mem, HeapEnd(s))
  /\ \A x \in UsedIn(s.mem, HeapEnd(s)) : r.mem[x].next = IF x = a THEN b ELSE s.mem[x].next

LEMMA ShrinkWhole ==
  ASSUME NEW s, Whole(s), NEW a \in UsedIn(s.mem, HeapEnd(s)), NEW size \in Nat, size % A = 0,
         size + H + MIN_SIZE < DataSize(s, a)
  PROVE  LET b == a + H + size
             u == Split([s EXCEPT !.used_mem = @ - (DataSize(s, a) - size)], a, size)
             r == plug_holes([u EXCEPT !.lfree = IF b < @ THEN b ELSE @], b)
         IN  Whole(r) /\ Shrunk(s, a, b, r)
<1> DEFINE E == HeapEnd(s)
           m == s.mem
           b == a + H + size
           d == DataSize(s, a) - size
           f == Insert(m, E, a, b)
           low == IF b < s.lfree THEN b ELSE s.lfree
           u == Split([s EXCEPT !.used_mem = @ - d], a, size)
           t == Heap(f, low, s.used_mem - d, s.max_mem, s.mem_size_aligned)
           r == plug_holes(t, b)
<1>1. /\ Chain(m, E) /\ Lowest(m, E, s.lfree) /\ Book(m, E, s.used_mem) /\ Apart(m, E)
      /\ s = Heap(m, s.lfree, s.used_mem, s.max_mem, s.mem_size_aligned)
      /\ s.max_mem \in Nat /\ s.used_mem <= s.max_mem /\ s.max_mem <= E
      /\ s.mem_size_aligned \in Nat /\ E + H < SizeWrap
  BY DEF Whole, Sound
<1>2. /\ a \in DOMAIN m \ {E} /\ m[a].used /\ a \in Nat /\ E \in Nat /\ m[a].next \in Nat
      /\ a % A = 0
  BY <1>1 DEF UsedIn, Chain, Link
<1>3. DataSize(s, a) = m[a].next - (a + H) /\ MIN_SIZE \in Nat
  BY HeapAssumption DEF DataSize, H
<1>4. /\ b \in Nat /\ a + H <= b /\ b + H <= m[a].next /\ b % A = 0
      /\ d = m[a].next - b /\ d \in Nat
  <2>1. a \in Int /\ H \in Int /\ size \in Int /\ A \in Nat \ {0} /\ a + H \in Int
    BY <1>2, HeaderSize
  <2>2. (a + H) % A = 0
    BY <1>2, <2>1, HeaderSize, AlignedSums, Zenon
  <2>3. b % A = 0
    BY <2>1, <2>2, AlignedSums, Zenon
  <2> QED
    BY <1>2, <1>3, <2>3, HeaderSize
<1>5. [u EXCEPT !.lfree = IF b < @ THEN b ELSE @] = t
  <2> HIDE DEF d
  <2>1. [s EXCEPT !.used_mem = @ - d]
          = Heap(m, s.lfree, s.used_mem - d, s.max_mem, s.mem_size_aligned)
    BY <1>1 DEF Heap
  <2>2. s.mem_size_aligned + H = E
    BY DEF HeapEnd, H
  <2>3. Split(Heap(m, s.lfree, s.used_mem - d, s.max_mem, s.mem_size_aligned), a, size)
          = Heap(Insert(m, s.mem_size_aligned + H, a, a + H + size), s.lfree, s.used_mem - d,
                 s.max_mem, s.mem_size_aligned)
    BY SplitHeap
  <2>4. u = Heap(f, s.lfree, s.used_mem - d, s.max_mem, s.mem_size_aligned)
    BY <2>1, <2>2, <2>3
  <2> HIDE DEF u, f, b
  <2> QED
    BY <2>4 DEF Heap
<1> HIDE DEF b, d
<1>6. Cut(m, E, a, b, f)
  BY <1>1, <1>2, <1>4, CutPairs
<1>7. Book(f, E, s.used_mem - d)
  BY <1>1, <1>2, <1>4, InsertBook
<1> HIDE DEF f, low, u
<1>8. /\ t.mem = f /\ t.lfree = low /\ t.used_mem = s.used_mem - d /\ t.max_mem = s.max_mem
      /\ t.mem_size_aligned = s.mem_size_aligned /\ HeapEnd(t) = E
      /\ t = Heap(t.mem, t.lfree, t.used_mem, t.max_mem, t.mem_size_aligned)
  BY DEF Heap, HeapEnd
<1> HIDE DEF t
<1>9. Lowest(f, E, low)
  <2>1. s.lfree \in Nat /\ FreeIn(m) \subseteq Nat
    BY <1>1, <1>2 DEF Lowest, FreeIn, Chain
  <2> QED
    BY <1>1, <1>4, <1>6, <2>1 DEF Lowest, Cut, low
<1>10. Sound(t)
  <2>1. s.used_mem \in Nat
    BY <1>1, BookBound
  <2>2. t.used_mem <= t.max_mem
    BY <1>1, <1>4, <1>8, <2>1
  <2> QED
    BY <1>1, <1>6, <1>7, <1>8, <1>9, <2>2 DEF Sound, Cut
<1>11. Near(f, E, b)
  <2> SUFFICES ASSUME NEW x \in DOMAIN f, Pair(f, E, x), x # b
               PROVE  FALSE
    BY DEF Near
  <2>1. x = a
    BY <1>6 DEF Cut
  <2> QED
    BY <1>2, <1>6, <2>1 DEF Pair, Cut, Inserted, FreeIn
<1>12. Sound(r) /\ KeepsUsed(t, r) /\ Apart(r.mem, E)
  <2>1. b \in FreeIn(t.mem)
    BY <1>6, <1>8 DEF Cut
  <2> QED
    BY <1>8, <1>10, <1>11, <2>1, PlugSound
<1> HIDE DEF r
<1>13. HeapEnd(r) = E
  BY <1>8, <1>12 DEF KeepsUsed, HeapEnd
<1>14. Shrunk(s, a, b, r)
  <2>1. \A x \in UsedIn(m, E) : x \in DOMAIN m
    BY DEF UsedIn
  <2> QED
    BY <1>6, <1>8, <1>12, <2>1 DEF Shrunk, KeepsUsed, Cut, Inserted
<1>15. Whole(r)
  BY <1>12, <1>13 DEF Whole
<1> QED
  BY <1>5, <1>14, <1>15 DEF r, b, d, u

LEMMA AlignZero ==
  ASSUME NEW n \in Nat, n + A <= SizeWrap
  PROVE  RT_ALIGN(n) = 0 <=> n = 0
<1>1. RT_ALIGN(n) \in Nat /\ RT_ALIGN(n) % A = 0 /\ n <= RT_ALIGN(n) /\ RT_ALIGN(n) < n + A
  BY AlignUp
<1>2. ASSUME NEW x \in Nat, x < A, x % A = 0
      PROVE  x = 0
  BY <1>2, HeaderSize
<1> QED
  BY <1>1, <1>2, HeaderSize

(* What rt_realloc may come to. *)
Kept(s, a, n, r) == r = [heap |-> s, ptr |-> a + H] /\ n <= DataSize(s, a)

Resized(s, a, n, r) ==
  \E size \in Nat \ {0} :
    /\ n <= size /\ size < DataSize(s, a) /\ r.ptr = a + H
    /\ Whole(r.heap) /\ Shrunk(s, a, a + H + size, r.heap)

Moved(s, a, n, r) ==
  \E c \in FreeIn(s.mem) : \E q :
    /\ Whole(q) /\ Came(s, c, n, q)
    /\ r.ptr = c + H /\ Whole(r.heap) /\ Gone(q, a, r.heap)

Realloced(s, a, n, r) ==
  \/ n # 0 /\ r = [heap |-> s, ptr |-> NULL]
  \/ n = 0 /\ r.ptr = NULL /\ Whole(r.heap) /\ Gone(s, a, r.heap)
  \/ n # 0 /\ (Kept(s, a, n, r) \/ Resized(s, a, n, r) \/ Moved(s, a, n, r))

LEMMA MoveWhole ==
  ASSUME NEW s, Whole(s), NEW a \in UsedIn(s.mem, HeapEnd(s)),
         NEW n \in Nat \ {0}, n + A <= SizeWrap, RT_ALIGN(n) <= s.mem_size_aligned
  PROVE  Realloced(s, a, n, ReallocMoved(s, a + H, n))
<1> DEFINE k == RT_ALIGN(n)
           new == rt_malloc(s, k)
           r == ReallocMoved(s, a + H, n)
<1>1. k \in Nat /\ n <= k
  BY AlignUp
<1>2. Sound(s) /\ Chain(s.mem, HeapEnd(s)) /\ a \in DOMAIN s.mem /\ a \in Nat
  BY DEF Whole, Sound, Chain, UsedIn
<1>3. k + A <= SizeWrap
  <2>1. s.mem_size_aligned \in Nat /\ s.mem_size_aligned + H + H < SizeWrap /\ SizeWrap \in Nat
    BY <1>2, HeapAssumption DEF Sound, HeapEnd, H
  <2> QED
    BY <1>1, <2>1, HeaderSize
<1> HIDE DEF k
<1>4. Malloced(s, k, new)
  BY <1>1, <1>3, MallocWhole
<1>5. r = IF new.ptr = NULL THEN new ELSE [new EXCEPT !.heap = rt_free(@, a + H)]
  BY DEF ReallocMoved, k
<1> HIDE DEF new, r
<1>6. CASE Fails(s, k)
  <2>1. new = [heap |-> s, ptr |-> NULL]
    BY <1>4, <1>6 DEF Malloced
  <2>2. r = new
    BY <1>5, <2>1
  <2> QED
    BY <2>1, <2>2 DEF Realloced, r
<1>7. CASE ~Fails(s, k)
  <2>1. PICK c \in FreeIn(s.mem) :
          /\ new = [heap |-> new.heap, ptr |-> c + H]
          /\ Whole(new.heap) /\ Came(s, c, BlockSize(k), new.heap)
    BY <1>4, <1>7 DEF Malloced
  <2> DEFINE q == new.heap
             v == rt_free(q, a + H)
  <2> HIDE DEF q
  <2>2. c \in Nat /\ c + H # NULL
    BY <1>2, HeaderSize DEF Chain, FreeIn, NULL
  <2>3. new.ptr = c + H /\ new.ptr # NULL
    BY <2>1, <2>2
  <2>4. a \in UsedIn(q.mem, HeapEnd(q))
    BY <2>1 DEF Came, q, HeapEnd
  <2>5. Whole(v) /\ Gone(q, a, v)
    BY <2>1, <2>4, FreeWhole DEF q
  <2>6. r = [heap |-> v, ptr |-> c + H]
    <3> HIDE DEF v
    <3>1. r = [new EXCEPT !.heap = v]
      BY <1>5, <2>3 DEF v, q
    <3> QED
      BY <2>1, <3>1
  <2>7. Came(s, c, n, q)
    <3>1. BlockSize(k) \in Nat /\ k <= BlockSize(k)
      BY <1>1, <1>3, BlockSizes
    <3>2. DataSize(q, c) >= n
      <4>1. DataSize(q, c) >= BlockSize(k)
        BY <2>1 DEF Came, q
      <4>2. DataSize(q, c) \in Int
        <5>1. c \in UsedIn(q.mem, HeapEnd(q)) /\ Chain(q.mem, HeapEnd(q))
          BY <2>1 DEF Came, q, HeapEnd, Whole, Sound
        <5> QED
          BY <2>2, <5>1, HeaderSize DEF Chain, Header, UsedIn, DataSize, H
      <4> QED
        BY <1>1, <3>1, <4>1, <4>2
    <3> QED
      BY <2>1, <3>2 DEF Came, q
  <2> HIDE DEF v
  <2>8. r.ptr = c + H /\ r.heap = v
    BY <2>6
  <2> QED
    BY <2>1, <2>5, <2>7, <2>8 DEF Realloced, Moved, q, r
<1> QED
  BY <1>6, <1>7

LEMMA ReallocWhole ==
  ASSUME NEW s, Whole(s), NEW a \in UsedIn(s.mem, HeapEnd(s)), DataSize(s, a) > 0,
         NEW n \in Nat, n + A <= SizeWrap
  PROVE  Realloced(s, a, n, rt_realloc(s, a + H, n))
<1> DEFINE k == RT_ALIGN(n)
           size == DataSize(s, a)
           b == a + H + k
           u == Split([s EXCEPT !.used_mem = @ - (size - k)], a, k)
           v == plug_holes([u EXCEPT !.lfree = IF b < @ THEN b ELSE @], b)
           r == rt_realloc(s, a + H, n)
<1>1. /\ Sound(s) /\ Chain(s.mem, HeapEnd(s)) /\ a \in DOMAIN s.mem \ {HeapEnd(s)} /\ a \in Nat
      /\ s.mem_size_aligned \in Nat /\ HeapEnd(s) = s.mem_size_aligned + H
  BY DEF Whole, Sound, Chain, UsedIn, HeapEnd, H
<1>2. k \in Nat /\ k % A = 0 /\ n <= k /\ (k = 0 <=> n = 0)
  BY AlignUp, AlignZero
<1>3. size \in Int /\ size <= s.mem_size_aligned
  <2>1. s.mem[a].next \in Nat /\ s.mem[a].next <= HeapEnd(s)
    BY <1>1 DEF Chain, Link
  <2> QED
    BY <1>1, <2>1, HeaderSize DEF DataSize, H
<1>4. (a + H) - SIZEOF_STRUCT_MEM = a
  BY <1>1, HeaderSize DEF H
<1>5. r = CASE k > s.mem_size_aligned -> [heap |-> s, ptr |-> NULL]
            [] k = 0 -> [heap |-> rt_free(s, a + H), ptr |-> NULL]
            [] k = size -> [heap |-> s, ptr |-> a + H]
            [] k > 0 /\ k + H + MIN_SIZE < size -> [heap |-> v, ptr |-> a + H]
            [] OTHER -> ReallocMoved(s, a + H, n)
  BY <1>4, Zenon DEF rt_realloc, H
<1>6. MIN_SIZE \in Nat
  BY HeapAssumption
<1> HIDE DEF k, size, r
<1>7. CASE k > s.mem_size_aligned
  <2> HIDE DEF v
  <2>1. r = [heap |-> s, ptr |-> NULL]
    BY <1>1, <1>2, <1>3, <1>5, <1>6, <1>7, HeaderSize
  <2>2. n # 0
    BY <1>1, <1>2, <1>7
  <2> QED
    BY <2>1, <2>2 DEF Realloced, r
<1>8. CASE k = 0
  <2> HIDE DEF v
  <2>1. size > 0
    BY DEF size
  <2>2. r.ptr = NULL /\ r.heap = rt_free(s, a + H)
    BY <1>1, <1>2, <1>3, <1>5, <1>6, <1>8, <2>1, HeaderSize
  <2>3. Whole(rt_free(s, a + H)) /\ Gone(s, a, rt_free(s, a + H))
    BY FreeWhole
  <2> QED
    BY <1>2, <1>8, <2>2, <2>3 DEF Realloced, r
<1>9. CASE k # 0 /\ k = size /\ k <= s.mem_size_aligned
  <2> HIDE DEF v
  <2>1. r = [heap |-> s, ptr |-> a + H]
    BY <1>1, <1>2, <1>3, <1>5, <1>6, <1>9, HeaderSize
  <2> QED
    BY <1>2, <1>9, <2>1 DEF Realloced, Kept, r, size
<1>10. CASE k # 0 /\ k <= s.mem_size_aligned /\ k + H + MIN_SIZE < size
  <2>1. Whole(v) /\ Shrunk(s, a, b, v)
    BY <1>2, <1>10, ShrinkWhole DEF size
  <2> HIDE DEF v
  <2>2. r = [heap |-> v, ptr |-> a + H]
    BY <1>1, <1>2, <1>3, <1>5, <1>6, <1>10, HeaderSize
  <2>3. r.heap = v /\ r.ptr = a + H
    BY <2>2
  <2>4. k \in Nat \ {0} /\ n # 0 /\ k < size
    BY <1>2, <1>3, <1>6, <1>10, HeaderSize
  <2>5. Resized(s, a, n, r)
    BY <1>2, <2>1, <2>3, <2>4 DEF Resized, size
  <2> QED
    BY <2>4, <2>5 DEF Realloced, r
<1>11. CASE k # 0 /\ k # size /\ k <= s.mem_size_aligned /\ ~(k + H + MIN_SIZE < size)
  <2> HIDE DEF v
  <2>1. r = ReallocMoved(s, a + H, n)
    BY <1>1, <1>2, <1>3, <1>5, <1>6, <1>11, HeaderSize
  <2>2. n \in Nat \ {0}
    BY <1>2, <1>11
  <2> QED
    BY <1>11, <2>1, <2>2, MoveWhole DEF r, k
<1> QED
  BY <1>1, <1>2, <1>3, <1>6, <1>7, <1>8, <1>9, <1>10, <1>11, HeaderSize

-----------------------------------------------------------------------------
(* The inductive invariant: the heap is empty, or it is whole and its      *)
(* callers hold what is in use.                                            *)
Callers(s) == UsedIn(s.mem, HeapEnd(s))

Holds(s, q) ==
  /\ DOMAIN q = {a + H : a \in Callers(s)}
  /\ \A a \in Callers(s) : q[a + H] \in Nat \ {0} /\ q[a + H] <= DataSize(s, a)

Void(s) == s = Heap(<<>>, NULL, 0, 0, 0)

Kempt(s, q) ==
  \/ Void(s) /\ q = <<>>
  \/ Whole(s) /\ Holds(s, q)

IInv == Kempt(h, asked)

(* Blocks have addresses. *)
LEMMA CallerTypes ==
  ASSUME NEW s, Whole(s), NEW a \in Callers(s)
  PROVE  a \in Nat /\ H \in Nat /\ s.mem[a].next \in Nat /\ DataSize(s, a) = s.mem[a].next - (a + H)
BY HeaderSize DEF Whole, Sound, Chain, Header, Callers, UsedIn, DataSize, H

LEMMA HoldsCame ==
  ASSUME NEW s, Whole(s), NEW q, Holds(s, q), NEW a \in FreeIn(s.mem), NEW r, Whole(r),
         NEW n \in Nat \ {0}, Came(s, a, n, r)
  PROVE  Holds(r, With(q, a + H, n))
<1>1. HeapEnd(r) = HeapEnd(s)
  BY DEF Came, HeapEnd
<1>2. Callers(r) = Callers(s) \cup {a} /\ a \notin Callers(s)
  BY <1>1 DEF Came, Callers, UsedIn, FreeIn
<1>3. /\ \A x \in Callers(s) : x \in Nat
      /\ a \in Nat /\ H \in Nat
  BY <1>2, CallerTypes
<1>4. \A x \in Callers(s) : DataSize(r, x) = DataSize(s, x)
  BY DEF Came, Callers, DataSize
<1>5. DOMAIN With(q, a + H, n) = {x + H : x \in Callers(r)}
  BY <1>2 DEF Holds, With
<1>6. ASSUME NEW x \in Callers(r)
      PROVE  With(q, a + H, n)[x + H] \in Nat \ {0} /\ With(q, a + H, n)[x + H] <= DataSize(r, x)
  <2>1. CASE x = a
    <3>1. With(q, a + H, n)[a + H] = n
      BY DEF With
    <3>2. DataSize(r, a) \in Int /\ DataSize(r, a) >= n
      BY <1>2, CallerTypes DEF Came
    <3> QED
      BY <2>1, <3>1, <3>2
  <2>2. CASE x # a
    <3>1. x \in Callers(s) /\ x + H # a + H
      BY <1>2, <1>3, <2>2
    <3>2. With(q, a + H, n)[x + H] = q[x + H]
      BY <3>1 DEF With, Holds
    <3> QED
      BY <1>4, <3>1, <3>2 DEF Holds
  <2> QED
    BY <2>1, <2>2
<1> QED
  BY <1>5, <1>6 DEF Holds

LEMMA HoldsGone ==
  ASSUME NEW s, Whole(s), NEW q, Holds(s, q), NEW a \in Callers(s), NEW r, Gone(s, a, r)
  PROVE  Holds(r, Without(q, a + H))
<1>1. HeapEnd(r) = HeapEnd(s)
  BY DEF Gone, HeapEnd
<1>2. Callers(r) = Callers(s) \ {a}
  BY <1>1 DEF Gone, Callers
<1>3. H \in Nat /\ \A x \in Callers(s) : x \in Nat
  BY CallerTypes
<1>4. \A x \in Callers(r) : DataSize(r, x) = DataSize(s, x) /\ x \in Callers(s) /\ x + H # a + H
  BY <1>2, <1>3 DEF Gone, Callers, DataSize
<1>5. DOMAIN Without(q, a + H) = {x + H : x \in Callers(r)}
  BY <1>2, <1>3 DEF Holds, Without
<1>6. \A x \in Callers(r) : Without(q, a + H)[x + H] = q[x + H]
  BY <1>4 DEF Holds, Without
<1> QED
  BY <1>4, <1>5, <1>6 DEF Holds

(* A block that stays where it is. *)
LEMMA HoldsResized ==
  ASSUME NEW s, Whole(s), NEW q, Holds(s, q), NEW a \in Callers(s), NEW r,
         Callers(r) = Callers(s), NEW n \in Nat \ {0}, n <= DataSize(r, a),
         \A x \in Callers(s) \ {a} : DataSize(r, x) = DataSize(s, x)
  PROVE  Holds(r, With(Without(q, a + H), a + H, n))
<1> DEFINE w == With(Without(q, a + H), a + H, n)
<1>1. H \in Nat /\ \A x \in Callers(s) : x \in Nat
  BY CallerTypes
<1>2. DOMAIN w = DOMAIN q
  BY DEF With, Without, Holds
<1>3. w[a + H] = n
  BY DEF With
<1>4. ASSUME NEW x \in Callers(s) \ {a}
      PROVE  w[x + H] = q[x + H]
  <2>1. x + H # a + H /\ x + H \in DOMAIN q
    BY <1>1 DEF Holds
  <2> QED
    BY <2>1 DEF With, Without
<1> HIDE DEF w
<1> QED
  BY <1>2, <1>3, <1>4 DEF Holds, w

LEMMA WithoutWith ==
  ASSUME NEW q, NEW x, NEW y, NEW n, x # y
  PROVE  Without(With(q, x, n), y) = With(Without(q, y), x, n)
BY DEF With, Without

LEMMA VoidFields ==
  ASSUME NEW s, Void(s)
  PROVE  /\ s.mem = <<>> /\ s.lfree = NULL /\ s.used_mem = 0 /\ s.max_mem = 0
         /\ s.mem_size_aligned = 0 /\ HeapEnd(s) = H /\ DOMAIN s.mem = {}
<1>1. /\ s.mem = <<>> /\ s.lfree = NULL /\ s.used_mem = 0 /\ s.max_mem = 0
      /\ s.mem_size_aligned = 0
  BY DEF Void, Heap
<1>2. HeapEnd(s) = H
  BY <1>1, HeaderSize DEF HeapEnd, H
<1> QED
  BY <1>1, <1>2

(* Nothing is ever granted from an empty heap. *)
LEMMA VoidMalloc ==
  ASSUME NEW s, Void(s), NEW n \in Nat, n + A <= SizeWrap
  PROVE  rt_malloc(s, n) = [heap |-> s, ptr |-> NULL]
<1>1. n = 0 \/ RT_ALIGN(n) > s.mem_size_aligned
  BY VoidFields, AlignUp
<1> QED
  BY <1>1 DEF rt_malloc

LEMMA MallocKempt ==
  ASSUME NEW s, NEW q, Kempt(s, q), NEW n \in Nat, n + A <= SizeWrap
  PROVE  LET r == rt_malloc(s, n)
         IN  Kempt(r.heap, IF r.ptr = NULL THEN q ELSE With(q, r.ptr, n))
<1> DEFINE r == rt_malloc(s, n)
<1>1. CASE r = [heap |-> s, ptr |-> NULL]
  <2> HIDE DEF r
  <2>1. r.heap = s /\ r.ptr = NULL
    BY <1>1
  <2> QED
    BY <2>1 DEF r
<1>2. CASE Whole(s) /\ Holds(s, q) /\ ~Fails(s, n)
  <2>1. Malloced(s, n, r)
    BY <1>2, MallocWhole
  <2> HIDE DEF r
  <2>2. PICK a \in FreeIn(s.mem) :
          /\ r = [heap |-> r.heap, ptr |-> a + H]
          /\ Whole(r.heap) /\ Came(s, a, BlockSize(n), r.heap)
    BY <1>2, <2>1 DEF Malloced
  <2>3. a \in Nat /\ H \in Nat
    BY <1>2, HeaderSize DEF Whole, Sound, Chain, FreeIn
  <2>4. r.ptr = a + H /\ r.ptr # NULL
    BY <2>2, <2>3 DEF NULL
  <2>5. n \in Nat \ {0} /\ BlockSize(n) \in Nat /\ n <= BlockSize(n)
    BY <1>2, BlockSizes DEF Fails
  <2>6. a \in Callers(r.heap)
    BY <2>2 DEF Came, Callers, HeapEnd
  <2>7. DataSize(r.heap, a) >= n
    <3>1. DataSize(r.heap, a) \in Int /\ DataSize(r.heap, a) >= BlockSize(n)
      BY <2>2, <2>6, CallerTypes DEF Came
    <3> QED
      BY <2>5, <3>1
  <2>8. Came(s, a, n, r.heap)
    BY <2>2, <2>7 DEF Came
  <2>9. Holds(r.heap, With(q, a + H, n))
    BY <1>2, <2>2, <2>5, <2>8, HoldsCame
  <2> QED
    BY <2>2, <2>4, <2>9 DEF Kempt, r
<1>3. CASE Whole(s) /\ Fails(s, n)
  BY <1>1, <1>3, MallocWhole DEF Malloced
<1>4. CASE Void(s)
  BY <1>1, <1>4, VoidMalloc
<1> QED
  BY <1>2, <1>3, <1>4 DEF Kempt

(* A pointer that a caller has is that of a block in use. *)
LEMMA PointerBlock ==
  ASSUME NEW s, NEW q, Kempt(s, q), NEW p \in DOMAIN q
  PROVE  /\ Whole(s) /\ Holds(s, q)
         /\ \E a \in Callers(s) : p = a + H /\ DataSize(s, a) > 0
<1>1. Whole(s) /\ Holds(s, q)
  BY DEF Kempt
<1>2. PICK a \in Callers(s) : p = a + H
  BY <1>1 DEF Holds
<1>3. DataSize(s, a) > 0
  <2>1. DataSize(s, a) \in Int
    BY <1>1, CallerTypes
  <2> QED
    BY <1>1, <2>1 DEF Holds
<1> QED
  BY <1>1, <1>2, <1>3

LEMMA FreeKempt ==
  ASSUME NEW s, NEW q, Kempt(s, q), NEW p \in DOMAIN q
  PROVE  Kempt(rt_free(s, p), Without(q, p))
<1>1. PICK a \in Callers(s) : p = a + H
  BY PointerBlock
<1>2. Whole(s) /\ Holds(s, q)
  BY PointerBlock
<1>3. Whole(rt_free(s, a + H)) /\ Gone(s, a, rt_free(s, a + H))
  BY <1>2, FreeWhole DEF Callers
<1>4. Holds(rt_free(s, a + H), Without(q, a + H))
  BY <1>2, <1>3, HoldsGone
<1> QED
  BY <1>1, <1>3, <1>4 DEF Kempt

LEMMA ReallocKempt ==
  ASSUME NEW s, NEW q, Kempt(s, q), NEW p \in DOMAIN q, NEW n \in Nat, n + A <= SizeWrap
  PROVE  LET r == rt_realloc(s, p, n)
         IN  Kempt(r.heap, IF r.ptr # NULL THEN With(Without(q, p), r.ptr, n)
                           ELSE IF n = 0 THEN Without(q, p) ELSE q)
<1> DEFINE r == rt_realloc(s, p, n)
           w == IF r.ptr # NULL THEN With(Without(q, p), r.ptr, n)
                ELSE IF n = 0 THEN Without(q, p) ELSE q
<1>1. Whole(s) /\ Holds(s, q)
  BY PointerBlock
<1>2. PICK a \in Callers(s) : p = a + H /\ DataSize(s, a) > 0
  BY PointerBlock
<1>3. a \in Nat /\ H \in Nat /\ p # NULL
  BY <1>1, <1>2, CallerTypes DEF NULL
<1>4. Realloced(s, a, n, r)
  BY <1>1, <1>2, ReallocWhole DEF Callers
<1> HIDE DEF r
<1>5. CASE n # 0 /\ r = [heap |-> s, ptr |-> NULL]
  <2>1. r.heap = s /\ r.ptr = NULL
    BY <1>5
  <2>2. w = q
    BY <1>5, <2>1
  <2> QED
    BY <2>1, <2>2 DEF r
<1>6. CASE n = 0 /\ r.ptr = NULL /\ Whole(r.heap) /\ Gone(s, a, r.heap)
  <2>1. Holds(r.heap, Without(q, a + H))
    BY <1>1, <1>6, HoldsGone
  <2> QED
    BY <1>2, <1>6, <2>1 DEF Kempt, r
<1>7. CASE n # 0 /\ Kept(s, a, n, r)
  <2>1. r.heap = s /\ r.ptr = a + H /\ n <= DataSize(s, a)
    BY <1>7 DEF Kept
  <2>2. Holds(s, With(Without(q, a + H), a + H, n))
    BY <1>1, <1>7, <2>1, HoldsResized
  <2> QED
    BY <1>1, <1>2, <1>3, <2>1, <2>2 DEF Kempt, r
<1>8. CASE n # 0 /\ Resized(s, a, n, r)
  <2>1. PICK size \in Nat \ {0} :
          /\ n <= size /\ size < DataSize(s, a) /\ r.ptr = a + H
          /\ Whole(r.heap) /\ Shrunk(s, a, a + H + size, r.heap)
    BY <1>8 DEF Resized
  <2>2. HeapEnd(r.heap) = HeapEnd(s) /\ Callers(r.heap) = Callers(s)
    BY <2>1 DEF Shrunk, HeapEnd, Callers
  <2>3. \A x \in Callers(s) \ {a} : DataSize(r.heap, x) = DataSize(s, x)
    BY <2>1 DEF Shrunk, Callers, DataSize
  <2>4. n <= DataSize(r.heap, a)
    <3>1. r.heap.mem[a].next = a + H + size
      BY <1>2, <2>1 DEF Shrunk, Callers
    <3> QED
      BY <1>3, <2>1, <3>1 DEF DataSize, H
  <2>5. Holds(r.heap, With(Without(q, a + H), a + H, n))
    BY <1>1, <1>8, <2>2, <2>3, <2>4, HoldsResized
  <2> QED
    BY <1>2, <1>3, <2>1, <2>5 DEF Kempt, r
<1>9. CASE n # 0 /\ Moved(s, a, n, r)
  <2>0. PICK c \in FreeIn(s.mem) : \E t :
          /\ Whole(t) /\ Came(s, c, n, t)
          /\ r.ptr = c + H /\ Whole(r.heap) /\ Gone(t, a, r.heap)
    BY <1>9 DEF Moved
  <2>1. PICK t :
          /\ Whole(t) /\ Came(s, c, n, t)
          /\ r.ptr = c + H /\ Whole(r.heap) /\ Gone(t, a, r.heap)
    BY <2>0
  <2>2. Holds(t, With(q, c + H, n))
    BY <1>1, <1>9, <2>1, HoldsCame
  <2>3. a \in Callers(t) /\ a # c /\ c \in Callers(t)
    BY <1>2, <2>1 DEF Came, Callers, HeapEnd, FreeIn, UsedIn
  <2>4. Holds(r.heap, Without(With(q, c + H, n), a + H))
    BY <2>1, <2>2, <2>3, HoldsGone
  <2>5. c \in Nat /\ c + H # a + H /\ c + H # NULL
    <3>1. c \in Nat
      BY <2>1, <2>3, CallerTypes
    <3> QED
      BY <1>3, <2>3, <3>1 DEF NULL
  <2>6. Without(With(q, c + H, n), a + H) = With(Without(q, a + H), c + H, n)
    BY <2>5, WithoutWith
  <2> QED
    BY <1>2, <2>1, <2>4, <2>5, <2>6 DEF Kempt, r
<1> QED
  BY <1>4, <1>5, <1>6, <1>7, <1>8, <1>9 DEF Realloced, r

(* rt_system_heap_init leaves an empty heap, or one free block. *)
LEMMA InitKempt ==
  ASSUME NEW r \in Regions
  PROVE  Kempt(rt_system_heap_init(r[1], r[2]), <<>>)
<1> DEFINE begin_align == RT_ALIGN(r[1])
           end_align == RT_ALIGN_DOWN(r[2])
           size == end_align - begin_align - 2 * H
           end == size + H
           head == [used |-> FALSE, next |-> end, prev |-> 0]
           tail == [used |-> TRUE, next |-> end, prev |-> end]
           m == [a \in {0, end} |-> IF a = 0 THEN head ELSE tail]
           s == rt_system_heap_init(r[1], r[2])
<1>1. /\ r[1] \in Nat /\ r[2] \in Nat /\ r[2] < SizeWrap /\ SizeWrap \in Nat
  BY HeapAssumption
<1>2. /\ begin_align \in Nat /\ begin_align % A = 0
      /\ end_align \in Nat /\ end_align <= r[2] /\ end_align % A = 0
  BY <1>1, AlignUp, AlignDown
<1> HIDE DEF begin_align, end_align
<1>3. CASE ~(end_align > 2 * H /\ size >= 0)
  <2>1. s = Heap(<<>>, NULL, 0, 0, 0)
    BY <1>3 DEF rt_system_heap_init, Heap, H, begin_align, end_align
  <2> QED
    BY <2>1 DEF Kempt, Void
<1>4. CASE end_align > 2 * H /\ size >= 0
  <2>1. s = Heap(m, 0, 0, 0, size)
    BY <1>4 DEF rt_system_heap_init, Heap, H, begin_align, end_align
  <2>2. size \in Nat /\ end \in Nat /\ end > 0 /\ H <= end /\ end + H < SizeWrap
    BY <1>1, <1>2, <1>4, HeaderSize
  <2>3. end % A = 0 /\ 0 % A = 0
    <3>1. A \in Nat \ {0} /\ H \in Int /\ H % A = 0 /\ begin_align \in Int /\ end_align \in Int
      BY <1>2, HeaderSize
    <3>2. (end_align - begin_align) % A = 0
      BY <1>2, <3>1, AlignedSums, Zenon
    <3>3. ((end_align - begin_align) - H) % A = 0
      <4>1. end_align - begin_align \in Int
        BY <3>1
      <4> QED
        BY <3>1, <3>2, <4>1, AlignedSums, Zenon
    <3>4. end = (end_align - begin_align) - H
      BY <3>1
    <3>5. 0 % A = 0
      BY <3>1
    <3> QED
      BY <3>3, <3>4, <3>5
  <2> HIDE DEF size, end
  <2>4. m \in [{0, end} -> Header] /\ DOMAIN m = {0, end} /\ m[0] = head /\ m[end] = tail
    BY <2>2 DEF Header
  <2> HIDE DEF m
  <2>5. Chain(m, end)
    BY <2>2, <2>3, <2>4, HeaderSize DEF Chain, Link, BackLink
  <2>6. FreeIn(m) = {0} /\ UsedIn(m, end) = {}
    BY <2>2, <2>4 DEF FreeIn, UsedIn
  <2>7. Book(m, end, 0)
    <3>1. Sum(Ext(m), {}) = 0
      BY SumEmpty
    <3>2. \A x \in {0} : Ext(m)[x] \in Nat /\ Ext(m)[x] = end
      BY <2>2, <2>4 DEF Ext
    <3>3. Sum(Ext(m), {0}) = Ext(m)[0] + Sum(Ext(m), {0} \ {0})
      <4>1. IsFiniteSet({0})
        BY FS_Singleton
      <4> QED
        BY <3>2, <4>1, SumTake
    <3>4. {0} \ {0} = {}
      OBVIOUS
    <3>5. Sum(Ext(m), {0}) = end
      BY <2>2, <3>1, <3>2, <3>3, <3>4
    <3> QED
      BY <2>2, <2>6, <3>1, <3>5 DEF Book
  <2>8. Lowest(m, end, 0) /\ Apart(m, end)
    BY <2>2, <2>4, <2>6 DEF Lowest, Apart, Pair
  <2>9. /\ s.mem = m /\ s.lfree = 0 /\ s.used_mem = 0 /\ s.max_mem = 0
        /\ s.mem_size_aligned = size
        /\ s = Heap(s.mem, s.lfree, s.used_mem, s.max_mem, s.mem_size_aligned)
    BY <2>1 DEF Heap
  <2> HIDE DEF s
  <2>10. HeapEnd(s) = end
    BY <2>9 DEF HeapEnd, end, H
  <2>11. Whole(s)
    BY <2>2, <2>5, <2>7, <2>8, <2>9, <2>10 DEF Whole, Sound
  <2>12. Holds(s, <<>>)
    BY <2>6, <2>9, <2>10 DEF Holds, Callers
  <2> QED
    BY <2>11, <2>12 DEF Kempt, s
<1> QED
  BY <1>3, <1>4

LEMMA InitIInv == Init => IInv
BY InitKempt DEF Init, IInv

LEMMA NextIInv == IInv /\ [Next]_vars => IInv'
<1> SUFFICES ASSUME IInv, [Next]_vars PROVE IInv'
  OBVIOUS
<1>1. \A n \in Sizes : n \in Nat /\ n + A <= SizeWrap
  BY HeapAssumption, NoWrapAssumption DEF A
<1>2. ASSUME NEW n \in Sizes, Malloc(n) PROVE IInv'
  <2>1. n \in Nat /\ n + A <= SizeWrap
    BY <1>1
  <2> DEFINE r == rt_malloc(h, n)
  <2>2. Kempt(r.heap, IF r.ptr = NULL THEN asked ELSE With(asked, r.ptr, n))
    BY <2>1, MallocKempt DEF IInv
  <2> QED
    BY <1>2, <2>2 DEF Malloc, Granted, IInv
<1>3. ASSUME NEW k \in Sizes, NEW n \in Sizes, Calloc(k, n) PROVE IInv'
  <2> DEFINE j == (k * n) % SizeWrap
  <2>1. j + A <= SizeWrap
    BY NoWrapAssumption DEF A
  <2>2. j \in Nat
    <3>1. k \in Nat /\ n \in Nat /\ SizeWrap \in Nat \ {0}
      BY <1>1, HeapAssumption
    <3>2. k * n \in Nat
      BY <3>1
    <3> QED
      BY <3>1, <3>2
  <2> HIDE DEF j
  <2> DEFINE r == rt_malloc(h, j)
  <2>3. Kempt(r.heap, IF r.ptr = NULL THEN asked ELSE With(asked, r.ptr, j))
    BY <2>1, <2>2, MallocKempt DEF IInv
  <2>4. h' = r.heap /\ asked' = IF r.ptr = NULL THEN asked ELSE With(asked, r.ptr, j)
    BY <1>3 DEF Calloc, rt_calloc, Granted, j
  <2> QED
    BY <2>3, <2>4 DEF IInv
<1>4. ASSUME NEW p \in DOMAIN asked, Free(p) PROVE IInv'
  BY <1>4, FreeKempt DEF Free, IInv
<1>5. ASSUME NEW p \in DOMAIN asked, NEW n \in Sizes, Realloc(p, n) PROVE IInv'
  <2>1. n \in Nat /\ n + A <= SizeWrap
    BY <1>1
  <2> DEFINE r == rt_realloc(h, p, n)
  <2>2. Kempt(r.heap, IF r.ptr # NULL THEN With(Without(asked, p), r.ptr, n)
                      ELSE IF n = 0 THEN Without(asked, p) ELSE asked)
    BY <2>1, ReallocKempt DEF IInv
  <2> QED
    BY <1>5, <2>2 DEF Realloc, IInv
<1>6. CASE UNCHANGED vars
  BY <1>6 DEF vars, IInv
<1> QED
  BY <1>2, <1>3, <1>4, <1>5, <1>6 DEF Next

LEMMA WholeHeapInv ==
  ASSUME Whole(h), Holds(h, asked)
  PROVE  HeapInv
<1> DEFINE E == HeapEnd(h)
           m == h.mem
<1>1. /\ Chain(m, E) /\ Lowest(m, E, h.lfree) /\ Book(m, E, h.used_mem) /\ Apart(m, E)
      /\ h.max_mem \in Nat /\ h.used_mem <= h.max_mem /\ h.max_mem <= E
      /\ h.mem_size_aligned \in Nat /\ E + H < SizeWrap /\ E = h.mem_size_aligned + H
  BY DEF Whole, Sound, HeapEnd, H
<1>2. /\ DOMAIN m \subseteq Nat /\ E \in Nat /\ E \in DOMAIN m /\ 0 \in DOMAIN m
      /\ \A a \in DOMAIN m : m[a] \in Header /\ a <= E /\ a % A = 0
  BY <1>1 DEF Chain
<1>3. Free_ = FreeIn(m) /\ InUse = UsedIn(m, E) /\ Headers = DOMAIN m /\ InUse = Callers(h)
  BY DEF Free_, InUse, Headers, Used, FreeIn, UsedIn, Callers
<1>4. TypeOK
  <2>1. \A a \in Headers : m[a].used \in BOOLEAN /\ {m[a].next, m[a].prev} \subseteq Nat
    BY <1>2, <1>3 DEF Header
  <2>2. {h.used_mem, h.max_mem, h.mem_size_aligned} \subseteq 0..(SizeWrap - 1)
    <3>1. h.used_mem \in Nat
      BY <1>1 DEF Book
    <3> QED
      BY <1>1, <1>2, <3>1, HeaderSize, HeapAssumption
  <2>3. h.lfree \in Headers
    BY <1>1, <1>2, <1>3 DEF Lowest, FreeIn
  <2> QED
    BY <2>1, <2>2, <2>3 DEF TypeOK
<1>5. ChainWhole
  <2> SUFFICES ASSUME NEW a \in Headers \ {E}
               PROVE  LET n == m[a].next
                      IN  /\ n \in Headers /\ n = Min({b \in Headers : b > a})
                          /\ n - a >= SIZEOF_STRUCT_MEM /\ a % RT_ALIGN_SIZE = 0
                          /\ n # E => m[n].prev = a
                          /\ ~(a \in Free_ /\ n \in Free_)
    BY <1>2, <1>3 DEF ChainWhole
  <2> DEFINE n == m[a].next
             S == {b \in Headers : b > a}
  <2>1. Link(m, E, a)
    BY <1>1, <1>3 DEF Chain
  <2>2. n \in Headers /\ n \in Nat /\ a \in Nat /\ a + H <= n /\ (n # E => m[n].prev = a)
    BY <1>2, <1>3, <2>1 DEF Link
  <2>3. n = Min(S)
    <3>1. S \in SUBSET Nat /\ n \in S
      BY <1>2, <1>3, <2>2, HeaderSize
    <3>2. \A b \in S : n <= b
      BY <1>2, <1>3, <2>1, <2>2 DEF Link
    <3> QED
      BY <3>1, <3>2, MinIs
  <2>4. n - a >= SIZEOF_STRUCT_MEM /\ a % RT_ALIGN_SIZE = 0
    BY <1>2, <1>3, <2>2, HeaderSize DEF H, A
  <2>5. ~(a \in Free_ /\ n \in Free_)
    BY <1>1, <1>3 DEF Apart, Pair
  <2> QED
    BY <2>2, <2>3, <2>4, <2>5
<1>6. LowestFree
  <2> DEFINE S == Free_ \cup {E}
  <2>1. S \in SUBSET Nat /\ h.lfree \in S
    BY <1>1, <1>2, <1>3 DEF Lowest, FreeIn
  <2>2. \A x \in S : h.lfree <= x
    BY <1>1, <1>2, <1>3 DEF Lowest, FreeIn
  <2>3. Min(S) = h.lfree
    BY <2>1, <2>2, MinIs
  <2> QED
    BY <2>3 DEF LowestFree
<1>7. StatsRight
  BY <1>1, <1>3 DEF StatsRight, Extent, Ext, Book, Sum, Headers
<1>8. RequestsMet
  <2>1. DOMAIN asked = {a + SIZEOF_STRUCT_MEM : a \in InUse}
    BY <1>3 DEF Holds, H
  <2>2. ASSUME NEW p \in DOMAIN asked
        PROVE  p % RT_ALIGN_SIZE = 0 /\ asked[p] <= DataSize(h, p - SIZEOF_STRUCT_MEM)
    <3>1. PICK a \in Callers(h) : p = a + H
      BY DEF Holds
    <3>2. a \in Nat /\ a % A = 0 /\ H % A = 0 /\ H \in Nat
      BY <1>2, <3>1, HeaderSize DEF Callers, UsedIn
    <3>3. a \in Int /\ H \in Int /\ A \in Nat \ {0}
      BY <3>2, HeaderSize
    <3>4. (a + H) % A = 0
      BY <3>2, <3>3, AlignedSums, Zenon
    <3>5. p - SIZEOF_STRUCT_MEM = a
      BY <3>1, <3>2 DEF H
    <3> QED
      BY <3>1, <3>4, <3>5 DEF A, Holds
  <2> QED
    BY <2>1, <2>2 DEF RequestsMet
<1> QED
  BY <1>4, <1>5, <1>6, <1>7, <1>8 DEF HeapInv

LEMMA VoidHeapInv ==
  ASSUME Void(h), asked = <<>>
  PROVE  HeapInv
<1>1. /\ Headers = {} /\ InUse = {} /\ Free_ = {} /\ DOMAIN asked = {}
      /\ h.lfree = NULL /\ h.used_mem = 0 /\ h.max_mem = 0 /\ h.mem_size_aligned = 0
  BY VoidFields DEF Headers, InUse, Free_
<1>2. SizeWrap \in Nat \ {0}
  BY HeapAssumption
<1>3. TypeOK /\ ChainWhole /\ LowestFree /\ RequestsMet
  BY <1>1, <1>2 DEF TypeOK, ChainWhole, LowestFree, RequestsMet
<1>4. SumFunctionOnSet(Extent, {}) = 0
  BY SumEmpty DEF Sum
<1>5. StatsRight
  BY <1>1, <1>4 DEF StatsRight
<1> QED
  BY <1>3, <1>5 DEF HeapInv

(* The heap of mem.c keeps its structure whatever is asked of it and given *)
(* back: the headers tile it, lfree is the lowest free block, used_mem is  *)
(* the bytes in use, and the blocks in use are the callers'.               *)
THEOREM HeapStructure == Spec => []HeapInv
<1>1. IInv => HeapInv
  BY WholeHeapInv, VoidHeapInv DEF IInv, Kempt
<1> QED
  BY <1>1, InitIInv, NextIInv, PTL DEF Spec

LEMMA WholeFits ==
  ASSUME Whole(h), NEW n \in Sizes \ {0}
  PROVE  (rt_malloc(h, n).ptr = NULL) <=>
           \A a \in Free_ : \/ DataSize(h, a) < BlockSize(n)
                            \/ h.mem[a].next = HeapEnd(h) /\ DataSize(h, a) = BlockSize(n)
<1> DEFINE E == HeapEnd(h)
           m == h.mem
           z == h.mem_size_aligned
           size == BlockSize(n)
<1>1. n \in Nat /\ n # 0 /\ n + A <= SizeWrap
  BY HeapAssumption, NoWrapAssumption DEF A
<1>2. Malloced(h, n, rt_malloc(h, n))
  BY <1>1, MallocWhole
<1>3. /\ Chain(m, E) /\ Lowest(m, E, h.lfree) /\ z \in Nat /\ E = z + H /\ H \in Nat
  BY HeaderSize DEF Whole, Sound, HeapEnd, H
<1>4. size \in Nat /\ RT_ALIGN(n) \in Nat /\ RT_ALIGN(n) <= size
  BY <1>1, BlockSizes, AlignUp
<1>5. Free_ = FreeIn(m)
  BY DEF Free_, Headers, Used, FreeIn
<1> HIDE DEF size
<1>6. ASSUME NEW a \in FreeIn(m)
      PROVE  /\ a \in Nat /\ m[a].next \in Nat /\ m[a].next <= E /\ h.lfree <= a
             /\ DataSize(h, a) = m[a].next - (a + H) /\ a \in DOMAIN m
             /\ a \in FitFor(h, size) <=> a < z - size /\ DataSize(h, a) >= size
  <2>1. a \in DOMAIN m /\ a # E /\ ~m[a].used /\ a \in Nat
    BY <1>3 DEF FreeIn, Chain
  <2>2. m[a].next \in Nat /\ m[a].next <= E
    BY <1>3, <2>1 DEF Chain, Link
  <2>3. h.lfree <= a /\ h.lfree \in Nat
    BY <1>3 DEF Lowest, FreeIn, Chain
  <2>4. a \in FitFor(h, size) <=> a < z - size /\ DataSize(h, a) >= size
    BY <2>1, <2>3 DEF FitFor, Used
  <2> QED
    BY <2>1, <2>2, <2>3, <2>4 DEF DataSize, H
<1>7. rt_malloc(h, n).ptr = NULL <=> Fails(h, n)
  <2>1. CASE Fails(h, n)
    BY <1>2, <2>1 DEF Malloced
  <2>2. CASE ~Fails(h, n)
    <3> DEFINE r == rt_malloc(h, n)
    <3>1. Malloced(h, n, r)
      BY <1>2
    <3> HIDE DEF r
    <3>2. PICK a \in FreeIn(m) : r = [heap |-> r.heap, ptr |-> a + H]
      BY <2>2, <3>1 DEF Malloced
    <3>3. r.ptr = a + H
      BY <3>2
    <3>4. r.ptr # NULL
      BY <1>3, <1>6, <3>3 DEF NULL
    <3> QED
      BY <2>2, <3>4 DEF r
  <2> QED
    BY <2>1, <2>2
<1>8. ASSUME Fails(h, n), NEW a \in FreeIn(m)
      PROVE  \/ DataSize(h, a) < size
             \/ m[a].next = E /\ DataSize(h, a) = size
  <2>1. CASE RT_ALIGN(n) > z
    BY <1>3, <1>4, <1>6, <2>1
  <2>2. CASE FitFor(h, size) = {}
    BY <1>3, <1>4, <1>6, <2>2
  <2> QED
    BY <1>1, <1>8, <2>1, <2>2 DEF Fails, size
<1>9. ASSUME ~Fails(h, n)
      PROVE  \E a \in FreeIn(m) : ~(\/ DataSize(h, a) < size
                                    \/ m[a].next = E /\ DataSize(h, a) = size)
  <2>1. PICK a \in FitFor(h, size) : TRUE
    BY <1>9 DEF Fails, size
  <2>2. a \in FreeIn(m)
    BY <2>1 DEF FitFor, FreeIn, Used
  <2> QED
    BY <1>3, <1>4, <1>6, <2>1, <2>2
<1> QED
  BY <1>5, <1>7, <1>8, <1>9 DEF size

(* First fit from lfree misses no free block that is large enough, but for *)
(* an exact fit at the end of the heap.                                    *)
THEOREM HeapFits == Spec => []FitsFound
<1>1. IInv => FitsFound
  <2>1. ASSUME Whole(h) PROVE FitsFound
    BY <2>1, WholeFits DEF FitsFound
  <2>2. ASSUME Void(h) PROVE FitsFound
    <3>1. Free_ = {}
      BY <2>2, VoidFields DEF Free_, Headers
    <3>2. ASSUME NEW n \in Sizes \ {0} PROVE rt_malloc(h, n).ptr = NULL
      <4>1. n \in Nat /\ n + A <= SizeWrap
        BY HeapAssumption, NoWrapAssumption DEF A
      <4>2. rt_malloc(h, n) = [heap |-> h, ptr |-> NULL]
        BY <2>2, <4>1, VoidMalloc
      <4> QED
        BY <4>2
    <3> QED
      BY <3>1, <3>2 DEF FitsFound
  <2> QED
    BY <2>1, <2>2 DEF IInv, Kempt
<1> QED
  BY <1>1, InitIInv, NextIInv, PTL DEF Spec

-----------------------------------------------------------------------------
(* The refinement of HeapContract: s is the heap and q what callers have. *)
Block(s, q, a) == [start |-> a + H, size |-> DataSize(s, a), asked |-> q[a + H]]
Out(s, q) == {Block(s, q, a) : a \in Callers(s)}
RoomOf(s) == H..(HeapEnd(s) - 1)

CellsOf(b) == b.start..(b.start + b.size - 1)
FitsAmong(b, R, S) ==
  /\ b.asked \in 1..b.size /\ CellsOf(b) \subseteq R
  /\ \A o \in S : CellsOf(b) \cap CellsOf(o) = {}

AllocateStep(R, S, T) == \E b \in T : FitsAmong(b, R, S) /\ T = S \cup {b}
FreeStep(S, T) == \E b \in S : T = S \ {b}
ResizeStep(S, T) ==
  \E b \in S : \E n \in 1..b.size : \E k \in 1..n :
    T = (S \ {b}) \cup {[start |-> b.start, size |-> n, asked |-> k]}
MoveStep(R, S, T) == \E b \in S, c \in T : FitsAmong(c, R, S) /\ T = (S \ {b}) \cup {c}
BlockStep(R, S, T) ==
  AllocateStep(R, S, T) \/ FreeStep(S, T) \/ ResizeStep(S, T) \/ MoveStep(R, S, T) \/ T = S
ContractStep(s, q, r, w) ==
  RoomOf(r) = RoomOf(s) /\ BlockStep(RoomOf(s), Out(s, q), Out(r, w))

(* Blocks in use lie apart, inside the heap, and hold what was asked. *)
LEMMA BlocksApart ==
  ASSUME NEW s, Whole(s), NEW q, Holds(s, q), NEW a \in Callers(s)
  PROVE  /\ CellsOf(Block(s, q, a)) \subseteq RoomOf(s)
         /\ Block(s, q, a).asked \in 1..Block(s, q, a).size
         /\ \A x \in Callers(s) \ {a} :
              /\ Block(s, q, x) # Block(s, q, a)
              /\ CellsOf(Block(s, q, a)) \cap CellsOf(Block(s, q, x)) = {}
<1> DEFINE E == HeapEnd(s)
           m == s.mem
<1>1. Chain(m, E) /\ E \in Nat /\ H \in Nat
  BY HeaderSize DEF Whole, Sound, Chain
<1>2. ASSUME NEW x \in Callers(s)
      PROVE  /\ x \in Nat /\ m[x].next \in Nat /\ m[x].next <= E
             /\ CellsOf(Block(s, q, x)) = (x + H)..(m[x].next - 1)
             /\ Block(s, q, x).start = x + H
             /\ \A y \in Callers(s) : y <= x \/ m[x].next <= y
  <2>1. x \in Nat /\ m[x].next \in Nat /\ DataSize(s, x) = m[x].next - (x + H)
    BY CallerTypes
  <2>2. x \in DOMAIN m \ {E}
    BY DEF Callers, UsedIn
  <2>3. Link(m, E, x) /\ m[x].next <= E
    BY <1>1, <2>2 DEF Chain, Link
  <2>4. \A y \in Callers(s) : y <= x \/ m[x].next <= y
    BY <2>3 DEF Link, Callers, UsedIn
  <2>5. Block(s, q, x).start = x + H /\ Block(s, q, x).size = m[x].next - (x + H)
    BY <2>1 DEF Block
  <2>6. x + H + (m[x].next - (x + H)) - 1 = m[x].next - 1
    BY <1>1, <2>1
  <2> QED
    BY <2>1, <2>3, <2>4, <2>5, <2>6 DEF CellsOf
<1>3. CellsOf(Block(s, q, a)) \subseteq RoomOf(s)
  <2>1. /\ a \in Nat /\ m[a].next \in Nat /\ m[a].next <= E
        /\ CellsOf(Block(s, q, a)) = (a + H)..(m[a].next - 1)
    BY <1>2
  <2>2. ASSUME NEW y \in (a + H)..(m[a].next - 1)
        PROVE  y \in H..(E - 1)
    BY <1>1, <2>1
  <2> QED
    BY <2>1, <2>2 DEF RoomOf
<1>4. ASSUME NEW x \in Callers(s) \ {a}
      PROVE  /\ Block(s, q, x) # Block(s, q, a)
             /\ CellsOf(Block(s, q, a)) \cap CellsOf(Block(s, q, x)) = {}
  <2>1. Block(s, q, x) # Block(s, q, a)
    <3>1. Block(s, q, x).start # Block(s, q, a).start
      BY <1>1, <1>2
    <3> QED
      BY <3>1
  <2>2. a <= x => m[a].next <= x
    BY <1>2
  <2>3. x <= a => m[x].next <= a
    BY <1>2
  <2>4. a \in Nat /\ x \in Nat /\ m[a].next \in Nat /\ m[x].next \in Nat /\ a # x
    BY <1>2
  <2>5. ASSUME NEW y \in (a + H)..(m[a].next - 1), y \in (x + H)..(m[x].next - 1)
        PROVE  FALSE
    <3>1. y \in Int /\ a + H <= y /\ y < m[a].next /\ x + H <= y /\ y < m[x].next
      BY <1>1, <2>4, <2>5
    <3> QED
      BY <1>1, <2>2, <2>3, <2>4, <3>1
  <2> QED
    BY <1>2, <2>1, <2>5
<1>5. Block(s, q, a).asked \in 1..Block(s, q, a).size
  <2>1. DataSize(s, a) \in Int /\ q[a + H] \in Nat \ {0} /\ q[a + H] <= DataSize(s, a)
    BY CallerTypes DEF Holds
  <2>2. q[a + H] \in 1..DataSize(s, a)
    BY <2>1
  <2> QED
    BY <2>2 DEF Block
<1> QED
  BY <1>3, <1>4, <1>5

LEMMA OutCame ==
  ASSUME NEW s, Whole(s), NEW q, Holds(s, q), NEW a \in FreeIn(s.mem), NEW n \in Nat \ {0},
         NEW r, Whole(r), Came(s, a, n, r), NEW w, w = With(q, a + H, n)
  PROVE  /\ Holds(r, w) /\ RoomOf(r) = RoomOf(s)
         /\ FitsAmong(Block(r, w, a), RoomOf(s), Out(s, q))
         /\ Out(r, w) = Out(s, q) \cup {Block(r, w, a)}
         /\ Callers(r) = Callers(s) \cup {a} /\ a \notin Callers(s)
         /\ \A x \in Callers(s) : Block(r, w, x) = Block(s, q, x)
<1>1. HeapEnd(r) = HeapEnd(s)
  BY DEF Came, HeapEnd
<1>2. Callers(r) = Callers(s) \cup {a} /\ a \notin Callers(s)
  BY <1>1 DEF Came, Callers, UsedIn, FreeIn
<1>3. ASSUME NEW x \in Callers(s) PROVE Block(r, w, x) = Block(s, q, x)
  <2>1. a \in Nat /\ x \in Nat /\ H \in Nat
    BY <1>2, CallerTypes
  <2>2. x + H # a + H /\ x + H \in DOMAIN q
    BY <1>2, <2>1 DEF Holds
  <2>3. w[x + H] = q[x + H]
    BY <2>2 DEF With
  <2>4. DataSize(r, x) = DataSize(s, x)
    BY DEF Came, Callers, DataSize
  <2> QED
    BY <2>3, <2>4 DEF Block
<1>4. Out(r, w) = Out(s, q) \cup {Block(r, w, a)}
  BY <1>2, <1>3 DEF Out
<1>5. Holds(r, w)
  BY HoldsCame
<1>6. ASSUME NEW o \in Out(s, q) PROVE CellsOf(Block(r, w, a)) \cap CellsOf(o) = {}
  <2>1. PICK x \in Callers(s) : o = Block(r, w, x)
    BY <1>3 DEF Out
  <2> QED
    BY <1>2, <1>5, <2>1, BlocksApart
<1>7. CellsOf(Block(r, w, a)) \subseteq RoomOf(r) /\ Block(r, w, a).asked \in 1..Block(r, w, a).size
  BY <1>2, <1>5, BlocksApart
<1>8. RoomOf(r) = RoomOf(s)
  BY <1>1 DEF RoomOf
<1>9. FitsAmong(Block(r, w, a), RoomOf(s), Out(s, q))
  BY <1>6, <1>7, <1>8 DEF FitsAmong
<1> QED
  BY <1>2, <1>3, <1>4, <1>5, <1>8, <1>9

LEMMA OutGone ==
  ASSUME NEW s, Whole(s), NEW q, Holds(s, q), NEW a \in Callers(s), NEW r, Gone(s, a, r),
         NEW w, w = Without(q, a + H)
  PROVE  Out(r, w) = Out(s, q) \ {Block(s, q, a)} /\ RoomOf(r) = RoomOf(s)
<1>1. HeapEnd(r) = HeapEnd(s)
  BY DEF Gone, HeapEnd
<1>2. Callers(r) = Callers(s) \ {a}
  BY <1>1 DEF Gone, Callers
<1>3. ASSUME NEW x \in Callers(r) PROVE Block(r, w, x) = Block(s, q, x)
  <2>1. x \in Callers(s) /\ x # a
    BY <1>2
  <2>2. a \in Nat /\ x \in Nat /\ H \in Nat
    BY <2>1, CallerTypes
  <2>3. x + H # a + H /\ x + H \in DOMAIN q
    BY <2>1, <2>2 DEF Holds
  <2>4. w[x + H] = q[x + H]
    BY <2>3 DEF Without
  <2>5. DataSize(r, x) = DataSize(s, x)
    BY <2>1 DEF Gone, Callers, DataSize
  <2> QED
    BY <2>4, <2>5 DEF Block
<1>4. \A x \in Callers(s) \ {a} : Block(s, q, x) # Block(s, q, a)
  BY BlocksApart
<1>5. Out(r, w) = Out(s, q) \ {Block(s, q, a)}
  BY <1>2, <1>3, <1>4 DEF Out
<1> QED
  BY <1>1, <1>5 DEF RoomOf

(* A block that stays where it is, no longer than it was. *)
LEMMA OutResized ==
  ASSUME NEW s, Whole(s), NEW q, Holds(s, q), NEW a \in Callers(s), NEW r,
         Callers(r) = Callers(s), NEW n \in Nat \ {0}, n <= DataSize(r, a),
         DataSize(r, a) \in Nat, DataSize(r, a) <= DataSize(s, a),
         \A x \in Callers(s) \ {a} : DataSize(r, x) = DataSize(s, x),
         NEW w, w = With(Without(q, a + H), a + H, n)
  PROVE  ResizeStep(Out(s, q), Out(r, w))
<1> DEFINE size == DataSize(r, a)
<1>1. ASSUME NEW x \in Callers(s) \ {a}
      PROVE  Block(r, w, x) = Block(s, q, x) /\ Block(s, q, x) # Block(s, q, a)
  <2>1. a \in Nat /\ x \in Nat /\ H \in Nat
    BY CallerTypes
  <2>2. x + H # a + H /\ x + H \in DOMAIN q
    BY <2>1 DEF Holds
  <2>3. w[x + H] = q[x + H]
    BY <2>2 DEF With, Without
  <2>4. Block(r, w, x) = Block(s, q, x)
    BY <2>3 DEF Block
  <2> QED
    BY <2>4, BlocksApart
<1>2. w[a + H] = n
  BY DEF With
<1>3. Block(r, w, a) = [start |-> Block(s, q, a).start, size |-> size, asked |-> n]
  BY <1>2 DEF Block
<1>4. Out(r, w) = (Out(s, q) \ {Block(s, q, a)}) \cup {Block(r, w, a)}
  BY <1>1 DEF Out
<1>5. Block(s, q, a) \in Out(s, q)
  BY DEF Out
<1>6. size \in 1..Block(s, q, a).size /\ n \in 1..size
  <2>1. DataSize(s, a) \in Int
    BY CallerTypes
  <2>2. size \in 1..DataSize(s, a) /\ n \in 1..size
    BY <2>1
  <2> QED
    BY <2>2 DEF Block
<1> HIDE DEF size
<1> QED
  BY <1>3, <1>4, <1>5, <1>6 DEF ResizeStep

LEMMA OutMoved ==
  ASSUME NEW s, Whole(s), NEW q, Holds(s, q), NEW a \in Callers(s), NEW n \in Nat \ {0},
         NEW c \in FreeIn(s.mem), NEW t, Whole(t), Came(s, c, n, t), NEW r, Gone(t, a, r),
         NEW w, w = With(Without(q, a + H), c + H, n)
  PROVE  MoveStep(RoomOf(s), Out(s, q), Out(r, w)) /\ RoomOf(r) = RoomOf(s)
<1> DEFINE v == With(q, c + H, n)
<1>1. /\ Holds(t, v) /\ RoomOf(t) = RoomOf(s)
      /\ FitsAmong(Block(t, v, c), RoomOf(s), Out(s, q))
      /\ Out(t, v) = Out(s, q) \cup {Block(t, v, c)}
      /\ Callers(t) = Callers(s) \cup {c} /\ c \notin Callers(s)
      /\ \A x \in Callers(s) : Block(t, v, x) = Block(s, q, x)
  BY OutCame
<1>2. a \in Callers(t) /\ a # c /\ c \in Callers(t) /\ Block(t, v, a) = Block(s, q, a)
  BY <1>1
<1>3. w = Without(v, a + H)
  <2>1. a \in Nat /\ c \in Nat /\ H \in Nat
    BY <1>2, CallerTypes
  <2>2. c + H # a + H
    BY <1>2, <2>1
  <2> QED
    BY <2>2, WithoutWith
<1> HIDE DEF v
<1>4. Out(r, w) = Out(t, v) \ {Block(t, v, a)} /\ RoomOf(r) = RoomOf(t)
  BY <1>1, <1>2, <1>3, OutGone
<1>5. Block(t, v, c) # Block(t, v, a)
  BY <1>1, <1>2, BlocksApart
<1>6. Out(r, w) = (Out(s, q) \ {Block(s, q, a)}) \cup {Block(t, v, c)}
      /\ Block(s, q, a) \in Out(s, q)
  BY <1>1, <1>2, <1>4, <1>5 DEF Out
<1>7. Block(t, v, c) \in Out(r, w)
  BY <1>6
<1>8. MoveStep(RoomOf(s), Out(s, q), Out(r, w))
  BY <1>1, <1>6, <1>7 DEF MoveStep
<1> QED
  BY <1>1, <1>4, <1>8

LEMMA SameStep ==
  ASSUME NEW s, NEW q
  PROVE  ContractStep(s, q, s, q)
BY DEF ContractStep, BlockStep

LEMMA MallocStep ==
  ASSUME NEW s, NEW q, Kempt(s, q), NEW n \in Nat, n + A <= SizeWrap
  PROVE  LET r == rt_malloc(s, n)
         IN  ContractStep(s, q, r.heap, IF r.ptr = NULL THEN q ELSE With(q, r.ptr, n))
<1> DEFINE r == rt_malloc(s, n)
<1>1. CASE r = [heap |-> s, ptr |-> NULL]
  <2> HIDE DEF r
  <2>1. r.heap = s /\ r.ptr = NULL
    BY <1>1
  <2> QED
    BY <2>1, SameStep DEF r
<1>2. CASE Whole(s) /\ Holds(s, q) /\ ~Fails(s, n)
  <2>1. Malloced(s, n, r)
    BY <1>2, MallocWhole
  <2> HIDE DEF r
  <2>2. PICK a \in FreeIn(s.mem) :
          /\ r = [heap |-> r.heap, ptr |-> a + H]
          /\ Whole(r.heap) /\ Came(s, a, BlockSize(n), r.heap)
    BY <1>2, <2>1 DEF Malloced
  <2>3. a \in Nat /\ H \in Nat
    BY <1>2, HeaderSize DEF Whole, Sound, Chain, FreeIn
  <2>4. r.ptr = a + H /\ r.ptr # NULL
    BY <2>2, <2>3 DEF NULL
  <2>5. n \in Nat \ {0} /\ BlockSize(n) \in Nat /\ n <= BlockSize(n)
    BY <1>2, BlockSizes DEF Fails
  <2>6. Came(s, a, n, r.heap)
    <3>1. a \in Callers(r.heap)
      BY <2>2 DEF Came, Callers, HeapEnd
    <3>2. DataSize(r.heap, a) \in Int /\ DataSize(r.heap, a) >= BlockSize(n)
      BY <2>2, <3>1, CallerTypes DEF Came
    <3>3. DataSize(r.heap, a) >= n
      BY <2>5, <3>2
    <3> QED
      BY <2>2, <3>3 DEF Came
  <2> DEFINE w == With(q, a + H, n)
  <2>7. /\ RoomOf(r.heap) = RoomOf(s)
        /\ FitsAmong(Block(r.heap, w, a), RoomOf(s), Out(s, q))
        /\ Out(r.heap, w) = Out(s, q) \cup {Block(r.heap, w, a)}
    BY <1>2, <2>2, <2>5, <2>6, OutCame
  <2> HIDE DEF w
  <2>8. ContractStep(s, q, r.heap, w)
    BY <2>7 DEF ContractStep, BlockStep, AllocateStep
  <2> QED
    BY <2>4, <2>8 DEF r, w
<1>3. CASE Whole(s) /\ Fails(s, n)
  BY <1>1, <1>3, MallocWhole DEF Malloced
<1>4. CASE Void(s)
  BY <1>1, <1>4, VoidMalloc
<1> QED
  BY <1>2, <1>3, <1>4 DEF Kempt

LEMMA FreeingStep ==
  ASSUME NEW s, NEW q, Kempt(s, q), NEW p \in DOMAIN q
  PROVE  ContractStep(s, q, rt_free(s, p), Without(q, p))
<1>1. PICK a \in Callers(s) : p = a + H
  BY PointerBlock
<1>2. Whole(s) /\ Holds(s, q)
  BY PointerBlock
<1>3. Gone(s, a, rt_free(s, p))
  BY <1>1, <1>2, FreeWhole DEF Callers
<1> DEFINE r == rt_free(s, p)
           w == Without(q, p)
<1>4. Out(r, w) = Out(s, q) \ {Block(s, q, a)} /\ RoomOf(r) = RoomOf(s)
  BY <1>1, <1>2, <1>3, OutGone
<1>5. Block(s, q, a) \in Out(s, q)
  BY DEF Out
<1> HIDE DEF r, w
<1>6. ContractStep(s, q, r, w)
  BY <1>4, <1>5 DEF ContractStep, BlockStep, FreeStep
<1> QED
  BY <1>6 DEF r, w

LEMMA ReallocStep ==
  ASSUME NEW s, NEW q, Kempt(s, q), NEW p \in DOMAIN q, NEW n \in Nat, n + A <= SizeWrap
  PROVE  LET r == rt_realloc(s, p, n)
         IN  ContractStep(s, q, r.heap, IF r.ptr # NULL THEN With(Without(q, p), r.ptr, n)
                                        ELSE IF n = 0 THEN Without(q, p) ELSE q)
<1> DEFINE r == rt_realloc(s, p, n)
           w == IF r.ptr # NULL THEN With(Without(q, p), r.ptr, n)
                ELSE IF n = 0 THEN Without(q, p) ELSE q
<1>1. Whole(s) /\ Holds(s, q)
  BY PointerBlock
<1>2. PICK a \in Callers(s) : p = a + H /\ DataSize(s, a) > 0
  BY PointerBlock
<1>3. a \in Nat /\ H \in Nat /\ p # NULL
  BY <1>1, <1>2, CallerTypes DEF NULL
<1>4. Realloced(s, a, n, r)
  BY <1>1, <1>2, ReallocWhole DEF Callers
<1>5. Block(s, q, a) \in Out(s, q)
  BY DEF Out
<1> HIDE DEF r
<1>6. CASE n # 0 /\ r = [heap |-> s, ptr |-> NULL]
  <2>1. r.heap = s /\ r.ptr = NULL
    BY <1>6
  <2>2. w = q
    BY <1>6, <2>1
  <2> QED
    BY <2>1, <2>2, SameStep DEF r
<1>7. CASE n = 0 /\ r.ptr = NULL /\ Whole(r.heap) /\ Gone(s, a, r.heap)
  <2>1. w = Without(q, a + H)
    BY <1>2, <1>7
  <2> HIDE DEF w
  <2>2. Out(r.heap, w) = Out(s, q) \ {Block(s, q, a)} /\ RoomOf(r.heap) = RoomOf(s)
    BY <1>1, <1>7, <2>1, OutGone
  <2>3. ContractStep(s, q, r.heap, w)
    BY <1>5, <2>2 DEF ContractStep, BlockStep, FreeStep
  <2> QED
    BY <2>3 DEF r, w
<1>8. CASE n # 0 /\ Kept(s, a, n, r)
  <2>1. r.heap = s /\ r.ptr = a + H /\ n <= DataSize(s, a)
    BY <1>8 DEF Kept
  <2>2. w = With(Without(q, a + H), a + H, n)
    BY <1>2, <1>3, <2>1
  <2> HIDE DEF w
  <2>3. DataSize(s, a) \in Nat
    BY <1>1, <1>2, CallerTypes
  <2>4. ResizeStep(Out(s, q), Out(s, w))
    BY <1>1, <1>8, <2>1, <2>2, <2>3, OutResized
  <2>5. ContractStep(s, q, r.heap, w)
    BY <2>1, <2>4 DEF ContractStep, BlockStep
  <2> QED
    BY <2>5 DEF r, w
<1>9. CASE n # 0 /\ Resized(s, a, n, r)
  <2>1. PICK size \in Nat \ {0} :
          /\ n <= size /\ size < DataSize(s, a) /\ r.ptr = a + H
          /\ Whole(r.heap) /\ Shrunk(s, a, a + H + size, r.heap)
    BY <1>9 DEF Resized
  <2>2. w = With(Without(q, a + H), a + H, n)
    BY <1>2, <1>3, <2>1
  <2> HIDE DEF w
  <2>3. HeapEnd(r.heap) = HeapEnd(s) /\ Callers(r.heap) = Callers(s)
    BY <2>1 DEF Shrunk, HeapEnd, Callers
  <2>4. \A x \in Callers(s) \ {a} : DataSize(r.heap, x) = DataSize(s, x)
    BY <2>1 DEF Shrunk, Callers, DataSize
  <2>5. DataSize(r.heap, a) = size
    <3>1. r.heap.mem[a].next = a + H + size
      BY <1>2, <2>1 DEF Shrunk, Callers
    <3> QED
      BY <1>3, <2>1, <3>1 DEF DataSize, H
  <2>6. DataSize(s, a) \in Int
    BY <1>1, CallerTypes
  <2>7. n <= DataSize(r.heap, a) /\ DataSize(r.heap, a) \in Nat
        /\ DataSize(r.heap, a) <= DataSize(s, a)
    BY <2>1, <2>5, <2>6
  <2>8. ResizeStep(Out(s, q), Out(r.heap, w))
    BY <1>1, <1>9, <2>2, <2>3, <2>4, <2>7, OutResized
  <2>9. ContractStep(s, q, r.heap, w)
    BY <2>3, <2>8 DEF ContractStep, BlockStep, RoomOf
  <2> QED
    BY <2>9 DEF r, w
<1>10. CASE n # 0 /\ Moved(s, a, n, r)
  <2>0. PICK c \in FreeIn(s.mem) : \E t :
          /\ Whole(t) /\ Came(s, c, n, t)
          /\ r.ptr = c + H /\ Whole(r.heap) /\ Gone(t, a, r.heap)
    BY <1>10 DEF Moved
  <2>1. PICK t :
          /\ Whole(t) /\ Came(s, c, n, t)
          /\ r.ptr = c + H /\ Whole(r.heap) /\ Gone(t, a, r.heap)
    BY <2>0
  <2>2. c + H # NULL
    <3>1. c \in Callers(t)
      BY <2>1 DEF Came, Callers, HeapEnd
    <3>2. c \in Nat
      BY <2>1, <3>1, CallerTypes
    <3> QED
      BY <1>3, <3>2 DEF NULL
  <2>3. w = With(Without(q, a + H), c + H, n)
    BY <1>2, <2>1, <2>2
  <2> HIDE DEF w
  <2>4. MoveStep(RoomOf(s), Out(s, q), Out(r.heap, w)) /\ RoomOf(r.heap) = RoomOf(s)
    BY <1>1, <1>10, <2>1, <2>3, OutMoved
  <2>5. ContractStep(s, q, r.heap, w)
    BY <2>4 DEF ContractStep, BlockStep
  <2> QED
    BY <2>5 DEF r, w
<1> QED
  BY <1>4, <1>6, <1>7, <1>8, <1>9, <1>10 DEF Realloced, r

LEMMA NextContract == IInv /\ [Next]_vars => ContractStep(h, asked, h', asked')
<1> SUFFICES ASSUME IInv, [Next]_vars PROVE ContractStep(h, asked, h', asked')
  OBVIOUS
<1>1. \A n \in Sizes : n \in Nat /\ n + A <= SizeWrap
  BY HeapAssumption, NoWrapAssumption DEF A
<1>2. ASSUME NEW n \in Sizes, Malloc(n) PROVE ContractStep(h, asked, h', asked')
  <2> DEFINE r == rt_malloc(h, n)
  <2>1. ContractStep(h, asked, r.heap, IF r.ptr = NULL THEN asked ELSE With(asked, r.ptr, n))
    BY <1>1, MallocStep DEF IInv
  <2> QED
    BY <1>2, <2>1 DEF Malloc, Granted
<1>3. ASSUME NEW k \in Sizes, NEW n \in Sizes, Calloc(k, n)
      PROVE  ContractStep(h, asked, h', asked')
  <2> DEFINE j == (k * n) % SizeWrap
  <2>1. j + A <= SizeWrap
    BY NoWrapAssumption DEF A
  <2>2. j \in Nat
    <3>1. k \in Nat /\ n \in Nat /\ SizeWrap \in Nat \ {0}
      BY <1>1, HeapAssumption
    <3>2. k * n \in Nat
      BY <3>1
    <3> QED
      BY <3>1, <3>2
  <2> HIDE DEF j
  <2> DEFINE r == rt_malloc(h, j)
  <2>3. ContractStep(h, asked, r.heap, IF r.ptr = NULL THEN asked ELSE With(asked, r.ptr, j))
    BY <2>1, <2>2, MallocStep DEF IInv
  <2>4. h' = r.heap /\ asked' = IF r.ptr = NULL THEN asked ELSE With(asked, r.ptr, j)
    BY <1>3 DEF Calloc, rt_calloc, Granted, j
  <2> QED
    BY <2>3, <2>4
<1>4. ASSUME NEW p \in DOMAIN asked, Free(p) PROVE ContractStep(h, asked, h', asked')
  BY <1>4, FreeingStep DEF Free, IInv
<1>5. ASSUME NEW p \in DOMAIN asked, NEW n \in Sizes, Realloc(p, n)
      PROVE  ContractStep(h, asked, h', asked')
  <2> DEFINE r == rt_realloc(h, p, n)
  <2>1. ContractStep(h, asked, r.heap,
                     IF r.ptr # NULL THEN With(Without(asked, p), r.ptr, n)
                     ELSE IF n = 0 THEN Without(asked, p) ELSE asked)
    BY <1>1, ReallocStep DEF IInv
  <2> QED
    BY <1>5, <2>1 DEF Realloc
<1>6. CASE UNCHANGED vars
  BY <1>6, SameStep DEF vars
<1> QED
  BY <1>2, <1>3, <1>4, <1>5, <1>6 DEF Next

(* What callers have is what is out. *)
HadBy(s, q) ==
  {[start |-> p, size |-> DataSize(s, p - SIZEOF_STRUCT_MEM), asked |-> q[p]] : p \in DOMAIN q}

LEMMA BlocksOut ==
  ASSUME NEW s, NEW q, Kempt(s, q)
  PROVE  HadBy(s, q) = Out(s, q)
<1>1. CASE Void(s) /\ q = <<>>
  <2>1. Callers(s) = {}
    BY <1>1, VoidFields DEF Callers, UsedIn
  <2> QED
    BY <1>1, <2>1 DEF HadBy, Out
<1>2. CASE Whole(s) /\ Holds(s, q)
  <2>1. \A a \in Callers(s) : (a + H) - SIZEOF_STRUCT_MEM = a
    BY <1>2, CallerTypes DEF H
  <2>2. DOMAIN q = {a + H : a \in Callers(s)}
    BY <1>2 DEF Holds
  <2> QED
    BY <2>1, <2>2 DEF HadBy, Out, Block
<1> QED
  BY <1>1, <1>2 DEF Kempt

(* What rt_malloc, rt_realloc and rt_free promise their callers: blocks    *)
(* that are out lie apart, between the heap's first header and its last,   *)
(* each at least as long as was asked, and a call changes none but the one *)
(* it is about.                                                            *)
THEOREM HeapImplementsContract == Spec => IsHeap
<1>1. Init => Contract!Init
  <2> SUFFICES ASSUME Init PROVE HadBy(h, asked) = {}
    BY DEF Contract!Init, HadBy
  <2>1. asked = <<>>
    BY DEF Init
  <2> QED
    BY <2>1 DEF HadBy
<1>2. IInv /\ IInv' /\ [Next]_vars =>
        [Contract!Next]_<<SIZEOF_STRUCT_MEM..(HeapEnd(h) - 1), HadBy(h, asked)>>
  <2> DEFINE R == RoomOf(h)
             S == HadBy(h, asked)
             T == HadBy(h', asked')
  <2> SUFFICES ASSUME IInv, IInv', [Next]_vars PROVE Contract!Next \/ (RoomOf(h') = R /\ T = S)
    BY DEF RoomOf, HadBy, HeapEnd, DataSize, H
  <2>1. S = Out(h, asked) /\ T = Out(h', asked')
    BY BlocksOut DEF IInv
  <2>2. RoomOf(h') = R /\ BlockStep(R, S, T)
    BY <2>1, NextContract DEF ContractStep
  <2>3. AllocateStep(R, S, T) => Contract!Allocate
    BY DEF AllocateStep, Contract!Allocate, Contract!Fits, Contract!Cells, FitsAmong, CellsOf,
           RoomOf, HadBy, HeapEnd, DataSize, H
  <2>4. FreeStep(S, T) => Contract!Free
    BY DEF FreeStep, Contract!Free, HadBy, DataSize
  <2>5. ResizeStep(S, T) => Contract!Resize
    BY DEF ResizeStep, Contract!Resize, HadBy, DataSize
  <2>6. MoveStep(R, S, T) => Contract!Move
    BY DEF MoveStep, Contract!Move, Contract!Fits, Contract!Cells, FitsAmong, CellsOf,
           RoomOf, HadBy, HeapEnd, DataSize, H
  <2>7. RoomOf(h') = R => (SIZEOF_STRUCT_MEM..(HeapEnd(h) - 1))' = SIZEOF_STRUCT_MEM..(HeapEnd(h) - 1)
    BY DEF RoomOf, HeapEnd, H
  <2> HIDE DEF R, S, T
  <2> QED
    BY <2>2, <2>3, <2>4, <2>5, <2>6, <2>7 DEF BlockStep, Contract!Next
<1> QED
  BY <1>1, <1>2, InitIInv, NextIInv, PTL DEF Spec, IsHeap, Contract!Spec, HadBy
=============================================================================
