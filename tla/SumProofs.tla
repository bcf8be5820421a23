----------------------------- MODULE SumProofs ------------------------------
(***************************************************************************)
(* Facts about the least element of a set of numbers and about sums over   *)
(* finite sets, for the proofs about the heap and about permits.  The      *)
(* provers cannot apply an induction rule, but they can use that a         *)
(* non-empty family of finite sets has a least member: an induction is     *)
(* written as the absence of a least counterexample.                       *)
(***************************************************************************)
EXTENDS Integers, FiniteSetsExt, FiniteSetTheorems, TLAPS

(* A non-empty set of natural numbers has a least element. *)
LEMMA LeastNatural ==
  ASSUME NEW S \in SUBSET Nat, S # {}
  PROVE  \E m \in S : \A n \in S : m <= n
<1> DEFINE R == OpToRel(<, Nat)
<1>1. IsWellFoundedOn(R, Nat)
  BY NatLessThanWellFounded
<1>2. \A m, n \in Nat : n < m => <<n, m>> \in R
  BY DEF OpToRel
<1> HIDE DEF R
<1>3. PICK m \in S : \A n \in S : <<n, m>> \notin R
  BY <1>1, WFMin
<1>4. ASSUME NEW n \in S
      PROVE  m <= n
  <2>1. m \in Nat /\ n \in Nat /\ ~(n < m)
    BY <1>2, <1>3
  <2> QED
    BY <2>1
<1> QED
  BY <1>4

(* Min picks it. *)
LEMMA MinIsLeast ==
  ASSUME NEW S \in SUBSET Nat, S # {}
  PROVE  Min(S) \in S /\ \A n \in S : Min(S) <= n
BY LeastNatural DEF Min

LEMMA MinIs ==
  ASSUME NEW S \in SUBSET Nat, NEW m \in S, \A n \in S : m <= n
  PROVE  Min(S) = m
<1>1. Min(S) \in S /\ Min(S) <= m
  BY MinIsLeast
<1>2. Min(S) \in Nat /\ m \in Nat /\ m <= Min(S)
  BY <1>1
<1> QED
  BY <1>1, <1>2

(* A non-empty family of subsets of a finite set has a member of which no  *)
(* strict subset is in the family.                                         *)
LEMMA LeastSubset ==
  ASSUME NEW S, IsFiniteSet(S), NEW F \in SUBSET (SUBSET S), F # {}
  PROVE  \E T \in F : \A U \in F : ~(U \subseteq T /\ U # T)
<1>1. IsWellFoundedOn(StrictSubsetOrdering(S), SUBSET S)
  BY FS_FiniteSubsetsOfFinite, FS_StrictSubsetOrderingWellFounded
<1>2. \E T \in F : \A U \in F : <<U, T>> \notin StrictSubsetOrdering(S)
  BY <1>1, WFMin
<1> QED
  BY <1>2 DEF StrictSubsetOrdering

-----------------------------------------------------------------------------
(* The equation of the function that the sum over S is a value of. *)
Pick(T) == CHOOSE x \in T : TRUE
Body(w, f, T) == IF T = {} THEN 0 ELSE w[Pick(T)] + f[T \ {Pick(T)}]
IsSum(w, S, f) == f = [T \in SUBSET S |-> Body(w, f, T)]
TheSum(w, S) == CHOOSE f : IsSum(w, S, f)

LEMMA SumIsTheSum ==
  ASSUME NEW w, NEW S
  PROVE  SumFunctionOnSet(w, S) = TheSum(w, S)[S]
BY DEF SumFunctionOnSet, FoldFunctionOnSet, MapThenFoldSet, TheSum, IsSum, Body, Pick

LEMMA PickIn ==
  ASSUME NEW T, T # {}
  PROVE  Pick(T) \in T
BY DEF Pick

(* There is such a function: by induction on n, one that solves the        *)
(* equation for the sets of at most n elements.                            *)
LEMMA SumExists ==
  ASSUME NEW w, NEW S, IsFiniteSet(S)
  PROVE  \E f : IsSum(w, S, f)
<1> DEFINE Upto(n) == {T \in SUBSET S : Cardinality(T) <= n}
           Solves(f, n) == /\ f = [T \in SUBSET S |-> f[T]]
                           /\ \A T \in Upto(n) : f[T] = Body(w, f, T)
           Bad == {n \in Nat : ~\E f : Solves(f, n)}
<1>1. \A T \in SUBSET S : IsFiniteSet(T) /\ Cardinality(T) \in Nat
                           /\ Cardinality(T) <= Cardinality(S)
  BY FS_Subset, FS_CardinalityType
<1>2. Solves([T \in SUBSET S |-> 0], 0)
  <2>1. \A T \in Upto(0) : T = {}
    BY <1>1, FS_EmptySet
  <2> QED
    BY <2>1 DEF Body
<1>3. ASSUME NEW n \in Nat, NEW f, Solves(f, n)
      PROVE  \E g : Solves(g, n + 1)
  <2> DEFINE g == [T \in SUBSET S |-> Body(w, f, T)]
  <2>1. ASSUME NEW T \in Upto(n + 1)
        PROVE  g[T] = Body(w, g, T)
    <3>1. CASE T = {}
      BY <3>1 DEF Body
    <3>2. CASE T # {}
      <4> DEFINE U == T \ {Pick(T)}
      <4>1. U \in SUBSET S /\ Cardinality(U) = Cardinality(T) - 1
        BY <1>1, <3>2, PickIn, FS_RemoveElement
      <4>2. U \in Upto(n)
        BY <1>1, <4>1
      <4>3. g[U] = f[U]
        BY <1>3, <4>1, <4>2
      <4> QED
        BY <3>2, <4>3 DEF Body
    <3> QED
      BY <3>1, <3>2
  <2>2. g = [T \in SUBSET S |-> g[T]]
    OBVIOUS
  <2> HIDE DEF g
  <2> QED
    BY <2>1, <2>2
<1>4. Bad = {}
  <2> SUFFICES ASSUME Bad # {} PROVE FALSE
    OBVIOUS
  <2>1. PICK m \in Bad : \A n \in Bad : m <= n
    <3>1. Bad \in SUBSET Nat
      OBVIOUS
    <3> HIDE DEF Bad
    <3> QED
      BY <3>1, LeastNatural
  <2>2. m # 0
    BY <1>2
  <2>3. m - 1 \in Nat /\ m - 1 \notin Bad
    <3>1. m \in Nat
      OBVIOUS
    <3> HIDE DEF Bad
    <3> QED
      BY <2>1, <2>2, <3>1
  <2>4. PICK f : Solves(f, m - 1)
    BY <2>3
  <2>5. \E g : Solves(g, (m - 1) + 1)
    BY <1>3, <2>3, <2>4
  <2>6. (m - 1) + 1 = m
    <3>1. m \in Nat
      OBVIOUS
    <3> HIDE DEF Bad
    <3> QED
      BY <3>1
  <2> QED
    BY <2>5, <2>6
<1>5. Cardinality(S) \in Nat
  BY FS_CardinalityType
<1>6. PICK f : Solves(f, Cardinality(S))
  BY <1>4, <1>5
<1>7. f = [T \in SUBSET S |-> Body(w, f, T)]
  BY <1>1, <1>6
<1> QED
  BY <1>7 DEF IsSum

LEMMA TheSumSolves ==
  ASSUME NEW w, NEW S, IsFiniteSet(S)
  PROVE  \A T \in SUBSET S : TheSum(w, S)[T] = Body(w, TheSum(w, S), T)
<1> DEFINE f == TheSum(w, S)
<1>1. IsSum(w, S, f)
  BY SumExists DEF TheSum
<1> HIDE DEF f
<1>2. \A T \in SUBSET S : f[T] = Body(w, f, T)
  BY <1>1 DEF IsSum
<1> QED
  BY <1>2 DEF f

(* The equation determines its solution wherever it is solved, and from    *)
(* the values of w that are summed.                                        *)
LEMMA SolutionsAgree ==
  ASSUME NEW v, NEW w, NEW S, IsFiniteSet(S), \A x \in S : v[x] = w[x],
         NEW f, \A T \in SUBSET S : f[T] = Body(v, f, T),
         NEW g, \A T \in SUBSET S : g[T] = Body(w, g, T)
  PROVE  \A T \in SUBSET S : f[T] = g[T]
<1> DEFINE Bad == {T \in SUBSET S : f[T] # g[T]}
<1> SUFFICES ASSUME Bad # {} PROVE FALSE
  OBVIOUS
<1>1. PICK T \in Bad : \A U \in Bad : ~(U \subseteq T /\ U # T)
  <2>1. Bad \in SUBSET (SUBSET S)
    OBVIOUS
  <2> HIDE DEF Bad
  <2> QED
    BY <2>1, LeastSubset
<1>2. T # {}
  BY DEF Body
<1> DEFINE U == T \ {Pick(T)}
<1>3. Pick(T) \in T /\ U \in SUBSET S /\ U \subseteq T /\ U # T
  BY <1>2, PickIn
<1>4. f[U] = g[U]
  BY <1>1, <1>3
<1>5. f[T] = v[Pick(T)] + f[U] /\ g[T] = w[Pick(T)] + g[U]
  BY <1>2 DEF Body
<1> QED
  BY <1>3, <1>4, <1>5

-----------------------------------------------------------------------------
Sum(w, S) == SumFunctionOnSet(w, S)

(* A part of a larger sum is the sum of the part. *)
LEMMA SumPart ==
  ASSUME NEW w, NEW S, IsFiniteSet(S), NEW T \in SUBSET S
  PROVE  TheSum(w, S)[T] = Sum(w, T)
<1>1. IsFiniteSet(T) /\ SUBSET T \subseteq SUBSET S
  BY FS_Subset
<1>2. \A U \in SUBSET T : TheSum(w, S)[U] = TheSum(w, T)[U]
  BY <1>1, TheSumSolves, SolutionsAgree
<1> QED
  BY <1>2, SumIsTheSum DEF Sum

LEMMA SumSame ==
  ASSUME NEW v, NEW w, NEW S, IsFiniteSet(S), \A x \in S : v[x] = w[x]
  PROVE  Sum(v, S) = Sum(w, S)
<1>1. TheSum(v, S)[S] = TheSum(w, S)[S]
  BY TheSumSolves, SolutionsAgree
<1> QED
  BY <1>1, SumIsTheSum DEF Sum

LEMMA SumEmpty ==
  ASSUME NEW w
  PROVE  Sum(w, {}) = 0
<1>1. IsFiniteSet({}) /\ {} \in SUBSET {}
  BY FS_EmptySet
<1> QED
  BY <1>1, TheSumSolves, SumIsTheSum DEF Sum, Body

(* One step of the sum, with the element that the fold picks. *)
LEMMA SumPicked ==
  ASSUME NEW w, NEW S, IsFiniteSet(S), S # {}
  PROVE  Sum(w, S) = w[Pick(S)] + Sum(w, S \ {Pick(S)})
<1>1. TheSum(w, S)[S] = w[Pick(S)] + TheSum(w, S)[S \ {Pick(S)}]
  BY TheSumSolves DEF Body
<1>2. TheSum(w, S)[S \ {Pick(S)}] = Sum(w, S \ {Pick(S)})
  BY SumPart
<1> QED
  BY <1>1, <1>2, SumIsTheSum DEF Sum

(* A sum of natural numbers is one. *)
LEMMA SumNat ==
  ASSUME NEW w, NEW S, IsFiniteSet(S), \A x \in S : w[x] \in Nat
  PROVE  Sum(w, S) \in Nat
<1> DEFINE Bad == {T \in SUBSET S : Sum(w, T) \notin Nat}
<1> SUFFICES ASSUME Bad # {} PROVE FALSE
  OBVIOUS
<1>1. PICK T \in Bad : \A U \in Bad : ~(U \subseteq T /\ U # T)
  <2>1. Bad \in SUBSET (SUBSET S)
    OBVIOUS
  <2> HIDE DEF Bad
  <2> QED
    BY <2>1, LeastSubset
<1>2. T # {}
  BY SumEmpty
<1> DEFINE U == T \ {Pick(T)}
<1>3. Pick(T) \in T /\ U \in SUBSET S /\ U \subseteq T /\ U # T
  BY <1>2, PickIn
<1>4. Sum(w, U) \in Nat
  BY <1>1, <1>3
<1>5. IsFiniteSet(T)
  BY FS_Subset
<1>6. Sum(w, T) = w[Pick(T)] + Sum(w, U)
  BY <1>2, <1>5, SumPicked
<1> QED
  BY <1>3, <1>4, <1>6

(* The elements may be taken in any order. *)
LEMMA SumTake ==
  ASSUME NEW w, NEW S, IsFiniteSet(S), \A x \in S : w[x] \in Nat, NEW a \in S
  PROVE  Sum(w, S) = w[a] + Sum(w, S \ {a})
<1> DEFINE Bad == {T \in SUBSET S : \E x \in T : Sum(w, T) # w[x] + Sum(w, T \ {x})}
<1> SUFFICES ASSUME Bad # {} PROVE FALSE
  OBVIOUS
<1>1. PICK T \in Bad : \A U \in Bad : ~(U \subseteq T /\ U # T)
  <2>1. Bad \in SUBSET (SUBSET S)
    OBVIOUS
  <2> HIDE DEF Bad
  <2> QED
    BY <2>1, LeastSubset
<1>2. PICK x \in T : Sum(w, T) # w[x] + Sum(w, T \ {x})
  OBVIOUS
<1>3. \A U \in SUBSET S : IsFiniteSet(U) /\ Sum(w, U) \in Nat
  BY FS_Subset, SumNat
<1> DEFINE p == Pick(T)
<1>4. p \in T
  BY PickIn
<1>5. Sum(w, T) = w[p] + Sum(w, T \ {p})
  BY <1>3, SumPicked
<1>6. p # x
  BY <1>2, <1>5
<1> HIDE DEF p
<1>7. ASSUME NEW U \in SUBSET T, U # T, NEW y \in U
      PROVE  Sum(w, U) = w[y] + Sum(w, U \ {y})
  BY <1>1, <1>7
<1>8. /\ Sum(w, T \ {p}) = w[x] + Sum(w, (T \ {p}) \ {x})
      /\ Sum(w, T \ {x}) = w[p] + Sum(w, (T \ {x}) \ {p})
  <2>1. T \ {p} \in SUBSET T /\ T \ {p} # T /\ x \in T \ {p}
    BY <1>4, <1>6
  <2>2. T \ {x} \in SUBSET T /\ T \ {x} # T /\ p \in T \ {x}
    BY <1>4, <1>6
  <2> HIDE DEF Bad
  <2> QED
    BY <1>7, <2>1, <2>2
<1>9. (T \ {p}) \ {x} = (T \ {x}) \ {p}
  OBVIOUS
<1>10. w[p] \in Nat /\ w[x] \in Nat /\ Sum(w, (T \ {x}) \ {p}) \in Nat
  BY <1>3, <1>4
<1> HIDE DEF Bad
<1>11. Sum(w, T) = w[x] + Sum(w, T \ {x})
  BY <1>5, <1>8, <1>9, <1>10
<1> QED
  BY <1>2, <1>11

LEMMA SumAdd ==
  ASSUME NEW w, NEW S, IsFiniteSet(S), NEW a, a \notin S,
         \A x \in S \cup {a} : w[x] \in Nat
  PROVE  Sum(w, S \cup {a}) = w[a] + Sum(w, S)
<1>1. IsFiniteSet(S \cup {a}) /\ (S \cup {a}) \ {a} = S
  BY FS_AddElement
<1> QED
  BY <1>1, SumTake
=============================================================================
