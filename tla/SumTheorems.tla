------------------------------ MODULE SumTheorems ------------------------------
(***************************************************************************)
(* What the proofs about the models need to know of numbers, finite sets   *)
(* and sums, whatever the model: least and last elements, induction, sums  *)
(* of functions over finite sets, and counts and sums of groups.           *)
(*                                                                         *)
(* Induction is over the members of a set, so that it needs no theorem     *)
(* with a predicate for a parameter.                                       *)
(***************************************************************************)
EXTENDS Integers, FiniteSets, FiniteSetsExt, Functions,
        FiniteSetTheorems, WellFoundedInduction, TLAPS

-----------------------------------------------------------------------------
(* A non-empty set of natural numbers has a least one.                     *)
LEMMA NatLeast ==
  ASSUME NEW T \in SUBSET Nat, T # {}
  PROVE  \E n \in T : \A m \in T : n <= m
<1> DEFINE R == {ss \in Nat \X Nat : ss[1] < ss[2]}
<1>1. IsWellFoundedOn(R, Nat)
  BY NatLessThanWellFounded, Zenon DEF OpToRel
<1>2. ASSUME NEW x \in Nat, NEW y \in Nat, y < x PROVE <<y, x>> \in R
  <2>1. <<y, x>> \in Nat \X Nat /\ <<y,x>>[1] = y /\ <<y,x>>[2] = x
    OBVIOUS
  <2> QED
    BY <1>2, <2>1
<1> HIDE DEF R
<1>3. PICK x \in T : \A y \in T : ~(<<y, x>> \in R)
  BY <1>1, WFMin
<1>4. \A y \in T : ~(y < x)
  BY <1>2, <1>3
<1> QED
  BY <1>4

(* Induction over the natural numbers, ...                                 *)
LEMMA NatSetInduction ==
  ASSUME NEW S, 0 \in S, \A n \in Nat : n \in S => n + 1 \in S
  PROVE  Nat \subseteq S
<1> SUFFICES ASSUME Nat \ S # {} PROVE FALSE
  OBVIOUS
<1>1. PICK n \in Nat \ S : \A m \in Nat \ S : n <= m
  BY NatLeast
<1>2. n - 1 \in Nat /\ n - 1 \in S
  BY <1>1
<1> QED
  BY <1>1, <1>2

(* ... and up to n.                                                        *)
LEMMA UpTo ==
  ASSUME NEW n \in Nat, NEW S, 0 \in S, \A k \in 0..n - 1 : k \in S => k + 1 \in S
  PROVE  \A k \in 0..n : k \in S
<1> SUFFICES ASSUME (0..n) \ S # {} PROVE FALSE
  OBVIOUS
<1>1. PICK k \in (0..n) \ S : \A m \in (0..n) \ S : k <= m
  <2>1. (0..n) \ S \in SUBSET Nat
    OBVIOUS
  <2> QED
    BY <2>1, NatLeast
<1>2. k - 1 \in 0..n - 1 /\ k - 1 \in S
  BY <1>1
<1>3. (k - 1) + 1 \in S /\ (k - 1) + 1 = k
  BY <1>2
<1> QED
  BY <1>1, <1>3

(* A non-empty set of positions has a last one.                            *)
LEMMA MaxOfPositions ==
  ASSUME NEW n \in Nat, NEW s \in SUBSET (1..n), s # {}
  PROVE  Max(s) \in s /\ \A y \in s : y <= Max(s)
<1> DEFINE T == {n - x : x \in s}
<1>1. T \subseteq Nat /\ T # {}
  OBVIOUS
<1>2. PICK d \in T : \A e \in T : d <= e
  BY <1>1, NatLeast
<1>3. PICK x \in s : d = n - x
  BY <1>2
<1>4. ASSUME NEW y \in s PROVE y <= x
  <2>1. n - y \in T
    OBVIOUS
  <2> QED
    BY <1>2, <1>3, <2>1
<1>5. \E z \in s : \A y \in s : z >= y
  BY <1>4
<1> QED
  BY <1>5 DEF Max

-----------------------------------------------------------------------------
(***************************************************************************)
(* Sums.  The sum over a set is a function chosen among those that satisfy *)
(* a recursion on its subsets; the recursion takes the elements in an      *)
(* order of its own, and any other gives the same sum.                     *)
(***************************************************************************)
SumStep(f, h, s) ==
  IF s = {} THEN 0 ELSE f[CHOOSE x \in s : TRUE] + h[s \ {CHOOSE x \in s : TRUE}]

(* There is a function that satisfies the recursion.                       *)
LEMMA SumExists ==
  ASSUME NEW f, NEW S, IsFiniteSet(S)
  PROVE  \E h : h = [s \in SUBSET S |-> SumStep(f, h, s)]
<1> DEFINE Sub(k) == {s \in SUBSET S : Cardinality(s) <= k}
           Good(k, h) == h = [s \in Sub(k) |-> SumStep(f, h, s)]
           Levels == {k \in Nat : \E h : Good(k, h)}
<1>1. ASSUME NEW s \in SUBSET S
      PROVE  /\ IsFiniteSet(s) /\ Cardinality(s) \in Nat /\ (Cardinality(s) = 0 <=> s = {})
             /\ Cardinality(s) <= Cardinality(S) /\ Cardinality(S) \in Nat
  BY FS_Subset, FS_CardinalityType, FS_EmptySet
<1>2. ASSUME NEW k \in Nat, NEW s \in Sub(k + 1), s # {}
      PROVE  s \ {CHOOSE x \in s : TRUE} \in Sub(k)
  <2> DEFINE x == CHOOSE x \in s : TRUE
  <2>1. x \in s
    BY <1>2
  <2> HIDE DEF x
  <2>2. Cardinality(s \ {x}) = Cardinality(s) - 1
    BY <1>1, <2>1, FS_RemoveElement
  <2>3. s \ {x} \in SUBSET S /\ Cardinality(s) \in Nat /\ Cardinality(s) <= k + 1
    BY <1>1
  <2>4. Cardinality(s) - 1 <= k
    BY <2>3
  <2> QED
    BY <2>2, <2>3, <2>4 DEF x
<1>3. 0 \in Levels
  <2> DEFINE h == [s \in Sub(0) |-> 0]
  <2>1. ASSUME NEW s \in Sub(0) PROVE SumStep(f, h, s) = 0
    <3>1. s = {}
      BY <1>1
    <3> QED
      BY <3>1 DEF SumStep
  <2>2. Good(0, h)
    BY <2>1
  <2> HIDE DEF Good, h
  <2> QED
    BY <2>2
<1>4. ASSUME NEW k \in Nat, k \in Levels PROVE k + 1 \in Levels
  <2>1. PICK h : Good(k, h)
    BY <1>4
  <2> DEFINE g == [s \in Sub(k + 1) |-> IF s \in Sub(k) THEN h[s] ELSE SumStep(f, h, s)]
  <2>2. Sub(k) \subseteq Sub(k + 1)
    BY <1>1
  <2>3. ASSUME NEW s \in Sub(k + 1) PROVE SumStep(f, g, s) = SumStep(f, h, s)
    <3>1. CASE s = {}
      BY <3>1 DEF SumStep
    <3>2. CASE s # {}
      <4>1. s \ {CHOOSE x \in s : TRUE} \in Sub(k)
        BY <1>2, <3>2
      <4> HIDE DEF Sub
      <4>2. g[s \ {CHOOSE x \in s : TRUE}] = h[s \ {CHOOSE x \in s : TRUE}]
        BY <2>2, <4>1
      <4> HIDE DEF g
      <4> QED
        BY <4>2 DEF SumStep
    <3> QED
      BY <3>1, <3>2
  <2>4. ASSUME NEW s \in Sub(k) PROVE h[s] = SumStep(f, h, s)
    <3> HIDE DEF Sub
    <3> QED
      BY <2>1
  <2> HIDE DEF Sub
  <2>5. Good(k + 1, g)
    BY <2>3, <2>4, Zenon
  <2> HIDE DEF Good, g
  <2> QED
    BY <2>5
<1>5. Cardinality(S) \in Nat /\ Sub(Cardinality(S)) = SUBSET S
  BY <1>1
<1>6. Cardinality(S) \in Levels
  <2> HIDE DEF Levels
  <2>1. \A k \in 0..Cardinality(S) : k \in Levels
    <3>1. \A k \in 0..Cardinality(S) - 1 : k \in Levels => k + 1 \in Levels
      BY <1>4
    <3> QED
      BY <1>3, <1>5, <3>1, UpTo
  <2> QED
    BY <1>5, <2>1
<1> HIDE DEF Sub
<1> QED
  BY <1>5, <1>6, Zenon

(* h gives the sums of f over the subsets of S.                            *)
Sums(h, f, S) ==
  /\ h[{}] = 0
  /\ \A s \in SUBSET S : s # {} => \E x \in s : h[s] = f[x] + h[s \ {x}]

LEMMA SumType ==
  ASSUME NEW f, NEW S, IsFiniteSet(S)
  PROVE  \E h : Sums(h, f, S) /\ SumFunctionOnSet(f, S) = h[S]
<1> DEFINE iter == CHOOSE h : h = [s \in SUBSET S |-> SumStep(f, h, s)]
<1>1. iter = [s \in SUBSET S |-> SumStep(f, iter, s)]
  BY SumExists
<1>2. SumFunctionOnSet(f, S) = iter[S]
  BY DEF SumFunctionOnSet, FoldFunctionOnSet, MapThenFoldSet, SumStep
<1> HIDE DEF iter
<1>3. \A s \in SUBSET S : iter[s] = SumStep(f, iter, s)
  BY <1>1
<1>4. Sums(iter, f, S)
  BY <1>3 DEF Sums, SumStep
<1> QED
  BY <1>2, <1>4

(* The order does not matter, ...                                          *)
AnyOrder(h, f, S) ==
  \A s \in SUBSET S : h[s] \in Int /\ \A x \in s : h[s] = f[x] + h[s \ {x}]

LEMMA SumAnyOrder ==
  ASSUME NEW f, NEW S, IsFiniteSet(S), \A x \in S : f[x] \in Int, NEW h, Sums(h, f, S)
  PROVE  AnyOrder(h, f, S)
<1> DEFINE Right(s) == h[s] \in Int /\ \A x \in s : h[s] = f[x] + h[s \ {x}]
           Levels == {k \in Nat : \A s \in SUBSET S : Cardinality(s) <= k => Right(s)}
<1>1. ASSUME NEW s \in SUBSET S
      PROVE  /\ IsFiniteSet(s) /\ Cardinality(s) \in Nat /\ (Cardinality(s) = 0 <=> s = {})
             /\ Cardinality(s) <= Cardinality(S) /\ Cardinality(S) \in Nat
  BY FS_Subset, FS_CardinalityType, FS_EmptySet
<1>2. Right({})
  BY DEF Sums
<1>3. 0 \in Levels
  <2>1. ASSUME NEW s \in SUBSET S, Cardinality(s) <= 0 PROVE Right(s)
    <3>1. s = {}
      BY <1>1, <2>1
    <3> HIDE DEF Right
    <3> QED
      BY <1>2, <3>1
  <2> HIDE DEF Right
  <2> QED
    BY <2>1
<1>4. ASSUME NEW k \in Nat, k \in Levels PROVE k + 1 \in Levels
  <2>1. ASSUME NEW s \in SUBSET S, Cardinality(s) <= k + 1, s # {} PROVE Right(s)
    <3>1. PICK y \in s : h[s] = f[y] + h[s \ {y}]
      BY <2>1 DEF Sums
    <3>2. ASSUME NEW x \in s PROVE Right(s \ {x})
      <4>1. Cardinality(s \ {x}) = Cardinality(s) - 1 /\ s \ {x} \in SUBSET S
        BY <1>1, FS_RemoveElement
      <4>2. Cardinality(s \ {x}) <= k
        BY <1>1, <2>1, <4>1
      <4> HIDE DEF Right
      <4> QED
        BY <1>4, <4>1, <4>2
    <3>3. h[s] \in Int
      <4>1. f[y] \in Int
        OBVIOUS
      <4>2. h[s \ {y}] \in Int
        BY <3>2
      <4> QED
        BY <3>1, <4>1, <4>2
    <3>4. ASSUME NEW x \in s, x # y PROVE h[s] = f[x] + h[s \ {x}]
      <4>1. h[s \ {y}] = f[x] + h[(s \ {y}) \ {x}]
        BY <3>2, <3>4
      <4>2. h[s \ {x}] = f[y] + h[(s \ {x}) \ {y}]
        BY <3>2, <3>4
      <4>3. (s \ {y}) \ {x} = (s \ {x}) \ {y}
        OBVIOUS
      <4>4. h[s \ {x}] \in Int /\ h[s \ {y}] \in Int /\ h[(s \ {x}) \ {y}] \in Int
        <5>1. h[s \ {x}] \in Int /\ h[s \ {y}] \in Int
          BY <3>2
        <5>2. Cardinality((s \ {x}) \ {y}) <= k /\ (s \ {x}) \ {y} \in SUBSET S
          <6>1. Cardinality(s \ {x}) = Cardinality(s) - 1 /\ s \ {x} \in SUBSET S
            BY <1>1, FS_RemoveElement
          <6>2. /\ (s \ {x}) \ {y} \in SUBSET S
                /\ Cardinality((s \ {x}) \ {y}) <= Cardinality(s \ {x})
            BY <1>1, <6>1, FS_Subset
          <6> QED
            BY <1>1, <2>1, <6>1, <6>2
        <5>3. Right((s \ {x}) \ {y})
          <6> HIDE DEF Right
          <6> QED
            BY <1>4, <5>2
        <5> QED
          BY <5>1, <5>3
      <4>5. f[x] \in Int /\ f[y] \in Int
        OBVIOUS
      <4>6. h[(s \ {y}) \ {x}] = h[(s \ {x}) \ {y}]
        BY <4>3
      <4> QED
        BY <3>1, <4>1, <4>2, <4>4, <4>5, <4>6
    <3> QED
      BY <3>1, <3>3, <3>4
  <2>2. ASSUME NEW s \in SUBSET S, Cardinality(s) <= k + 1 PROVE Right(s)
    <3> HIDE DEF Right
    <3> QED
      BY <1>2, <2>1, <2>2
  <2> HIDE DEF Right
  <2> QED
    BY <2>2
<1>5. Cardinality(S) \in Levels
  <2> HIDE DEF Levels
  <2>1. Cardinality(S) \in Nat
    BY FS_CardinalityType
  <2>2. \A k \in 0..Cardinality(S) - 1 : k \in Levels => k + 1 \in Levels
    BY <1>4
  <2>3. \A k \in 0..Cardinality(S) : k \in Levels
    BY <1>3, <2>1, <2>2, UpTo
  <2> QED
    BY <2>1, <2>3
<1>6. \A s \in SUBSET S : Right(s)
  <2> HIDE DEF Right
  <2> QED
    BY <1>1, <1>5
<1> QED
  BY <1>6 DEF AnyOrder

(* ... so that there is one sum.                                           *)
LEMMA SumUnique ==
  ASSUME NEW f, NEW g, NEW S, IsFiniteSet(S),
         \A x \in S : f[x] \in Int /\ f[x] = g[x],
         NEW T, IsFiniteSet(T), \A x \in T : g[x] \in Int, S \subseteq T,
         NEW h, Sums(h, f, S), NEW m, Sums(m, g, T)
  PROVE  h[S] = m[S]
<1> DEFINE Levels == {k \in Nat : \A s \in SUBSET S : Cardinality(s) <= k => h[s] = m[s]}
<1>1. ASSUME NEW s \in SUBSET S
      PROVE  /\ IsFiniteSet(s) /\ Cardinality(s) \in Nat /\ (Cardinality(s) = 0 <=> s = {})
             /\ Cardinality(s) <= Cardinality(S) /\ Cardinality(S) \in Nat
  BY FS_Subset, FS_CardinalityType, FS_EmptySet
<1>2. AnyOrder(h, f, S)
  <2>1. \A x \in S : f[x] \in Int
    OBVIOUS
  <2> QED
    BY <2>1, SumAnyOrder
<1>3. AnyOrder(m, g, T)
  BY SumAnyOrder
<1>4. h[{}] = m[{}]
  BY DEF Sums
<1>5. 0 \in Levels
  BY <1>1, <1>4
<1>6. ASSUME NEW k \in Nat, k \in Levels PROVE k + 1 \in Levels
  <2>1. ASSUME NEW s \in SUBSET S, Cardinality(s) <= k + 1, s # {} PROVE h[s] = m[s]
    <3>1. PICK x \in s : TRUE
      BY <2>1
    <3>2. Cardinality(s \ {x}) = Cardinality(s) - 1 /\ s \ {x} \in SUBSET S
      BY <1>1, FS_RemoveElement
    <3>3. h[s \ {x}] = m[s \ {x}]
      BY <1>1, <1>6, <2>1, <3>2
    <3>4. s \in SUBSET T /\ f[x] = g[x]
      OBVIOUS
    <3> QED
      BY <1>2, <1>3, <3>3, <3>4 DEF AnyOrder
  <2>2. ASSUME NEW s \in SUBSET S, Cardinality(s) <= k + 1 PROVE h[s] = m[s]
    <3>1. CASE s = {}
      BY <1>4, <3>1
    <3>2. CASE s # {}
      BY <2>1, <2>2, <3>2
    <3> QED
      BY <3>1, <3>2
  <2> QED
    BY <2>2
<1>7. Cardinality(S) \in Levels
  <2> HIDE DEF Levels
  <2>1. Cardinality(S) \in Nat
    BY FS_CardinalityType
  <2>2. \A k \in 0..Cardinality(S) - 1 : k \in Levels => k + 1 \in Levels
    BY <1>6
  <2>3. \A k \in 0..Cardinality(S) : k \in Levels
    BY <1>5, <2>1, <2>2, UpTo
  <2> QED
    BY <2>1, <2>3
<1> QED
  BY <1>1, <1>7

(* What is cited elsewhere: the sum over no element and over one more.     *)
LEMMA SumNone == ASSUME NEW f PROVE SumFunctionOnSet(f, {}) = 0
<1>1. IsFiniteSet({})
  BY FS_EmptySet
<1>2. PICK h : Sums(h, f, {}) /\ SumFunctionOnSet(f, {}) = h[{}]
  BY <1>1, SumType
<1> QED
  BY <1>2 DEF Sums

LEMMA SumInt ==
  ASSUME NEW f, NEW S, IsFiniteSet(S), \A x \in S : f[x] \in Int
  PROVE  SumFunctionOnSet(f, S) \in Int
<1>1. PICK h : Sums(h, f, S) /\ SumFunctionOnSet(f, S) = h[S]
  BY SumType
<1>2. h[S] \in Int
  BY <1>1, SumAnyOrder DEF AnyOrder
<1> QED
  BY <1>1, <1>2

LEMMA SumMore ==
  ASSUME NEW f, NEW S, IsFiniteSet(S), \A x \in S : f[x] \in Int,
         NEW g, \A x \in S : g[x] = f[x], NEW y, y \notin S, g[y] \in Int
  PROVE  SumFunctionOnSet(g, S \cup {y}) = SumFunctionOnSet(f, S) + g[y]
<1> DEFINE T == S \cup {y}
<1>1. PICK h : Sums(h, f, S) /\ SumFunctionOnSet(f, S) = h[S]
  BY SumType
<1>2. IsFiniteSet(T)
  BY FS_AddElement
<1>3. PICK i : Sums(i, g, T) /\ SumFunctionOnSet(g, T) = i[T]
  BY <1>2, SumType
<1>4. \A x \in T : g[x] \in Int
  OBVIOUS
<1>5. i[T] = g[y] + i[T \ {y}]
  <2>1. AnyOrder(i, g, T)
    BY <1>2, <1>3, <1>4, SumAnyOrder
  <2> QED
    BY <2>1 DEF AnyOrder
<1>6. T \ {y} = S
  OBVIOUS
<1>7. h[S] = i[S]
  <2>1. S \subseteq T /\ \A x \in S : f[x] \in Int /\ f[x] = g[x]
    OBVIOUS
  <2> HIDE DEF T
  <2> QED
    BY <1>1, <1>2, <1>3, <1>4, <2>1, SumUnique
<1>8. h[S] \in Int
  BY <1>1, SumInt
<1>9. i[T] = h[S] + g[y]
  <2> HIDE DEF T
  <2>1. i[T \ {y}] = h[S]
    BY <1>6, <1>7
  <2> QED
    BY <1>5, <1>8, <2>1
<1> QED
  BY <1>1, <1>3, <1>9

LEMMA SumOne ==
  ASSUME NEW f, NEW S, IsFiniteSet(S), \A x \in S : f[x] \in Int,
         NEW y, y \notin S, f[y] \in Int
  PROVE  SumFunctionOnSet(f, S \cup {y}) = SumFunctionOnSet(f, S) + f[y]
<1>1. \A x \in S : f[x] = f[x]
  OBVIOUS
<1> QED
  BY <1>1, SumMore

(* A sum depends on the values on its set only.                            *)
LEMMA SumAgree ==
  ASSUME NEW f, NEW g, NEW S, IsFiniteSet(S), \A x \in S : f[x] \in Int /\ f[x] = g[x]
  PROVE  SumFunctionOnSet(f, S) = SumFunctionOnSet(g, S)
<1>1. PICK h : Sums(h, f, S) /\ SumFunctionOnSet(f, S) = h[S]
  BY SumType
<1>2. PICK m : Sums(m, g, S) /\ SumFunctionOnSet(g, S) = m[S]
  BY SumType
<1>3. \A x \in S : g[x] \in Int
  OBVIOUS
<1>4. h[S] = m[S]
  BY <1>1, <1>2, <1>3, SumUnique
<1> QED
  BY <1>1, <1>2, <1>4

-----------------------------------------------------------------------------
(* Induction over the subsets of a finite set.                             *)
LEMMA SubsetInduction ==
  ASSUME NEW S, IsFiniteSet(S), NEW T, {} \in T,
         \A s \in SUBSET S : \A x \in S \ s : s \in T => s \cup {x} \in T
  PROVE  S \in T
<1> DEFINE Levels == {k \in Nat : \A s \in SUBSET S : Cardinality(s) <= k => s \in T}
<1>1. ASSUME NEW s \in SUBSET S
      PROVE  /\ IsFiniteSet(s) /\ Cardinality(s) \in Nat /\ (Cardinality(s) = 0 <=> s = {})
             /\ Cardinality(s) <= Cardinality(S) /\ Cardinality(S) \in Nat
  BY FS_Subset, FS_CardinalityType, FS_EmptySet
<1>2. 0 \in Levels
  <2>1. ASSUME NEW s \in SUBSET S, Cardinality(s) <= 0 PROVE s \in T
    <3>1. Cardinality(s) = 0
      BY <1>1, <2>1
    <3> QED
      BY <1>1, <3>1
  <2> QED
    BY <2>1
<1>3. ASSUME NEW k \in Nat, k \in Levels PROVE k + 1 \in Levels
  <2>1. ASSUME NEW s \in SUBSET S, Cardinality(s) <= k + 1, s # {} PROVE s \in T
    <3>1. PICK x \in s : TRUE
      BY <2>1
    <3>2. Cardinality(s \ {x}) = Cardinality(s) - 1 /\ s \ {x} \in SUBSET S
      BY <1>1, FS_RemoveElement
    <3>3. s \ {x} \in T
      BY <1>1, <1>3, <2>1, <3>2
    <3>4. x \in S \ (s \ {x}) /\ (s \ {x}) \cup {x} = s
      OBVIOUS
    <3> QED
      BY <3>2, <3>3, <3>4
  <2>2. ASSUME NEW s \in SUBSET S, Cardinality(s) <= k + 1 PROVE s \in T
    <3>1. CASE s = {}
      BY <3>1
    <3>2. CASE s # {}
      BY <2>1, <2>2, <3>2
    <3> QED
      BY <3>1, <3>2
  <2> QED
    BY <2>2
<1>4. Cardinality(S) \in Levels
  <2> HIDE DEF Levels
  <2>1. Cardinality(S) \in Nat
    BY FS_CardinalityType
  <2>2. \A k \in 0..Cardinality(S) - 1 : k \in Levels => k + 1 \in Levels
    BY <1>3
  <2>3. \A k \in 0..Cardinality(S) : k \in Levels
    BY <1>2, <2>1, <2>2, UpTo
  <2> QED
    BY <2>1, <2>3
<1> QED
  BY <1>1, <1>4

(* The positions of a sequence of length n.                                *)
LEMMA Positions ==
  ASSUME NEW n \in Nat PROVE IsFiniteSet(1..n) /\ Cardinality(1..n) = n
<1>1. 1 \in Int /\ n \in Int
  OBVIOUS
<1>2. IsFiniteSet(1..n) /\ Cardinality(1..n) = IF 1 > n THEN 0 ELSE n - 1 + 1
  BY <1>1, FS_Interval, Zenon
<1>3. PICK c : c = Cardinality(1..n)
  OBVIOUS
<1>4. c = n
  BY <1>2, <1>3
<1> QED
  BY <1>2, <1>3, <1>4

(* A sum of natural numbers is one.                                        *)
LEMMA SumNat ==
  ASSUME NEW f, NEW S, IsFiniteSet(S), \A x \in S : f[x] \in Nat
  PROVE  SumFunctionOnSet(f, S) \in Nat
<1> DEFINE T == {s \in SUBSET S : SumFunctionOnSet(f, s) \in Nat}
<1>1. {} \in T
  BY SumNone
<1>2. ASSUME NEW s \in SUBSET S, NEW x \in S \ s, s \in T PROVE s \cup {x} \in T
  <2>1. IsFiniteSet(s) /\ (\A y \in s : f[y] \in Int) /\ f[x] \in Int /\ x \notin s
    BY FS_Subset
  <2>2. SumFunctionOnSet(f, s \cup {x}) = SumFunctionOnSet(f, s) + f[x]
    BY <2>1, SumOne
  <2> QED
    BY <1>2, <2>2
<1>3. S \in T
  <2> HIDE DEF T
  <2> QED
    BY <1>1, <1>2, SubsetInduction
<1> QED
  BY <1>3

(* The sum over two disjoint sets.                                         *)
LEMMA SumDisjoint ==
  ASSUME NEW f, NEW A, NEW B, IsFiniteSet(A), IsFiniteSet(B), A \cap B = {},
         \A x \in A \cup B : f[x] \in Int
  PROVE  SumFunctionOnSet(f, A \cup B) = SumFunctionOnSet(f, A) + SumFunctionOnSet(f, B)
<1> DEFINE T == {s \in SUBSET B :
                   SumFunctionOnSet(f, A \cup s) = SumFunctionOnSet(f, A) + SumFunctionOnSet(f, s)}
<1>1. SumFunctionOnSet(f, A) \in Int
  BY SumInt
<1>2. {} \in T
  <2>1. A \cup {} = A
    OBVIOUS
  <2>2. SumFunctionOnSet(f, {}) = 0
    BY SumNone
  <2>3. SumFunctionOnSet(f, A \cup {}) = SumFunctionOnSet(f, A) + SumFunctionOnSet(f, {})
    BY <1>1, <2>1, <2>2
  <2> QED
    BY <2>3
<1>3. ASSUME NEW s \in SUBSET B, NEW x \in B \ s, s \in T PROVE s \cup {x} \in T
  <2> DEFINE U == A \cup s
  <2>1. IsFiniteSet(s) /\ (\A y \in s : f[y] \in Int) /\ f[x] \in Int /\ x \notin s
    BY FS_Subset
  <2>2. IsFiniteSet(U) /\ (\A y \in U : f[y] \in Int) /\ x \notin U
    BY <2>1, FS_Union
  <2>3. U \cup {x} = A \cup (s \cup {x})
    OBVIOUS
  <2>4. SumFunctionOnSet(f, s \cup {x}) = SumFunctionOnSet(f, s) + f[x]
    BY <2>1, SumOne
  <2>5. SumFunctionOnSet(f, U) = SumFunctionOnSet(f, A) + SumFunctionOnSet(f, s)
    BY <1>3
  <2> HIDE DEF U
  <2>6. SumFunctionOnSet(f, U \cup {x}) = SumFunctionOnSet(f, U) + f[x]
    BY <2>1, <2>2, SumOne
  <2>7. SumFunctionOnSet(f, s) \in Int
    BY <2>1, SumInt
  <2>8. SumFunctionOnSet(f, A \cup (s \cup {x}))
          = SumFunctionOnSet(f, A) + SumFunctionOnSet(f, s \cup {x})
    <3> DEFINE V == U \cup {x}
               W == s \cup {x}
    <3>1. A \cup W = V
      BY <2>3
    <3>2. /\ SumFunctionOnSet(f, V) = SumFunctionOnSet(f, U) + f[x]
          /\ SumFunctionOnSet(f, W) = SumFunctionOnSet(f, s) + f[x]
      BY <2>4, <2>6
    <3>3. f[x] \in Int
      BY <2>1
    <3> HIDE DEF T, V, W
    <3>4. SumFunctionOnSet(f, A \cup W) = SumFunctionOnSet(f, V)
      BY <3>1, Zenon
    <3>5. SumFunctionOnSet(f, A \cup W) = SumFunctionOnSet(f, A) + SumFunctionOnSet(f, W)
      BY <1>1, <2>5, <2>7, <3>2, <3>3, <3>4
    <3> QED
      BY <3>5 DEF W
  <2> QED
    BY <2>8
<1>4. B \in T
  <2> HIDE DEF T
  <2> QED
    BY <1>2, <1>3, SubsetInduction
<1> QED
  BY <1>4

-----------------------------------------------------------------------------
(* The members of S with the label c, and those with a label in C.         *)
Labelled(S, f, c) == {o \in S : f[o] = c}
LabelledIn(S, f, C) == {o \in S : f[o] \in C}

LEMMA LabelledFinite ==
  ASSUME NEW S, IsFiniteSet(S), NEW f, NEW c
  PROVE  IsFiniteSet(Labelled(S, f, c)) /\ IsFiniteSet(LabelledIn(S, f, c))
BY FS_Subset DEF Labelled, LabelledIn

(* There are finitely many labels.                                         *)
LEMMA LabelsFinite ==
  ASSUME NEW S, IsFiniteSet(S), NEW f
  PROVE  IsFiniteSet({f[o] : o \in S})
<1> DEFINE L == {f[o] : o \in S}
           g == [o \in S |-> f[o]]
<1>1. g \in Surjection(S, L)
  BY DEF Surjection
<1> HIDE DEF L, g
<1>2. IsFiniteSet(L)
  BY <1>1, FS_Surjection
<1> QED
  BY <1>2 DEF L

(* One more label splits its members off.                                  *)
LEMMA OneMoreLabel ==
  ASSUME NEW S, NEW f, NEW C, NEW c, c \notin C
  PROVE  /\ LabelledIn(S, f, C \cup {c}) = LabelledIn(S, f, C) \cup Labelled(S, f, c)
         /\ LabelledIn(S, f, C) \cap Labelled(S, f, c) = {}
BY DEF Labelled, LabelledIn

(* The sizes of the groups add up to the size of the whole, ...            *)
LEMMA CountsAddUp ==
  ASSUME NEW S, IsFiniteSet(S), NEW f, NEW C, IsFiniteSet(C),
         NEW g, \A c \in C : g[c] = Cardinality(Labelled(S, f, c))
  PROVE  SumFunctionOnSet(g, C) = Cardinality(LabelledIn(S, f, C))
<1> DEFINE T == {s \in SUBSET C : SumFunctionOnSet(g, s) = Cardinality(LabelledIn(S, f, s))}
<1>1. {} \in T
  <2>1. LabelledIn(S, f, {}) = {}
    BY DEF LabelledIn
  <2> QED
    BY <2>1, SumNone, FS_EmptySet
<1>2. \A c \in C : g[c] \in Int
  BY LabelledFinite, FS_CardinalityType
<1>3. ASSUME NEW s \in SUBSET C, NEW c \in C \ s, s \in T PROVE s \cup {c} \in T
  <2> DEFINE A == LabelledIn(S, f, s)
             B == Labelled(S, f, c)
  <2>1. SumFunctionOnSet(g, s \cup {c}) = SumFunctionOnSet(g, s) + g[c]
    <3>1. IsFiniteSet(s) /\ c \notin s /\ (\A y \in s : g[y] \in Int) /\ g[c] \in Int
      BY <1>2, FS_Subset
    <3> QED
      BY <3>1, SumOne
  <2>2. LabelledIn(S, f, s \cup {c}) = A \cup B /\ A \cap B = {}
    BY OneMoreLabel
  <2>3. IsFiniteSet(A) /\ IsFiniteSet(B)
    BY LabelledFinite
  <2>4. SumFunctionOnSet(g, s) = Cardinality(A) /\ g[c] = Cardinality(B)
    BY <1>3
  <2> HIDE DEF A, B
  <2>5. Cardinality(A \cup B) = Cardinality(A) + Cardinality(B)
    <3>1. Cardinality(A \cup B) = Cardinality(A) + Cardinality(B) - Cardinality(A \cap B)
      BY <2>3, FS_Union
    <3>2. Cardinality(A \cap B) = 0 /\ Cardinality(A) \in Nat /\ Cardinality(B) \in Nat
      BY <2>2, <2>3, FS_EmptySet, FS_CardinalityType
    <3> QED
      BY <3>1, <3>2
  <2>6. SumFunctionOnSet(g, s \cup {c}) = Cardinality(LabelledIn(S, f, s \cup {c}))
    BY <2>1, <2>2, <2>4, <2>5
  <2> QED
    BY <2>6
<1>4. C \in T
  <2> HIDE DEF T
  <2> QED
    BY <1>1, <1>3, SubsetInduction
<1> QED
  BY <1>4

(* ... and so do sums over the groups.                                     *)
LEMMA SumsAddUp ==
  ASSUME NEW S, IsFiniteSet(S), NEW w, \A o \in S : w[o] \in Int,
         NEW f, NEW C, IsFiniteSet(C),
         NEW g, \A c \in C : g[c] = SumFunctionOnSet(w, Labelled(S, f, c))
  PROVE  SumFunctionOnSet(g, C) = SumFunctionOnSet(w, LabelledIn(S, f, C))
<1> DEFINE T == {s \in SUBSET C : SumFunctionOnSet(g, s) = SumFunctionOnSet(w, LabelledIn(S, f, s))}
<1>1. {} \in T
  <2>1. LabelledIn(S, f, {}) = {}
    BY DEF LabelledIn
  <2> QED
    BY <2>1, SumNone
<1>2. ASSUME NEW c \in C PROVE g[c] \in Int
  <2>1. IsFiniteSet(Labelled(S, f, c))
    BY LabelledFinite
  <2>2. \A o \in Labelled(S, f, c) : w[o] \in Int
    BY DEF Labelled
  <2> QED
    BY <2>1, <2>2, SumInt
<1>3. ASSUME NEW s \in SUBSET C, NEW c \in C \ s, s \in T PROVE s \cup {c} \in T
  <2> DEFINE A == LabelledIn(S, f, s)
             B == Labelled(S, f, c)
  <2>1. SumFunctionOnSet(g, s \cup {c}) = SumFunctionOnSet(g, s) + g[c]
    <3>1. IsFiniteSet(s) /\ c \notin s /\ (\A y \in s : g[y] \in Int) /\ g[c] \in Int
      BY <1>2, FS_Subset
    <3> QED
      BY <3>1, SumOne
  <2>2. LabelledIn(S, f, s \cup {c}) = A \cup B /\ A \cap B = {}
    BY OneMoreLabel
  <2>3. IsFiniteSet(A) /\ IsFiniteSet(B) /\ \A x \in A \cup B : w[x] \in Int
    <3>1. A \subseteq S /\ B \subseteq S
      BY DEF Labelled, LabelledIn
    <3>2. IsFiniteSet(A) /\ IsFiniteSet(B)
      BY LabelledFinite
    <3> HIDE DEF A, B, T
    <3> QED
      BY <3>1, <3>2
  <2>4. SumFunctionOnSet(g, s) = SumFunctionOnSet(w, A) /\ g[c] = SumFunctionOnSet(w, B)
    BY <1>3
  <2> HIDE DEF A, B
  <2>5. SumFunctionOnSet(w, A \cup B) = SumFunctionOnSet(w, A) + SumFunctionOnSet(w, B)
    BY <2>2, <2>3, SumDisjoint
  <2>6. SumFunctionOnSet(g, s \cup {c}) = SumFunctionOnSet(w, LabelledIn(S, f, s \cup {c}))
    BY <2>1, <2>2, <2>4, <2>5
  <2> QED
    BY <2>6
<1>4. C \in T
  <2> HIDE DEF T
  <2> QED
    BY <1>1, <1>3, SubsetInduction
<1> QED
  BY <1>4

-----------------------------------------------------------------------------
(***************************************************************************)
(* The members of a finite set from the least to the greatest in f.        *)
(***************************************************************************)
Numbers(q, n, S) ==
  /\ q \in [1..n -> S] /\ \A i, j \in 1..n : q[i] = q[j] => i = j
  /\ \A x \in S : \E i \in 1..n : q[i] = x
Ascends(q, n, f) == \A i, j \in 1..n : i < j => f[q[i]] <= f[q[j]]

LEMMA NumbersIsBijection ==
  ASSUME NEW q, NEW n, NEW S
  PROVE  Numbers(q, n, S) <=> q \in Bijection(1..n, S)
BY DEF Numbers, Bijection, Injection, Surjection, IsInjective

(* They can be numbered that way: the least first, then the others.        *)
LEMMA Sortable ==
  ASSUME NEW S, IsFiniteSet(S), NEW f, \A x \in S : f[x] \in Nat
  PROVE  \E q : Numbers(q, Cardinality(S), S) /\ Ascends(q, Cardinality(S), f)
<1> DEFINE Sorted(s, k) == \E q : Numbers(q, k, s) /\ Ascends(q, k, f)
           Levels == {k \in Nat : \A s \in SUBSET S : Cardinality(s) = k => Sorted(s, k)}
<1>1. ASSUME NEW s \in SUBSET S
      PROVE  /\ IsFiniteSet(s) /\ Cardinality(s) \in Nat /\ (Cardinality(s) = 0 <=> s = {})
             /\ Cardinality(S) \in Nat
  BY FS_Subset, FS_CardinalityType, FS_EmptySet
<1>2. 0 \in Levels
  <2>1. ASSUME NEW s \in SUBSET S, Cardinality(s) = 0 PROVE Sorted(s, 0)
    <3>1. s = {} /\ 1..0 = {}
      BY <1>1, <2>1
    <3>2. Numbers(<<>>, 0, s) /\ Ascends(<<>>, 0, f)
      BY <3>1 DEF Numbers, Ascends
    <3> QED
      BY <3>2
  <2> HIDE DEF Sorted
  <2> QED
    BY <2>1
<1>3. ASSUME NEW k \in Nat, k \in Levels PROVE k + 1 \in Levels
  <2>1. ASSUME NEW s \in SUBSET S, Cardinality(s) = k + 1 PROVE Sorted(s, k + 1)
    <3>1. PICK x \in s : \A y \in s : f[x] <= f[y]
      <4>1. {f[y] : y \in s} \in SUBSET Nat /\ {f[y] : y \in s} # {}
        BY <1>1, <2>1
      <4>2. PICK least \in {f[y] : y \in s} : \A m \in {f[y] : y \in s} : least <= m
        BY <4>1, NatLeast
      <4> QED
        BY <4>2
    <3> DEFINE r == s \ {x}
    <3>2. Cardinality(r) = k /\ r \in SUBSET S
      <4>1. IsFiniteSet(s)
        BY <1>1
      <4>2. Cardinality(r) = Cardinality(s) - 1
        BY <4>1, FS_RemoveElement
      <4> HIDE DEF r
      <4>3. Cardinality(r) = k
        BY <2>1, <4>2
      <4> QED
        BY <4>3 DEF r
    <3>3. PICK q : Numbers(q, k, r) /\ Ascends(q, k, f)
      BY <1>3, <3>2
    <3> DEFINE p == [i \in 1..(k + 1) |-> IF i = 1 THEN x ELSE q[i - 1]]
    <3>4. /\ \A i \in 1..(k + 1) : p[i] = IF i = 1 THEN x ELSE q[i - 1]
          /\ \A i \in 1..k : q[i] \in r
          /\ \A i \in 1..(k + 1) : i # 1 => i - 1 \in 1..k
          /\ \A i \in 1..k : i + 1 \in 1..(k + 1) /\ i + 1 # 1 /\ (i + 1) - 1 = i
          /\ DOMAIN p = 1..(k + 1) /\ 1 \in 1..(k + 1)
          /\ p = [i \in 1..(k + 1) |-> p[i]]
      BY <3>3 DEF Numbers
    <3> HIDE DEF p
    <3>5. Numbers(p, k + 1, s)
      <4>1. ASSUME NEW i \in 1..(k + 1) PROVE p[i] \in s
        BY <3>4
      <4>2. ASSUME NEW i \in 1..(k + 1), NEW j \in 1..(k + 1), p[i] = p[j] PROVE i = j
        <5>1. CASE i = 1 \/ j = 1
          <6>1. \A l \in 1..(k + 1) : l # 1 => p[l] # x
            <7>1. \A l \in 1..(k + 1) : l # 1 => p[l] \in r
              BY <3>4
            <7> QED
              BY <7>1
          <6>2. p[1] = x
            BY <3>4
          <6> QED
            BY <4>2, <5>1, <6>1, <6>2
        <5>2. CASE i # 1 /\ j # 1
          <6>1. q[i - 1] = q[j - 1] /\ i - 1 \in 1..k /\ j - 1 \in 1..k
            BY <3>4, <4>2, <5>2
          <6>2. i - 1 = j - 1
            BY <3>3, <6>1 DEF Numbers
          <6> QED
            BY <6>2
        <5> QED
          BY <5>1, <5>2
      <4>3. ASSUME NEW y \in s PROVE \E i \in 1..(k + 1) : p[i] = y
        <5>1. CASE y = x
          BY <3>4, <5>1
        <5>2. CASE y # x
          <6>1. PICK i \in 1..k : q[i] = y
            BY <3>3, <5>2 DEF Numbers
          <6> QED
            BY <3>4, <6>1
        <5> QED
          BY <5>1, <5>2
      <4>4. p \in [1..(k + 1) -> s]
        BY <3>4, <4>1
      <4> QED
        BY <4>2, <4>3, <4>4 DEF Numbers
    <3>6. Ascends(p, k + 1, f)
      <4>1. ASSUME NEW i \in 1..(k + 1), NEW j \in 1..(k + 1), i < j PROVE f[p[i]] <= f[p[j]]
        <5>1. j # 1
          BY <4>1
        <5>2. CASE i = 1
          BY <3>1, <3>4, <5>1, <5>2
        <5>3. CASE i # 1
          <6>1. i - 1 \in 1..k /\ j - 1 \in 1..k /\ i - 1 < j - 1
            BY <3>4, <4>1, <5>1, <5>3
          <6> QED
            BY <3>3, <3>4, <5>1, <5>3, <6>1 DEF Ascends
        <5> QED
          BY <5>2, <5>3
      <4> QED
        BY <4>1 DEF Ascends
    <3> QED
      BY <3>5, <3>6
  <2> HIDE DEF Sorted
  <2> QED
    BY <2>1
<1>4. Cardinality(S) \in Levels
  <2> HIDE DEF Levels
  <2>1. Cardinality(S) \in Nat
    BY FS_CardinalityType
  <2>2. \A k \in 0..Cardinality(S) - 1 : k \in Levels => k + 1 \in Levels
    BY <1>3
  <2>3. \A k \in 0..Cardinality(S) : k \in Levels
    BY <1>2, <2>1, <2>2, UpTo
  <2> QED
    BY <2>1, <2>3
<1> QED
  BY <1>4

(* At least m members are not above the m-th, ...                          *)
LEMMA NotAboveNth ==
  ASSUME NEW S, NEW f, \A x \in S : f[x] \in Nat, NEW n \in Nat, NEW q,
         IsFiniteSet(S), Numbers(q, n, S), Ascends(q, n, f), NEW m \in 1..n
  PROVE  m <= Cardinality({y \in S : f[y] <= f[q[m]]})
<1> DEFINE A == {y \in S : f[y] <= f[q[m]]}
           g == [i \in 1..m |-> q[i]]
<1>1. \A i \in 1..m : i \in 1..n /\ q[i] \in S
  BY DEF Numbers
<1>2. \A i \in 1..m : f[q[i]] <= f[q[m]]
  <2>1. ASSUME NEW i \in 1..m PROVE f[q[i]] <= f[q[m]]
    <3>1. CASE i = m
      BY <1>1, <3>1
    <3>2. CASE i < m
      BY <1>1, <3>2 DEF Ascends
    <3> QED
      BY <3>1, <3>2
  <2> QED
    BY <2>1
<1>3. g \in Injection(1..m, A)
  <2>1. g \in [1..m -> A]
    BY <1>1, <1>2
  <2>2. \A i, j \in 1..m : g[i] = g[j] => i = j
    BY <1>1 DEF Numbers
  <2> HIDE DEF g, A
  <2> QED
    BY <2>1, <2>2 DEF Injection, IsInjective
<1>4. IsFiniteSet(A) /\ Cardinality(1..m) = m
  BY FS_Subset, Positions
<1> HIDE DEF g, A
<1>5. Cardinality(1..m) <= Cardinality(A)
  BY <1>3, <1>4, FS_Injection
<1>6. m <= Cardinality(A)
  BY <1>4, <1>5, Zenon
<1> QED
  BY <1>6 DEF A

(* ... and fewer are not above one that is below it.                       *)
LEMMA BelowNth ==
  ASSUME NEW S, NEW f, \A x \in S : f[x] \in Nat, NEW n \in Nat, NEW q,
         IsFiniteSet(S), Numbers(q, n, S), Ascends(q, n, f), NEW m \in 1..n,
         NEW p \in S, f[p] < f[q[m]]
  PROVE  Cardinality({y \in S : f[y] <= f[p]}) < m
<1> DEFINE A == {y \in S : f[y] <= f[p]}
           at(y) == CHOOSE i \in 1..n : q[i] = y
           g == [y \in A |-> at(y)]
<1>1. ASSUME NEW y \in A PROVE at(y) \in 1..(m - 1) /\ q[at(y)] = y
  <2>1. at(y) \in 1..n /\ q[at(y)] = y
    BY DEF Numbers
  <2>2. PICK i \in 1..n : i = at(y) /\ q[i] = y
    BY <2>1
  <2>3. ~(m <= i)
    <3> SUFFICES ASSUME m <= i PROVE FALSE
      OBVIOUS
    <3>1. f[q[m]] <= f[q[i]]
      <4>1. q[m] \in S
        BY DEF Numbers
      <4>2. CASE m = i
        BY <4>1, <4>2
      <4>3. CASE m < i
        BY <4>3 DEF Ascends
      <4> QED
        BY <4>2, <4>3
    <3>2. f[q[i]] <= f[p]
      BY <2>2
    <3>3. f[q[m]] \in Nat /\ f[q[i]] \in Nat /\ f[p] \in Nat
      BY DEF Numbers
    <3> QED
      BY <3>1, <3>2, <3>3
  <2>4. i \in 1..(m - 1)
    BY <2>3
  <2> QED
    BY <2>2, <2>4
<1>2. g \in Injection(A, 1..(m - 1))
  <2>1. g \in [A -> 1..(m - 1)]
    BY <1>1
  <2>2. \A x, y \in A : g[x] = g[y] => x = y
    BY <1>1
  <2> HIDE DEF g, A
  <2> QED
    BY <2>1, <2>2 DEF Injection, IsInjective
<1> HIDE DEF g, A
<1>3. m - 1 \in Nat
  OBVIOUS
<1>4. PICK k \in Nat : k = m - 1
  BY <1>3
<1>5. IsFiniteSet(1..k) /\ Cardinality(1..k) = k
  BY Positions
<1>6. g \in Injection(A, 1..k)
  BY <1>2, <1>4
<1>7. IsFiniteSet(A) /\ Cardinality(A) <= Cardinality(1..k)
  BY <1>5, <1>6, FS_Injection
<1>8. Cardinality(A) \in Nat
  BY <1>7, FS_CardinalityType
<1>9. Cardinality(A) <= k
  BY <1>5, <1>7, Zenon
<1>10. Cardinality(A) < m
  BY <1>4, <1>8, <1>9
<1> QED
  BY <1>10 DEF A
=============================================================================
