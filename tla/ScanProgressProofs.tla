-------------------------- MODULE ScanProgressProofs --------------------------
(***************************************************************************)
(* Proofs about ScanProgress for any number of scans and objects, any      *)
(* batch size and any interleaving of scans and tickers.                   *)
(***************************************************************************)
EXTENDS ScanProgress, SumTheorems

(***************************************************************************)
(* What AddBatch computes.  It is a fold, that is a function chosen among  *)
(* those that satisfy a recursion on the subsets of the batch's positions: *)
(* the first lemma shows that there is one, by induction on the positions. *)
(***************************************************************************)
(* The recursion that FoldLeft's choice satisfies, on sets of positions.    *)
StepOf(a0, seq, h, s) == IF s = {} THEN a0 ELSE AddObject(h[s \ {Max(s)}], seq[Max(s)])

(* There is a function that satisfies it.                                  *)
LEMMA FoldExists ==
  ASSUME NEW a0, NEW seq, NEW n \in Nat
  PROVE  \E h : h = [s \in SUBSET (1..n) |-> StepOf(a0, seq, h, s)]
<1> DEFINE Good(k, h) == h = [s \in SUBSET (1..k) |-> StepOf(a0, seq, h, s)]
           Levels == {k \in Nat : \E h : Good(k, h)}
<1>1. 0 \in Levels
  <2> DEFINE h == [s \in SUBSET (1..0) |-> a0]
  <2>1. \A s \in SUBSET (1..0) : StepOf(a0, seq, h, s) = a0
    BY DEF StepOf
  <2>2. Good(0, h)
    BY <2>1
  <2> HIDE DEF Good, h
  <2> QED
    BY <2>2
<1>2. ASSUME NEW k \in Nat, k \in Levels PROVE k + 1 \in Levels
  <2>1. PICK h : Good(k, h)
    BY <1>2
  <2> DEFINE g == [s \in SUBSET (1..(k + 1)) |->
                     IF s \subseteq 1..k THEN h[s] ELSE StepOf(a0, seq, h, s)]
  <2>2. ASSUME NEW s \in SUBSET (1..(k + 1)), s # {}
        PROVE  s \ {Max(s)} \in SUBSET (1..k)
    <3>1. Max(s) \in s /\ \A y \in s : y <= Max(s)
      <4>1. k + 1 \in Nat
        OBVIOUS
      <4> QED
        BY <2>2, <4>1, MaxOfPositions
    <3>2. ASSUME NEW y \in s \ {Max(s)} PROVE y \in 1..k
      <4>1. y \in 1..(k + 1) /\ Max(s) \in 1..(k + 1)
        BY <3>1
      <4>2. y <= Max(s) /\ y # Max(s)
        BY <3>1
      <4> QED
        BY <4>1, <4>2
    <3> QED
      BY <3>2
  <2>3. ASSUME NEW s \in SUBSET (1..(k + 1)) PROVE StepOf(a0, seq, g, s) = StepOf(a0, seq, h, s)
    <3>1. CASE s = {}
      BY <3>1 DEF StepOf
    <3>2. CASE s # {}
      <4>1. g[s \ {Max(s)}] = h[s \ {Max(s)}]
        BY <2>2, <3>2
      <4> HIDE DEF g
      <4> QED
        BY <4>1 DEF StepOf
    <3> QED
      BY <3>1, <3>2
  <2>4. ASSUME NEW s \in SUBSET (1..k) PROVE h[s] = StepOf(a0, seq, h, s)
    BY <2>1
  <2>5. Good(k + 1, g)
    BY <2>3, <2>4, Zenon
  <2> HIDE DEF Good, g
  <2> QED
    BY <2>5
<1>3. Nat \subseteq Levels
  <2> HIDE DEF Levels
  <2> QED
    BY <1>1, <1>2, NatSetInduction
<1> QED
  BY <1>3

(* h is such a function, and AddBatch its value for the whole batch.     *)
Folds(h, a0, seq, n) == /\ \A s \in SUBSET (1..n) : h[s] = StepOf(a0, seq, h, s)
                           /\ AddBatch(a0, seq) = h[1..n]

(* AddBatch can be followed position by position.                          *)
LEMMA FoldUnfolds ==
  ASSUME NEW a0, NEW seq, NEW n \in Nat, DOMAIN seq = 1..n
  PROVE  \E h : Folds(h, a0, seq, n)
<1> DEFINE iter == CHOOSE h : h = [s \in SUBSET (1..n) |-> StepOf(a0, seq, h, s)]
<1>1. iter = [s \in SUBSET (1..n) |-> StepOf(a0, seq, iter, s)]
  BY FoldExists
<1>2. AddBatch(a0, seq) = iter[1..n]
  BY DEF AddBatch, FoldLeft, MapThenFoldSet, StepOf
<1> HIDE DEF iter
<1>3. \A s \in SUBSET (1..n) : iter[s] = StepOf(a0, seq, iter, s)
  BY <1>1
<1> QED
  BY <1>2, <1>3 DEF Folds

(* AddBatch counts every object of the batch once.                         *)
LEMMA AddBatchCounts ==
  ASSUME NEW a0, a0.totalObjects \in Nat, NEW T, NEW seq \in Seq(T)
  PROVE  AddBatch(a0, seq).totalObjects = a0.totalObjects + Len(seq)
<1>1. PICK n \in Nat : n = Len(seq) /\ DOMAIN seq = 1..n
  OBVIOUS
<1>2. PICK h : Folds(h, a0, seq, n)
  BY <1>1, FoldUnfolds
<1> USE DEF Folds
<1> DEFINE Right == {k \in Nat : k <= n => h[1..k].totalObjects = a0.totalObjects + k}
<1>3. 0 \in Right
  <2>1. 1..0 = {} /\ {} \in SUBSET (1..n)
    OBVIOUS
  <2>2. h[{}] = a0
    BY <1>2, <2>1 DEF StepOf
  <2> QED
    BY <2>1, <2>2
<1>4. ASSUME NEW k \in Nat, k \in Right, k + 1 <= n PROVE k + 1 \in Right
  <2> DEFINE s == 1..(k + 1)
  <2>1. s \in SUBSET (1..n) /\ s # {} /\ Max(s) = k + 1
    <3>1. s \in SUBSET (1..n) /\ k + 1 \in s
      BY <1>4
    <3>2. Max(s) \in s /\ \A y \in s : y <= Max(s)
      BY <1>1, <3>1, MaxOfPositions
    <3> QED
      BY <3>1, <3>2
  <2>2. s \ {Max(s)} = 1..k
    BY <2>1
  <2>3. h[s] = AddObject(h[1..k], seq[k + 1])
    BY <1>2, <2>1, <2>2 DEF StepOf
  <2>4. h[s].totalObjects = h[1..k].totalObjects + 1
    BY <2>3 DEF AddObject
  <2>5. h[1..k].totalObjects = a0.totalObjects + k
    BY <1>1, <1>4
  <2> QED
    BY <2>4, <2>5
<1>5. \A k \in Nat : k \in Right => k + 1 \in Right
  <2>1. ASSUME NEW k \in Nat, k \in Right, ~(k + 1 <= n) PROVE k + 1 \in Right
    BY <2>1
  <2> QED
    BY <1>4, <2>1
<1>6. Nat \subseteq Right
  <2> HIDE DEF Right
  <2> QED
    BY <1>3, <1>5, NatSetInduction
<1> QED
  BY <1>1, <1>2, <1>6

-----------------------------------------------------------------------------
(***************************************************************************)
(* What an aggregator holds of a set S of objects, in whatever order and   *)
(* batches they came: their number, total, greatest size and number of     *)
(* empty ones, their sizes in some order, and for each label of theirs the *)
(* number and total of the objects with that label.                        *)
(***************************************************************************)
AllObjects == UNION {Objects[s] : s \in Scans}
SizeOf   == [o \in AllObjects |-> o.size]
ExtOf    == [o \in AllObjects |-> Ext(o)]
ClassOf  == [o \in AllObjects |-> StorageClass(o)]
PrefixOf == [o \in AllObjects |-> TopLevelPrefix(o)]
AgeOf    == [o \in AllObjects |-> AgeBucket(o.age)]

Empty(S) == {o \in S : o.size = 0}
Entry(S) == [count |-> Cardinality(S), size |-> TotalSize(S)]
GroupBy(S, f) == [v \in {f[o] : o \in S} |-> Entry(Labelled(S, f, v))]

Greatest(m, S) == /\ m \in Nat /\ \A o \in S : o.size <= m
                  /\ IF S = {} THEN m = 0 ELSE \E o \in S : o.size = m
SizesOf(sizes, S) ==
  \E order : /\ Numbers(order, Cardinality(S), S)
             /\ sizes = [i \in 1..Cardinality(S) |-> order[i].size]

Aggregates(a, S) ==
  /\ a.totalObjects = Cardinality(S) /\ a.totalSize = TotalSize(S)
  /\ a.emptyObjects = Cardinality(Empty(S))
  /\ Greatest(a.maxSize, S) /\ SizesOf(a.sizes, S)
  /\ a.types = GroupBy(S, ExtOf) /\ a.ages = GroupBy(S, AgeOf)
  /\ a.storage = GroupBy(S, ClassOf) /\ a.prefixes = GroupBy(S, PrefixOf)

(* S is a set of objects such as a scan receives.                          *)
Bunch(S) == /\ IsFiniteSet(S) /\ S \subseteq AllObjects
            /\ \A o \in S : o.size \in Nat /\ o.age \in Int

LEMMA BunchPart ==
  ASSUME NEW S, Bunch(S), NEW P \in SUBSET S
  PROVE  Bunch(P)
BY FS_Subset DEF Bunch

LEMMA ObjectsAreBunch ==
  ASSUME ProgressAssumption, NEW s \in Scans
  PROVE  Bunch(Objects[s])
BY DEF ProgressAssumption, Bunch, AllObjects

(* The total size of some objects, ...                                     *)
LEMMA TotalIsSum ==
  ASSUME NEW S, Bunch(S)
  PROVE  TotalSize(S) = SumFunctionOnSet(SizeOf, S)
<1> DEFINE g == [o \in S |-> o.size]
<1>1. DOMAIN g = S /\ \A o \in S : g[o] \in Int /\ g[o] = SizeOf[o]
  BY DEF Bunch, SizeOf
<1>2. TotalSize(S) = SumFunctionOnSet(g, DOMAIN g)
  BY DEF TotalSize, SumFunction
<1>3. IsFiniteSet(S)
  BY DEF Bunch
<1> HIDE DEF g
<1>4. SumFunctionOnSet(g, S) = SumFunctionOnSet(SizeOf, S)
  BY <1>1, <1>3, SumAgree
<1>5. TotalSize(S) = SumFunctionOnSet(g, S)
  BY <1>1, <1>2, Zenon
<1> QED
  BY <1>4, <1>5

LEMMA TotalType ==
  ASSUME NEW S, Bunch(S)
  PROVE  TotalSize(S) \in Nat /\ Cardinality(S) \in Nat
<1>1. IsFiniteSet(S) /\ \A o \in S : SizeOf[o] \in Nat
  BY DEF Bunch, SizeOf
<1>2. SumFunctionOnSet(SizeOf, S) \in Nat
  BY <1>1, SumNat
<1> QED
  BY <1>1, <1>2, TotalIsSum, FS_CardinalityType

LEMMA NothingCounted == Bunch({}) /\ TotalSize({}) = 0 /\ Cardinality({}) = 0
<1>1. Bunch({}) /\ Cardinality({}) = 0
  BY FS_EmptySet DEF Bunch
<1>2. TotalSize({}) = SumFunctionOnSet(SizeOf, {})
  BY <1>1, TotalIsSum
<1>3. SumFunctionOnSet(SizeOf, {}) = 0
  BY SumNone
<1> QED
  BY <1>1, <1>2, <1>3

(* ... and of one more.                                                    *)
LEMMA OneMoreObject ==
  ASSUME NEW S, NEW o, o \notin S, Bunch(S \cup {o})
  PROVE  /\ Bunch(S) /\ Cardinality(S \cup {o}) = Cardinality(S) + 1
         /\ TotalSize(S \cup {o}) = TotalSize(S) + o.size
<1> DEFINE T == S \cup {o}
<1>1. Bunch(S) /\ Bunch(T)
  <2>1. S \in SUBSET T
    OBVIOUS
  <2> HIDE DEF T
  <2> QED
    BY <2>1, BunchPart DEF T
<1>2. IsFiniteSet(S) /\ (\A x \in S : SizeOf[x] \in Int) /\ SizeOf[o] \in Int
      /\ SizeOf[o] = o.size
  BY <1>1 DEF Bunch, SizeOf
<1>3. SumFunctionOnSet(SizeOf, S \cup {o}) = SumFunctionOnSet(SizeOf, S) + SizeOf[o]
  BY <1>2, SumOne
<1>4. Cardinality(S \cup {o}) = Cardinality(S) + 1
  BY <1>2, FS_AddElement
<1>5. TotalSize(T) = SumFunctionOnSet(SizeOf, T) /\ TotalSize(S) = SumFunctionOnSet(SizeOf, S)
  <2> HIDE DEF T
  <2> QED
    BY <1>1, TotalIsSum
<1> QED
  BY <1>1, <1>2, <1>3, <1>4, <1>5

-----------------------------------------------------------------------------
(* One more object in the tables, ...                                      *)
LEMMA GroupMore ==
  ASSUME NEW S, NEW o, o \notin S, Bunch(S \cup {o}), NEW f
  PROVE  Accumulate(GroupBy(S, f), f[o], o.size) = GroupBy(S \cup {o}, f)
<1> DEFINE L == {f[x] : x \in S}
           table == GroupBy(S, f)
           A(v) == Labelled(S, f, v)
           B(v) == Labelled(S \cup {o}, f, v)
           acc(v) == IF v \in L THEN table[v] ELSE [count |-> 0, size |-> 0]
           new(v) == IF v = f[o] THEN [count |-> acc(v).count + 1, size |-> acc(v).size + o.size]
                                 ELSE acc(v)
<1>1. DOMAIN table = L /\ \A v \in L : table[v] = Entry(A(v))
  BY DEF GroupBy
<1>2. {f[x] : x \in S \cup {o}} = L \cup {f[o]}
  OBVIOUS
<1>3. Accumulate(table, f[o], o.size) = [v \in L \cup {f[o]} |-> new(v)]
  <2> HIDE DEF table
  <2> QED
    BY <1>1 DEF Accumulate
<1>4. ASSUME NEW v \in L \cup {f[o]} PROVE new(v) = Entry(B(v))
  <2>1. acc(v) = Entry(A(v))
    <3>1. CASE v \in L
      BY <1>1, <3>1
    <3>2. CASE v \notin L
      <4>1. A(v) = {}
        BY <3>2 DEF Labelled
      <4>2. Entry(A(v)) = [count |-> 0, size |-> 0]
        BY <4>1, NothingCounted DEF Entry
      <4> QED
        BY <3>2, <4>2
    <3> QED
      BY <3>1, <3>2
  <2>2. CASE v # f[o]
    <3>1. B(v) = A(v)
      BY <2>2 DEF Labelled
    <3> QED
      BY <2>1, <2>2, <3>1
  <2>3. CASE v = f[o]
    <3>1. B(v) = A(v) \cup {o} /\ o \notin A(v) /\ B(v) \in SUBSET (S \cup {o})
      BY <2>3 DEF Labelled
    <3>2. Bunch(B(v))
      BY <3>1, BunchPart
    <3> HIDE DEF A, B
    <3>3. Bunch(A(v) \cup {o})
      BY <3>1, <3>2, Zenon
    <3>4. /\ Cardinality(A(v) \cup {o}) = Cardinality(A(v)) + 1
          /\ TotalSize(A(v) \cup {o}) = TotalSize(A(v)) + o.size
      BY <3>1, <3>3, OneMoreObject
    <3>5. Cardinality(B(v)) = Cardinality(A(v)) + 1 /\ TotalSize(B(v)) = TotalSize(A(v)) + o.size
      BY <3>1, <3>4, Zenon
    <3>6. new(v) = [count |-> Entry(A(v)).count + 1, size |-> Entry(A(v)).size + o.size]
      <4> HIDE DEF acc
      <4> QED
        BY <2>1, <2>3
    <3> QED
      BY <3>5, <3>6 DEF Entry
  <2> QED
    BY <2>2, <2>3
<1>5. GroupBy(S \cup {o}, f) = [v \in L \cup {f[o]} |-> Entry(B(v))]
  BY <1>2 DEF GroupBy
<1> HIDE DEF new, table, B
<1>6. [v \in L \cup {f[o]} |-> new(v)] = [v \in L \cup {f[o]} |-> Entry(B(v))]
  BY <1>4
<1> QED
  BY <1>3, <1>5, <1>6 DEF table

(* ... in the list of sizes, ...                                           *)
LEMMA SizesMore ==
  ASSUME NEW S, NEW o, o \notin S, Bunch(S \cup {o}), NEW sizes, SizesOf(sizes, S)
  PROVE  SizesOf(Append(sizes, o.size), S \cup {o}) /\ sizes \in Seq(Nat)
<1>1. PICK n \in Nat : n = Cardinality(S) /\ Cardinality(S \cup {o}) = n + 1
  BY OneMoreObject, TotalType
<1>2. PICK order : Numbers(order, n, S) /\ sizes = [i \in 1..n |-> order[i].size]
  BY <1>1 DEF SizesOf
<1>3. sizes \in Seq(Nat) /\ Len(sizes) = n
  BY <1>2 DEF Numbers, Bunch
<1> DEFINE T == S \cup {o}
           p == [i \in 1..(n + 1) |-> IF i = n + 1 THEN o ELSE order[i]]
<1>4. /\ \A i \in 1..(n + 1) : p[i] = IF i = n + 1 THEN o ELSE order[i]
      /\ \A i \in 1..(n + 1) : i # n + 1 => i \in 1..n
      /\ \A i \in 1..n : i \in 1..(n + 1) /\ i # n + 1 /\ order[i] \in S
      /\ n + 1 \in 1..(n + 1) /\ p = [i \in 1..(n + 1) |-> p[i]]
  BY <1>2 DEF Numbers
<1> HIDE DEF p
<1>5. Numbers(p, n + 1, T)
  <2>1. p \in [1..(n + 1) -> T]
    <3>1. \A i \in 1..(n + 1) : p[i] \in T
      BY <1>4
    <3> QED
      BY <1>4, <3>1
  <2>2. ASSUME NEW i \in 1..(n + 1), NEW j \in 1..(n + 1), p[i] = p[j] PROVE i = j
    <3>1. i = n + 1 <=> j = n + 1
      BY <1>4, <2>2
    <3>2. CASE i # n + 1
      BY <1>2, <1>4, <2>2, <3>1, <3>2 DEF Numbers
    <3> QED
      BY <3>1, <3>2
  <2>3. ASSUME NEW x \in T PROVE \E i \in 1..(n + 1) : p[i] = x
    <3>1. CASE x = o
      BY <1>4, <3>1
    <3>2. CASE x \in S
      <4>1. PICK i \in 1..n : order[i] = x
        BY <1>2, <3>2 DEF Numbers
      <4> QED
        BY <1>4, <4>1
    <3> QED
      BY <3>1, <3>2
  <2> HIDE DEF T
  <2> QED
    BY <2>1, <2>2, <2>3 DEF Numbers
<1>6. Append(sizes, o.size) = [i \in 1..(n + 1) |-> p[i].size]
  <2>1. \A i \in 1..(n + 1) : Append(sizes, o.size)[i] = IF i = n + 1 THEN o.size ELSE sizes[i]
    BY <1>3
  <2>2. \A i \in 1..(n + 1) : Append(sizes, o.size)[i] = p[i].size
    BY <1>2, <1>4, <2>1
  <2>3. Append(sizes, o.size) = [i \in 1..(n + 1) |-> Append(sizes, o.size)[i]]
    <3>1. o.size \in Nat
      BY DEF Bunch
    <3>2. Append(sizes, o.size) \in Seq(Nat) /\ Len(Append(sizes, o.size)) = n + 1
      BY <1>3, <3>1
    <3> QED
      BY <3>2
  <2> QED
    BY <2>2, <2>3
<1> HIDE DEF T
<1>7. Cardinality(T) = n + 1
  BY <1>1 DEF T
<1>8. SizesOf(Append(sizes, o.size), T)
  BY <1>5, <1>6, <1>7 DEF SizesOf
<1> QED
  BY <1>3, <1>8 DEF T

LEMMA MaxOfTwo ==
  ASSUME NEW x \in Nat, NEW y \in Nat PROVE Max({x, y}) = IF x < y THEN y ELSE x
BY DEF Max

LEMMA EmptyMore ==
  ASSUME NEW S, NEW o, o \notin S, Bunch(S \cup {o})
  PROVE  Cardinality(Empty(S \cup {o})) = Cardinality(Empty(S)) + (IF o.size = 0 THEN 1 ELSE 0)
<1>1. IsFiniteSet(Empty(S)) /\ o \notin Empty(S)
  BY OneMoreObject, FS_Subset DEF Bunch, Empty
<1>2. Cardinality(Empty(S)) \in Nat
  BY <1>1, FS_CardinalityType
<1>3. CASE o.size = 0
  <2>1. Empty(S \cup {o}) = Empty(S) \cup {o}
    BY <1>3 DEF Empty
  <2>2. Cardinality(Empty(S) \cup {o}) = Cardinality(Empty(S)) + 1
    BY <1>1, FS_AddElement
  <2>3. Cardinality(Empty(S \cup {o})) = Cardinality(Empty(S)) + 1
    BY <2>1, <2>2, Zenon
  <2> QED
    BY <1>3, <2>3
<1>4. CASE o.size # 0
  <2>1. Empty(S \cup {o}) = Empty(S)
    BY <1>4 DEF Empty
  <2> QED
    BY <1>2, <1>4, <2>1
<1> QED
  BY <1>3, <1>4

(* ... and in all of an aggregator.                                        *)
LEMMA AddObjectAggregates ==
  ASSUME NEW S, NEW o, o \notin S, Bunch(S \cup {o}), NEW a, Aggregates(a, S)
  PROVE  Aggregates(AddObject(a, o), S \cup {o})
<1> DEFINE T == S \cup {o}
<1>1. /\ o.size \in Nat /\ o \in AllObjects
      /\ ExtOf[o] = o.ext /\ AgeOf[o] = AgeBucket(o.age)
      /\ ClassOf[o] = StorageClass(o) /\ PrefixOf[o] = TopLevelPrefix(o)
  BY DEF Bunch, ExtOf, AgeOf, ClassOf, PrefixOf, Ext
<1>2. /\ Accumulate(a.types, o.ext, o.size) = GroupBy(T, ExtOf)
      /\ Accumulate(a.ages, AgeBucket(o.age), o.size) = GroupBy(T, AgeOf)
      /\ Accumulate(a.storage, StorageClass(o), o.size) = GroupBy(T, ClassOf)
      /\ Accumulate(a.prefixes, TopLevelPrefix(o), o.size) = GroupBy(T, PrefixOf)
  <2>1. /\ Accumulate(GroupBy(S, ExtOf), ExtOf[o], o.size) = GroupBy(T, ExtOf)
        /\ Accumulate(GroupBy(S, AgeOf), AgeOf[o], o.size) = GroupBy(T, AgeOf)
        /\ Accumulate(GroupBy(S, ClassOf), ClassOf[o], o.size) = GroupBy(T, ClassOf)
        /\ Accumulate(GroupBy(S, PrefixOf), PrefixOf[o], o.size) = GroupBy(T, PrefixOf)
    BY GroupMore
  <2> HIDE DEF T
  <2> QED
    BY <1>1, <2>1, Zenon DEF Aggregates
<1>3. SizesOf(Append(a.sizes, o.size), T)
  BY SizesMore DEF Aggregates
<1>4. Greatest(Max({a.maxSize, o.size}), T)
  <2>1. Max({a.maxSize, o.size}) = IF a.maxSize < o.size THEN o.size ELSE a.maxSize
    BY <1>1, MaxOfTwo DEF Aggregates, Greatest
  <2>2. Greatest(IF a.maxSize < o.size THEN o.size ELSE a.maxSize, T)
    BY <1>1 DEF Aggregates, Greatest, Bunch
  <2> QED
    BY <2>1, <2>2, Zenon
<1>5. /\ a.totalObjects + 1 = Cardinality(T) /\ a.totalSize + o.size = TotalSize(T)
      /\ a.emptyObjects + (IF o.size = 0 THEN 1 ELSE 0) = Cardinality(Empty(T))
  BY OneMoreObject, EmptyMore DEF Aggregates
<1> HIDE DEF T
<1>6. Aggregates(AddObject(a, o), T)
  BY <1>2, <1>3, <1>4, <1>5 DEF Aggregates, AddObject
<1> QED
  BY <1>6 DEF T

(* A new aggregator holds nothing.                                         *)
LEMMA NewAggregates == Aggregates(NewStatsAggregator, {})
<1>1. SizesOf(<<>>, {})
  <2>1. Numbers(<<>>, 0, {}) /\ <<>> = [i \in 1..0 |-> <<>>[i].size]
    BY DEF Numbers
  <2> QED
    BY <2>1, NothingCounted DEF SizesOf
<1>2. \A f : GroupBy({}, f) = NoLabels
  BY DEF GroupBy, NoLabels
<1>3. Empty({}) = {} /\ Greatest(0, {})
  BY DEF Empty, Greatest
<1> QED
  BY <1>1, <1>2, <1>3, NothingCounted DEF Aggregates, NewStatsAggregator

-----------------------------------------------------------------------------
(* A batch of different objects is added to what the aggregator holds.     *)
Distinct(seq) == \A i, j \in DOMAIN seq : seq[i] = seq[j] => i = j

LEMMA AddBatchAggregates ==
  ASSUME NEW S, NEW T, Bunch(S \cup T), NEW seq \in Seq(T), Distinct(seq),
         ToSet(seq) \cap S = {}, NEW a0, Aggregates(a0, S)
  PROVE  Aggregates(AddBatch(a0, seq), S \cup ToSet(seq))
<1>1. PICK n \in Nat : n = Len(seq) /\ DOMAIN seq = 1..n /\ \A i \in 1..n : seq[i] \in T
  OBVIOUS
<1>2. PICK h : Folds(h, a0, seq, n)
  BY <1>1, FoldUnfolds
<1> DEFINE First(k) == S \cup {seq[i] : i \in 1..k}
           Right == {k \in 0..n : Aggregates(h[1..k], First(k))}
<1>3. 0 \in Right
  <2>1. 1..0 = {} /\ {} \in SUBSET (1..n) /\ First(0) = S
    OBVIOUS
  <2>2. h[{}] = a0
    BY <1>2, <2>1 DEF StepOf, Folds
  <2>3. Aggregates(h[1..0], First(0))
    BY <2>1, <2>2, Zenon
  <2> QED
    BY <2>3
<1>4. ASSUME NEW k \in 0..n - 1, k \in Right PROVE k + 1 \in Right
  <2> DEFINE s == 1..(k + 1)
  <2>1. s \in SUBSET (1..n) /\ s # {} /\ Max(s) = k + 1
    <3>1. s \in SUBSET (1..n) /\ k + 1 \in s
      BY <1>4
    <3>2. Max(s) \in s /\ \A y \in s : y <= Max(s)
      BY <1>1, <3>1, MaxOfPositions
    <3> QED
      BY <3>1, <3>2
  <2>2. s \ {Max(s)} = 1..k
    BY <2>1
  <2>3. h[s] = AddObject(h[1..k], seq[k + 1])
    BY <1>2, <2>1, <2>2 DEF StepOf, Folds
  <2>4. /\ First(k + 1) = First(k) \cup {seq[k + 1]} /\ seq[k + 1] \notin First(k)
        /\ First(k + 1) \in SUBSET (S \cup T)
    <3>1. k + 1 \in 1..n /\ \A i \in 1..k : i \in 1..n /\ i # k + 1
      OBVIOUS
    <3>2. 1..(k + 1) = (1..k) \cup {k + 1} /\ \A i \in 1..(k + 1) : i \in 1..n
      OBVIOUS
    <3>3. seq[k + 1] \notin S
      BY <1>1, <3>1 DEF ToSet
    <3>4. \A i \in 1..k : seq[i] # seq[k + 1]
      BY <1>1, <3>1 DEF Distinct
    <3> QED
      BY <1>1, <3>2, <3>3, <3>4
  <2>5. Aggregates(h[1..k], First(k))
    BY <1>4
  <2> HIDE DEF First, s
  <2>6. Bunch(First(k) \cup {seq[k + 1]})
    <3>1. Bunch(First(k + 1))
      BY <2>4, BunchPart
    <3> QED
      BY <2>4, <3>1, Zenon
  <2>7. Aggregates(AddObject(h[1..k], seq[k + 1]), First(k) \cup {seq[k + 1]})
    BY <2>4, <2>5, <2>6, AddObjectAggregates
  <2>8. Aggregates(h[s], First(k + 1))
    BY <2>3, <2>4, <2>7, Zenon
  <2>9. k + 1 \in 0..n
    OBVIOUS
  <2> QED
    BY <2>8, <2>9 DEF s
<1>5. Aggregates(h[1..n], First(n))
  <2> HIDE DEF First
  <2>1. \A k \in 0..n : k \in Right
    <3> HIDE DEF Right
    <3>1. \A k \in 0..n - 1 : k \in Right => k + 1 \in Right
      BY <1>4
    <3> QED
      BY <1>3, <3>1, UpTo
  <2> QED
    BY <2>1
<1>6. First(n) = S \cup ToSet(seq)
  BY <1>1 DEF ToSet
<1> HIDE DEF First
<1>7. AddBatch(a0, seq) = h[1..n]
  BY <1>2 DEF Folds
<1> QED
  BY <1>5, <1>6, <1>7, Zenon

-----------------------------------------------------------------------------
(***************************************************************************)
(* What the report says of the objects that the aggregator holds.          *)
(***************************************************************************)
(* Rounding is off by half a hundredth at most.                            *)
LEMMA Rounded ==
  ASSUME NEW n \in Nat, NEW d \in Nat \ {0}
  PROVE  /\ Hundredths(n, d) \in Nat
         /\ 2 * d * Hundredths(n, d) - 200 * n \in -d..d
<1> DEFINE p == 200 * n + d
           w == 2 * d
           q == p \div w
<1>1. p \in Nat /\ w \in Nat \ {0} /\ p = 200 * n + d /\ w = 2 * d
  OBVIOUS
<1>2. Hundredths(n, d) = q
  BY DEF Hundredths
<1> HIDE DEF p, w
<1>3. q \in Nat /\ q * w <= p /\ p < q * w + w
  BY <1>1
<1> HIDE DEF q
<1>4. w * q = q * w /\ q * w \in Nat
  BY <1>1, <1>3
<1>5. 2 * d * q = w * q
  BY <1>1
<1>6. 2 * d * q - 200 * n \in -d..d
  <2>1. PICK x \in Nat : x = q * w
    BY <1>4
  <2>2. x <= p /\ p < x + w /\ 2 * d * q = x
    BY <1>3, <1>4, <1>5, <2>1
  <2>3. x - 200 * n \in -d..d
    BY <1>1, <2>2
  <2> QED
    BY <2>2, <2>3
<1> QED
  BY <1>2, <1>3, <1>6

(* The sorted sizes are those of the objects from the smallest to the      *)
(* largest.                                                                *)
LEMMA SortedSizes ==
  ASSUME NEW S, Bunch(S), NEW sizes, SizesOf(sizes, S), NEW n \in Nat, n = Cardinality(S)
  PROVE  \E q : /\ Numbers(q, n, S) /\ Ascends(q, n, SizeOf)
                /\ Sorted(sizes) = [i \in 1..n |-> q[i].size]
                /\ sizes \in Seq(Nat) /\ Len(sizes) = n
<1>1. PICK order : Numbers(order, n, S) /\ sizes = [i \in 1..n |-> order[i].size]
  BY DEF SizesOf
<1>2. /\ sizes \in Seq(Nat) /\ Len(sizes) = n /\ DOMAIN sizes = 1..n
      /\ \A i \in 1..n : order[i] \in S /\ sizes[i] = order[i].size /\ sizes[i] \in Nat
  <2>1. \A i \in 1..n : order[i] \in S /\ order[i].size \in Nat
    BY <1>1 DEF Numbers, Bunch
  <2> QED
    BY <1>1, <2>1
<1> DEFINE Sorts(p) == \A i, j \in DOMAIN sizes : i < j => sizes[p[i]] <= sizes[p[j]]
           c == CHOOSE p \in Bijection(DOMAIN sizes, DOMAIN sizes) : Sorts(p)
<1>3. c \in Bijection(1..n, 1..n) /\ Sorts(c)
  <2>1. PICK p : Numbers(p, n, 1..n) /\ Ascends(p, n, sizes)
    <3>1. IsFiniteSet(1..n) /\ Cardinality(1..n) = n /\ \A i \in 1..n : sizes[i] \in Nat
      BY <1>2, Positions
    <3>2. \E p : Numbers(p, Cardinality(1..n), 1..n) /\ Ascends(p, Cardinality(1..n), sizes)
      BY <3>1, Sortable
    <3> QED
      BY <3>1, <3>2, Zenon
  <2>2. p \in Bijection(DOMAIN sizes, DOMAIN sizes) /\ Sorts(p)
    BY <1>2, <2>1, NumbersIsBijection DEF Ascends
  <2> HIDE DEF Sorts
  <2>3. c \in Bijection(DOMAIN sizes, DOMAIN sizes) /\ Sorts(c)
    BY <2>2, Zenon
  <2> QED
    BY <1>2, <2>3, Zenon
<1>4. Sorted(sizes) = [i \in 1..n |-> sizes[c[i]]]
  BY <1>2 DEF Sorted
<1> HIDE DEF c
<1>5. Numbers(c, n, 1..n)
  BY <1>3, NumbersIsBijection
<1> DEFINE q == [i \in 1..n |-> order[c[i]]]
<1>6. \A i \in 1..n : c[i] \in 1..n /\ q[i] = order[c[i]] /\ q[i] \in S
  BY <1>2, <1>5 DEF Numbers
<1>7. \A i \in 1..n : sizes[c[i]] = q[i].size /\ SizeOf[q[i]] = q[i].size
  BY <1>2, <1>6 DEF SizeOf, Bunch
<1>8. q \in [1..n -> S]
  BY <1>6
<1> HIDE DEF q
<1>9. Numbers(q, n, S)
  <2>1. ASSUME NEW i \in 1..n, NEW j \in 1..n, q[i] = q[j] PROVE i = j
    <3>1. c[i] = c[j]
      BY <1>1, <1>6, <2>1 DEF Numbers
    <3> QED
      BY <1>5, <3>1 DEF Numbers
  <2>2. ASSUME NEW x \in S PROVE \E i \in 1..n : q[i] = x
    <3>1. PICK k \in 1..n : order[k] = x
      BY <1>1 DEF Numbers
    <3>2. PICK i \in 1..n : c[i] = k
      BY <1>5 DEF Numbers
    <3> QED
      BY <1>6, <3>1, <3>2
  <2> QED
    BY <1>8, <2>1, <2>2 DEF Numbers
<1>10. Ascends(q, n, SizeOf)
  BY <1>2, <1>3, <1>7 DEF Ascends
<1>11. Sorted(sizes) = [i \in 1..n |-> q[i].size]
  BY <1>4, <1>7
<1> QED
  BY <1>2, <1>9, <1>10, <1>11

(* The m-th of them is the m-th size.                                      *)
LEMMA NthIs ==
  ASSUME NEW S, Bunch(S), NEW n \in Nat, NEW q, Numbers(q, n, S), Ascends(q, n, SizeOf),
         NEW m \in 1..n
  PROVE  NthSize(S, m) = q[m].size /\ q[m].size \in Nat
<1> DEFINE Upto(p) == {y \in S : y.size <= p.size}
           A == {o.size : o \in {p \in S : Cardinality(Upto(p)) >= m}}
<1>1. /\ q[m] \in S /\ IsFiniteSet(S)
      /\ \A o \in S : o.size \in Nat /\ SizeOf[o] = o.size
  BY DEF Numbers, Bunch, SizeOf
<1>2. \A p \in S : Upto(p) = {y \in S : SizeOf[y] <= SizeOf[p]}
  BY <1>1
<1>3. \A x \in S : SizeOf[x] \in Nat
  BY <1>1
<1>4. m <= Cardinality(Upto(q[m]))
  <2>1. m <= Cardinality({y \in S : SizeOf[y] <= SizeOf[q[m]]})
    BY <1>1, <1>3, NotAboveNth
  <2> QED
    BY <1>1, <1>2, <2>1
<1>5. ASSUME NEW p \in S, Cardinality(Upto(p)) >= m PROVE q[m].size <= p.size
  <2> SUFFICES ASSUME SizeOf[p] < SizeOf[q[m]] PROVE FALSE
    BY <1>1
  <2>1. Cardinality({y \in S : SizeOf[y] <= SizeOf[p]}) < m
    BY <1>1, <1>3, BelowNth
  <2>2. Cardinality(Upto(p)) < m
    BY <1>2, <2>1
  <2>3. Cardinality(Upto(p)) \in Nat
    BY <1>1, FS_Subset, FS_CardinalityType
  <2> HIDE DEF Upto
  <2> QED
    BY <1>5, <2>2, <2>3
<1>6. /\ q[m].size \in A /\ \A y \in A : q[m].size <= y
      /\ A \subseteq Nat
  <2>1. Cardinality(Upto(q[m])) >= m
    <3>1. Cardinality(Upto(q[m])) \in Nat
      BY <1>1, FS_Subset, FS_CardinalityType
    <3> HIDE DEF Upto
    <3> QED
      BY <1>4, <3>1
  <2> HIDE DEF Upto
  <2> QED
    BY <1>1, <1>5, <2>1
<1>7. NthSize(S, m) = Min(A)
  BY DEF NthSize
<1> HIDE DEF A
<1>8. Min(A) = q[m].size
  <2>1. PICK x \in A : x = q[m].size /\ \A y \in A : x <= y
    BY <1>6
  <2>2. \A z \in A : (\A y \in A : z <= y) => z = x
    BY <1>6, <2>1
  <2>3. Min(A) = x
    BY <2>1, <2>2, Zenon DEF Min
  <2> QED
    BY <2>1, <2>3
<1> QED
  BY <1>1, <1>7, <1>8

(* The median and the greatest size are the middle and the last one.       *)
LEMMA MiddleAndLast ==
  ASSUME NEW S, Bunch(S), NEW sizes, SizesOf(sizes, S), NEW m, Greatest(m, S),
         NEW n \in Nat \ {0}, n = Cardinality(S)
  PROVE  /\ m = NthSize(S, n) /\ Median(sizes) \in Nat
         /\ Median(sizes) = (NthSize(S, (n + 1) \div 2) + NthSize(S, n \div 2 + 1)) \div 2
<1>1. PICK q : /\ Numbers(q, n, S) /\ Ascends(q, n, SizeOf)
               /\ Sorted(sizes) = [i \in 1..n |-> q[i].size]
               /\ sizes \in Seq(Nat) /\ Len(sizes) = n
  BY SortedSizes
<1>2. \A k \in 1..n : /\ NthSize(S, k) = q[k].size /\ q[k].size \in Nat
                      /\ Sorted(sizes)[k] = NthSize(S, k)
  BY <1>1, NthIs
<1>3. m = NthSize(S, n)
  <2>1. n \in 1..n /\ q[n] \in S
    BY <1>1 DEF Numbers
  <2>2. PICK o \in S : o.size = m
    BY <2>1 DEF Greatest
  <2>3. PICK k \in 1..n : q[k] = o
    BY <1>1 DEF Numbers
  <2>4. q[k].size <= q[n].size
    <3>1. CASE k = n
      BY <1>2, <3>1
    <3>2. CASE k < n
      <4>1. SizeOf[q[k]] <= SizeOf[q[n]]
        BY <1>1, <2>1, <3>2 DEF Ascends
      <4>2. SizeOf[q[k]] = q[k].size /\ SizeOf[q[n]] = q[n].size
        BY <2>1, <2>3 DEF SizeOf, Bunch
      <4> QED
        BY <4>1, <4>2
    <3> QED
      BY <3>1, <3>2
  <2>5. q[n].size <= m /\ m \in Nat /\ q[n].size \in Nat
    BY <1>2, <2>1 DEF Greatest
  <2> QED
    BY <1>2, <2>1, <2>2, <2>3, <2>4, <2>5
<1>4. sizes # <<>>
  BY <1>1
<1> DEFINE lower == NthSize(S, (n + 1) \div 2)
           upper == NthSize(S, n \div 2 + 1)
<1>5. (n + 1) \div 2 \in 1..n /\ n \div 2 + 1 \in 1..n
  OBVIOUS
<1>6. lower \in Nat /\ upper \in Nat
  BY <1>2, <1>5
<1>7. CASE n % 2 = 0
  <2>1. n \div 2 = (n + 1) \div 2
    BY <1>7
  <2>2. Median(sizes) = (Sorted(sizes)[n \div 2] + Sorted(sizes)[n \div 2 + 1]) \div 2
    BY <1>1, <1>4, <1>7 DEF Median
  <2>3. Sorted(sizes)[n \div 2] = lower /\ Sorted(sizes)[n \div 2 + 1] = upper
    BY <1>2, <1>5, <2>1
  <2>4. Median(sizes) = (lower + upper) \div 2
    BY <2>2, <2>3
  <2> HIDE DEF lower, upper
  <2>5. (lower + upper) \div 2 \in Nat
    BY <1>6
  <2> QED
    BY <1>3, <2>4, <2>5 DEF lower, upper
<1>8. CASE n % 2 # 0
  <2>1. n \div 2 + 1 = (n + 1) \div 2
    BY <1>8
  <2>2. Median(sizes) = Sorted(sizes)[n \div 2 + 1]
    BY <1>1, <1>4, <1>8 DEF Median
  <2>3. Median(sizes) = upper /\ lower = upper
    BY <1>2, <1>5, <2>1, <2>2
  <2> HIDE DEF lower, upper
  <2>4. (lower + upper) \div 2 = upper
    BY <1>6, <2>3
  <2> QED
    BY <1>3, <1>6, <2>3, <2>4 DEF lower, upper
<1> QED
  BY <1>7, <1>8

(* The tables of the report.                                               *)
LEMMA TablesAre ==
  ASSUME NEW S, Bunch(S)
  PROVE  /\ GroupBy(S, ExtOf) = Groups(S, Ext)
         /\ GroupBy(S, ClassOf) = Groups(S, StorageClass)
         /\ GroupBy(S, PrefixOf) = Groups(S, TopLevelPrefix)
<1>1. \A o \in S : /\ ExtOf[o] = Ext(o) /\ ClassOf[o] = StorageClass(o)
                   /\ PrefixOf[o] = TopLevelPrefix(o)
  BY DEF Bunch, ExtOf, ClassOf, PrefixOf
<1>2. GroupBy(S, ExtOf) = Groups(S, Ext)
  <2>1. {ExtOf[o] : o \in S} = {Ext(o) : o \in S}
    BY <1>1
  <2>2. \A v : Labelled(S, ExtOf, v) = {o \in S : Ext(o) = v}
    BY <1>1 DEF Labelled
  <2> QED
    BY <2>1, <2>2, Zenon DEF GroupBy, Groups, Entry
<1>3. GroupBy(S, ClassOf) = Groups(S, StorageClass)
  <2>1. {ClassOf[o] : o \in S} = {StorageClass(o) : o \in S}
    BY <1>1
  <2>2. \A v : Labelled(S, ClassOf, v) = {o \in S : StorageClass(o) = v}
    BY <1>1 DEF Labelled
  <2> QED
    BY <2>1, <2>2, Zenon DEF GroupBy, Groups, Entry
<1>4. GroupBy(S, PrefixOf) = Groups(S, TopLevelPrefix)
  <2>1. {PrefixOf[o] : o \in S} = {TopLevelPrefix(o) : o \in S}
    BY <1>1
  <2>2. \A v : Labelled(S, PrefixOf, v) = {o \in S : TopLevelPrefix(o) = v}
    BY <1>1 DEF Labelled
  <2> QED
    BY <2>1, <2>2, Zenon DEF GroupBy, Groups, Entry
<1> QED
  BY <1>2, <1>3, <1>4

(* An object's bucket is the first of those whose bound its age is below.  *)
LEMMA BucketIs ==
  ASSUME NEW hours \in Int
  PROVE  LET b == AgeBucket(hours)
         IN  /\ b \in AgeBounds \cup {Older}
             /\ b # Older => hours < b
             /\ \A c \in AgeBounds : hours < c => b # Older /\ b <= c
<1> DEFINE over == {b \in AgeBounds : hours < b}
<1>1. AgeBounds \subseteq Nat /\ Older \notin AgeBounds
  BY DEF AgeBounds, Older
<1>2. AgeBucket(hours) = IF over = {} THEN Older ELSE Min(over)
  BY DEF AgeBucket
<1>3. CASE over = {}
  BY <1>1, <1>2, <1>3
<1>4. CASE over # {}
  <2>1. over \in SUBSET Nat
    BY <1>1
  <2>2. PICK b \in over : \A c \in over : b <= c
    BY <1>4, <2>1, NatLeast
  <2>3. \A z \in over : (\A y \in over : z <= y) => z = b
    BY <2>1, <2>2
  <2> HIDE DEF over
  <2>4. Min(over) = b
    BY <2>2, <2>3, Zenon DEF Min
  <2>5. AgeBucket(hours) = b
    BY <1>2, <1>4, <2>4
  <2>6. b \in AgeBounds /\ b # Older /\ hours < b /\ \A c \in AgeBounds : hours < c => b <= c
    BY <1>1, <2>2 DEF over
  <2> QED
    BY <2>5, <2>6
<1> QED
  BY <1>3, <1>4

LEMMA EntryIs == ASSUME NEW S PROVE Entry(S).count = Cardinality(S) /\ Entry(S).size = TotalSize(S)
BY DEF Entry

(* Some of the rows of a table add up to the objects in them.              *)
LEMMA RowsAddUp ==
  ASSUME NEW S, Bunch(S), NEW f, NEW C, C \subseteq {f[o] : o \in S}
  PROVE  /\ SumFunction([c \in C |-> GroupBy(S, f)[c].count]) = Cardinality(LabelledIn(S, f, C))
         /\ SumFunction([c \in C |-> GroupBy(S, f)[c].size]) = TotalSize(LabelledIn(S, f, C))
<1> DEFINE table == GroupBy(S, f)
           counts == [c \in C |-> table[c].count]
           sizes == [c \in C |-> table[c].size]
<1>1. IsFiniteSet(S) /\ IsFiniteSet(C)
  <2>1. IsFiniteSet(S)
    BY DEF Bunch
  <2>2. IsFiniteSet({f[o] : o \in S})
    BY <2>1, LabelsFinite
  <2> QED
    BY <2>1, <2>2, FS_Subset
<1>2. \A c \in C : table[c] = Entry(Labelled(S, f, c))
  BY DEF GroupBy
<1> HIDE DEF table
<1>3. ASSUME NEW c \in C PROVE counts[c] = Cardinality(Labelled(S, f, c))
  <2>1. counts[c] = table[c].count
    OBVIOUS
  <2> HIDE DEF counts
  <2> QED
    BY <1>2, <2>1, EntryIs, Zenon
<1>4. ASSUME NEW c \in C PROVE sizes[c] = SumFunctionOnSet(SizeOf, Labelled(S, f, c))
  <2>1. Bunch(Labelled(S, f, c))
    BY BunchPart DEF Labelled
  <2>2. sizes[c] = table[c].size
    OBVIOUS
  <2>3. table[c].size = TotalSize(Labelled(S, f, c))
    BY <1>2, EntryIs, Zenon
  <2> QED
    BY <2>1, <2>2, <2>3, TotalIsSum
<1>5. DOMAIN counts = C /\ DOMAIN sizes = C
  OBVIOUS
<1>6. \A o \in S : SizeOf[o] \in Int
  BY DEF Bunch, SizeOf
<1> HIDE DEF counts, sizes
<1>7. SumFunctionOnSet(counts, C) = Cardinality(LabelledIn(S, f, C))
  BY <1>1, <1>3, CountsAddUp
<1>8. SumFunctionOnSet(sizes, C) = SumFunctionOnSet(SizeOf, LabelledIn(S, f, C))
  BY <1>1, <1>4, <1>6, SumsAddUp
<1>9. SumFunctionOnSet(SizeOf, LabelledIn(S, f, C)) = TotalSize(LabelledIn(S, f, C))
  <2>1. Bunch(LabelledIn(S, f, C))
    BY BunchPart DEF LabelledIn
  <2> QED
    BY <2>1, TotalIsSum
<1>10. /\ SumFunction(counts) = Cardinality(LabelledIn(S, f, C))
       /\ SumFunction(sizes) = TotalSize(LabelledIn(S, f, C))
  BY <1>5, <1>7, <1>8, <1>9, Zenon DEF SumFunction
<1> QED
  BY <1>10 DEF counts, sizes, table

(* The ages: the buckets up to a bound hold the objects below it.          *)
LEMMA AgesAre ==
  ASSUME NEW S, Bunch(S)
  PROVE  AgesDescribe(GroupBy(S, AgeOf), S)
<1> DEFINE ages == GroupBy(S, AgeOf)
           L == {AgeOf[o] : o \in S}
<1>1. DOMAIN ages = L
  BY DEF GroupBy
<1>2. AgeBounds \subseteq Nat /\ Older = 0
  BY DEF AgeBounds, Older
<1>3. \A o \in S : AgeOf[o] = AgeBucket(o.age) /\ o.age \in Int
  BY DEF Bunch, AgeOf
<1>4. ASSUME NEW b \in AgeBounds \cup {Older}
      PROVE  LET younger == {o \in S : \E c \in AgeBounds : o.age < c /\ (c <= b \/ b = Older)}
                 shown   == {c \in DOMAIN ages : c <= b \/ b = Older} \ {Older}
             IN  Cardinality(younger) = SumFunction([c \in shown |-> ages[c].count])
  <2> DEFINE younger == {o \in S : \E c \in AgeBounds : o.age < c /\ (c <= b \/ b = Older)}
             shown   == {c \in DOMAIN ages : c <= b \/ b = Older} \ {Older}
  <2>1. ASSUME NEW o \in S PROVE o \in younger <=> AgeOf[o] \in shown
    <3>1. PICK c : /\ c = AgeOf[o] /\ c \in AgeBounds \cup {Older}
                   /\ c # Older => o.age < c
                   /\ \A e \in AgeBounds : o.age < e => c # Older /\ c <= e
      BY <1>3, BucketIs
    <3>2. c \in DOMAIN ages
      BY <1>1, <3>1
    <3> HIDE DEF ages
    <3>3. ASSUME o \in younger PROVE c \in shown
      <4>1. PICK e \in AgeBounds : o.age < e /\ (e <= b \/ b = Older)
        BY <3>3
      <4>2. c # Older /\ c <= e
        BY <3>1, <4>1
      <4>3. c <= b \/ b = Older
        BY <1>2, <3>1, <4>1, <4>2
      <4> QED
        BY <3>2, <4>2, <4>3
    <3>4. ASSUME c \in shown PROVE o \in younger
      BY <3>1, <3>4
    <3> QED
      BY <3>1, <3>3, <3>4
  <2>2. younger = LabelledIn(S, AgeOf, shown)
    <3> HIDE DEF younger, shown
    <3>1. younger \subseteq S
      BY DEF younger
    <3> QED
      BY <2>1, <3>1 DEF LabelledIn
  <2>3. shown \subseteq L
    BY <1>1
  <2> HIDE DEF shown
  <2>4. SumFunction([c \in shown |-> ages[c].count]) = Cardinality(LabelledIn(S, AgeOf, shown))
    <3> HIDE DEF younger
    <3> QED
      BY <2>3, RowsAddUp
  <2> QED
    BY <2>2, <2>4 DEF shown
<1>5. LabelledIn(S, AgeOf, L) = S /\ L \subseteq L
  BY DEF LabelledIn
<1>6. /\ SumFunction([c \in L |-> ages[c].count]) = Cardinality(S)
      /\ SumFunction([c \in L |-> ages[c].size]) = TotalSize(S)
  <2>1. /\ SumFunction([c \in L |-> ages[c].count]) = Cardinality(LabelledIn(S, AgeOf, L))
        /\ SumFunction([c \in L |-> ages[c].size]) = TotalSize(LabelledIn(S, AgeOf, L))
    BY <1>5, RowsAddUp
  <2> HIDE DEF L, ages
  <2> QED
    BY <1>5, <2>1, Zenon
<1>7. /\ SumFunction([c \in DOMAIN ages |-> ages[c].count]) = Cardinality(S)
      /\ SumFunction([c \in DOMAIN ages |-> ages[c].size]) = TotalSize(S)
  BY <1>1, <1>6, Zenon
<1> HIDE DEF ages
<1>8. AgesDescribe(ages, S)
  BY <1>4, <1>7 DEF AgesDescribe
<1> QED
  BY <1>8 DEF ages

(* The summary of the report.                                              *)
LEMMA SummaryIs ==
  ASSUME NEW S, Bunch(S), NEW a, Aggregates(a, S), NEW n, n = Cardinality(S),
         NEW total, total = TotalSize(S)
  PROVE  BuildSummary(a) \in ScanSummary /\ SummaryDescribes(BuildSummary(a), S)
<1> DEFINE sum == BuildSummary(a)
           avg == Hundredths(total, n)
           median == Median(a.sizes)
<1>1. n \in Nat /\ total \in Nat /\ Cardinality(Empty(S)) \in Nat
  <2>1. Bunch(Empty(S))
    BY BunchPart DEF Empty
  <2> QED
    BY <2>1, TotalType
<1>2. /\ a.totalObjects = n /\ a.totalSize = total /\ a.emptyObjects = Cardinality(Empty(S))
      /\ Greatest(a.maxSize, S) /\ SizesOf(a.sizes, S) /\ a.maxSize \in Nat
  BY DEF Aggregates, Greatest
<1>3. sum = [totalObjects |-> n, totalSize |-> total, avgSize |-> avg, medianSize |-> median,
             maxSize |-> a.maxSize, emptyObjects |-> Cardinality(Empty(S))]
  BY <1>2, Zenon DEF BuildSummary
<1> HIDE DEF sum
<1>4. CASE n > 0
  <2>1. avg \in Nat /\ 2 * n * avg - 200 * total \in -n..n
    <3>1. n \in Nat \ {0}
      BY <1>1, <1>4
    <3> QED
      BY <1>1, <3>1, Rounded, Zenon
  <2>2. /\ a.maxSize = NthSize(S, n) /\ median \in Nat
        /\ median = (NthSize(S, (n + 1) \div 2) + NthSize(S, n \div 2 + 1)) \div 2
    BY <1>1, <1>2, <1>4, MiddleAndLast
  <2> HIDE DEF avg, median
  <2>3. /\ sum.totalObjects = n /\ sum.totalSize = total
        /\ sum.avgSize = avg /\ sum.medianSize = median /\ sum.maxSize = a.maxSize
        /\ sum.emptyObjects = Cardinality(Empty(S))
    BY <1>3
  <2>4. sum \in ScanSummary
    BY <1>1, <1>2, <1>3, <2>1, <2>2 DEF ScanSummary
  <2>5. n # 0
    BY <1>4
  <2>6. SummaryDescribes(sum, S)
    BY <2>1, <2>2, <2>3, <2>5 DEF SummaryDescribes, Empty
  <2> QED
    BY <2>4, <2>6 DEF sum
<1>5. CASE n = 0
  <2>1. S = {}
    BY <1>5, FS_EmptySet DEF Bunch
  <2>2. a.maxSize = 0
    BY <1>2, <2>1 DEF Greatest
  <2>3. avg = 0
    BY <1>5 DEF Hundredths
  <2>4. a.sizes = <<>>
    <3>1. PICK order : a.sizes = [i \in 1..n |-> order[i].size]
      BY <1>2 DEF SizesOf
    <3>2. 1..n = {}
      BY <1>5
    <3> QED
      BY <3>1, <3>2
  <2>5. median = 0
    BY <2>4 DEF Median
  <2> HIDE DEF avg, median
  <2>6. /\ sum.totalObjects = n /\ sum.totalSize = total
        /\ sum.avgSize = 0 /\ sum.medianSize = 0 /\ sum.maxSize = 0
        /\ sum.emptyObjects = Cardinality(Empty(S))
    BY <1>3, <2>2, <2>3, <2>5
  <2>7. sum \in ScanSummary
    BY <1>1, <1>2, <1>3, <2>3, <2>5 DEF ScanSummary
  <2>8. ~(n > 0)
    BY <1>5
  <2>9. SummaryDescribes(sum, S)
    BY <1>5, <2>6, <2>8 DEF SummaryDescribes, Empty
  <2> QED
    BY <2>7, <2>9 DEF sum
<1> QED
  BY <1>1, <1>4, <1>5

(* The shares of the extensions.                                           *)
LEMMA TypesAre ==
  ASSUME NEW S, Bunch(S), NEW a, Aggregates(a, S), NEW n, n = Cardinality(S)
  PROVE  TypesDescribe(BuildTypes(a), S)
<1> DEFINE types == BuildTypes(a)
           L == {ExtOf[o] : o \in S}
           count(e) == Cardinality(Labelled(S, ExtOf, e))
           size(e) == TotalSize(Labelled(S, ExtOf, e))
           pct(e) == Hundredths(100 * count(e), n)
<1>1. a.types = GroupBy(S, ExtOf) /\ a.totalObjects = n
  BY DEF Aggregates
<1>2. DOMAIN a.types = L /\ \A e \in L : a.types[e] = Entry(Labelled(S, ExtOf, e))
  BY <1>1 DEF GroupBy
<1>3. \A e \in L : a.types[e].count = count(e) /\ a.types[e].size = size(e)
  BY <1>2, EntryIs, Zenon
<1>4. types = [e \in L |-> [count |-> a.types[e].count, totalSize |-> a.types[e].size,
                            pct |-> Hundredths(100 * a.types[e].count, n)]]
  BY <1>1, <1>2, Zenon DEF BuildTypes
<1>5. DOMAIN types = L
  BY <1>4
<1>6. ASSUME NEW e \in L
      PROVE  types[e].count = count(e) /\ types[e].totalSize = size(e) /\ types[e].pct = pct(e)
  <2>1. types[e] = [count |-> a.types[e].count, totalSize |-> a.types[e].size,
                    pct |-> Hundredths(100 * a.types[e].count, n)]
    BY <1>4
  <2> HIDE DEF types, count, size
  <2> QED
    BY <1>3, <2>1
<1>7. [e \in DOMAIN types |-> [count |-> types[e].count, size |-> types[e].totalSize]]
        = Groups(S, Ext)
  <2>1. GroupBy(S, ExtOf) = [e \in L |-> [count |-> count(e), size |-> size(e)]]
    BY Zenon DEF GroupBy, Entry
  <2>2. [e \in L |-> [count |-> types[e].count, size |-> types[e].totalSize]]
          = [e \in L |-> [count |-> count(e), size |-> size(e)]]
    <3> HIDE DEF types, L, count, size
    <3> QED
      BY <1>6
  <2> QED
    BY <1>5, <2>1, <2>2, TablesAre, Zenon
<1>8. ASSUME NEW e \in L PROVE 2 * n * types[e].pct - 20000 * types[e].count \in -n..n
  <2>1. Bunch(Labelled(S, ExtOf, e)) /\ n \in Nat
    BY BunchPart, TotalType DEF Labelled
  <2>2. PICK k \in Nat : k = count(e)
    BY <2>1, TotalType
  <2>3. n # 0
    BY FS_EmptySet DEF Bunch
  <2>4. Hundredths(100 * k, n) \in Nat /\ 2 * n * Hundredths(100 * k, n) - 200 * (100 * k) \in -n..n
    <3>1. n \in Nat \ {0} /\ 100 * k \in Nat
      BY <2>1, <2>3
    <3> QED
      BY <3>1, Rounded, Zenon
  <2>5. 200 * (100 * k) = 20000 * k
    OBVIOUS
  <2>6. types[e].pct = Hundredths(100 * k, n) /\ types[e].count = k
    BY <1>6, <2>2
  <2> HIDE DEF types
  <2> QED
    BY <2>4, <2>5, <2>6
<1> HIDE DEF types
<1>9. TypesDescribe(types, S)
  BY <1>5, <1>7, <1>8 DEF TypesDescribe
<1> QED
  BY <1>9 DEF types

(* Put together: the report describes the objects.                         *)
LEMMA ReportDescribes ==
  ASSUME NEW S, Bunch(S), NEW a, Aggregates(a, S)
  PROVE  Describes(BuildReport(a), S)
<1> DEFINE report == BuildReport(a)
<1>1. /\ report.summary = BuildSummary(a) /\ report.types = BuildTypes(a)
      /\ report.ages = GroupBy(S, AgeOf)
      /\ report.storage = GroupBy(S, ClassOf) /\ report.prefixes = GroupBy(S, PrefixOf)
  BY DEF BuildReport, Aggregates
<1>2. report.storage = Groups(S, StorageClass) /\ report.prefixes = Groups(S, TopLevelPrefix)
  BY <1>1, TablesAre, Zenon
<1> HIDE DEF report
<1>3. Describes(report, S)
  BY <1>1, <1>2, SummaryIs, TypesAre, AgesAre, Zenon DEF Describes
<1> QED
  BY <1>3 DEF report

(* What an aggregator holds has the type it should.                        *)
LEMMA AggregatorType ==
  ASSUME NEW S, Bunch(S), NEW a, Aggregates(a, S)
  PROVE  /\ a.totalObjects \in Nat /\ a.sizes \in Seq(Nat)
         /\ \A e \in DOMAIN a.types : a.types[e] \in Accumulator
<1>1. a.totalObjects \in Nat
  BY TotalType DEF Aggregates
<1>2. a.sizes \in Seq(Nat)
  BY SortedSizes, TotalType DEF Aggregates
<1>3. ASSUME NEW e \in DOMAIN a.types PROVE a.types[e] \in Accumulator
  <2>1. a.types[e] = Entry(Labelled(S, ExtOf, e))
    BY DEF Aggregates, GroupBy
  <2>2. Bunch(Labelled(S, ExtOf, e))
    BY BunchPart DEF Labelled
  <2> QED
    BY <2>1, <2>2, TotalType DEF Entry, Accumulator
<1> QED
  BY <1>1, <1>2, <1>3

-----------------------------------------------------------------------------
(***************************************************************************)
(* The inductive invariant.                                                *)
(***************************************************************************)
Started   == {s \in Scans : pc[s] # "none"}
Statuses  == {"running", "completed", "failed"}
Progress  == [id : Scans, status : Statuses, objectsDone : Nat, totalFound : Nat]
PCs       == {"none", "collect", "flush", "return", "save", "complete", "fail", "ended"}
ProgressType ==
  /\ pc \in [Scans -> PCs] /\ phase \in [Scans -> {"open", "closed", "error"}]
  /\ listed \in [Scans -> UNION {SUBSET Objects[s] : s \in Scans}]
  /\ received \in [Scans -> Nat] /\ DOMAIN batch = Scans /\ DOMAIN agg = Scans
  /\ \A s \in Scans : /\ listed[s] \subseteq Objects[s] /\ batch[s] \in Seq(Objects[s])
                      /\ agg[s].totalObjects \in Nat
  /\ ticker \in [Scans -> {"off", "select", "write"}] /\ loaded \in [Scans -> Nat]
  /\ mixed \in BOOLEAN
  /\ IF Started = {} THEN progress = None ELSE progress \in Progress

(* What a scan has counted: every object it has received is in the         *)
(* aggregator or in the batch, until a flush fails.                        *)
Counted(s) ==
  /\ received[s] = Cardinality(listed[s])
  /\ agg[s].totalObjects <= received[s] /\ loaded[s] <= received[s]
  /\ ticker[s] # "off" => pc[s] # "none"
  /\ pc[s] \in {"none", "collect"} => phase[s] = "open"
  /\ pc[s] = "flush" => phase[s] # "error"
  /\ pc[s] \in {"none", "collect", "flush"} => agg[s].totalObjects + Len(batch[s]) = received[s]
  /\ pc[s] = "return" /\ phase[s] # "error" => agg[s].totalObjects = received[s]
  /\ pc[s] \in {"save", "complete"} => agg[s].totalObjects = received[s]

(* A stored report is the one of the scan's aggregator, which has ended    *)
(* all but its last writes, and counts every object received.              *)
Reported ==
  /\ DOMAIN result \subseteq Scans
  /\ \A s \in Scans : pc[s] = "complete" => s \in DOMAIN result
  /\ \A s \in DOMAIN result : /\ pc[s] \in {"complete", "ended"} /\ result[s] = BuildReport(agg[s])
                              /\ agg[s].totalObjects = received[s]

Shown ==
  Started # {} =>
    /\ progress.id \in Started
    /\ \E s \in Scans : progress.objectsDone <= received[s]
    /\ ~mixed => progress.objectsDone <= received[progress.id]
    /\ progress.status = "completed" =>
         /\ progress.id \in DOMAIN result
         /\ progress.totalFound = result[progress.id].summary.totalObjects
         /\ ~mixed => progress.objectsDone = progress.totalFound

ProgressInv == ProgressType /\ (\A s \in Scans : Counted(s)) /\ Reported /\ Shown

(***************************************************************************)
(* Every action keeps it.                                                  *)
(***************************************************************************)
(* A change of one place of a function.                                    *)
LEMMA Updated ==
  ASSUME NEW S, NEW f, DOMAIN f = S, NEW s \in S, NEW e
  PROVE  /\ DOMAIN [f EXCEPT ![s] = e] = S /\ [f EXCEPT ![s] = e][s] = e
         /\ \A t \in S : t # s => [f EXCEPT ![s] = e][t] = f[t]
  OBVIOUS

LEMMA ListedFinite ==
  ASSUME ProgressAssumption, NEW s \in Scans, listed[s] \subseteq Objects[s]
  PROVE  IsFiniteSet(listed[s])
  BY FS_Subset DEF ProgressAssumption

LEMMA StartKeeps ==
  ASSUME ProgressAssumption, ProgressInv, NEW s \in Scans, Start(s)
  PROVE  ProgressInv'
<1> USE DEF ProgressInv, Start, Goto, At, SetProgress, UpdateProgress, collector, tickers
<1>1. ProgressType'
  BY DEF ProgressType, Started, Progress, Statuses, PCs, Counted
<1>2. ASSUME NEW t \in Scans PROVE Counted(t)'
  BY DEF Counted, ProgressType
<1>3. Reported'
  BY DEF Reported, ProgressType
<1>4. Shown'
  BY DEF Shown, Started, ProgressType, Reported, Counted
<1> QED
  BY <1>1, <1>2, <1>3, <1>4

LEMMA ReceiveObjectKeeps ==
  ASSUME ProgressAssumption, ProgressInv, NEW s \in Scans, NEW obj \in Objects[s], ReceiveObject(s, obj)
  PROVE  ProgressInv'
<1> USE DEF ProgressInv
<1>e. /\ pc[s] = "collect" /\ obj \notin listed[s]
      /\ listed' = [listed EXCEPT ![s] = listed[s] \cup {obj}]
      /\ received' = [received EXCEPT ![s] = received[s] + 1]
      /\ batch' = [batch EXCEPT ![s] = Append(batch[s], obj)]
      /\ \E x \in {"collect", "flush"} : pc' = [pc EXCEPT ![s] = x]
      /\ UNCHANGED <<progress, phase, agg, ticker, loaded, result, mixed>>
  BY DEF ReceiveObject, At, Goto, tickers, ProgressType
<1>s. /\ listed'[s] = listed[s] \cup {obj} /\ batch'[s] = Append(batch[s], obj)
      /\ received'[s] = received[s] + 1 /\ pc'[s] \in {"collect", "flush"}
      /\ \A t \in Scans : t # s => /\ listed'[t] = listed[t] /\ batch'[t] = batch[t]
                                    /\ received'[t] = received[t] /\ pc'[t] = pc[t]
      /\ DOMAIN listed' = Scans /\ DOMAIN batch' = Scans
  BY <1>e DEF ProgressType
<1>0. Started' = Started
  BY <1>e, <1>s DEF Started
<1>1. ProgressType'
  <2>1. ASSUME NEW t \in Scans
        PROVE  /\ listed'[t] \subseteq Objects[t] /\ batch'[t] \in Seq(Objects[t])
               /\ agg'[t].totalObjects \in Nat
    <3>1. CASE t # s
      BY <1>e, <1>s, <3>1 DEF ProgressType
    <3>2. CASE t = s
      BY <1>e, <1>s, <3>2 DEF ProgressType
    <3> QED
      BY <3>1, <3>2
  <2>2. listed' \in [Scans -> UNION {SUBSET Objects[t] : t \in Scans}]
    <3>1. ASSUME NEW t \in Scans PROVE listed'[t] \in UNION {SUBSET Objects[u] : u \in Scans}
      BY <2>1
    <3>2. listed' = [t \in Scans |-> listed'[t]]
      BY <1>e DEF ProgressType
    <3> QED
      BY <3>1, <3>2
  <2>3. pc' \in [Scans -> PCs]
    BY <1>e DEF ProgressType, PCs
  <2>4. received' \in [Scans -> Nat]
    <3>1. received \in [Scans -> Nat]
      BY DEF ProgressType
    <3> QED
      BY <1>e, <3>1
  <2> QED
    BY <1>0, <1>e, <1>s, <2>1, <2>2, <2>3, <2>4 DEF ProgressType
<1>2. ASSUME NEW t \in Scans PROVE Counted(t)'
  <2>1. CASE t # s
    BY <1>e, <1>s, <2>1 DEF Counted
  <2>2. CASE t = s
    <3>1. Cardinality(listed'[s]) = Cardinality(listed[s]) + 1
      BY <1>e, <1>s, ListedFinite, FS_AddElement DEF ProgressType
    <3>2. Len(batch'[s]) = Len(batch[s]) + 1 /\ Len(batch[s]) \in Nat
      BY <1>s DEF ProgressType
    <3>3. Counted(s) /\ received[s] \in Nat /\ loaded[s] \in Nat /\ agg[s].totalObjects \in Nat
      BY DEF ProgressType
    <3>4. phase'[s] = phase[s] /\ agg'[s] = agg[s] /\ loaded'[s] = loaded[s]
          /\ ticker'[s] = ticker[s] /\ pc[s] = "collect"
      BY <1>e
    <3>5. /\ agg[s].totalObjects + Len(batch[s]) = received[s] /\ phase[s] = "open"
          /\ received[s] = Cardinality(listed[s]) /\ loaded[s] <= received[s]
      BY <3>3, <3>4 DEF Counted
    <3>6. /\ received'[s] = Cardinality(listed'[s])
          /\ agg'[s].totalObjects <= received'[s] /\ loaded'[s] <= received'[s]
          /\ agg'[s].totalObjects + Len(batch'[s]) = received'[s]
      BY <1>s, <3>1, <3>2, <3>3, <3>4, <3>5
    <3> QED
      BY <1>s, <2>2, <3>4, <3>5, <3>6 DEF Counted
  <2> QED
    BY <2>1, <2>2
<1>3. Reported'
  BY <1>e, <1>s DEF Reported
<1>4. Shown'
  <2>1. \A t \in Scans : received[t] <= received'[t] /\ received[t] \in Nat /\ received'[t] \in Nat
    <3>1. ASSUME NEW t \in Scans
          PROVE  received[t] <= received'[t] /\ received[t] \in Nat /\ received'[t] \in Nat
      <4>1. received[t] \in Nat /\ received[s] \in Nat
        BY DEF ProgressType
      <4> QED
        BY <1>s, <4>1
    <3> QED
      BY <3>1
  <2>2. Started # {} => progress.id \in Scans /\ progress.objectsDone \in Nat
    BY DEF ProgressType, Progress
  <2> QED
    BY <1>0, <1>e, <2>1, <2>2 DEF Shown
<1> QED
  BY <1>1, <1>2, <1>3, <1>4

LEMMA ReceiveClosedKeeps ==
  ASSUME ProgressAssumption, ProgressInv, NEW s \in Scans, ReceiveClosed(s)
  PROVE  ProgressInv'
<1> USE DEF ProgressInv, ReceiveClosed, Goto, At, SetProgress, UpdateProgress, collector, tickers
<1>0. Counted(s) /\ s \in DOMAIN pc /\ s \in DOMAIN phase /\ Len(batch[s]) \in Nat
      /\ agg[s].totalObjects \in Nat /\ received[s] \in Nat
  BY DEF ProgressType
<1>e. /\ pc[s] = "collect" /\ phase'[s] = "closed" /\ pc'[s] \in {"return", "flush"}
      /\ pc'[s] = "return" => batch[s] = <<>>
      /\ UNCHANGED <<listed, received, batch, agg, ticker, loaded>>
  BY <1>0
<1>1. ProgressType'
  <2>1. Started' = Started
    BY DEF Started, ProgressType
  <2> QED
    BY <2>1 DEF ProgressType, Progress, Statuses, PCs
<1>2. ASSUME NEW t \in Scans PROVE Counted(t)'
  <2>1. CASE t # s
    BY <1>0, <2>1 DEF Counted, ProgressType
  <2>2. CASE t = s
    <3>1. batch[s] = <<>> => Len(batch[s]) = 0
      OBVIOUS
    <3> QED
      BY <1>0, <1>e, <2>2, <3>1 DEF Counted
  <2> QED
    BY <2>1, <2>2
<1>3. Reported'
  BY DEF Reported, ProgressType
<1>4. Shown'
  BY DEF Shown, Started, ProgressType, Reported, Counted
<1> QED
  BY <1>1, <1>2, <1>3, <1>4

LEMMA ReceiveErrorKeeps ==
  ASSUME ProgressAssumption, ProgressInv, NEW s \in Scans, ReceiveError(s)
  PROVE  ProgressInv'
<1> USE DEF ProgressInv, ReceiveError, Goto, At, SetProgress, UpdateProgress, collector, tickers
<1>0. /\ pc' \in [Scans -> PCs] /\ pc[s] # "none" /\ pc'[s] \in {"return"}
      /\ \A t \in Scans : t # s => pc'[t] = pc[t]
  BY DEF ProgressType, PCs
<1>1. ProgressType'
  <2>1. Started' = Started
    BY <1>0 DEF Started
  <2> QED
    BY <1>0, <2>1 DEF ProgressType
<1>2. ASSUME NEW t \in Scans PROVE Counted(t)'
  BY DEF Counted, ProgressType
<1>3. Reported'
  BY DEF Reported, ProgressType
<1>4. Shown'
  BY DEF Shown, Started, ProgressType, Reported, Counted
<1> QED
  BY <1>1, <1>2, <1>3, <1>4

LEMMA FlushKeeps ==
  ASSUME ProgressAssumption, ProgressInv, NEW s \in Scans, Flush(s)
  PROVE  ProgressInv'
<1> USE DEF ProgressInv
<1>0. /\ Counted(s) /\ DOMAIN batch = Scans /\ DOMAIN agg = Scans /\ batch[s] \in Seq(Objects[s])
      /\ agg[s].totalObjects \in Nat /\ received[s] \in Nat /\ loaded[s] \in Nat
      /\ pc \in [Scans -> PCs] /\ phase \in [Scans -> {"open", "closed", "error"}]
  BY DEF ProgressType
<1>e. /\ pc[s] = "flush" /\ agg' = [agg EXCEPT ![s] = AddBatch(agg[s], batch[s])]
      /\ UNCHANGED <<listed, received, ticker, loaded, result>>
  BY DEF Flush, At, tickers
<1>b. /\ agg'[s].totalObjects = received[s] /\ DOMAIN agg' = Scans
      /\ \A t \in Scans : t # s => agg'[t] = agg[t]
  <2>1. AddBatch(agg[s], batch[s]).totalObjects = agg[s].totalObjects + Len(batch[s])
    BY <1>0, AddBatchCounts
  <2> QED
    BY <1>0, <1>e, <2>1 DEF Counted
<1>a. Started' = Started /\ Started # {} /\ progress \in Progress
  <2>1. pc'[s] # "none" /\ \A t \in Scans : t # s => pc'[t] = pc[t]
    BY <1>0 DEF Flush, Goto
  <2> QED
    BY <1>e, <2>1 DEF Started, ProgressType
<1>5. CASE /\ UpdateProgress(s, agg'[s].totalObjects)
           /\ batch' = [batch EXCEPT ![s] = <<>>]
           /\ Goto(s, IF phase[s] = "closed" THEN "return" ELSE "collect")
           /\ UNCHANGED phase
  <2>e. /\ progress' = [progress EXCEPT !.objectsDone = received[s]]
        /\ mixed' = (mixed \/ progress.id # s \/ progress.status # "running")
        /\ batch'[s] = <<>> /\ DOMAIN batch' = Scans
        /\ pc'[s] = (IF phase[s] = "closed" THEN "return" ELSE "collect")
        /\ \A t \in Scans : t # s => batch'[t] = batch[t] /\ pc'[t] = pc[t]
    BY <1>0, <1>5, <1>b DEF UpdateProgress, Goto
  <2>1. ProgressType'
    <3>1. ASSUME NEW t \in Scans
          PROVE  batch'[t] \in Seq(Objects[t]) /\ agg'[t].totalObjects \in Nat
      <4>1. CASE t # s
        BY <1>b, <2>e, <4>1 DEF ProgressType
      <4>2. CASE t = s
        BY <1>0, <1>b, <2>e, <4>2
      <4> QED
        BY <4>1, <4>2
    <3>2. pc' \in [Scans -> PCs]
      BY <1>0, <1>5 DEF Goto, PCs
    <3>3. progress' \in Progress /\ mixed' \in BOOLEAN
      BY <1>0, <1>a, <2>e DEF ProgressType, Progress
    <3> QED
      BY <1>5, <1>a, <1>b, <1>e, <2>e, <3>1, <3>2, <3>3 DEF ProgressType
  <2>2. ASSUME NEW t \in Scans PROVE Counted(t)'
    <3>1. CASE t # s
      BY <1>5, <1>b, <1>e, <2>e, <3>1 DEF Counted
    <3>2. CASE t = s
      <4>1. Len(batch'[s]) = 0
        BY <2>e
      <4>2. phase[s] \in {"open", "closed"}
        BY <1>0, <1>e DEF Counted
      <4> QED
        BY <1>0, <1>5, <1>b, <1>e, <2>e, <3>2, <4>1, <4>2 DEF Counted
    <3> QED
      BY <3>1, <3>2
  <2>3. Reported'
    BY <1>0, <1>b, <1>e, <2>e DEF Reported
  <2>4. Shown'
    <3>1. progress'.id = progress.id /\ progress'.status = progress.status
          /\ progress'.totalFound = progress.totalFound /\ progress'.objectsDone = received[s]
      BY <1>a, <2>e DEF Progress
    <3>2. ~mixed' => progress.id = s /\ progress.status = "running"
      BY <2>e
    <3> QED
      BY <1>0, <1>a, <1>e, <3>1, <3>2 DEF Shown
  <2> QED
    BY <2>1, <2>2, <2>3, <2>4
<1>6. CASE /\ phase' = [phase EXCEPT ![s] = "error"] /\ Goto(s, "return")
           /\ UNCHANGED <<progress, batch, mixed>>
  <2>e. /\ pc'[s] = "return" /\ phase'[s] = "error" /\ UNCHANGED <<progress, batch, mixed>>
        /\ \A t \in Scans : t # s => pc'[t] = pc[t] /\ phase'[t] = phase[t]
    BY <1>0, <1>6 DEF Goto
  <2>1. ProgressType'
    <3>1. ASSUME NEW t \in Scans
          PROVE  batch'[t] \in Seq(Objects[t]) /\ agg'[t].totalObjects \in Nat
      BY <1>0, <1>b, <2>e DEF ProgressType
    <3>2. pc' \in [Scans -> PCs] /\ phase' \in [Scans -> {"open", "closed", "error"}]
      BY <1>0, <1>6 DEF Goto, PCs
    <3> QED
      BY <1>a, <1>b, <1>e, <2>e, <3>1, <3>2 DEF ProgressType
  <2>2. ASSUME NEW t \in Scans PROVE Counted(t)'
    BY <1>0, <1>b, <1>e, <2>e DEF Counted
  <2>3. Reported'
    BY <1>0, <1>b, <1>e, <2>e DEF Reported
  <2>4. Shown'
    BY <1>a, <1>e, <2>e DEF Shown
  <2> QED
    BY <2>1, <2>2, <2>3, <2>4
<1> QED
  BY <1>5, <1>6 DEF Flush

LEMMA ReturnKeeps ==
  ASSUME ProgressAssumption, ProgressInv, NEW s \in Scans, Return(s)
  PROVE  ProgressInv'
<1> USE DEF ProgressInv, Return, Goto, At, SetProgress, UpdateProgress, collector, tickers
<1>0. Counted(s) /\ s \in DOMAIN pc
  BY DEF ProgressType
<1>1. ProgressType'
  <2>1. Started' = Started
    BY DEF Started, ProgressType
  <2> QED
    BY <2>1 DEF ProgressType, Progress, Statuses, PCs
<1>2. ASSUME NEW t \in Scans PROVE Counted(t)'
  BY DEF Counted, ProgressType
<1>3. Reported'
  BY DEF Reported, ProgressType
<1>4. Shown'
  BY DEF Shown, Started, ProgressType, Reported, Counted
<1> QED
  BY <1>1, <1>2, <1>3, <1>4

LEMMA SaveResultKeeps ==
  ASSUME ProgressAssumption, ProgressInv, NEW s \in Scans, SaveResult(s)
  PROVE  ProgressInv'
<1> USE DEF ProgressInv, SaveResult, Goto, At, SetProgress, UpdateProgress, collector, tickers
<1>0. /\ pc' \in [Scans -> PCs] /\ pc[s] # "none" /\ pc'[s] \in {"complete", "fail"}
      /\ \A t \in Scans : t # s => pc'[t] = pc[t]
  <2>1. PICK p \in {"complete", "fail"} : pc' = [pc EXCEPT ![s] = p]
    OBVIOUS
  <2>2. pc \in [Scans -> PCs] /\ pc[s] = "save" /\ p \in PCs
    BY DEF ProgressType, PCs
  <2> QED
    BY <2>1, <2>2
<1>1. ProgressType'
  <2>1. Started' = Started
    BY <1>0 DEF Started
  <2> QED
    BY <1>0, <2>1 DEF ProgressType
<1>2. ASSUME NEW t \in Scans PROVE Counted(t)'
  <2>1. UNCHANGED <<phase, listed, received, batch, agg, ticker, loaded>> /\ pc[s] = "save"
    OBVIOUS
  <2>2. CASE t # s
    BY <1>0, <2>1, <2>2 DEF Counted
  <2>3. CASE t = s
    BY <1>0, <2>1, <2>3 DEF Counted
  <2> QED
    BY <2>2, <2>3
<1>3. Reported'
  <2>1. CASE Goto(s, "fail") /\ UNCHANGED result
    <3>1. pc'[s] = "fail" /\ (\A t \in Scans : t # s => pc'[t] = pc[t]) /\ UNCHANGED <<agg, received>> /\ pc[s] = "save"
      BY <2>1 DEF ProgressType
    <3> QED
      BY <2>1, <3>1 DEF Reported
  <2>2. CASE result' = Stored(s) /\ Goto(s, "complete")
    <3>1. DOMAIN result' = DOMAIN result \cup {s} /\ result'[s] = BuildReport(agg[s])
          /\ \A t \in DOMAIN result : t # s => result'[t] = result[t]
      BY <2>2 DEF Stored
    <3>2. /\ pc'[s] = "complete" /\ pc[s] = "save" /\ UNCHANGED <<agg, received>>
          /\ \A t \in Scans : t # s => pc'[t] = pc[t]
      BY <2>2 DEF ProgressType
    <3>3. agg[s].totalObjects = received[s]
      BY <3>2 DEF Counted
    <3> QED
      BY <3>1, <3>2, <3>3 DEF Reported
  <2> QED
    BY <2>1, <2>2
<1>4. Shown'
  <2>1. Started' = Started /\ Started # {} /\ progress \in Progress
    <3>1. Started' = Started /\ Started # {}
      BY <1>0 DEF Started
    <3> QED
      BY <3>1 DEF ProgressType
  <2>2. \A t \in DOMAIN result : t \in DOMAIN result' /\ result'[t] = result[t]
    BY DEF Stored, Reported
  <2> QED
    BY <2>1, <2>2 DEF Shown, Started
<1> QED
  BY <1>1, <1>2, <1>3, <1>4

LEMMA CompleteKeeps ==
  ASSUME ProgressAssumption, ProgressInv, NEW s \in Scans, Complete(s)
  PROVE  ProgressInv'
<1> USE DEF ProgressInv, Complete, Goto, At, SetProgress, UpdateProgress, collector, tickers
<1>0. /\ Counted(s) /\ s \in DOMAIN pc /\ BuildSummary(agg[s]).totalObjects = received[s]
      /\ received[s] \in Nat
  BY DEF ProgressType, BuildSummary, Counted
<1>1. ProgressType'
  <2>1. s \in Started'
    BY <1>0 DEF Started, ProgressType
  <2> QED
    BY <1>0, <2>1 DEF ProgressType, Progress, Statuses, PCs
<1>2. ASSUME NEW t \in Scans PROVE Counted(t)'
  BY DEF Counted, ProgressType
<1>3. Reported'
  BY DEF Reported, ProgressType
<1>4. Shown'
  <2>1. s \in Started' /\ s \in DOMAIN result
    BY <1>0 DEF Started, ProgressType, Reported
  <2>2. result[s].summary = BuildSummary(agg[s])
    BY <2>1 DEF Reported, BuildReport
  <2> QED
    BY <1>0, <2>1, <2>2 DEF Shown
<1> QED
  BY <1>1, <1>2, <1>3, <1>4

LEMMA FailScanKeeps ==
  ASSUME ProgressAssumption, ProgressInv, NEW s \in Scans, FailScan(s)
  PROVE  ProgressInv'
<1> USE DEF ProgressInv, FailScan, Goto, At, SetProgress, UpdateProgress, collector, tickers
<1>1. ProgressType'
  BY DEF ProgressType, Started, Progress, Statuses, PCs, Counted
<1>2. ASSUME NEW t \in Scans PROVE Counted(t)'
  BY DEF Counted, ProgressType
<1>3. Reported'
  BY DEF Reported, ProgressType
<1>4. Shown'
  BY DEF Shown, Started, ProgressType, Reported, Counted
<1> QED
  BY <1>1, <1>2, <1>3, <1>4

LEMMA TickKeeps ==
  ASSUME ProgressAssumption, ProgressInv, NEW s \in Scans, Tick(s)
  PROVE  ProgressInv'
<1> USE DEF ProgressInv, Tick, Goto, At, SetProgress, UpdateProgress, collector, tickers
<1>0. s \in DOMAIN loaded /\ s \in DOMAIN ticker
  BY DEF ProgressType
<1>1. ProgressType'
  BY DEF ProgressType, Started, Progress, Statuses, PCs, Counted
<1>2. ASSUME NEW t \in Scans PROVE Counted(t)'
  <2>1. CASE t # s
    BY <1>0, <2>1 DEF Counted, ProgressType
  <2>2. CASE t = s
    <3>1. Counted(s) /\ loaded'[s] = received[s] /\ received[s] \in Nat /\ ticker[s] = "select"
          /\ UNCHANGED <<pc, phase, listed, received, batch, agg>>
      BY <1>0 DEF ProgressType
    <3> QED
      BY <2>2, <3>1 DEF Counted
  <2> QED
    BY <2>1, <2>2
<1>3. Reported'
  BY DEF Reported, ProgressType
<1>4. Shown'
  BY DEF Shown, Started, ProgressType, Reported, Counted
<1> QED
  BY <1>1, <1>2, <1>3, <1>4

LEMMA TickWriteKeeps ==
  ASSUME ProgressAssumption, ProgressInv, NEW s \in Scans, TickWrite(s)
  PROVE  ProgressInv'
<1> USE DEF ProgressInv, TickWrite, Goto, At, SetProgress, UpdateProgress, collector, tickers
<1>0. s \in DOMAIN loaded /\ s \in DOMAIN ticker /\ Counted(s) /\ loaded[s] \in Nat
  BY DEF ProgressType
<1>1. ProgressType'
  BY DEF ProgressType, Started, Progress, Statuses, PCs, Counted
<1>2. ASSUME NEW t \in Scans PROVE Counted(t)'
  <2>1. CASE t # s
    BY <1>0, <2>1 DEF Counted, ProgressType
  <2>2. CASE t = s
    BY <1>0, <2>2 DEF Counted, ProgressType
  <2> QED
    BY <2>1, <2>2
<1>3. Reported'
  BY DEF Reported, ProgressType
<1>4. Shown'
  <2>1. Started' = Started /\ Started # {} /\ progress \in Progress
    BY <1>0 DEF Started, ProgressType, Counted
  <2>2. progress'.id = progress.id /\ progress'.status = progress.status
        /\ progress'.totalFound = progress.totalFound /\ progress'.objectsDone = loaded[s]
    BY <2>1 DEF Progress
  <2>3. loaded[s] <= received[s] /\ UNCHANGED <<received, result>>
    BY <1>0 DEF Counted
  <2>4. /\ mixed' = (mixed \/ progress.id # s \/ progress.status # "running")
    OBVIOUS
  <2>5. ~mixed' => progress.id = s /\ progress.status = "running"
    BY <2>4
  <2> HIDE DEF TickWrite, UpdateProgress
  <2> QED
    BY <2>1, <2>2, <2>3, <2>5 DEF Shown
<1> QED
  BY <1>1, <1>2, <1>3, <1>4

LEMMA TickerExitKeeps ==
  ASSUME ProgressAssumption, ProgressInv, NEW s \in Scans, TickerExit(s)
  PROVE  ProgressInv'
<1> USE DEF ProgressInv, TickerExit, Goto, At, SetProgress, UpdateProgress, collector, tickers
<1>1. ProgressType'
  BY DEF ProgressType, Started, Progress, Statuses, PCs, Counted
<1>2. ASSUME NEW t \in Scans PROVE Counted(t)'
  BY DEF Counted, ProgressType
<1>3. Reported'
  BY DEF Reported, ProgressType
<1>4. Shown'
  BY DEF Shown, Started, ProgressType, Reported, Counted
<1> QED
  BY <1>1, <1>2, <1>3, <1>4

LEMMA InitCounts == ASSUME ProgressAssumption, Init PROVE ProgressInv
<1> USE DEF Init
<1>1. ProgressType
  <2>1. ASSUME NEW t \in Scans
        PROVE  /\ listed[t] \subseteq Objects[t] /\ batch[t] \in Seq(Objects[t])
               /\ agg[t].totalObjects \in Nat
    BY DEF NewStatsAggregator
  <2>2. listed \in [Scans -> UNION {SUBSET Objects[t] : t \in Scans}]
    <3>1. ASSUME NEW t \in Scans PROVE {} \in UNION {SUBSET Objects[u] : u \in Scans}
      OBVIOUS
    <3> QED
      BY <3>1
  <2>3. Started = {}
    BY DEF Started
  <2> QED
    BY <2>1, <2>2, <2>3 DEF ProgressType, PCs
<1>2. ASSUME NEW t \in Scans PROVE Counted(t)
  <2>1. Cardinality(listed[t]) = 0 /\ Len(batch[t]) = 0
    BY FS_EmptySet
  <2> QED
    BY <2>1 DEF Counted, NewStatsAggregator
<1>3. Reported /\ Shown
  BY DEF Reported, Shown, Started
<1> QED
  BY <1>1, <1>2, <1>3 DEF ProgressInv

LEMMA NextKeeps == ASSUME ProgressAssumption, ProgressInv, [Next]_vars PROVE ProgressInv'
<1>1. CASE UNCHANGED vars
  <2>1. /\ UNCHANGED <<progress, pc, phase, listed, received, batch, agg>>
        /\ UNCHANGED <<ticker, loaded, result, mixed>>
    BY <1>1 DEF vars, collector, tickers
  <2>2. ProgressType'
    BY <2>1 DEF ProgressInv, ProgressType, Started
  <2>3. \A s \in Scans : Counted(s)'
    BY <2>1 DEF ProgressInv, Counted
  <2>4. Reported' /\ Shown'
    BY <2>1 DEF ProgressInv, Reported, Shown, Started
  <2> QED
    BY <2>2, <2>3, <2>4 DEF ProgressInv
<1>2. CASE Next
  <2>1. PICK s \in Scans : Scan(s) \/ Tick(s) \/ Ticker(s)
    BY <1>2 DEF Next
  <2>2. ASSUME Scan(s) PROVE ProgressInv'
    BY <2>2, StartKeeps, ReceiveObjectKeeps, ReceiveClosedKeeps, ReceiveErrorKeeps, FlushKeeps,
       ReturnKeeps, SaveResultKeeps, CompleteKeeps, FailScanKeeps DEF Scan, Collect
  <2>3. ASSUME Tick(s) \/ Ticker(s) PROVE ProgressInv'
    BY <2>3, TickKeeps, TickWriteKeeps, TickerExitKeeps DEF Ticker
  <2> QED
    BY <2>1, <2>2, <2>3
<1> QED
  BY <1>1, <1>2

-----------------------------------------------------------------------------
(***************************************************************************)
(* The second inductive invariant: what a scan's aggregator holds are the  *)
(* objects it has listed but for those in its batch, until a flush fails   *)
(* or an error comes.  It is stated of a scan's place in the program       *)
(* (step), its phase (ph), the objects listed (got), its batch (wait) and  *)
(* its aggregator (a).                                                     *)
(***************************************************************************)
Listing == {"none", "collect", "flush"}
Listed(step, ph) == step \in {"save", "complete"} \/ (step = "return" /\ ph # "error")

Holds(step, ph, got, wait, a, S) ==
  /\ Aggregates(a, S)
  /\ step \in Listing => S = got \ ToSet(wait)
  /\ Listed(step, ph) => S = got

CollectedAs(step, ph, got, wait, a) ==
  /\ step \in Listing => Distinct(wait) /\ ToSet(wait) \subseteq got
  /\ Len(wait) <= BatchSize
  /\ step \in {"none", "collect"} => Len(wait) < BatchSize
  /\ \E S \in SUBSET got : Holds(step, ph, got, wait, a, S)

Collected(s) == CollectedAs(pc[s], phase[s], listed[s], batch[s], agg[s])

(* The total is shown when the scan is over.                               *)
TotalLast == Started # {} /\ progress.status # "completed" => progress.totalFound = 0

ReportInv == (\A s \in Scans : Collected(s)) /\ TotalLast

(* Every step of a scan's collector keeps it: one more object, ...         *)
LEMMA ReceivedOne ==
  ASSUME ProgressAssumption, NEW ph, NEW got, NEW T, NEW wait \in Seq(T), NEW a, NEW o \in T \ got,
         CollectedAs("collect", ph, got, wait, a)
  PROVE  CollectedAs(IF Len(Append(wait, o)) >= BatchSize THEN "flush" ELSE "collect",
                     ph, got \cup {o}, Append(wait, o), a)
<1> DEFINE next == IF Len(Append(wait, o)) >= BatchSize THEN "flush" ELSE "collect"
<1>1. /\ Distinct(wait) /\ ToSet(wait) \subseteq got /\ Len(wait) < BatchSize
      /\ \E S \in SUBSET got : Holds("collect", ph, got, wait, a, S)
  BY DEF CollectedAs, Listing
<1>2. /\ Len(Append(wait, o)) = Len(wait) + 1 /\ Len(wait) \in Nat /\ BatchSize \in Nat
      /\ \A i \in 1..Len(wait) + 1 : Append(wait, o)[i] = IF i = Len(wait) + 1 THEN o ELSE wait[i]
      /\ DOMAIN wait = 1..Len(wait) /\ DOMAIN Append(wait, o) = 1..Len(wait) + 1
  <2>1. Len(wait) \in Nat /\ DOMAIN wait = 1..Len(wait) /\ BatchSize \in Nat /\ o \in T
    BY DEF ProgressAssumption
  <2>2. Len(Append(wait, o)) = Len(wait) + 1 /\ DOMAIN Append(wait, o) = 1..Len(wait) + 1
    BY <2>1
  <2>3. \A i \in 1..Len(wait) + 1 : Append(wait, o)[i] = IF i = Len(wait) + 1 THEN o ELSE wait[i]
    BY <2>1
  <2> QED
    BY <2>1, <2>2, <2>3
<1>3. Distinct(Append(wait, o)) /\ ToSet(Append(wait, o)) = ToSet(wait) \cup {o}
  <2>1. \A i \in 1..Len(wait) : wait[i] # o
    BY <1>1, <1>2 DEF ToSet
  <2>2. Distinct(Append(wait, o))
    <3>1. ASSUME NEW i \in 1..Len(wait) + 1, NEW j \in 1..Len(wait) + 1,
                 Append(wait, o)[i] = Append(wait, o)[j]
          PROVE  i = j
      <4>1. CASE i = Len(wait) + 1 \/ j = Len(wait) + 1
        BY <1>2, <2>1, <3>1, <4>1
      <4>2. CASE i # Len(wait) + 1 /\ j # Len(wait) + 1
        <5>1. i \in 1..Len(wait) /\ j \in 1..Len(wait) /\ wait[i] = wait[j]
          BY <1>2, <3>1, <4>2
        <5> QED
          BY <1>1, <1>2, <5>1 DEF Distinct
      <4> QED
        BY <4>1, <4>2
    <3> QED
      BY <1>2, <3>1 DEF Distinct
  <2>3. ToSet(Append(wait, o)) = ToSet(wait) \cup {o}
    <3>1. ToSet(Append(wait, o)) = {Append(wait, o)[i] : i \in 1..Len(wait) + 1}
      BY <1>2 DEF ToSet
    <3>2. ToSet(wait) = {wait[i] : i \in 1..Len(wait)}
      BY <1>2 DEF ToSet
    <3>3. \A x : (\E i \in 1..Len(wait) + 1 : Append(wait, o)[i] = x)
                   <=> x = o \/ \E i \in 1..Len(wait) : wait[i] = x
      <4>1. \A i \in 1..Len(wait) : i \in 1..Len(wait) + 1 /\ i # Len(wait) + 1
        BY <1>2
      <4>2. \A i \in 1..Len(wait) + 1 : i # Len(wait) + 1 => i \in 1..Len(wait)
        BY <1>2
      <4>3. Len(wait) + 1 \in 1..Len(wait) + 1
        BY <1>2
      <4> QED
        BY <1>2, <4>1, <4>2, <4>3
    <3> QED
      BY <3>1, <3>2, <3>3
  <2> QED
    BY <2>2, <2>3
<1>4. PICK S \in SUBSET got : Holds("collect", ph, got, wait, a, S)
  BY <1>1
<1>5. S \in SUBSET (got \cup {o}) /\ S = (got \cup {o}) \ (ToSet(wait) \cup {o})
  BY <1>4 DEF Holds, Listing
<1>6. next \in {"flush", "collect"} /\ (next = "collect" => Len(Append(wait, o)) < BatchSize)
  BY <1>2
<1> HIDE DEF next
<1>7. Holds(next, ph, got \cup {o}, Append(wait, o), a, S)
  BY <1>3, <1>4, <1>5, <1>6 DEF Holds, Listing, Listed
<1>8. Len(Append(wait, o)) <= BatchSize
  BY <1>1, <1>2
<1>9. CollectedAs(next, ph, got \cup {o}, Append(wait, o), a)
  BY <1>1, <1>3, <1>5, <1>6, <1>7, <1>8 DEF CollectedAs, Listing
<1> QED
  BY <1>9 DEF next

(* ... the end of the listing, an error, ...                               *)
LEMMA ListingEnds ==
  ASSUME NEW ph, NEW got, NEW wait, NEW a, CollectedAs("collect", ph, got, wait, a)
  PROVE  /\ CollectedAs(IF wait = <<>> THEN "return" ELSE "flush", "closed", got, wait, a)
         /\ CollectedAs("return", "error", got, wait, a)
<1>1. PICK S \in SUBSET got : Aggregates(a, S) /\ S = got \ ToSet(wait)
  BY DEF CollectedAs, Holds, Listing
<1>2. Distinct(wait) /\ ToSet(wait) \subseteq got /\ Len(wait) <= BatchSize
  BY DEF CollectedAs, Listing
<1>3. CollectedAs("return", "error", got, wait, a)
  BY <1>1, <1>2 DEF CollectedAs, Holds, Listing, Listed
<1>4. CASE wait = <<>>
  <2>1. S = got
    BY <1>1, <1>4 DEF ToSet
  <2>2. CollectedAs("return", "closed", got, wait, a)
    BY <1>1, <1>2, <2>1 DEF CollectedAs, Holds, Listing, Listed
  <2> QED
    BY <1>3, <1>4, <2>2
<1>5. CASE wait # <<>>
  <2>1. CollectedAs("flush", "closed", got, wait, a)
    BY <1>1, <1>2 DEF CollectedAs, Holds, Listing, Listed
  <2> QED
    BY <1>3, <1>5, <2>1
<1> QED
  BY <1>4, <1>5

(* ... a flush, whether the batch can be stored or not, ...                *)
LEMMA Flushed ==
  ASSUME ProgressAssumption, NEW ph, NEW got, Bunch(got), NEW T, NEW wait \in Seq(T), NEW a,
         CollectedAs("flush", ph, got, wait, a)
  PROVE  /\ CollectedAs(IF ph = "closed" THEN "return" ELSE "collect", ph, got, <<>>,
                        AddBatch(a, wait))
         /\ CollectedAs("return", "error", got, wait, AddBatch(a, wait))
<1>1. PICK S \in SUBSET got : Aggregates(a, S) /\ S = got \ ToSet(wait)
  BY DEF CollectedAs, Holds, Listing
<1>2. Distinct(wait) /\ ToSet(wait) \subseteq got /\ Len(wait) <= BatchSize
  BY DEF CollectedAs, Listing
<1>3. Aggregates(AddBatch(a, wait), got)
  <2>1. wait \in Seq(got)
    <3>1. \A i \in DOMAIN wait : wait[i] \in got
      BY <1>2 DEF ToSet
    <3> QED
      BY <3>1
  <2>2. S \cup got = got /\ S \cup ToSet(wait) = got /\ ToSet(wait) \cap S = {}
    BY <1>1, <1>2
  <2>3. Bunch(S \cup got)
    BY <2>2, Zenon
  <2>4. Aggregates(AddBatch(a, wait), S \cup ToSet(wait))
    BY <1>1, <1>2, <2>1, <2>2, <2>3, AddBatchAggregates
  <2> QED
    BY <2>2, <2>4, Zenon
<1>4. Distinct(<<>>) /\ ToSet(<<>>) = {} /\ Len(<<>>) = 0 /\ BatchSize \in Nat \ {0}
  BY DEF Distinct, ToSet, ProgressAssumption
<1> DEFINE next == IF ph = "closed" THEN "return" ELSE "collect"
           b == AddBatch(a, wait)
<1>5. next \in {"return", "collect"}
  OBVIOUS
<1> HIDE DEF next, b
<1>6. got \in SUBSET got /\ got = got \ {}
  OBVIOUS
<1>7. Aggregates(b, got)
  BY <1>3 DEF b
<1>8. Holds(next, ph, got, <<>>, b, got)
  BY <1>4, <1>6, <1>7 DEF Holds
<1>9. CollectedAs(next, ph, got, <<>>, b)
  BY <1>4, <1>6, <1>8 DEF CollectedAs
<1>10. Holds("return", "error", got, wait, b, got)
  BY <1>7 DEF Holds, Listing
<1>11. CollectedAs("return", "error", got, wait, b)
  BY <1>2, <1>6, <1>10 DEF CollectedAs, Listing
<1> QED
  BY <1>9, <1>11 DEF next, b

(* ... and the rest of the scan.                                           *)
LEMMA GoesOn ==
  ASSUME NEW ph, NEW got, NEW wait, NEW a
  PROVE  /\ CollectedAs("none", ph, got, wait, a) => CollectedAs("collect", ph, got, wait, a)
         /\ CollectedAs("return", ph, got, wait, a) =>
              CollectedAs(IF ph = "error" THEN "fail" ELSE "save", ph, got, wait, a)
         /\ CollectedAs("save", ph, got, wait, a) =>
              CollectedAs("complete", ph, got, wait, a) /\ CollectedAs("fail", ph, got, wait, a)
         /\ CollectedAs("complete", ph, got, wait, a) => CollectedAs("ended", ph, got, wait, a)
         /\ CollectedAs("fail", ph, got, wait, a) => CollectedAs("ended", ph, got, wait, a)
<1>1. \A S : Holds("none", ph, got, wait, a, S) => Holds("collect", ph, got, wait, a, S)
  BY DEF Holds, Listing, Listed
<1>2. \A S : Holds("return", ph, got, wait, a, S) =>
               Holds(IF ph = "error" THEN "fail" ELSE "save", ph, got, wait, a, S)
  BY DEF Holds, Listing, Listed
<1>3. \A S : Holds("save", ph, got, wait, a, S) =>
               Holds("complete", ph, got, wait, a, S) /\ Holds("fail", ph, got, wait, a, S)
  BY DEF Holds, Listing, Listed
<1>4. \A S : /\ Holds("complete", ph, got, wait, a, S) => Holds("ended", ph, got, wait, a, S)
             /\ Holds("fail", ph, got, wait, a, S) => Holds("ended", ph, got, wait, a, S)
  BY DEF Holds, Listing, Listed
<1>5. \A step \in {"return", "save", "complete", "fail", "ended"} :
        step \notin Listing /\ step \notin {"none", "collect"}
  BY DEF Listing
<1>6. (IF ph = "error" THEN "fail" ELSE "save") \in {"save", "fail"}
  OBVIOUS
<1>7. "none" \in Listing /\ "collect" \in Listing
  BY DEF Listing
<1> QED
  BY <1>1, <1>2, <1>3, <1>4, <1>5, <1>6, <1>7 DEF CollectedAs

(* A step of scan s changes nothing of the others.                         *)
OnlyOf(s) ==
  \A t \in Scans : t # s => /\ pc'[t] = pc[t] /\ phase'[t] = phase[t] /\ listed'[t] = listed[t]
                            /\ batch'[t] = batch[t] /\ agg'[t] = agg[t]

LEMMA OthersStay ==
  ASSUME NEW s \in Scans, OnlyOf(s), \A t \in Scans : Collected(t), Collected(s)'
  PROVE  \A t \in Scans : Collected(t)'
<1>1. ASSUME NEW t \in Scans, t # s PROVE Collected(t)'
  <2>1. /\ pc'[t] = pc[t] /\ phase'[t] = phase[t] /\ listed'[t] = listed[t]
        /\ batch'[t] = batch[t] /\ agg'[t] = agg[t]
    BY <1>1 DEF OnlyOf
  <2>2. CollectedAs(pc[t], phase[t], listed[t], batch[t], agg[t])
    BY DEF Collected
  <2> QED
    BY <2>1, <2>2, Zenon DEF Collected
<1> QED
  BY <1>1

LEMMA CollectorKeeps ==
  ASSUME ProgressAssumption, ProgressType, \A t \in Scans : Collected(t), NEW s \in Scans, Scan(s)
  PROVE  \A t \in Scans : Collected(t)'
<1>1. /\ pc \in [Scans -> PCs] /\ phase \in [Scans -> {"open", "closed", "error"}]
      /\ DOMAIN listed = Scans /\ DOMAIN batch = Scans /\ DOMAIN agg = Scans
      /\ batch[s] \in Seq(Objects[s]) /\ listed[s] \subseteq Objects[s]
  BY DEF ProgressType
<1>2. CollectedAs(pc[s], phase[s], listed[s], batch[s], agg[s])
  BY DEF Collected
<1>3. SUFFICES OnlyOf(s) /\ CollectedAs(pc'[s], phase'[s], listed'[s], batch'[s], agg'[s])
  BY OthersStay DEF Collected
<1>4. CASE Start(s)
  <2>1. /\ pc[s] = "none" /\ pc'[s] = "collect" /\ OnlyOf(s)
        /\ UNCHANGED <<phase, listed, batch, agg>>
    BY <1>1, <1>4 DEF Start, At, Goto, OnlyOf
  <2> QED
    BY <1>2, <2>1, GoesOn
<1>5. ASSUME NEW obj \in Objects[s], ReceiveObject(s, obj)
      PROVE  OnlyOf(s) /\ CollectedAs(pc'[s], phase'[s], listed'[s], batch'[s], agg'[s])
  <2>1. /\ pc[s] = "collect" /\ obj \in Objects[s] \ listed[s]
        /\ listed' = [listed EXCEPT ![s] = listed[s] \cup {obj}]
        /\ batch' = [batch EXCEPT ![s] = Append(batch[s], obj)]
        /\ pc' = [pc EXCEPT ![s] = IF Len(batch'[s]) >= BatchSize THEN "flush" ELSE "collect"]
        /\ UNCHANGED <<phase, agg>>
    BY <1>5 DEF ReceiveObject, At, Goto
  <2>2. OnlyOf(s)
    BY <1>1, <2>1 DEF OnlyOf
  <2>3. /\ listed'[s] = listed[s] \cup {obj} /\ batch'[s] = Append(batch[s], obj)
        /\ pc'[s] = IF Len(batch'[s]) >= BatchSize THEN "flush" ELSE "collect"
        /\ phase'[s] = phase[s] /\ agg'[s] = agg[s]
    BY <1>1, <2>1
  <2>4. CollectedAs("collect", phase[s], listed[s], batch[s], agg[s])
    BY <1>2, <2>1
  <2>5. CollectedAs(IF Len(Append(batch[s], obj)) >= BatchSize THEN "flush" ELSE "collect",
                    phase[s], listed[s] \cup {obj}, Append(batch[s], obj), agg[s])
    BY <1>1, <2>1, <2>4, ReceivedOne
  <2> QED
    BY <2>2, <2>3, <2>5, Zenon
<1>6. CASE ReceiveClosed(s)
  <2>1. /\ pc[s] = "collect" /\ phase'[s] = "closed" /\ OnlyOf(s)
        /\ pc'[s] = IF batch[s] = <<>> THEN "return" ELSE "flush"
        /\ UNCHANGED <<listed, batch, agg>>
    BY <1>1, <1>6 DEF ReceiveClosed, At, Goto, OnlyOf
  <2>2. CollectedAs("collect", phase[s], listed[s], batch[s], agg[s])
    BY <1>2, <2>1
  <2>3. CollectedAs(IF batch[s] = <<>> THEN "return" ELSE "flush", "closed", listed[s], batch[s],
                    agg[s])
    BY <2>2, ListingEnds
  <2> QED
    BY <2>1, <2>3, Zenon
<1>7. CASE ReceiveError(s)
  <2>1. /\ pc[s] = "collect" /\ phase'[s] = "error" /\ OnlyOf(s) /\ pc'[s] = "return"
        /\ UNCHANGED <<listed, batch, agg>>
    BY <1>1, <1>7 DEF ReceiveError, At, Goto, OnlyOf
  <2> QED
    BY <1>2, <2>1, ListingEnds
<1>8. CASE Flush(s)
  <2>1. /\ pc[s] = "flush" /\ agg' = [agg EXCEPT ![s] = AddBatch(agg[s], batch[s])]
        /\ UNCHANGED listed
    BY <1>8 DEF Flush, At
  <2>2. agg'[s] = AddBatch(agg[s], batch[s]) /\ \A t \in Scans : t # s => agg'[t] = agg[t]
    BY <1>1, <2>1
  <2>3. CollectedAs("flush", phase[s], listed[s], batch[s], agg[s])
    BY <1>2, <2>1
  <2>4. Bunch(listed[s])
    BY <1>1, ObjectsAreBunch, BunchPart
  <2>5. /\ CollectedAs(IF phase[s] = "closed" THEN "return" ELSE "collect", phase[s], listed[s],
                       <<>>, AddBatch(agg[s], batch[s]))
        /\ CollectedAs("return", "error", listed[s], batch[s], AddBatch(agg[s], batch[s]))
    BY <1>1, <2>3, <2>4, Flushed
  <2>6. CASE /\ batch' = [batch EXCEPT ![s] = <<>>] /\ UNCHANGED phase
             /\ Goto(s, IF phase[s] = "closed" THEN "return" ELSE "collect")
    <3>1. /\ batch'[s] = <<>> /\ phase'[s] = phase[s]
          /\ pc'[s] = IF phase[s] = "closed" THEN "return" ELSE "collect"
      BY <1>1, <2>6 DEF Goto
    <3>2. OnlyOf(s)
      BY <1>1, <2>1, <2>2, <2>6 DEF OnlyOf, Goto
    <3>3. listed'[s] = listed[s]
      BY <2>1
    <3> QED
      BY <2>2, <2>5, <3>1, <3>2, <3>3, Zenon
  <2>7. CASE phase' = [phase EXCEPT ![s] = "error"] /\ Goto(s, "return") /\ UNCHANGED batch
    <3>1. batch'[s] = batch[s] /\ phase'[s] = "error" /\ pc'[s] = "return" /\ listed'[s] = listed[s]
      BY <1>1, <2>1, <2>7 DEF Goto
    <3>2. OnlyOf(s)
      BY <1>1, <2>1, <2>2, <2>7 DEF OnlyOf, Goto
    <3> QED
      BY <2>2, <2>5, <3>1, <3>2, Zenon
  <2> QED
    BY <1>8, <2>6, <2>7 DEF Flush
<1>9. CASE Return(s)
  <2>1. /\ pc[s] = "return" /\ OnlyOf(s)
        /\ pc'[s] = IF phase[s] = "error" THEN "fail" ELSE "save"
        /\ UNCHANGED <<phase, listed, batch, agg>>
    BY <1>1, <1>9 DEF Return, At, Goto, OnlyOf
  <2>2. CollectedAs("return", phase[s], listed[s], batch[s], agg[s])
    BY <1>2, <2>1
  <2>3. CollectedAs(IF phase[s] = "error" THEN "fail" ELSE "save", phase[s], listed[s], batch[s],
                    agg[s])
    BY <2>2, GoesOn
  <2> QED
    BY <2>1, <2>3, Zenon
<1>10. CASE SaveResult(s)
  <2>1. /\ pc[s] = "save" /\ OnlyOf(s) /\ pc'[s] \in {"complete", "fail"}
        /\ UNCHANGED <<phase, listed, batch, agg>>
    BY <1>1, <1>10 DEF SaveResult, At, Goto, OnlyOf
  <2> QED
    BY <1>2, <2>1, GoesOn
<1>11. CASE Complete(s) \/ FailScan(s)
  <2>1. /\ pc[s] \in {"complete", "fail"} /\ OnlyOf(s) /\ pc'[s] = "ended"
        /\ UNCHANGED <<phase, listed, batch, agg>>
    BY <1>1, <1>11 DEF Complete, FailScan, At, Goto, OnlyOf
  <2> QED
    BY <1>2, <2>1, GoesOn
<1> QED
  BY <1>4, <1>5, <1>6, <1>7, <1>8, <1>9, <1>10, <1>11 DEF Scan, Collect

(* The ticker touches none of it.                                          *)
LEMMA NothingCollected ==
  ASSUME UNCHANGED <<pc, phase, listed, batch, agg>>, \A t \in Scans : Collected(t)
  PROVE  \A t \in Scans : Collected(t)'
BY DEF Collected

(* The total is written when a scan is over, and only the number of        *)
(* objects done after that.                                                *)
LEMMA TotalStaysLast ==
  ASSUME ProgressInv, ProgressInv', TotalLast, NEW s \in Scans, Scan(s) \/ Tick(s) \/ Ticker(s)
  PROVE  TotalLast'
<1>1. CASE \E st \in Statuses, n \in Nat : SetProgress(s, st, n) /\ (st = "completed" \/ n = 0)
  BY <1>1 DEF SetProgress, TotalLast
<1>2. CASE (\E n : UpdateProgress(s, n)) /\ Started # {}
  <2>1. progress \in Progress
    BY <1>2 DEF ProgressInv, ProgressType
  <2>2. progress'.status = progress.status /\ progress'.totalFound = progress.totalFound
    BY <1>2, <2>1 DEF UpdateProgress, Progress
  <2> QED
    BY <1>2, <2>2 DEF TotalLast
<1>3. CASE UNCHANGED progress /\ Started # {}
  BY <1>3 DEF TotalLast
<1>4. \A t \in Scans : pc[t] # "none" => Started # {}
  BY DEF Started
<1>5. Counted(s)
  BY DEF ProgressInv
<1>6. agg[s].totalObjects \in Nat
  BY DEF ProgressInv, ProgressType
<1>7. ASSUME Tick(s) \/ Ticker(s)
      PROVE  Started # {} /\ (UNCHANGED progress \/ \E n : UpdateProgress(s, n))
  <2>1. ticker[s] # "off"
    BY <1>7 DEF Tick, Ticker, TickWrite, TickerExit
  <2> QED
    BY <1>4, <1>5, <1>7, <2>1 DEF Counted, Tick, Ticker, TickWrite, TickerExit
<1>8. ASSUME Start(s) \/ FailScan(s) \/ Complete(s)
      PROVE  \E st \in Statuses, n \in Nat : SetProgress(s, st, n) /\ (st = "completed" \/ n = 0)
  BY <1>6, <1>8 DEF Start, FailScan, Complete, Statuses, BuildSummary
<1>9. ASSUME Collect(s) \/ SaveResult(s)
      PROVE  Started # {} /\ (UNCHANGED progress \/ \E n : UpdateProgress(s, n))
  BY <1>4, <1>9 DEF Collect, SaveResult, At, ReceiveObject, ReceiveClosed, ReceiveError, Flush, Return
<1> QED
  BY <1>1, <1>2, <1>3, <1>7, <1>8, <1>9 DEF Scan

LEMMA NextReports ==
  ASSUME ProgressAssumption, ProgressInv, ProgressInv', ReportInv, [Next]_vars
  PROVE  ReportInv'
<1>1. CASE UNCHANGED vars
  BY <1>1, NothingCollected DEF vars, collector, tickers, ReportInv, TotalLast, Started
<1>2. CASE Next
  <2>1. PICK s \in Scans : Scan(s) \/ Tick(s) \/ Ticker(s)
    BY <1>2 DEF Next
  <2>2. ASSUME Scan(s) PROVE \A t \in Scans : Collected(t)'
    BY <2>2, CollectorKeeps DEF ReportInv, ProgressInv
  <2>3. ASSUME Tick(s) \/ Ticker(s) PROVE \A t \in Scans : Collected(t)'
    <3>1. UNCHANGED <<pc, phase, listed, batch, agg>>
      BY <2>3 DEF Tick, Ticker, TickWrite, TickerExit, collector
    <3> QED
      BY <3>1, NothingCollected DEF ReportInv
  <2>4. TotalLast'
    BY <2>1, TotalStaysLast DEF ReportInv
  <2> QED
    BY <2>1, <2>2, <2>3, <2>4 DEF ReportInv
<1> QED
  BY <1>1, <1>2

LEMMA InitReports == ASSUME ProgressAssumption, Init PROVE ReportInv
<1>1. ASSUME NEW t \in Scans PROVE Collected(t)
  <2>1. pc[t] = "none" /\ listed[t] = {} /\ batch[t] = <<>> /\ agg[t] = NewStatsAggregator
    BY DEF Init
  <2>2. /\ Distinct(<<>>) /\ ToSet(<<>>) = {} /\ Len(<<>>) = 0 /\ BatchSize \in Nat \ {0}
        /\ {} = {} \ {} /\ {} \in SUBSET {}
    BY DEF Distinct, ToSet, ProgressAssumption
  <2>3. Holds("none", phase[t], {}, <<>>, NewStatsAggregator, {})
    BY <2>2, NewAggregates DEF Holds, Listed
  <2>4. CollectedAs("none", phase[t], {}, <<>>, NewStatsAggregator)
    BY <2>2, <2>3 DEF CollectedAs
  <2> QED
    BY <2>1, <2>4, Zenon DEF Collected
<1>2. TotalLast
  BY DEF Init, TotalLast, Started
<1> QED
  BY <1>1, <1>2 DEF ReportInv

(* The invariant holds throughout: objects are counted as they come.       *)
THEOREM ProgressInvariance == Spec => []ProgressInv
<1>1. Init => ProgressInv
  BY ProgressAssumption, InitCounts
<1>2. ProgressInv /\ [Next]_vars => ProgressInv'
  BY ProgressAssumption, NextKeeps
<1> QED
  BY <1>1, <1>2, PTL DEF Spec

(* The count a user sees was reached by the counter of a scan, of the one  *)
(* the record names unless counts were mixed.                              *)
THEOREM CountsWereReached == Spec => []CountWasReached
<1>1. ProgressInv => CountWasReached
  BY DEF ProgressInv, ProgressType, Shown, CountWasReached
<1> QED
  BY <1>1, ProgressInvariance, PTL

(* A completed record shows the total of the stored report.                *)
THEOREM CompletedTotals == Spec => []CompletedShowsTotal
<1>1. ProgressInv => CompletedShowsTotal
  BY DEF ProgressInv, ProgressType, Shown, CompletedShowsTotal
<1> QED
  BY <1>1, ProgressInvariance, PTL

(* An aggregator holds the objects listed that are not in the batch.       *)
THEOREM ReportInvariance == Spec => []ReportInv
<1>1. Init => ReportInv
  BY ProgressAssumption, InitReports
<1>2. ProgressInv /\ ProgressInv' /\ ReportInv /\ [Next]_vars => ReportInv'
  BY ProgressAssumption, NextReports
<1> QED
  BY <1>1, <1>2, ProgressInvariance, PTL DEF Spec

(* The report that is stored for a scan describes exactly the objects that *)
(* the pipeline has delivered.                                             *)
THEOREM ReportsAreExact == Spec => ReportIsExact
<1> DEFINE Exact == \A s \in DOMAIN result' : s \notin DOMAIN result \/ result'[s] # result[s]
                                                => Describes(result'[s], listed[s])
<1>1. ASSUME ProgressInv, ReportInv, [Next]_vars PROVE [Exact]_vars
  <2>1. CASE UNCHANGED result
    BY <2>1
  <2>2. ASSUME NEW s \in Scans, At(s, "save"), result' = Stored(s) PROVE Exact
    <3>1. PICK S : Aggregates(agg[s], S) /\ S = listed[s]
      BY <1>1, <2>2 DEF ReportInv, Collected, CollectedAs, Holds, Listed, At
    <3>2. Bunch(listed[s])
      <4>1. listed[s] \in SUBSET Objects[s]
        BY <1>1 DEF ProgressInv, ProgressType
      <4> QED
        BY <4>1, ProgressAssumption, ObjectsAreBunch, BunchPart
    <3>3. Describes(BuildReport(agg[s]), listed[s])
      BY <3>1, <3>2, ReportDescribes
    <3>4. /\ result'[s] = BuildReport(agg[s])
          /\ \A t \in DOMAIN result' : t # s => t \in DOMAIN result /\ result'[t] = result[t]
      BY <2>2 DEF Stored
    <3> QED
      BY <3>3, <3>4
  <2>3. CASE Next
    <3>1. PICK s \in Scans : Scan(s) \/ Tick(s) \/ Ticker(s)
      BY <2>3 DEF Next
    <3>2. UNCHANGED result \/ (At(s, "save") /\ result' = Stored(s))
      BY <3>1 DEF Scan, Collect, Start, ReceiveObject, ReceiveClosed, ReceiveError, Flush, Return,
         SaveResult, Complete, FailScan, Tick, Ticker, TickWrite, TickerExit
    <3> QED
      BY <2>1, <2>2, <3>2
  <2>4. CASE UNCHANGED vars
    BY <2>4
  <2> QED
    BY <1>1, <2>3, <2>4
<1> QED
  BY <1>1, ProgressInvariance, ReportInvariance, PTL DEF Spec, ReportIsExact

(* The variables have their types, and a batch never exceeds its capacity. *)
THEOREM TypeCorrectness == Spec => []TypeOK
<1>1. ASSUME ProgressInv, ReportInv PROVE TypeOK
  <2> USE ProgressAssumption
  <2>1. ASSUME NEW s \in Scans
        PROVE  /\ Bunch(listed[s]) /\ listed[s] \subseteq Objects[s]
               /\ received[s] \in Counts /\ \A n \in Nat : n <= received[s] => n \in Counts
    <3>1. listed[s] \in SUBSET Objects[s] /\ received[s] = Cardinality(listed[s])
      BY <1>1 DEF ProgressInv, ProgressType, Counted
    <3>2. Bunch(listed[s]) /\ Bunch(Objects[s])
      BY <3>1, ObjectsAreBunch, BunchPart
    <3>3. /\ Cardinality(listed[s]) <= Cardinality(Objects[s])
          /\ Cardinality(listed[s]) \in Nat /\ Cardinality(Objects[s]) \in Nat
      BY <3>1, <3>2, FS_Subset, TotalType DEF Bunch
    <3>4. \A n \in Nat : n <= received[s] => n \in 0..Cardinality(Objects[s])
      BY <3>1, <3>3
    <3>5. 0..Cardinality(Objects[s]) \subseteq Counts
      BY DEF Counts
    <3> QED
      BY <3>1, <3>2, <3>3, <3>4, <3>5
  <2>2. ASSUME NEW s \in Scans
        PROVE  /\ Len(batch[s]) <= BatchSize
               /\ \E S \in SUBSET listed[s] : Aggregates(agg[s], S)
    BY <1>1 DEF ReportInv, Collected, CollectedAs, Holds
  <2>3. ASSUME NEW s \in Scans
        PROVE  /\ agg[s].totalObjects \in Nat /\ agg[s].sizes \in Seq(Nat)
               /\ \A e \in DOMAIN agg[s].types : agg[s].types[e] \in Accumulator
               /\ BuildSummary(agg[s]) \in ScanSummary
    <3>1. PICK S \in SUBSET listed[s] : Aggregates(agg[s], S)
      BY <2>2
    <3>2. Bunch(S)
      BY <2>1, BunchPart
    <3> QED
      BY <3>1, <3>2, AggregatorType, SummaryIs
  <2>4. progress \in {None} \cup [id : Scans, status : {"running", "completed", "failed"},
                                  objectsDone : Counts, totalFound : Counts]
    <3>1. CASE Started = {}
      BY <1>1, <3>1 DEF ProgressInv, ProgressType
    <3>2. CASE Started # {}
      <4>1. progress \in Progress /\ progress.id \in Scans
        BY <1>1, <3>2 DEF ProgressInv, ProgressType, Progress
      <4>2. progress.objectsDone \in Counts
        BY <1>1, <2>1, <3>2, <4>1 DEF ProgressInv, Shown, Progress
      <4>3. progress.totalFound \in Counts
        <5>1. CASE progress.status = "completed"
          <6>1. PICK s \in Scans : s = progress.id
            BY <4>1
          <6>2. /\ progress.totalFound = result[s].summary.totalObjects
                /\ result[s] = BuildReport(agg[s]) /\ agg[s].totalObjects = received[s]
            BY <1>1, <3>2, <5>1, <6>1 DEF ProgressInv, Shown, Reported
          <6>3. progress.totalFound = received[s]
            BY <6>2 DEF BuildReport, BuildSummary
          <6> QED
            BY <2>1, <6>3
        <5>2. CASE progress.status # "completed"
          <6>1. progress.totalFound = 0
            BY <1>1, <3>2, <5>2 DEF ReportInv, TotalLast
          <6>2. 0 <= received[progress.id]
            BY <1>1, <4>1 DEF ProgressInv, ProgressType
          <6> QED
            BY <2>1, <4>1, <6>1, <6>2
        <5> QED
          BY <5>1, <5>2
      <4> QED
        BY <4>1, <4>2, <4>3 DEF Progress, Statuses
    <3> QED
      BY <3>1, <3>2
  <2>5. /\ DOMAIN result \subseteq Scans
        /\ \A s \in DOMAIN result : result[s].summary \in ScanSummary
    <3>1. ASSUME NEW s \in DOMAIN result PROVE s \in Scans /\ result[s].summary = BuildSummary(agg[s])
      BY <1>1 DEF ProgressInv, Reported, BuildReport
    <3> QED
      BY <2>3, <3>1
  <2>6. loaded \in [Scans -> Counts]
    <3>1. loaded \in [Scans -> Nat] /\ \A s \in Scans : loaded[s] <= received[s]
      BY <1>1 DEF ProgressInv, ProgressType, Counted
    <3> QED
      BY <2>1, <3>1
  <2> QED
    BY <1>1, <2>1, <2>2, <2>3, <2>4, <2>5, <2>6 DEF TypeOK, ProgressInv, ProgressType, PCs
<1> QED
  BY <1>1, ProgressInvariance, ReportInvariance, PTL
=============================================================================
