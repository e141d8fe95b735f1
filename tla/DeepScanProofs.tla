----------------------------- MODULE DeepScanProofs -----------------------------
(***************************************************************************)
(* Proofs about DeepScan for every bucket, page size and configuration: a  *)
(* deep scan's result is final when RunAll has returned, and what the      *)
(* analyzers that list the bucket report is true.                          *)
(***************************************************************************)
EXTENDS DeepScan, SumTheorems

-----------------------------------------------------------------------------
(* The goroutines that were started and have not ended.                    *)
Active == {a \in Names : pc[a] \notin {"off", "ended"}}

(* The inductive invariant: the WaitGroup counts them, ...                 *)
WaitGroupCounts == wg = Cardinality(Active)

(* ... none is started twice, or one that is not enabled, ...              *)
StartedOnce ==
  /\ \A i \in DOMAIN Analyzers : next # 0 /\ i >= next => pc[Analyzers[i]] = "off"
  /\ \A a \in Names : pc[a] # "off" => a \in enabled
  /\ Cardinality(enabled) <= MaxEnabled

(* ... and none is left when RunAll has returned.                          *)
NoneLeft == Returned => Active = {}

IInv == TypeOK /\ WaitGroupCounts /\ StartedOnce /\ NoneLeft

-----------------------------------------------------------------------------
(* There are nine analyzers, all different.                                *)
LEMMA AnalyzersType ==
  /\ DOMAIN Analyzers = 1..9 /\ Len(Analyzers) = 9
  /\ \A i \in 1..9 : Analyzers[i] \in Names
  /\ \A a \in Names : \E i \in 1..9 : Analyzers[i] = a
  /\ \A i, j \in 1..9 : i # j => Analyzers[i] # Analyzers[j]
<1>1. DOMAIN Analyzers = 1..9 /\ Len(Analyzers) = 9
  BY DEF Analyzers
<1>2. \A i, j \in 1..9 : i # j => Analyzers[i] # Analyzers[j]
  BY DEF Analyzers
<1>3. Names = {Analyzers[i] : i \in 1..9}
  BY <1>1 DEF Names, ToSet
<1> QED
  BY <1>1, <1>2, <1>3

LEMMA NamesFinite == IsFiniteSet(Names)
<1>1. Analyzers \in Surjection(1..9, Names)
  <2>1. Analyzers = [i \in 1..9 |-> Analyzers[i]]
    BY DEF Analyzers
  <2>2. Analyzers \in [1..9 -> Names]
    BY <2>1, AnalyzersType
  <2> QED
    BY <2>2, AnalyzersType DEF Surjection
<1>2. IsFiniteSet(1..9)
  <2>1. 1 \in Int /\ 9 \in Int
    OBVIOUS
  <2> QED
    BY <2>1, FS_Interval, Zenon
<1> QED
  BY <1>1, <1>2, FS_Surjection

(* A set of enabled analyzers is finite and within the bound.              *)
LEMMA EnabledCount ==
  ASSUME NEW S, NEW E, S \subseteq E, E \subseteq Names, Cardinality(E) <= MaxEnabled
  PROVE  IsFiniteSet(S) /\ Cardinality(S) \in 0..MaxEnabled
<1>1. IsFiniteSet(E)
  BY NamesFinite, FS_Subset
<1>2. IsFiniteSet(S) /\ Cardinality(S) <= Cardinality(E)
  BY <1>1, FS_Subset
<1>3. Cardinality(S) \in Nat /\ Cardinality(E) \in Nat
  BY <1>1, <1>2, FS_CardinalityType
<1> QED
  BY <1>2, <1>3, ScanAssumption

(* So the goroutines that are active are.                                  *)
LEMMA ActiveCount ==
  ASSUME IInv
  PROVE  IsFiniteSet(Active) /\ Cardinality(Active) \in 0..MaxEnabled
<1>1. Active \subseteq enabled
  BY DEF Active, IInv, StartedOnce
<1> QED
  BY <1>1, EnabledCount DEF IInv, TypeOK, StartedOnce

LEMMA InitInv == Init => IInv
<1> SUFFICES ASSUME Init PROVE IInv
  OBVIOUS
<1>1. Active = {}
  BY DEF Init, Active
<1>2. WaitGroupCounts /\ NoneLeft
  BY <1>1, FS_EmptySet DEF Init, WaitGroupCounts, NoneLeft, Returned
<1>3. StartedOnce
  BY AnalyzersType DEF Init, StartedOnce
<1>4. TypeOK
  BY AnalyzersType, ScanAssumption DEF Init, TypeOK
<1> QED
  BY <1>2, <1>3, <1>4 DEF IInv

(* The step of a goroutine that stays active touches neither the WaitGroup *)
(* nor RunAll.                                                             *)
LEMMA StaysActive ==
  ASSUME IInv, NEW a \in Names, pc[a] \notin {"off", "ended"},
         pc' = pc \/ \E step \in {"publish", "log", "done"} : Goto(a, step),
         UNCHANGED <<enabled, next, wg>>
  PROVE  /\ WaitGroupCounts' /\ StartedOnce' /\ NoneLeft'
         /\ pc' \in [Names -> {"off", "list", "call", "publish", "log", "done", "ended"}]
<1>1. /\ pc' \in [Names -> {"off", "list", "call", "publish", "log", "done", "ended"}]
      /\ \A b \in Names \ {a} : pc'[b] = pc[b]
      /\ pc'[a] \notin {"off", "ended"}
  BY DEF IInv, TypeOK, Goto
<1>2. Active' = Active
  BY <1>1 DEF Active
<1>3. WaitGroupCounts' /\ NoneLeft'
  BY <1>2 DEF IInv, WaitGroupCounts, NoneLeft, Returned
<1>4. StartedOnce'
  BY <1>1, AnalyzersType DEF IInv, StartedOnce
<1> QED
  BY <1>1, <1>3, <1>4

LEMMA SpawnInv ==
  ASSUME IInv, Spawn
  PROVE  IInv'
<1> DEFINE a == Analyzers[next]
<1>1. next \in 1..9 /\ a \in Names /\ pc[a] = "off"
  BY AnalyzersType DEF Spawn, IInv, StartedOnce
<1>2. CASE a \in enabled
  <2>1. PICK step \in {"list", "call"} : wg' = wg + 1 /\ Goto(a, step)
    BY <1>2, Zenon DEF Spawn
  <2>2. /\ pc' \in [Names -> {"off", "list", "call", "publish", "log", "done", "ended"}]
        /\ pc'[a] \in {"list", "call"} /\ \A b \in Names \ {a} : pc'[b] = pc[b]
    BY <1>1, <2>1 DEF IInv, TypeOK, Goto
  <2>3. Active' = Active \cup {a} /\ a \notin Active
    BY <1>1, <2>2 DEF Active
  <2>4. IsFiniteSet(Active) /\ Cardinality(Active) \in 0..MaxEnabled
    BY ActiveCount
  <2>5. WaitGroupCounts'
    BY <2>1, <2>3, <2>4, FS_AddElement DEF IInv, WaitGroupCounts
  <2>6. StartedOnce'
    <3>1. \A i \in 1..9 : i >= next + 1 => Analyzers[i] # a
      BY <1>1, AnalyzersType
    <3>2. next' = next + 1 /\ enabled' = enabled
      BY DEF Spawn
    <3>3. \A i \in 1..9 : next' # 0 /\ i >= next' => pc'[Analyzers[i]] = "off"
      BY <1>1, <2>2, <3>1, <3>2, AnalyzersType DEF IInv, StartedOnce
    <3>4. \A b \in Names : pc'[b] # "off" => b \in enabled'
      BY <1>2, <2>2, <3>2 DEF IInv, StartedOnce
    <3> QED
      BY <3>2, <3>3, <3>4, AnalyzersType DEF IInv, StartedOnce
  <2>7. NoneLeft'
    BY <1>1 DEF Spawn, NoneLeft, Returned
  <2>8. wg' \in 0..MaxEnabled
    <3>1. enabled' \subseteq Names /\ Active' \subseteq enabled'
      BY <2>6 DEF Spawn, IInv, TypeOK, StartedOnce, Active
    <3>2. Cardinality(Active') \in 0..MaxEnabled
      BY <2>6, <3>1, EnabledCount DEF StartedOnce
    <3> QED
      BY <2>5, <3>2 DEF WaitGroupCounts
  <2>9. TypeOK'
    <3>1. next' \in 0..Len(Analyzers) + 1
      BY <1>1, AnalyzersType DEF Spawn
    <3>2. UNCHANGED <<objects, enabled, token, acc, result, cut>>
      BY DEF Spawn
    <3> QED
      BY <2>2, <2>8, <3>1, <3>2 DEF IInv, TypeOK
  <2> QED
    BY <2>5, <2>6, <2>7, <2>9 DEF IInv
<1>3. CASE a \notin enabled
  <2>1. UNCHANGED <<wg, pc, enabled>> /\ next' = next + 1
    BY <1>3 DEF Spawn
  <2>2. Active' = Active
    BY <2>1 DEF Active
  <2>3. WaitGroupCounts' /\ NoneLeft'
    BY <1>1, <2>1, <2>2 DEF IInv, WaitGroupCounts, NoneLeft, Returned
  <2>4. StartedOnce'
    BY <1>1, <2>1, AnalyzersType DEF IInv, StartedOnce
  <2>5. TypeOK'
    <3>1. next' \in 0..Len(Analyzers) + 1
      BY <1>1, <2>1, AnalyzersType
    <3>2. UNCHANGED <<objects, enabled, token, acc, result, cut, wg, pc>>
      BY <2>1 DEF Spawn
    <3> QED
      BY <3>1, <3>2 DEF IInv, TypeOK
  <2> QED
    BY <2>3, <2>4, <2>5 DEF IInv
<1> QED
  BY <1>2, <1>3

LEMMA WaitInv ==
  ASSUME IInv, Wait
  PROVE  IInv'
<1>1. Active' = Active
  BY DEF Wait, Active
<1>2. IsFiniteSet(Active)
  BY ActiveCount
<1>3. Active = {}
  BY <1>2, FS_EmptySet DEF Wait, IInv, WaitGroupCounts
<1>4. WaitGroupCounts' /\ NoneLeft'
  BY <1>1, <1>3 DEF Wait, IInv, WaitGroupCounts, NoneLeft
<1>5. StartedOnce'
  BY DEF Wait, IInv, StartedOnce
<1>6. TypeOK'
  <2>1. next' \in 0..Len(Analyzers) + 1
    BY AnalyzersType DEF Wait
  <2> QED
    BY <2>1 DEF Wait, IInv, TypeOK
<1> QED
  BY <1>4, <1>5, <1>6 DEF IInv

(* The steps of a goroutine but the last.                                  *)
LEMMA AnalyzeInv ==
  ASSUME IInv, NEW a \in Names, Analyze(a), ~Done(a)
  PROVE  IInv'
<1>1. a \in enabled \/ pc[a] = "off"
  BY DEF IInv, StartedOnce
<1>2. CASE ListPage(a)
  <2>1. pc[a] = "list" /\ a \in enabled
    BY <1>1, <1>2 DEF ListPage
  <2>2. UNCHANGED <<objects, enabled, next, wg, result, cut>>
    BY <1>2 DEF ListPage
  <2>3. pc' = pc \/ Goto(a, "publish")
    BY <1>2 DEF ListPage
  <2>4. /\ WaitGroupCounts' /\ StartedOnce' /\ NoneLeft'
        /\ pc' \in [Names -> {"off", "list", "call", "publish", "log", "done", "ended"}]
    BY <2>1, <2>2, <2>3, StaysActive
  <2>5. DOMAIN acc' = Names
    BY <1>2 DEF ListPage, IInv, TypeOK
  <2>6. token' \in [Names -> 0..Len(objects)]
    <3>1. Len(objects) \in Nat
      BY ScanAssumption DEF IInv, TypeOK
    <3>2. ListObjectsPage(token[a]).continuationToken \in 0..Len(objects)
      BY <3>1, ScanAssumption DEF ListObjectsPage, IInv, TypeOK
    <3>3. token' = token
            \/ token' = [token EXCEPT ![a] = ListObjectsPage(token[a]).continuationToken]
      BY <1>2 DEF ListPage
    <3> QED
      BY <3>2, <3>3 DEF IInv, TypeOK
  <2>7. TypeOK'
    BY <2>2, <2>4, <2>5, <2>6 DEF IInv, TypeOK
  <2> QED
    BY <2>4, <2>7 DEF IInv
<1>3. CASE ListPageFails(a) \/ (a = "naming" /\ NoNamingPattern)
  <2>1. pc[a] = "list" /\ a \in enabled
    BY <1>1, <1>3 DEF ListPageFails, NoNamingPattern
  <2>2. UNCHANGED <<objects, enabled, next, token, acc, wg, result>> /\ cut' = cut \cup {a}
    BY <1>3 DEF ListPageFails, NoNamingPattern
  <2>3. \E step \in {"publish", "log", "done"} : Goto(a, step)
    BY <1>3, Zenon DEF ListPageFails, NoNamingPattern
  <2>4. /\ WaitGroupCounts' /\ StartedOnce' /\ NoneLeft'
        /\ pc' \in [Names -> {"off", "list", "call", "publish", "log", "done", "ended"}]
    BY <2>1, <2>2, <2>3, StaysActive
  <2>5. TypeOK'
    BY <2>1, <2>2, <2>4 DEF IInv, TypeOK
  <2> QED
    BY <2>4, <2>5 DEF IInv
<1>4. CASE Call(a) \/ CallFails(a)
  <2>1. pc[a] = "call" /\ UNCHANGED <<objects, enabled, next, token, wg, result, cut>>
    BY <1>4 DEF Call, CallFails
  <2>2. \E step \in {"publish", "log", "done"} : Goto(a, step)
    BY <1>4, Zenon DEF Call, CallFails
  <2>3. /\ WaitGroupCounts' /\ StartedOnce' /\ NoneLeft'
        /\ pc' \in [Names -> {"off", "list", "call", "publish", "log", "done", "ended"}]
    BY <2>1, <2>2, StaysActive
  <2>4. DOMAIN acc' = Names
    BY <1>4 DEF Call, CallFails, IInv, TypeOK
  <2>5. TypeOK'
    BY <2>1, <2>3, <2>4 DEF IInv, TypeOK
  <2> QED
    BY <2>3, <2>5 DEF IInv
<1>5. CASE Publish(a) \/ Log(a)
  <2>1. pc[a] \in {"publish", "log"} /\ UNCHANGED <<objects, enabled, next, token, acc, wg, cut>>
    BY <1>5 DEF Publish, Log
  <2>2. \E step \in {"publish", "log", "done"} : Goto(a, step)
    BY <1>5, Zenon DEF Publish, Log
  <2>3. /\ WaitGroupCounts' /\ StartedOnce' /\ NoneLeft'
        /\ pc' \in [Names -> {"off", "list", "call", "publish", "log", "done", "ended"}]
    BY <2>1, <2>2, StaysActive
  <2>4. DOMAIN result' = Names /\ \A b \in Names \ {a} : result'[b] = result[b]
    BY <1>5 DEF Publish, Log, IInv, TypeOK
  <2>5. TypeOK'
    BY <1>1, <2>1, <2>3, <2>4 DEF IInv, TypeOK
  <2> QED
    BY <2>3, <2>5 DEF IInv
<1> QED
  BY <1>2, <1>3, <1>4, <1>5 DEF Analyze

LEMMA DoneInv ==
  ASSUME IInv, NEW a \in Names, Done(a)
  PROVE  IInv'
<1>1. /\ pc' \in [Names -> {"off", "list", "call", "publish", "log", "done", "ended"}]
      /\ pc[a] = "done" /\ pc'[a] = "ended" /\ \A b \in Names \ {a} : pc'[b] = pc[b]
  BY DEF IInv, TypeOK, Done, Goto
<1>2. Active' = Active \ {a} /\ a \in Active
  BY <1>1 DEF Active
<1>3. IsFiniteSet(Active) /\ Cardinality(Active) \in 0..MaxEnabled
  BY ActiveCount
<1>4. WaitGroupCounts'
  BY <1>2, <1>3, FS_RemoveElement DEF IInv, WaitGroupCounts, Done
<1>5. StartedOnce'
  BY <1>1, AnalyzersType DEF IInv, StartedOnce, Done
<1>6. NoneLeft'
  BY <1>2 DEF IInv, NoneLeft, Returned, Done
<1>7. wg' \in 0..MaxEnabled
  <2>1. enabled' \subseteq Names /\ Active' \subseteq enabled'
    BY <1>5 DEF Done, IInv, TypeOK, StartedOnce, Active
  <2>2. Cardinality(Active') \in 0..MaxEnabled
    BY <1>5, <2>1, EnabledCount DEF StartedOnce
  <2> QED
    BY <1>4, <2>2 DEF WaitGroupCounts
<1>8. TypeOK'
  BY <1>1, <1>7 DEF IInv, TypeOK, Done
<1> QED
  BY <1>4, <1>5, <1>6, <1>8 DEF IInv

LEMMA NextInv == IInv /\ [Next]_vars => IInv'
<1> SUFFICES ASSUME IInv, [Next]_vars PROVE IInv'
  OBVIOUS
<1>1. CASE Spawn
  BY <1>1, SpawnInv
<1>2. CASE Wait
  BY <1>2, WaitInv
<1>3. ASSUME NEW a \in Names, Analyze(a) PROVE IInv'
  BY <1>3, AnalyzeInv, DoneInv
<1>4. CASE UNCHANGED vars
  BY <1>4
     DEF vars, IInv, TypeOK, WaitGroupCounts, Active, StartedOnce, NoneLeft, Returned
<1> QED
  BY <1>1, <1>2, <1>3, <1>4 DEF Next, RunAll

-----------------------------------------------------------------------------
(* The inductive invariant holds in every reachable state.                 *)
THEOREM Invariance == Spec => []IInv
BY InitInv, NextInv, PTL DEF Spec

(* The variables keep their types: the WaitGroup's counter is never        *)
(* negative and never above the number of analyzers that are enabled.      *)
THEOREM TypeCorrectness == Spec => []TypeOK
<1>1. IInv => TypeOK
  BY DEF IInv
<1> QED
  BY <1>1, Invariance, PTL

(* Once RunAll has returned, no goroutine changes the result any more.     *)
THEOREM ReturnedResultIsFinal == Spec => ResultIsFinal
<1>1. IInv /\ [Next]_vars => [Returned => UNCHANGED result]_vars
  <2> SUFFICES ASSUME IInv, Next, Returned PROVE UNCHANGED result
    BY DEF vars
  <2>1. \A a \in Names : pc[a] \in {"off", "ended"}
    BY DEF IInv, NoneLeft, Active
  <2>2. ASSUME NEW a \in Names PROVE ~Analyze(a)
    BY <2>1
       DEF Analyze, ListPage, ListPageFails, Call, CallFails, Publish, Log, Done,
           NoNamingPattern
  <2> QED
    BY <2>2, AnalyzersType DEF Next, RunAll, Spawn, Wait
<1> QED
  BY <1>1, Invariance, PTL DEF Spec, ResultIsFinal

-----------------------------------------------------------------------------
(***************************************************************************)
(* What an analyzer has made of a page.  It is a fold, that is a function  *)
(* chosen among those that satisfy a recursion on the subsets of the       *)
(* page's positions; the lemmas turn it into the states after each object. *)
(* The induction is over the members of a set, so that it needs no theorem *)
(* with a predicate for a parameter.                                       *)
(***************************************************************************)
(* The recursion that the fold's choice satisfies, on sets of positions.   *)
StepOf(a, fails, c, page, h, s) ==
  IF s = {} THEN c ELSE Visit(a, h[s \ {Max(s)}], page[Max(s)], fails)

(* There is a function that satisfies it.                                  *)
LEMMA FoldExists ==
  ASSUME NEW a, NEW fails, NEW c, NEW page, NEW n \in Nat
  PROVE  \E h : h = [s \in SUBSET (1..n) |-> StepOf(a, fails, c, page, h, s)]
<1> DEFINE Good(k, h) == h = [s \in SUBSET (1..k) |-> StepOf(a, fails, c, page, h, s)]
           Levels == {k \in Nat : \E h : Good(k, h)}
<1>1. 0 \in Levels
  <2> DEFINE h == [s \in SUBSET (1..0) |-> c]
  <2>1. \A s \in SUBSET (1..0) : StepOf(a, fails, c, page, h, s) = c
    BY DEF StepOf
  <2>2. Good(0, h)
    BY <2>1
  <2> HIDE DEF Good, h
  <2> QED
    BY <2>2
<1>2. ASSUME NEW k \in Nat, k \in Levels PROVE k + 1 \in Levels
  <2>1. PICK h : Good(k, h)
    BY <1>2
  <2> DEFINE g == [s \in SUBSET (1..(k + 1)) |->
                     IF s \subseteq 1..k THEN h[s] ELSE StepOf(a, fails, c, page, h, s)]
  <2>2. ASSUME NEW s \in SUBSET (1..(k + 1)), s # {}
        PROVE  s \ {Max(s)} \in SUBSET (1..k)
    <3>1. Max(s) \in s /\ \A y \in s : y <= Max(s)
      <4>1. k + 1 \in Nat
        OBVIOUS
      <4> QED
        BY <2>2, <4>1, MaxOfPositions
    <3>2. ASSUME NEW y \in s \ {Max(s)} PROVE y \in 1..k
      <4>1. y \in 1..(k + 1) /\ Max(s) \in 1..(k + 1)
        BY <3>1
      <4>2. y <= Max(s) /\ y # Max(s)
        BY <3>1
      <4> QED
        BY <4>1, <4>2
    <3> QED
      BY <3>2
  <2>3. ASSUME NEW s \in SUBSET (1..(k + 1))
        PROVE  StepOf(a, fails, c, page, g, s) = StepOf(a, fails, c, page, h, s)
    <3>1. CASE s = {}
      BY <3>1 DEF StepOf
    <3>2. CASE s # {}
      <4>1. g[s \ {Max(s)}] = h[s \ {Max(s)}]
        BY <2>2, <3>2
      <4> HIDE DEF g
      <4> QED
        BY <4>1 DEF StepOf
    <3> QED
      BY <3>1, <3>2
  <2>4. ASSUME NEW s \in SUBSET (1..k) PROVE h[s] = StepOf(a, fails, c, page, h, s)
    BY <2>1
  <2>5. Good(k + 1, g)
    BY <2>3, <2>4, Zenon
  <2> HIDE DEF Good, g
  <2> QED
    BY <2>5
<1>3. n \in Levels
  <2> HIDE DEF Levels
  <2> QED
    BY <1>1, <1>2, UpTo
<1> QED
  BY <1>3

(* The goroutine's state before the first object of the page, and after    *)
(* each of them.                                                           *)
Visited(a, fails, c, page) == FoldLeft(LAMBDA d, o : Visit(a, d, o, fails), c, page)
Visits(h, a, fails, c, page, n) ==
  /\ h[0] = c /\ h[n] = Visited(a, fails, c, page)
  /\ \A k \in 0..n - 1 : h[k + 1] = Visit(a, h[k], page[k + 1], fails)

LEMMA VisitSteps ==
  ASSUME NEW a, NEW fails, NEW c, NEW page, NEW n \in Nat, DOMAIN page = 1..n
  PROVE  \E h : Visits(h, a, fails, c, page, n)
<1> DEFINE iter == CHOOSE h : h = [s \in SUBSET (1..n) |-> StepOf(a, fails, c, page, h, s)]
           g == [k \in 0..n |-> iter[1..k]]
<1>1. iter = [s \in SUBSET (1..n) |-> StepOf(a, fails, c, page, iter, s)]
  BY FoldExists
<1>2. Visited(a, fails, c, page) = iter[1..n]
  BY DEF Visited, FoldLeft, MapThenFoldSet, StepOf
<1> HIDE DEF iter
<1>3. \A s \in SUBSET (1..n) : iter[s] = StepOf(a, fails, c, page, iter, s)
  BY <1>1
<1>4. g[0] = c
  <2>1. 1..0 = {} /\ {} \in SUBSET (1..n)
    OBVIOUS
  <2>2. iter[{}] = c
    BY <1>3, <2>1 DEF StepOf
  <2> QED
    BY <2>1, <2>2
<1>5. ASSUME NEW k \in 0..n - 1 PROVE g[k + 1] = Visit(a, g[k], page[k + 1], fails)
  <2> DEFINE s == 1..(k + 1)
  <2>1. s \in SUBSET (1..n) /\ s # {} /\ Max(s) = k + 1
    <3>1. s \in SUBSET (1..n) /\ k + 1 \in s
      OBVIOUS
    <3>2. Max(s) \in s /\ \A y \in s : y <= Max(s)
      BY <3>1, MaxOfPositions
    <3> QED
      BY <3>1, <3>2
  <2>2. s \ {Max(s)} = 1..k
    BY <2>1
  <2>3. iter[s] = Visit(a, iter[1..k], page[k + 1], fails)
    BY <1>3, <2>1, <2>2 DEF StepOf
  <2> QED
    BY <2>3
<1>6. g[n] = Visited(a, fails, c, page)
  BY <1>2
<1> HIDE DEF g
<1> QED
  BY <1>4, <1>5, <1>6 DEF Visits

-----------------------------------------------------------------------------
(***************************************************************************)
(* The first k objects of the bucket                                       *)
(***************************************************************************)
(* Those of them that are in a set of positions, ...                       *)
LEMMA Below ==
  ASSUME NEW n \in Nat, NEW S \in SUBSET (1..n), NEW k
  PROVE  /\ IsFiniteSet(S \cap 1..k) /\ IsFiniteSet(S)
         /\ Cardinality(S \cap 1..k) \in Nat /\ Cardinality(S) \in Nat
         /\ Cardinality(S \cap 1..k) <= Cardinality(S)
<1>1. IsFiniteSet(1..n)
  <2>1. 1 \in Int /\ n \in Int
    OBVIOUS
  <2> QED
    BY <2>1, FS_Interval, Zenon
<1>2. IsFiniteSet(S)
  BY <1>1, FS_Subset
<1>3. IsFiniteSet(S \cap 1..k) /\ Cardinality(S \cap 1..k) <= Cardinality(S)
  <2>1. S \cap 1..k \subseteq S
    OBVIOUS
  <2> QED
    BY <1>2, <2>1, FS_Subset
<1> QED
  BY <1>2, <1>3, FS_CardinalityType

(* ... and one more.                                                       *)
LEMMA OneMore ==
  ASSUME NEW n \in Nat, NEW S \in SUBSET (1..n), NEW k \in 0..n - 1, k + 1 \in S
  PROVE  /\ S \cap 1..k + 1 = (S \cap 1..k) \cup {k + 1}
         /\ Cardinality(S \cap 1..k + 1) = Cardinality(S \cap 1..k) + 1
<1>1. S \cap 1..k + 1 = (S \cap 1..k) \cup {k + 1} /\ k + 1 \notin S \cap 1..k
  OBVIOUS
<1>2. IsFiniteSet(S \cap 1..k)
  BY Below
<1> QED
  BY <1>1, <1>2, FS_AddElement

LEMMA NoMore ==
  ASSUME NEW n \in Nat, NEW S \in SUBSET (1..n), NEW k \in 0..n - 1, k + 1 \notin S
  PROVE  S \cap 1..k + 1 = S \cap 1..k
OBVIOUS

(* A position is found by the number of those up to it.                    *)
Rank(S, i) == Cardinality({j \in S : j <= i})
LEMMA RankGrows ==
  ASSUME NEW n \in Nat, NEW S \in SUBSET (1..n), NEW i \in S, NEW j \in S, i < j
  PROVE  Rank(S, i) \in Nat /\ Rank(S, j) \in Nat /\ Rank(S, i) < Rank(S, j)
<1> DEFINE A == {x \in S : x <= i}
           B == {x \in S : x <= j}
<1>1. IsFiniteSet(S)
  <2>1. 1 \in Int /\ n \in Int
    OBVIOUS
  <2>2. IsFiniteSet(1..n)
    BY <2>1, FS_Interval, Zenon
  <2> QED
    BY <2>2, FS_Subset
<1>2. IsFiniteSet(A) /\ IsFiniteSet(B)
  BY <1>1, FS_Subset
<1>3. A \subseteq B /\ j \in B /\ j \notin A
  <2>1. S \subseteq Int /\ i \in Int /\ j \in Int
    OBVIOUS
  <2>2. \A x \in S : x <= i => x <= j
    BY <2>1
  <2>3. j <= j /\ ~(j <= i)
    BY <2>1
  <2> QED
    BY <2>2, <2>3
<1>4. A # B /\ Cardinality(A) < Cardinality(B)
  <2>1. Cardinality(A) <= Cardinality(B) /\ (Cardinality(A) = Cardinality(B) => A = B)
    BY <1>2, <1>3, FS_Subset
  <2>2. Cardinality(A) \in Nat /\ Cardinality(B) \in Nat
    BY <1>2, FS_CardinalityType
  <2> QED
    BY <1>3, <2>1, <2>2
<1>5. Cardinality(A) \in Nat /\ Cardinality(B) \in Nat
  BY <1>2, FS_CardinalityType
<1> QED
  BY <1>4, <1>5 DEF Rank

LEMMA KeyAtRank ==
  ASSUME NEW n \in Nat, NEW S \in SUBSET (1..n), NEW i \in S
  PROVE  /\ Rank(S, i) \in 1..Cardinality(S) /\ Cardinality(S) \in Nat
         /\ KeysAt(S)[Rank(S, i)] = objects[i].key
<1>1. \A j \in S : Rank(S, j) = Rank(S, i) => j = i
  <2> SUFFICES ASSUME NEW j \in S, j # i PROVE Rank(S, j) # Rank(S, i)
    OBVIOUS
  <2>1. i < j \/ j < i
    OBVIOUS
  <2>2. CASE i < j
    <3>1. Rank(S, i) \in Nat /\ Rank(S, j) \in Nat /\ Rank(S, i) < Rank(S, j)
      BY <2>2, RankGrows
    <3> QED
      BY <3>1
  <2>3. CASE j < i
    <3>1. Rank(S, i) \in Nat /\ Rank(S, j) \in Nat /\ Rank(S, j) < Rank(S, i)
      BY <2>3, RankGrows
    <3> QED
      BY <3>1
  <2> QED
    BY <2>1, <2>2, <2>3
<1>2. IsFiniteSet(S)
  <2>1. 1 \in Int /\ n \in Int
    OBVIOUS
  <2>2. IsFiniteSet(1..n)
    BY <2>1, FS_Interval, Zenon
  <2> QED
    BY <2>2, FS_Subset
<1>3. Rank(S, i) \in 1..Cardinality(S) /\ Cardinality(S) \in Nat
  <2> DEFINE A == {x \in S : x <= i}
  <2>1. A \subseteq S /\ i \in A
    OBVIOUS
  <2>2. IsFiniteSet(A) /\ Cardinality(A) <= Cardinality(S)
    BY <1>2, <2>1, FS_Subset
  <2>3. Cardinality(A) \in Nat /\ Cardinality(S) \in Nat /\ (Cardinality(A) = 0 <=> A = {})
    BY <1>2, <2>2, FS_CardinalityType, FS_EmptySet
  <2> QED
    BY <2>1, <2>2, <2>3 DEF Rank
<1>4. i = CHOOSE x \in S : Rank(S, x) = Rank(S, i)
  BY <1>1
<1> QED
  BY <1>3, <1>4 DEF KeysAt, Rank

(* The first elements of a sequence.                                       *)
LEMMA Prefix ==
  ASSUME NEW T, NEW s \in Seq(T), NEW m \in 0..Len(s)
  PROVE  /\ Len(SubSeq(s, 1, m)) = m /\ SubSeq(s, 1, m) \in Seq(T)
         /\ m < Len(s) => SubSeq(s, 1, m + 1) = Append(SubSeq(s, 1, m), s[m + 1])
<1>1. Len(SubSeq(s, 1, m)) = m /\ SubSeq(s, 1, m) \in Seq(T)
  OBVIOUS
<1>2. ASSUME m < Len(s) PROVE SubSeq(s, 1, m + 1) = Append(SubSeq(s, 1, m), s[m + 1])
  BY <1>2
<1> QED
  BY <1>1, <1>2

-----------------------------------------------------------------------------
(***************************************************************************)
(* What an analyzer has collected from the first k objects                 *)
(***************************************************************************)
Misnamed  == Where(LAMBDA o : ~o.matches)
Encrypted == Where(LAMBDA o : o.encrypted)
WantedAt  == Where(Wanted)
InfectedAt == {j \in WantedAt : objects[j].infected /\ objects[j].size <= ClamdLimit}
KeysOf(S) == {objects[i].key : i \in S}
AllKeys   == KeysOf(DOMAIN objects)

(* CheckNamingConvention: the first examples, and a count.                 *)
NamingOf(n) ==
  [count |-> n,
   examples |-> SubSeq(KeysAt(Misnamed), 1, IF n < MaxExamples THEN n ELSE MaxExamples)]
Named(c, k) == c = NamingOf(Cardinality(Misnamed \cap 1..k))

(* AuditEncryption: a sample of the first objects.                         *)
Sample(x, y, u) == [checked |-> x, encrypted |-> y, unencryptedKeys |-> u]
InSample(k) == IF k < MaxSamples THEN k ELSE MaxSamples
SampleIs(x, y, u) ==
  /\ y \in Nat /\ u \in Seq(AllKeys) /\ y + Len(u) <= x
  /\ y <= Cardinality(Encrypted \cap 1..x)
  /\ \A n \in DOMAIN u : \E i \in (1..x) \ Encrypted : u[n] = objects[i].key
Sampled(c, k) == \E y, u : c = Sample(InSample(k), y, u) /\ SampleIs(InSample(k), y, u)

(* ScanObjectsForVirus: wanted objects are scanned or are errors.          *)
VirusScan(n, infected, errors, limit) ==
  [scanned |-> n, infected |-> infected, errors |-> errors, limit |-> limit]
ScanIs(n, infected, errors, limit, k) ==
  /\ n \in Nat /\ limit \in BOOLEAN
  /\ infected \subseteq KeysOf(InfectedAt \cap 1..k)
  /\ errors \subseteq KeysOf(WantedAt \cap 1..k)
  /\ ~limit => /\ n + Cardinality(errors) = Cardinality(WantedAt \cap 1..k)
               /\ KeysOf(InfectedAt \cap 1..k) \subseteq infected \cup errors
Scanned(c, k) ==
  \E n, infected, errors, limit :
    c = VirusScan(n, infected, errors, limit) /\ ScanIs(n, infected, errors, limit, k)

(* The bucket is a sequence of objects with different keys.                *)
IsBucket == objects \in Buckets

LEMMA BucketType ==
  ASSUME IsBucket
  PROVE  /\ objects \in Seq(ToSet(objects)) /\ Len(objects) \in Nat
         /\ DOMAIN objects = 1..Len(objects)
         /\ \A i, j \in DOMAIN objects : objects[i].key = objects[j].key => i = j
         /\ \A i \in DOMAIN objects : objects[i].size \in Nat
<1>1. objects \in Seq(ToSet(objects))
  BY ScanAssumption DEF IsBucket
<1>2. Len(objects) \in Nat /\ DOMAIN objects = 1..Len(objects)
  BY <1>1
<1> QED
  BY <1>1, <1>2, ScanAssumption DEF IsBucket

LEMMA NamingStep ==
  ASSUME IsBucket, NEW k \in 0..Len(objects) - 1, NEW c, Named(c, k)
  PROVE  Named(CheckName(c, objects[k + 1]), k + 1)
<1> DEFINE S == Misnamed
           m == Cardinality(S \cap 1..k)
           o == objects[k + 1]
<1>1. /\ Len(objects) \in Nat /\ S \in SUBSET (1..Len(objects)) /\ k + 1 \in DOMAIN objects
      /\ (k + 1 \in S <=> ~o.matches)
  BY BucketType DEF Misnamed, Where
<1>2. CASE o.matches
  <2>1. S \cap 1..k + 1 = S \cap 1..k
    BY <1>1, <1>2, NoMore
  <2> QED
    BY <1>2, <2>1 DEF Named, CheckName
<1>3. CASE ~o.matches
  <2>1. /\ Cardinality(S \cap 1..k + 1) = m + 1 /\ m \in Nat
        /\ S \cap 1..k + 1 = {j \in S : j <= k + 1}
    <3>1. Cardinality(S \cap 1..k + 1) = m + 1 /\ m \in Nat
      <4>1. k + 1 \in S
        BY <1>1, <1>3
      <4>2. Cardinality(S \cap 1..k + 1) = m + 1
        BY <1>1, <4>1, OneMore
      <4>3. m \in Nat
        BY <1>1, Below
      <4> QED
        BY <4>2, <4>3
    <3>2. S \cap 1..k + 1 = {j \in S : j <= k + 1}
      <4>1. \A j \in S : j \in Nat /\ 1 <= j /\ (j \in 1..k + 1 <=> j <= k + 1)
        BY <1>1
      <4> QED
        BY <4>1
    <3> QED
      BY <3>1, <3>2
  <2>2. Rank(S, k + 1) = m + 1
    BY <2>1 DEF Rank
  <2>3. m + 1 \in 1..Cardinality(S) /\ Cardinality(S) \in Nat /\ KeysAt(S)[m + 1] = o.key
    BY <1>1, <1>3, <2>2, KeyAtRank
  <2> DEFINE keys == KeysAt(S)
             len(x) == IF x < MaxExamples THEN x ELSE MaxExamples
             T == {keys[x] : x \in 1..Cardinality(S)}
  <2>4. keys \in Seq(T) /\ Len(keys) = Cardinality(S)
    <3>1. keys = [x \in 1..Cardinality(S) |-> keys[x]]
      BY DEF KeysAt
    <3> HIDE DEF keys
    <3> QED
      BY <2>3, <3>1
  <2>5. MaxExamples \in Nat
    BY DeepAssumption
  <2>6. Len(SubSeq(keys, 1, len(m))) = len(m)
    <3>1. len(m) \in 0..Cardinality(S)
      BY <2>1, <2>3, <2>5
    <3> HIDE DEF keys, T, len
    <3> QED
      BY <2>3, <2>4, <2>5, <3>1, Prefix
  <2>7. CASE m < MaxExamples
    <3>1. SubSeq(keys, 1, m + 1) = Append(SubSeq(keys, 1, m), keys[m + 1])
      <4>1. m \in 0..Len(keys) /\ m < Len(keys)
        BY <2>1, <2>3, <2>4
      <4> HIDE DEF keys, T, m
      <4> QED
        BY <2>4, <4>1, Prefix
    <3>2. len(m + 1) = m + 1 /\ len(m) = m
      BY <2>1, <2>5, <2>7
    <3>3. CheckName(c, o) = [count |-> m + 1, examples |-> Append(SubSeq(keys, 1, m), o.key)]
      BY <1>3, <2>6, <2>7, <3>2 DEF CheckName, Named, NamingOf
    <3>4. NamingOf(m + 1) = [count |-> m + 1, examples |-> SubSeq(keys, 1, m + 1)]
      BY <3>2 DEF NamingOf
    <3> QED
      BY <2>1, <2>3, <3>1, <3>3, <3>4 DEF Named
  <2>8. CASE ~(m < MaxExamples)
    <3>1. len(m + 1) = MaxExamples /\ len(m) = MaxExamples
      BY <2>1, <2>5, <2>8
    <3>2. CheckName(c, o) = [count |-> m + 1, examples |-> SubSeq(keys, 1, MaxExamples)]
      BY <1>3, <2>5, <2>6, <2>8, <3>1 DEF CheckName, Named, NamingOf
    <3>3. NamingOf(m + 1) = [count |-> m + 1, examples |-> SubSeq(keys, 1, MaxExamples)]
      BY <3>1 DEF NamingOf
    <3> QED
      BY <2>1, <3>2, <3>3 DEF Named
  <2> QED
    BY <2>7, <2>8
<1> QED
  BY <1>2, <1>3


(* How SampleObject and ScanForVirus update the records.                   *)
Listed(c, key) == [c EXCEPT !.checked = @ + 1, !.unencryptedKeys = Append(@, key)]
Failed(c, key) == [c EXCEPT !.errors = @ \cup {key}]
Clean(c, found) == [c EXCEPT !.scanned = @ + 1, !.infected = found]

LEMMA OneChecked ==
  ASSUME NEW x, NEW y, NEW u, NEW c, c = Sample(x, y, u)
  PROVE  [c EXCEPT !.checked = @ + 1] = Sample(x + 1, y, u)
<1>1. c.checked = x
  BY DEF Sample
<1>2. [c EXCEPT !.checked = x + 1] = Sample(x + 1, y, u)
  BY DEF Sample
<1> QED
  BY <1>1, <1>2, Zenon

LEMMA OneEncrypted ==
  ASSUME NEW x, NEW y, NEW u, NEW c, c = Sample(x, y, u)
  PROVE  [c EXCEPT !.checked = @ + 1, !.encrypted = @ + 1] = Sample(x + 1, y + 1, u)
<1>1. PICK d : d = [c EXCEPT !.checked = @ + 1]
  OBVIOUS
<1>2. d = Sample(x + 1, y, u) /\ c.encrypted = y
  BY <1>1 DEF Sample
<1>3. [d EXCEPT !.encrypted = y + 1] = Sample(x + 1, y + 1, u)
  BY <1>2 DEF Sample
<1>4. [c EXCEPT !.checked = @ + 1, !.encrypted = @ + 1] = [d EXCEPT !.encrypted = y + 1]
  BY <1>1, <1>2, Zenon
<1> QED
  BY <1>3, <1>4, Zenon

LEMMA OneUnencrypted ==
  ASSUME NEW x, NEW y, NEW u, NEW key, NEW c, c = Sample(x, y, u)
  PROVE  Listed(c, key) = Sample(x + 1, y, Append(u, key))
<1>1. PICK d : d = [c EXCEPT !.checked = @ + 1]
  OBVIOUS
<1>2. d = Sample(x + 1, y, u) /\ c.unencryptedKeys = u
  BY <1>1 DEF Sample
<1>3. [d EXCEPT !.unencryptedKeys = Append(u, key)] = Sample(x + 1, y, Append(u, key))
  BY <1>2 DEF Sample
<1>4. [c EXCEPT !.checked = @ + 1, !.unencryptedKeys = Append(@, key)]
        = [d EXCEPT !.unencryptedKeys = Append(u, key)]
  BY <1>1, <1>2, Zenon
<1> QED
  BY <1>3, <1>4, Zenon DEF Listed

LEMMA OneError ==
  ASSUME NEW n, NEW infected, NEW errors, NEW limit, NEW key, NEW c,
         c = VirusScan(n, infected, errors, limit)
  PROVE  Failed(c, key) = VirusScan(n, infected, errors \cup {key}, limit)
<1>1. c.errors = errors
  BY DEF VirusScan
<1>2. [c EXCEPT !.errors = errors \cup {key}] = VirusScan(n, infected, errors \cup {key}, limit)
  BY DEF VirusScan
<1> QED
  BY <1>1, <1>2, Zenon DEF Failed

LEMMA OneScanned ==
  ASSUME NEW n, NEW infected, NEW errors, NEW limit, NEW found, NEW c,
         c = VirusScan(n, infected, errors, limit)
  PROVE  Clean(c, found) = VirusScan(n + 1, found, errors, limit)
<1>1. PICK d : d = [c EXCEPT !.scanned = @ + 1]
  OBVIOUS
<1>2. d = VirusScan(n + 1, infected, errors, limit)
  BY <1>1 DEF VirusScan
<1>3. [d EXCEPT !.infected = found] = VirusScan(n + 1, found, errors, limit)
  BY <1>2 DEF VirusScan
<1>4. [c EXCEPT !.scanned = @ + 1, !.infected = found] = [d EXCEPT !.infected = found]
  BY <1>1, Zenon
<1> QED
  BY <1>3, <1>4, Zenon DEF Clean

LEMMA EncryptionStep ==
  ASSUME IsBucket, NEW k \in 0..Len(objects) - 1, NEW c, Sampled(c, k), NEW fails
  PROVE  Sampled(SampleObject(c, objects[k + 1], fails), k + 1)
<1> DEFINE o == objects[k + 1]
<1>1. PICK y, u : c = Sample(InSample(k), y, u) /\ SampleIs(InSample(k), y, u)
  BY DEF Sampled
<1>2. /\ Len(objects) \in Nat /\ Encrypted \in SUBSET (1..Len(objects))
      /\ k + 1 \in DOMAIN objects /\ (k + 1 \in Encrypted <=> o.encrypted)
  BY BucketType DEF Encrypted, Where
<1>3. MaxSamples \in Nat /\ k \in Nat
  BY DeepAssumption
<1>4. CASE k >= MaxSamples
  <2>1. InSample(k) = MaxSamples /\ InSample(k + 1) = MaxSamples
    BY <1>3, <1>4 DEF InSample
  <2>2. SampleObject(c, o, fails) = c
    BY <1>1, <1>3, <2>1 DEF SampleObject, Sample
  <2> QED
    BY <1>1, <2>1, <2>2 DEF Sampled
<1>5. CASE k < MaxSamples
  <2>1. InSample(k) = k /\ InSample(k + 1) = k + 1
    BY <1>3, <1>5 DEF InSample
  <2>2. /\ y \in Nat /\ u \in Seq(AllKeys) /\ Len(u) \in Nat /\ y + Len(u) <= k
        /\ y <= Cardinality(Encrypted \cap 1..k)
        /\ \A n \in DOMAIN u : \E i \in (1..k) \ Encrypted : u[n] = objects[i].key
    BY <1>1, <2>1 DEF SampleIs
  <2>3. Cardinality(Encrypted \cap 1..k) \in Nat
    BY <1>2, Below
  <2>4. Cardinality(Encrypted \cap 1..k + 1)
          = IF o.encrypted THEN Cardinality(Encrypted \cap 1..k) + 1
                           ELSE Cardinality(Encrypted \cap 1..k)
    <3>1. CASE o.encrypted
      BY <1>2, <3>1, OneMore
    <3>2. CASE ~o.encrypted
      <4>1. Encrypted \cap 1..k + 1 = Encrypted \cap 1..k
        BY <1>2, <3>2, NoMore
      <4> QED
        BY <3>2, <4>1
    <3> QED
      BY <3>1, <3>2
  <2>5. \A n \in DOMAIN u : \E i \in (1..k + 1) \ Encrypted : u[n] = objects[i].key
    <3>1. (1..k) \ Encrypted \subseteq (1..k + 1) \ Encrypted
      BY <1>3
    <3> QED
      BY <2>2, <3>1
  <2> DEFINE d == SampleObject(c, o, fails)
  <2>9. ~(c.checked >= MaxSamples)
    BY <1>1, <1>3, <1>5, <2>1 DEF Sample
  <2>10. c = Sample(k, y, u)
    BY <1>1, <2>1
  <2>6. CASE o.key \in fails
    <3>1. d = Sample(k + 1, y, u)
      <4>1. d = [c EXCEPT !.checked = @ + 1]
        BY <2>6, <2>9 DEF SampleObject
      <4>2. [c EXCEPT !.checked = @ + 1] = Sample(k + 1, y, u)
        BY <2>10, OneChecked, Zenon
      <4> QED
        BY <4>1, <4>2, Zenon
    <3>2. SampleIs(k + 1, y, u)
      BY <1>3, <2>2, <2>3, <2>4, <2>5 DEF SampleIs
    <3> QED
      BY <2>1, <3>1, <3>2 DEF Sampled
  <2>7. CASE o.key \notin fails /\ o.encrypted
    <3>1. d = Sample(k + 1, y + 1, u)
      <4>1. d = [c EXCEPT !.checked = @ + 1, !.encrypted = @ + 1]
        BY <2>7, <2>9 DEF SampleObject
      <4>2. [c EXCEPT !.checked = @ + 1, !.encrypted = @ + 1] = Sample(k + 1, y + 1, u)
        BY <2>10, OneEncrypted, Zenon
      <4> QED
        BY <4>1, <4>2, Zenon
    <3>2. SampleIs(k + 1, y + 1, u)
      BY <1>3, <2>2, <2>3, <2>4, <2>5, <2>7 DEF SampleIs
    <3> QED
      BY <2>1, <3>1, <3>2 DEF Sampled
  <2>8. CASE o.key \notin fails /\ ~o.encrypted
    <3> DEFINE w == Append(u, o.key)
    <3>1. d = Sample(k + 1, y, w)
      <4>1. d = Listed(c, o.key)
        BY <2>8, <2>9, Zenon DEF SampleObject, Listed
      <4>2. Listed(c, o.key) = Sample(k + 1, y, w)
        BY <2>10, OneUnencrypted
      <4> QED
        BY <4>1, <4>2, Zenon
    <3>2. /\ w \in Seq(AllKeys) /\ Len(w) = Len(u) + 1 /\ DOMAIN w = 1..Len(u) + 1
          /\ \A n \in DOMAIN u : w[n] = u[n]
          /\ w[Len(u) + 1] = o.key /\ DOMAIN u = 1..Len(u)
      <4>1. o.key \in AllKeys
        BY <1>2 DEF AllKeys, KeysOf
      <4> HIDE DEF o
      <4> QED
        BY <2>2, <4>1
    <3>3. k + 1 \in (1..k + 1) \ Encrypted
      BY <1>2, <1>3, <2>8
    <3>4. ASSUME NEW n \in DOMAIN w PROVE \E i \in (1..k + 1) \ Encrypted : w[n] = objects[i].key
      <4>1. n \in DOMAIN u \/ n = Len(u) + 1
        BY <2>2, <3>2
      <4> QED
        BY <2>5, <3>2, <3>3, <4>1
    <3> HIDE DEF w
    <3>5. SampleIs(k + 1, y, w)
      BY <1>3, <2>2, <2>3, <2>4, <2>8, <3>2, <3>4 DEF SampleIs
    <3> QED
      BY <2>1, <3>1, <3>5 DEF Sampled
  <2> QED
    BY <2>6, <2>7, <2>8
<1> QED
  BY <1>3, <1>4, <1>5

LEMMA VirusStep ==
  ASSUME IsBucket, NEW k \in 0..Len(objects) - 1, NEW c, Scanned(c, k), NEW fails
  PROVE  Scanned(ScanForVirus(c, objects[k + 1], fails), k + 1)
<1> DEFINE o == objects[k + 1]
           d == ScanForVirus(c, o, fails)
<1>1. PICK n, infected, errors, limit :
        c = VirusScan(n, infected, errors, limit) /\ ScanIs(n, infected, errors, limit, k)
  BY DEF Scanned
<1>2. /\ Len(objects) \in Nat /\ k + 1 \in DOMAIN objects /\ k \in Nat
      /\ WantedAt \in SUBSET (1..Len(objects)) /\ InfectedAt \in SUBSET WantedAt
      /\ (k + 1 \in WantedAt <=> Wanted(o))
      /\ (k + 1 \in InfectedAt <=> Wanted(o) /\ o.infected /\ o.size <= ClamdLimit)
  BY BucketType DEF WantedAt, InfectedAt, Where
<1>3. /\ KeysOf(WantedAt \cap 1..k) \subseteq KeysOf(WantedAt \cap 1..k + 1)
      /\ KeysOf(InfectedAt \cap 1..k) \subseteq KeysOf(InfectedAt \cap 1..k + 1)
  BY <1>2 DEF KeysOf
<1>4. ASSUME ScanIs(n, infected, errors, TRUE, k), d = VirusScan(n, infected, errors, TRUE)
      PROVE  Scanned(d, k + 1)
  BY <1>3, <1>4 DEF Scanned, ScanIs
<1>5. CASE limit
  <2>1. d = c
    BY <1>1, <1>5 DEF ScanForVirus, VirusScan
  <2> QED
    BY <1>1, <1>4, <1>5, <2>1 DEF ScanIs
<1>6. CASE ~limit /\ MaxCount > 0 /\ n >= MaxCount
  <2>1. d = VirusScan(n, infected, errors, TRUE)
    BY <1>1, <1>6 DEF ScanForVirus, VirusScan
  <2>2. ScanIs(n, infected, errors, TRUE, k)
    BY <1>1 DEF ScanIs
  <2> QED
    BY <1>4, <2>1, <2>2
<1>7. CASE ~limit /\ ~(MaxCount > 0 /\ n >= MaxCount) /\ ~Wanted(o)
  <2>1. d = c
    BY <1>1, <1>7 DEF ScanForVirus, VirusScan
  <2>2. WantedAt \cap 1..k + 1 = WantedAt \cap 1..k /\ InfectedAt \cap 1..k + 1 = InfectedAt \cap 1..k
    BY <1>2, <1>7
  <2>3. ScanIs(n, infected, errors, limit, k + 1)
    BY <1>1, <2>2 DEF ScanIs
  <2> QED
    BY <1>1, <2>1, <2>3 DEF Scanned
<1>8. CASE ~limit /\ ~(MaxCount > 0 /\ n >= MaxCount) /\ Wanted(o)
  <2>1. /\ n \in Nat /\ infected \subseteq KeysOf(InfectedAt \cap 1..k)
        /\ errors \subseteq KeysOf(WantedAt \cap 1..k)
        /\ n + Cardinality(errors) = Cardinality(WantedAt \cap 1..k)
        /\ KeysOf(InfectedAt \cap 1..k) \subseteq infected \cup errors
    BY <1>1, <1>8 DEF ScanIs
  <2>2. Cardinality(WantedAt \cap 1..k + 1) = Cardinality(WantedAt \cap 1..k) + 1
    <3>1. Len(objects) \in Nat /\ WantedAt \in SUBSET (1..Len(objects)) /\ k + 1 \in WantedAt
      BY <1>2, <1>8
    <3> QED
      BY <3>1, OneMore
  <2>3. IsFiniteSet(errors) /\ Cardinality(errors) \in Nat
    <3>1. IsFiniteSet(WantedAt \cap 1..k)
      BY <1>2, Below
    <3>2. IsFiniteSet(KeysOf(WantedAt \cap 1..k))
      <4> DEFINE T == WantedAt \cap 1..k
                 f == [i \in T |-> objects[i].key]
      <4>1. f \in Surjection(T, KeysOf(T))
        BY DEF Surjection, KeysOf
      <4> HIDE DEF T, f
      <4> QED
        BY <3>1, <4>1, FS_Surjection DEF T
    <3> QED
      BY <2>1, <3>2, FS_Subset, FS_CardinalityType
  <2>4. o.key \in KeysOf(WantedAt \cap 1..k + 1)
    BY <1>2, <1>8 DEF KeysOf
  <2>5. InfectedAt \cap 1..k + 1 = IF o.infected /\ o.size <= ClamdLimit
                                    THEN (InfectedAt \cap 1..k) \cup {k + 1}
                                    ELSE InfectedAt \cap 1..k
    <3>1. 1..k + 1 = 1..k \cup {k + 1}
      BY <1>2
    <3> QED
      BY <1>2, <1>8, <3>1
  <2>6. KeysOf(InfectedAt \cap 1..k + 1)
          = IF o.infected /\ o.size <= ClamdLimit THEN KeysOf(InfectedAt \cap 1..k) \cup {o.key}
                                                 ELSE KeysOf(InfectedAt \cap 1..k)
    BY <2>5 DEF KeysOf
  <2>9. ~c.limit /\ c.scanned = n
    BY <1>1, <1>8 DEF VirusScan
  <2>10. limit = FALSE
    BY <1>1, <1>8 DEF ScanIs
  <2>7. CASE o.key \in fails
    <3> DEFINE e == errors \cup {o.key}
    <3>1. d = VirusScan(n, infected, e, FALSE)
      <4>1. d = Failed(c, o.key)
        BY <1>8, <2>7, <2>9, Zenon DEF ScanForVirus, Failed
      <4>2. Failed(c, o.key) = VirusScan(n, infected, e, limit)
        BY <1>1, OneError
      <4> QED
        BY <2>10, <4>1, <4>2, Zenon
    <3>2. Cardinality(e) = Cardinality(errors) + 1
      <4>1. o.key \notin errors
        <5> SUFFICES ASSUME o.key \in errors PROVE FALSE
          OBVIOUS
        <5>1. PICK i \in WantedAt \cap 1..k : o.key = objects[i].key
          BY <2>1 DEF KeysOf
        <5>2. i \in DOMAIN objects /\ i # k + 1
          BY <1>2, BucketType
        <5> QED
          BY <1>2, <5>1, <5>2, BucketType
      <4> QED
        BY <2>3, <4>1, FS_AddElement
    <3>3. ScanIs(n, infected, e, FALSE, k + 1)
      <4>1. infected \subseteq KeysOf(InfectedAt \cap 1..k + 1) /\ e \subseteq KeysOf(WantedAt \cap 1..k + 1)
        BY <1>3, <2>1, <2>4
      <4>2. n + Cardinality(e) = Cardinality(WantedAt \cap 1..k + 1)
        BY <2>1, <2>2, <2>3, <3>2
      <4>3. KeysOf(InfectedAt \cap 1..k + 1) \subseteq infected \cup e
        BY <2>1, <2>6
      <4> QED
        BY <2>1, <4>1, <4>2, <4>3 DEF ScanIs
    <3> QED
      BY <3>1, <3>3 DEF Scanned
  <2>8. CASE o.key \notin fails
    <3> DEFINE found == IF ScanWithClamd(o) = "infected" THEN infected \cup {o.key} ELSE infected
    <3>1. d = VirusScan(n + 1, found, errors, FALSE)
      <4>1. d = Clean(c, IF ScanWithClamd(o) = "infected" THEN c.infected \cup {o.key}
                                                        ELSE c.infected)
        BY <1>8, <2>8, <2>9, Zenon DEF ScanForVirus, Clean
      <4>2. Clean(c, found) = VirusScan(n + 1, found, errors, limit)
        BY <1>1, OneScanned
      <4>3. c.infected = infected
        BY <1>1 DEF VirusScan
      <4> QED
        BY <2>10, <4>1, <4>2, <4>3, Zenon
    <3>2. ScanWithClamd(o) = "infected" <=> o.infected /\ o.size <= ClamdLimit
      <4>1. ClamdLimit \in Nat /\ o.size \in Nat
        BY <1>2, BucketType, DeepAssumption
      <4> QED
        BY <4>1 DEF ScanWithClamd, Clamd
    <3>3. ScanIs(n + 1, found, errors, FALSE, k + 1)
      <4>1. found \subseteq KeysOf(InfectedAt \cap 1..k + 1) /\ errors \subseteq KeysOf(WantedAt \cap 1..k + 1)
        BY <1>3, <2>1, <2>6, <3>2
      <4>2. n + 1 + Cardinality(errors) = Cardinality(WantedAt \cap 1..k + 1) /\ n + 1 \in Nat
        <5>1. Cardinality(WantedAt \cap 1..k) \in Nat
          BY <1>2, Below
        <5> QED
          BY <2>1, <2>2, <2>3, <5>1
      <4>3. KeysOf(InfectedAt \cap 1..k + 1) \subseteq found \cup errors
        BY <2>1, <2>6, <3>2
      <4> QED
        BY <4>1, <4>2, <4>3 DEF ScanIs
    <3> QED
      BY <3>1, <3>3 DEF Scanned
  <2> QED
    BY <2>7, <2>8
<1> QED
  <2>1. limit \in BOOLEAN
    BY <1>1 DEF ScanIs
  <2> QED
    BY <1>5, <1>6, <1>7, <1>8, <2>1

-----------------------------------------------------------------------------
(***************************************************************************)
(* What the analyzers collect that report on the whole bucket or not at    *)
(* all                                                                     *)
(***************************************************************************)
(* FindDuplicates: the objects of one ETag.                                *)
WithTag(e) == Where(LAMBDA o : o.etag = e)
Group(e, S) == [etag |-> e, count |-> Cardinality(S), totalSize |-> Sizes(S), keys |-> KeysAt(S)]
Etags(k) == {objects[i].etag : i \in 1..k} \ {None}
Grouped(c, k) == c = [e \in Etags(k) |-> Group(e, WithTag(e) \cap 1..k)]

(* FindLargeFiles                                                          *)
Large == Where(LAMBDA o : o.size >= LargeFileThreshold)
FilesOf(S) == {[key |-> objects[i].key, size |-> objects[i].size] : i \in S}
Kept(c, k) == c = FilesOf(Large \cap 1..k)

(* EstimateCost: the breakdown sums up to the price of the objects.        *)
Prices == [i \in DOMAIN objects |-> objects[i].size * Rate(ClassOf(objects[i]))]
Breakdown(totals) == [class \in DOMAIN totals |-> totals[class] * Rate(class)]
Priced(c, k) ==
  /\ IsFiniteSet(DOMAIN c) /\ \A class \in DOMAIN c : c[class] \in Int
  /\ SumFunctionOnSet(Breakdown(c), DOMAIN c) = SumFunctionOnSet(Prices, 1..k)

LEMMA LargeStep ==
  ASSUME IsBucket, NEW k \in 0..Len(objects) - 1, NEW c, Kept(c, k)
  PROVE  Kept(KeepLarge(c, objects[k + 1]), k + 1)
<1> DEFINE o == objects[k + 1]
<1>1. /\ Len(objects) \in Nat /\ Large \in SUBSET (1..Len(objects)) /\ k + 1 \in DOMAIN objects
      /\ (k + 1 \in Large <=> o.size >= LargeFileThreshold)
  BY BucketType DEF Large, Where
<1>2. CASE o.size >= LargeFileThreshold
  <2>1. Large \cap 1..k + 1 = (Large \cap 1..k) \cup {k + 1}
    BY <1>1, <1>2, OneMore
  <2>2. KeepLarge(c, o) = c \cup {[key |-> o.key, size |-> o.size]}
    BY <1>2 DEF KeepLarge
  <2>3. FilesOf((Large \cap 1..k) \cup {k + 1})
          = FilesOf(Large \cap 1..k) \cup {[key |-> o.key, size |-> o.size]}
    BY DEF FilesOf
  <2> QED
    BY <2>1, <2>2, <2>3 DEF Kept
<1>3. CASE ~(o.size >= LargeFileThreshold)
  <2>1. Large \cap 1..k + 1 = Large \cap 1..k
    BY <1>1, <1>3, NoMore
  <2> QED
    BY <1>3, <2>1 DEF Kept, KeepLarge
<1> QED
  BY <1>2, <1>3

LEMMA RateType == ASSUME NEW class PROVE Rate(class) \in Int
<1>1. \A c \in DOMAIN CostOverrides : CostOverrides[c] \in Int
  BY DeepAssumption
<1>2. \A c \in DOMAIN DefaultCosts : DefaultCosts[c] \in Int
  BY DEF DefaultCosts
<1> QED
  BY <1>1, <1>2 DEF Rate

LEMMA PricesType ==
  ASSUME IsBucket
  PROVE  \A i \in DOMAIN objects : Prices[i] \in Int
                                    /\ Prices[i] = objects[i].size * Rate(ClassOf(objects[i]))
BY BucketType, RateType DEF Prices

LEMMA CostStep ==
  ASSUME IsBucket, NEW k \in 0..Len(objects) - 1, NEW c, Priced(c, k)
  PROVE  Priced(AddToClass(c, objects[k + 1]), k + 1)
<1> DEFINE o == objects[k + 1]
           class == ClassOf(o)
           d == AddToClass(c, o)
<1>1. /\ Len(objects) \in Nat /\ k + 1 \in DOMAIN objects /\ k \in Nat
      /\ 1..k \subseteq DOMAIN objects /\ o.size \in Int
  BY BucketType
<1>2. PICK r \in Int : r = Rate(class) /\ Prices[k + 1] = o.size * r /\ Prices[k + 1] \in Int
  BY <1>1, RateType, PricesType
<1>3. SumFunctionOnSet(Prices, 1..k + 1) = SumFunctionOnSet(Prices, 1..k) + o.size * r
  <2>1. 1..k + 1 = (1..k) \cup {k + 1} /\ k + 1 \notin 1..k
    BY <1>1
  <2>2. IsFiniteSet(1..k)
    <3>1. 1 \in Int /\ k \in Int
      BY <1>1
    <3> QED
      BY <3>1, FS_Interval, Zenon
  <2>3. \A i \in 1..k : Prices[i] \in Int
    BY <1>1, PricesType
  <2>4. SumFunctionOnSet(Prices, (1..k) \cup {k + 1}) = SumFunctionOnSet(Prices, 1..k) + Prices[k + 1]
    <3> DEFINE S == 1..k
               y == k + 1
    <3>1. Prices[y] \in Int /\ y \notin S /\ IsFiniteSet(S)
      BY <1>2, <2>1, <2>2
    <3>2. \A i \in S : Prices[i] \in Int
      BY <2>3
    <3> HIDE DEF S, y
    <3>3. SumFunctionOnSet(Prices, S \cup {y}) = SumFunctionOnSet(Prices, S) + Prices[y]
      BY <3>1, <3>2, SumOne
    <3> QED
      BY <3>3 DEF S, y
  <2> QED
    BY <1>2, <2>1, <2>4
<1>4. /\ IsFiniteSet(DOMAIN c) /\ \A e \in DOMAIN c : c[e] \in Int
      /\ SumFunctionOnSet(Breakdown(c), DOMAIN c) = SumFunctionOnSet(Prices, 1..k)
  BY DEF Priced
<1>5. /\ DOMAIN d = DOMAIN c \cup {class}
      /\ \A e \in DOMAIN c \ {class} : d[e] = c[e]
      /\ d[class] = (IF class \in DOMAIN c THEN c[class] ELSE 0) + o.size
  <2>1. d = [e \in DOMAIN c \cup {class} |->
               (IF e \in DOMAIN c THEN c[e] ELSE 0) + (IF e = class THEN o.size ELSE 0)]
    BY DEF AddToClass
  <2> HIDE DEF d, class, o
  <2> QED
    BY <1>1, <1>4, <2>1
<1> HIDE DEF d, class, o
<1>6. IsFiniteSet(DOMAIN d)
  BY <1>4, <1>5, FS_AddElement
<1>7. \A e \in DOMAIN d : d[e] \in Int
  BY <1>1, <1>4, <1>5
<1> DEFINE old == DOMAIN c \ {class}
           f == Breakdown(c)
           g == Breakdown(d)
<1>8. /\ \A e \in DOMAIN c : f[e] = c[e] * Rate(e) /\ f[e] \in Int
      /\ \A e \in DOMAIN d : g[e] = d[e] * Rate(e) /\ g[e] \in Int
  BY <1>4, <1>7, RateType DEF Breakdown
<1>9. /\ IsFiniteSet(old) /\ \A e \in old : f[e] \in Int /\ g[e] = f[e]
  <2>1. IsFiniteSet(old)
    BY <1>4, FS_Subset
  <2> HIDE DEF f, g
  <2> QED
    BY <1>5, <1>8, <2>1
<1> HIDE DEF f, g
<1>10. SumFunctionOnSet(g, DOMAIN d) = SumFunctionOnSet(f, old) + g[class]
  <2>1. DOMAIN d = old \cup {class} /\ class \notin old
    BY <1>5
  <2>2. g[class] \in Int
    BY <1>5, <1>8
  <2> HIDE DEF old
  <2> QED
    BY <1>9, <2>1, <2>2, SumMore
<1>11. SumFunctionOnSet(f, old) \in Int
  <2> HIDE DEF old
  <2> QED
    BY <1>9, SumInt
<1>12. SumFunctionOnSet(f, DOMAIN c)
         = SumFunctionOnSet(f, old) + (IF class \in DOMAIN c THEN f[class] ELSE 0)
  <2>1. CASE class \in DOMAIN c
    <3>1. DOMAIN c = old \cup {class} /\ class \notin old
      BY <2>1
    <3>2. f[class] \in Int
      BY <1>8, <2>1
    <3> HIDE DEF old
    <3>3. SumFunctionOnSet(f, old \cup {class}) = SumFunctionOnSet(f, old) + f[class]
      BY <1>9, <3>1, <3>2, SumOne
    <3> QED
      BY <2>1, <3>1, <3>3
  <2>2. CASE class \notin DOMAIN c
    <3>1. DOMAIN c = old
      BY <2>2
    <3> HIDE DEF old
    <3> QED
      BY <1>11, <2>2, <3>1
  <2> QED
    BY <2>1, <2>2
<1>13. g[class] = (IF class \in DOMAIN c THEN f[class] ELSE 0) + o.size * r
  <2>1. g[class] = d[class] * r
    BY <1>2, <1>5, <1>8 DEF class
  <2>2. CASE class \in DOMAIN c
    <3>1. f[class] = c[class] * r /\ c[class] \in Int
      BY <1>2, <1>4, <1>8, <2>2 DEF class
    <3>2. (c[class] + o.size) * r = c[class] * r + o.size * r
      BY <1>1, <3>1 DEF o
    <3> QED
      BY <1>5, <2>1, <2>2, <3>1, <3>2
  <2>3. CASE class \notin DOMAIN c
    <3>1. d[class] = o.size
      BY <1>1, <1>5, <2>3 DEF o
    <3>2. o.size * r \in Int
      BY <1>1 DEF o
    <3> QED
      BY <2>1, <2>3, <3>1, <3>2
  <2> QED
    BY <2>2, <2>3
<1>14. SumFunctionOnSet(g, DOMAIN d) = SumFunctionOnSet(Prices, 1..k + 1)
  <2>1. o.size * r \in Int /\ (class \in DOMAIN c => f[class] \in Int)
    BY <1>1, <1>8 DEF o
  <2> DEFINE was == IF class \in DOMAIN c THEN f[class] ELSE 0
  <2>2. was \in Int /\ g[class] = was + o.size * r
    BY <1>13, <2>1
  <2>3. SumFunctionOnSet(Prices, 1..k) = SumFunctionOnSet(f, old) + was
    BY <1>4, <1>12 DEF f
  <2> HIDE DEF was, old
  <2> QED
    BY <1>3, <1>10, <1>11, <2>1, <2>2, <2>3 DEF o
<1> QED
  BY <1>6, <1>7, <1>14 DEF Priced, g, d, o

(* Every place in the order of a set's positions is taken, ...             *)
LEMMA RankOnto ==
  ASSUME NEW n \in Nat, NEW S \in SUBSET (1..n), NEW m \in 1..Cardinality(S)
  PROVE  \E i \in S : Rank(S, i) = m
<1> DEFINE f == [i \in S |-> Rank(S, i)]
           T == 1..Cardinality(S)
<1>1. Cardinality(S) \in Nat /\ IsFiniteSet(S)
  BY Below
<1>2. f \in [S -> T]
  <2>1. \A i \in S : Rank(S, i) \in T
    BY KeyAtRank
  <2> HIDE DEF T
  <2> QED
    BY <2>1
<1>3. ASSUME NEW i \in S, NEW j \in S, f[i] = f[j] PROVE i = j
  <2>1. CASE i < j
    <3>1. Rank(S, i) \in Nat /\ Rank(S, j) \in Nat /\ Rank(S, i) < Rank(S, j)
      BY <2>1, RankGrows
    <3> QED
      BY <1>3, <3>1
  <2>2. CASE j < i
    <3>1. Rank(S, i) \in Nat /\ Rank(S, j) \in Nat /\ Rank(S, j) < Rank(S, i)
      BY <2>2, RankGrows
    <3> QED
      BY <1>3, <3>1
  <2> QED
    BY <2>1, <2>2
<1>4. f \in Injection(S, T)
  BY <1>2, <1>3 DEF Injection, IsInjective
<1>5. IsFiniteSet(T) /\ Cardinality(T) = Cardinality(S)
  <2>1. 1 \in Int /\ Cardinality(S) \in Int
    BY <1>1
  <2>2. /\ IsFiniteSet(1..Cardinality(S))
        /\ Cardinality(1..Cardinality(S))
             = IF 1 > Cardinality(S) THEN 0 ELSE Cardinality(S) - 1 + 1
    BY <2>1, FS_Interval, Zenon
  <2> QED
    BY <1>1, <2>2
<1> HIDE DEF f, T
<1>6. f \in Surjection(S, T)
  BY <1>4, <1>5, FS_Injection
<1>7. \E i \in S : f[i] = m
  BY <1>6 DEF Surjection, T
<1> QED
  BY <1>7 DEF f

(* ... so that a position after all of them adds its key at the end.       *)
LEMMA KeysMore ==
  ASSUME IsBucket, NEW k \in 0..Len(objects) - 1, NEW S \in SUBSET (1..k)
  PROVE  KeysAt(S \cup {k + 1}) = Append(KeysAt(S), objects[k + 1].key)
<1> DEFINE T == S \cup {k + 1}
           c == Cardinality(S)
<1>1. /\ Len(objects) \in Nat /\ k \in Nat /\ k + 1 \in Nat
      /\ S \in SUBSET (1..k + 1) /\ T \in SUBSET (1..k + 1) /\ k + 1 \notin S
  BY BucketType
<1>2. IsFiniteSet(S) /\ c \in Nat /\ Cardinality(T) = c + 1
  <2>1. IsFiniteSet(S) /\ c \in Nat
    BY <1>1, Below
  <2> QED
    BY <1>1, <2>1, FS_AddElement
<1>3. ASSUME NEW i \in S PROVE Rank(T, i) = Rank(S, i)
  <2>1. i \in Int /\ i <= k /\ ~(k + 1 <= i)
    BY <1>1
  <2>2. {j \in T : j <= i} = {j \in S : j <= i}
    BY <2>1
  <2> QED
    BY <2>2 DEF Rank
<1>4. Rank(T, k + 1) = c + 1
  <2>1. \A j \in T : j <= k + 1
    BY <1>1
  <2>2. {j \in T : j <= k + 1} = T
    BY <2>1
  <2> QED
    BY <1>2, <2>2 DEF Rank
<1>5. ASSUME NEW m \in 1..c PROVE KeysAt(T)[m] = KeysAt(S)[m]
  <2>1. PICK i \in S : Rank(S, i) = m
    BY <1>1, RankOnto
  <2>2. KeysAt(S)[m] = objects[i].key
    BY <1>1, <2>1, KeyAtRank
  <2>3. i \in T /\ Rank(T, i) = m
    BY <1>3, <2>1
  <2>4. KeysAt(T)[m] = objects[i].key
    <3> HIDE DEF T
    <3> QED
      BY <1>1, <2>3, KeyAtRank
  <2> QED
    BY <2>2, <2>4
<1>6. KeysAt(T)[c + 1] = objects[k + 1].key
  <2>1. k + 1 \in T
    OBVIOUS
  <2> HIDE DEF T, c
  <2> QED
    BY <1>1, <1>4, <2>1, KeyAtRank
<1>7. /\ DOMAIN KeysAt(T) = 1..c + 1 /\ KeysAt(T) = [m \in 1..c + 1 |-> KeysAt(T)[m]]
      /\ DOMAIN KeysAt(S) = 1..c /\ KeysAt(S) = [m \in 1..c |-> KeysAt(S)[m]]
  <2> HIDE DEF T
  <2> QED
    BY <1>2 DEF KeysAt
<1> DEFINE U == {KeysAt(S)[m] : m \in 1..c}
<1>8. KeysAt(S) \in Seq(U) /\ Len(KeysAt(S)) = c
  <2> DEFINE keys == KeysAt(S)
  <2>1. keys = [m \in 1..c |-> keys[m]] /\ c \in Nat
    BY <1>2, <1>7
  <2> HIDE DEF keys, c
  <2>2. keys \in Seq({keys[m] : m \in 1..c}) /\ Len(keys) = c
    BY <2>1
  <2> QED
    BY <2>2 DEF keys
<1>9. /\ DOMAIN Append(KeysAt(S), objects[k + 1].key) = 1..c + 1
      /\ Append(KeysAt(S), objects[k + 1].key)[c + 1] = objects[k + 1].key
      /\ \A m \in 1..c : Append(KeysAt(S), objects[k + 1].key)[m] = KeysAt(S)[m]
  <2> DEFINE keys == KeysAt(S)
  <2>1. keys \in Seq(U) /\ Len(keys) = c
    BY <1>8
  <2> HIDE DEF keys, c, U
  <2>2. /\ DOMAIN Append(keys, objects[k + 1].key) = 1..c + 1
        /\ Append(keys, objects[k + 1].key)[c + 1] = objects[k + 1].key
        /\ \A m \in 1..c : Append(keys, objects[k + 1].key)[m] = keys[m]
    BY <2>1
  <2> QED
    BY <2>2 DEF keys
<1> DEFINE left == KeysAt(T)
           right == Append(KeysAt(S), objects[k + 1].key)
<1>10. right = [m \in 1..c + 1 |-> right[m]]
  <2> HIDE DEF c
  <2> QED
    BY <1>8, <1>9
<1>11. \A m \in 1..c + 1 : left[m] = right[m]
  <2>1. \A m \in 1..c + 1 : m \in 1..c \/ m = c + 1
    BY <1>2
  <2> HIDE DEF left, right, c
  <2>2. \A m \in 1..c : left[m] = right[m]
    BY <1>5, <1>9 DEF left, right
  <2>3. left[c + 1] = right[c + 1]
    BY <1>6, <1>9 DEF left, right
  <2> QED
    BY <2>1, <2>2, <2>3
<1>12. left = [m \in 1..c + 1 |-> left[m]]
  BY <1>7
<1> HIDE DEF left, right, c, T
<1>13. left = right
  BY <1>10, <1>11, <1>12
<1> QED
  BY <1>13 DEF left, right, T

(* A group grows by an object.                                             *)
GroupIs(e, n, s, u) == [etag |-> e, count |-> n, totalSize |-> s, keys |-> u]
Larger(g, o) ==
  [g EXCEPT !.count = @ + 1, !.totalSize = @ + o.size, !.keys = Append(@, o.key)]

LEMMA OneLarger ==
  ASSUME NEW e, NEW n, NEW s, NEW u, NEW o, NEW g, g = GroupIs(e, n, s, u)
  PROVE  Larger(g, o) = GroupIs(e, n + 1, s + o.size, Append(u, o.key))
<1>1. PICK d : d = [g EXCEPT !.count = @ + 1]
  OBVIOUS
<1>2. d = GroupIs(e, n + 1, s, u) /\ g.totalSize = s /\ g.keys = u
  BY <1>1 DEF GroupIs
<1>3. PICK f : f = [d EXCEPT !.totalSize = s + o.size]
  OBVIOUS
<1>4. f = GroupIs(e, n + 1, s + o.size, u)
  BY <1>2, <1>3 DEF GroupIs
<1> DEFINE w == Append(u, o.key)
<1> HIDE DEF w
<1>5. [f EXCEPT !.keys = w] = GroupIs(e, n + 1, s + o.size, w)
  BY <1>4 DEF GroupIs
<1>6. [g EXCEPT !.count = @ + 1, !.totalSize = @ + o.size, !.keys = Append(@, o.key)]
        = [f EXCEPT !.keys = Append(u, o.key)]
  BY <1>1, <1>2, <1>3, Zenon
<1> QED
  BY <1>5, <1>6, Zenon DEF Larger, w

SizeAt == [i \in DOMAIN objects |-> objects[i].size]

LEMMA GroupMore ==
  ASSUME IsBucket, NEW k \in 0..Len(objects) - 1, NEW S \in SUBSET (1..k), NEW e
  PROVE  Larger(Group(e, S), objects[k + 1]) = Group(e, S \cup {k + 1})
<1> DEFINE o == objects[k + 1]
           T == S \cup {k + 1}
<1>1. /\ Len(objects) \in Nat /\ k \in Nat /\ k + 1 \notin S /\ k + 1 \in DOMAIN objects
      /\ S \subseteq DOMAIN objects
  BY BucketType
<1>2. IsFiniteSet(S) /\ Cardinality(T) = Cardinality(S) + 1
  <2>1. IsFiniteSet(S)
    BY <1>1, Below
  <2> QED
    BY <1>1, <2>1, FS_AddElement
<1>3. Sizes(T) = Sizes(S) + o.size
  <2>1. PICK f : f = SizeAt
    OBVIOUS
  <2>2. PICK y : y = k + 1
    OBVIOUS
  <2>3. \A i \in DOMAIN objects : f[i] \in Int /\ f[i] = objects[i].size
    BY <2>1, BucketType DEF SizeAt
  <2>4. \A i \in S : f[i] \in Int /\ f[i] = f[i]
    BY <1>1, <2>3
  <2>5. y \notin S /\ f[y] \in Int /\ f[y] = o.size /\ IsFiniteSet(S)
    BY <1>1, <1>2, <2>2, <2>3
  <2>6. SumFunctionOnSet(f, S \cup {y}) = SumFunctionOnSet(f, S) + f[y]
    BY <2>4, <2>5, SumOne
  <2>7. \A U : Sizes(U) = SumFunctionOnSet(f, U)
    BY <2>1, Zenon DEF Sizes, SizeAt
  <2> QED
    BY <2>2, <2>5, <2>6, <2>7
<1>4. KeysAt(T) = Append(KeysAt(S), o.key)
  BY KeysMore
<1>5. Larger(Group(e, S), o)
        = GroupIs(e, Cardinality(S) + 1, Sizes(S) + o.size, Append(KeysAt(S), o.key))
  <2>1. Group(e, S) = GroupIs(e, Cardinality(S), Sizes(S), KeysAt(S))
    BY DEF Group, GroupIs
  <2> HIDE DEF o
  <2> QED
    BY <2>1, OneLarger
<1> QED
  BY <1>2, <1>3, <1>4, <1>5 DEF Group, GroupIs

LEMMA GroupNone == ASSUME NEW e PROVE Group(e, {}) = GroupIs(e, 0, 0, <<>>)
<1>1. Cardinality({}) = 0
  BY FS_EmptySet
<1>2. Sizes({}) = 0
  BY SumNone DEF Sizes
<1>3. KeysAt({}) = <<>>
  BY <1>1 DEF KeysAt
<1> QED
  BY <1>1, <1>2, <1>3 DEF Group, GroupIs

LEMMA DuplicateStep ==
  ASSUME IsBucket, NEW k \in 0..Len(objects) - 1, NEW c, Grouped(c, k)
  PROVE  Grouped(GroupObject(c, objects[k + 1]), k + 1)
<1> DEFINE o == objects[k + 1]
           new == GroupObject(c, o)
<1>1. /\ Len(objects) \in Nat /\ k \in Nat /\ k + 1 \in DOMAIN objects
      /\ 1..k + 1 = (1..k) \cup {k + 1} /\ k + 1 \notin 1..k
      /\ 1..k + 1 \subseteq DOMAIN objects
  BY BucketType
<1>2. \A d : WithTag(d) = {i \in DOMAIN objects : objects[i].etag = d}
  BY DEF WithTag, Where
<1>3. ASSUME NEW d, d # o.etag PROVE WithTag(d) \cap 1..k + 1 = WithTag(d) \cap 1..k
  BY <1>1, <1>2, <1>3
<1>4. WithTag(o.etag) \cap 1..k + 1 = (WithTag(o.etag) \cap 1..k) \cup {k + 1}
  BY <1>1, <1>2
<1>5. Etags(k + 1) = IF o.etag = None THEN Etags(k) ELSE Etags(k) \cup {o.etag}
  BY <1>1 DEF Etags
<1>6. /\ DOMAIN c = Etags(k) /\ None \notin Etags(k)
      /\ \A d \in Etags(k) : c[d] = Group(d, WithTag(d) \cap 1..k)
  BY DEF Grouped, Etags
<1>7. CASE o.etag = None
  <2>1. new = c
    BY <1>7 DEF GroupObject
  <2>2. \A d \in Etags(k) : WithTag(d) \cap 1..k + 1 = WithTag(d) \cap 1..k
    BY <1>3, <1>6, <1>7
  <2>3. [d \in Etags(k) |-> Group(d, WithTag(d) \cap 1..k)]
          = [d \in Etags(k) |-> Group(d, WithTag(d) \cap 1..k + 1)]
    BY <2>2
  <2> QED
    BY <1>5, <1>7, <2>1, <2>3 DEF Grouped
<1>8. CASE o.etag # None
  <2> DEFINE g == IF o.etag \in DOMAIN c THEN c[o.etag] ELSE GroupIs(o.etag, 0, 0, <<>>)
  <2>1. new = [d \in Etags(k + 1) |-> IF d = o.etag THEN Larger(g, o) ELSE c[d]]
    BY <1>5, <1>6, <1>8, Zenon DEF GroupObject, Larger, GroupIs
  <2>2. g = Group(o.etag, WithTag(o.etag) \cap 1..k)
    <3>1. CASE o.etag \in DOMAIN c
      BY <1>6, <3>1
    <3>2. CASE o.etag \notin DOMAIN c
      <4>1. WithTag(o.etag) \cap 1..k = {}
        BY <1>2, <1>6, <1>8, <3>2 DEF Etags
      <4> QED
        BY <3>2, <4>1, GroupNone
    <3> QED
      BY <3>1, <3>2
  <2>3. Larger(g, o) = Group(o.etag, WithTag(o.etag) \cap 1..k + 1)
    <3>1. WithTag(o.etag) \cap 1..k \in SUBSET (1..k)
      OBVIOUS
    <3> QED
      BY <1>4, <2>2, <3>1, GroupMore
  <2>4. ASSUME NEW d \in Etags(k + 1)
        PROVE  (IF d = o.etag THEN Larger(g, o) ELSE c[d]) = Group(d, WithTag(d) \cap 1..k + 1)
    <3>1. CASE d = o.etag
      BY <2>3, <3>1
    <3>2. CASE d # o.etag
      <4>1. d \in Etags(k)
        BY <1>5, <1>8, <3>2
      <4> QED
        BY <1>3, <1>6, <3>2, <4>1
    <3> QED
      BY <3>1, <3>2
  <2> HIDE DEF g, o
  <2>5. [d \in Etags(k + 1) |-> IF d = o.etag THEN Larger(g, o) ELSE c[d]]
          = [d \in Etags(k + 1) |-> Group(d, WithTag(d) \cap 1..k + 1)]
    BY <2>4
  <2> QED
    BY <2>1, <2>5, Zenon DEF Grouped, o
<1> QED
  BY <1>7, <1>8

-----------------------------------------------------------------------------
(***************************************************************************)
(* What the analyzers that list the bucket collect                         *)
(***************************************************************************)
(* What analyzer a has collected is right for the first k objects.         *)
GoodAt(a, c, k) ==
  /\ a = "naming" => Named(c, k)
  /\ a = "encryption" => Sampled(c, k)
  /\ a = "virus" => Scanned(c, k)
  /\ a = "duplicates" => Grouped(c, k)
  /\ a = "largeFiles" => Kept(c, k)
  /\ a = "cost" => Priced(c, k)

LEMMA GoodStep ==
  ASSUME IsBucket, NEW k \in 0..Len(objects) - 1, NEW a, NEW c, GoodAt(a, c, k), NEW fails
  PROVE  GoodAt(a, Visit(a, c, objects[k + 1], fails), k + 1)
<1>1. CASE a = "naming"
  <2>1. Visit(a, c, objects[k + 1], fails) = CheckName(c, objects[k + 1])
    BY <1>1 DEF Visit
  <2>2. Named(CheckName(c, objects[k + 1]), k + 1)
    BY <1>1, NamingStep DEF GoodAt
  <2> QED
    BY <1>1, <2>1, <2>2 DEF GoodAt
<1>2. CASE a = "encryption"
  <2>1. Visit(a, c, objects[k + 1], fails) = SampleObject(c, objects[k + 1], fails)
    BY <1>2 DEF Visit
  <2>2. Sampled(SampleObject(c, objects[k + 1], fails), k + 1)
    BY <1>2, EncryptionStep DEF GoodAt
  <2> QED
    BY <1>2, <2>1, <2>2 DEF GoodAt
<1>3. CASE a = "virus"
  <2>1. Visit(a, c, objects[k + 1], fails) = ScanForVirus(c, objects[k + 1], fails)
    BY <1>3 DEF Visit
  <2>2. Scanned(ScanForVirus(c, objects[k + 1], fails), k + 1)
    BY <1>3, VirusStep DEF GoodAt
  <2> QED
    BY <1>3, <2>1, <2>2 DEF GoodAt
<1>4. CASE a = "duplicates"
  <2>1. Visit(a, c, objects[k + 1], fails) = GroupObject(c, objects[k + 1])
    BY <1>4 DEF Visit
  <2>2. Grouped(GroupObject(c, objects[k + 1]), k + 1)
    BY <1>4, DuplicateStep DEF GoodAt
  <2> QED
    BY <1>4, <2>1, <2>2 DEF GoodAt
<1>5. CASE a = "largeFiles"
  <2>1. Visit(a, c, objects[k + 1], fails) = KeepLarge(c, objects[k + 1])
    BY <1>5 DEF Visit
  <2>2. Kept(KeepLarge(c, objects[k + 1]), k + 1)
    BY <1>5, LargeStep DEF GoodAt
  <2> QED
    BY <1>5, <2>1, <2>2 DEF GoodAt
<1>6. CASE a = "cost"
  <2>1. Visit(a, c, objects[k + 1], fails) = AddToClass(c, objects[k + 1])
    BY <1>6 DEF Visit
  <2>2. Priced(AddToClass(c, objects[k + 1]), k + 1)
    BY <1>6, CostStep DEF GoodAt
  <2> QED
    BY <1>6, <2>1, <2>2 DEF GoodAt
<1>7. CASE a \notin Listing
  BY <1>7 DEF GoodAt, Listing
<1> QED
  BY <1>1, <1>2, <1>3, <1>4, <1>5, <1>6, <1>7 DEF Listing

(* A page is the next objects of the bucket.                               *)
LEMMA PageType ==
  ASSUME IsBucket, NEW start \in 0..Len(objects)
  PROVE  LET page == ListObjectsPage(start)
             end  == page.continuationToken
         IN  /\ end \in start..Len(objects) /\ (page.isTruncated <=> end # Len(objects))
             /\ DOMAIN page.objects = 1..end - start
             /\ \A j \in 1..end - start : page.objects[j] = objects[start + j]
<1> DEFINE end == IF start + PageSize < Len(objects) THEN start + PageSize ELSE Len(objects)
<1>1. Len(objects) \in Nat /\ objects \in Seq(ToSet(objects)) /\ PageSize \in Nat
  BY BucketType, ScanAssumption
<1>2. end \in start..Len(objects) /\ (end < Len(objects) <=> end # Len(objects))
  BY <1>1
<1>3. /\ ListObjectsPage(start).objects = SubSeq(objects, start + 1, end)
      /\ ListObjectsPage(start).isTruncated = (end < Len(objects))
      /\ ListObjectsPage(start).continuationToken = end
  BY DEF ListObjectsPage
<1> HIDE DEF end
<1>4. DOMAIN SubSeq(objects, start + 1, end) = 1..end - start
  BY <1>1, <1>2
<1>5. ASSUME NEW j \in 1..end - start
      PROVE  SubSeq(objects, start + 1, end)[j] = objects[start + j]
  BY <1>1, <1>2
<1> QED
  BY <1>2, <1>3, <1>4, <1>5, Zenon

LEMMA PageGood ==
  ASSUME IsBucket, NEW start \in 0..Len(objects), NEW a, NEW c, GoodAt(a, c, start), NEW fails
  PROVE  LET page == ListObjectsPage(start)
         IN  GoodAt(a, Visited(a, fails, c, page.objects), page.continuationToken)
<1> DEFINE page == ListObjectsPage(start)
           end  == page.continuationToken
           n    == end - start
<1>1. /\ end \in start..Len(objects) /\ DOMAIN page.objects = 1..n
      /\ \A j \in 1..n : page.objects[j] = objects[start + j]
  BY PageType
<1> HIDE DEF page
<1>2. Len(objects) \in Nat /\ n \in Nat /\ start + n = end
  BY <1>1, BucketType
<1>3. PICK h : Visits(h, a, fails, c, page.objects, n)
  BY <1>1, <1>2, VisitSteps
<1> DEFINE S == {j \in 0..n : GoodAt(a, h[j], start + j)}
<1> HIDE DEF n
<1>4. 0 \in S
  BY <1>2, <1>3 DEF Visits
<1>5. ASSUME NEW j \in 0..n - 1, j \in S PROVE j + 1 \in S
  <2>1. GoodAt(a, h[j], start + j) /\ start + j \in 0..Len(objects) - 1
    BY <1>1, <1>2, <1>5
  <2>2. GoodAt(a, Visit(a, h[j], objects[(start + j) + 1], fails), (start + j) + 1)
    BY <2>1, GoodStep
  <2>3. h[j + 1] = Visit(a, h[j], page.objects[j + 1], fails)
    BY <1>3 DEF Visits
  <2>4. page.objects[j + 1] = objects[(start + j) + 1] /\ (start + j) + 1 = start + (j + 1)
    BY <1>1, <1>2
  <2> QED
    BY <1>2, <2>2, <2>3, <2>4
<1>6. n \in S
  <2> HIDE DEF S
  <2> QED
    <3>1. \A j \in 0..n - 1 : j \in S => j + 1 \in S
      BY <1>5
    <3>2. \A j \in 0..n : j \in S
      BY <1>2, <1>4, <3>1, UpTo
    <3> QED
      BY <1>2, <3>2
<1>7. h[n] = Visited(a, fails, c, page.objects)
  BY <1>3 DEF Visits
<1> QED
  BY <1>2, <1>6, <1>7 DEF page

(***************************************************************************)
(* The inductive invariant about the reports: what an analyzer that lists  *)
(* the bucket has collected is right for the objects before its token, ... *)
(***************************************************************************)
Collected(a) ==
  \E k \in 0..Len(objects) :
    /\ GoodAt(a, acc[a], k)
    /\ pc[a] \in {"off", "list"} => k = token[a]
    /\ pc[a] \notin {"off", "list"} /\ a \notin cut => k = Len(objects) \/ Full(a, acc[a])

(* ... an analyzer has reported what it has collected, if anything, ...    *)
Reported(a) == result[a] # None => pc[a] \in {"done", "ended"} /\ result[a] \in Reports(a)

(* ... and nothing if its listing broke off and it is not one of those     *)
(* that go on.                                                             *)
BrokenOff(a) ==
  a \in cut \ Partial => pc[a] \in {"log", "done", "ended"} /\ result[a] = None

ReportInv ==
  /\ \A a \in Listing : pc[a] # "call" /\ Collected(a) /\ BrokenOff(a)
  /\ \A a \in Names : Reported(a)

LEMMA ListingNames == Listing \subseteq Names /\ Partial \subseteq Listing
<1>1. \A i \in 1..9 : Analyzers[i] \in Names
  BY AnalyzersType
<1>2. {Analyzers[1], Analyzers[4], Analyzers[6], Analyzers[7], Analyzers[8], Analyzers[9]} \subseteq Names
  BY <1>1
<1>3. Listing \subseteq Names
  BY <1>2 DEF Listing, Analyzers
<1> QED
  BY <1>3 DEF Listing, Partial

(* What was right stays right while the bucket does not change.            *)
LEMMA SameBucket ==
  ASSUME UNCHANGED objects, NEW a, NEW c, NEW k
  PROVE  GoodAt(a, c, k)' <=> GoodAt(a, c, k)
<1>1. Misnamed' = Misnamed /\ Encrypted' = Encrypted /\ WantedAt' = WantedAt
  BY DEF Misnamed, Encrypted, WantedAt, Where
<1>2. InfectedAt' = InfectedAt /\ AllKeys' = AllKeys
  BY <1>1 DEF InfectedAt, AllKeys, KeysOf
<1>3. ASSUME NEW n PROVE NamingOf(n)' = NamingOf(n)
  BY <1>1 DEF NamingOf, KeysAt
<1>4. Named(c, k)' <=> Named(c, k)
  BY <1>1, <1>3 DEF Named
<1>5. Sampled(c, k)' <=> Sampled(c, k)
  BY <1>1, <1>2 DEF Sampled, SampleIs
<1>6. Scanned(c, k)' <=> Scanned(c, k)
  BY <1>1, <1>2 DEF Scanned, ScanIs, KeysOf
<1>7. Grouped(c, k)' <=> Grouped(c, k)
  <2>1. Etags(k)' = Etags(k)
    BY DEF Etags
  <2>2. ASSUME NEW e PROVE WithTag(e)' = WithTag(e)
    BY DEF WithTag, Where
  <2>3. ASSUME NEW S PROVE Sizes(S)' = Sizes(S) /\ KeysAt(S)' = KeysAt(S)
    BY DEF Sizes, KeysAt
  <2>4. ASSUME NEW e, NEW S PROVE Group(e, S)' = Group(e, S)
    BY <2>3 DEF Group
  <2> QED
    BY <2>1, <2>2, <2>4 DEF Grouped
<1>8. Kept(c, k)' <=> Kept(c, k)
  BY DEF Kept, FilesOf, Large, Where
<1>9. Priced(c, k)' <=> Priced(c, k)
  BY DEF Priced, Prices
<1> QED
  BY <1>4, <1>5, <1>6, <1>7, <1>8, <1>9 DEF GoodAt

(* An analyzer starts with what is right for no objects.                   *)
LEMMA NothingGood ==
  ASSUME NEW a \in Listing, IsBucket
  PROVE  GoodAt(a, Nothing(a), 0)
<1>0. 1..0 = {} /\ Len(objects) \in Nat
  BY BucketType
<1>1. ASSUME NEW S PROVE Cardinality(S \cap 1..0) = 0
  BY <1>0, FS_EmptySet
<1>2. CASE a = "naming"
  <2>1. Cardinality(Misnamed \cap 1..0) = 0
    BY <1>1
  <2>2. SubSeq(KeysAt(Misnamed), 1, 0) = <<>>
    OBVIOUS
  <2>3. 0 < MaxExamples
    BY DeepAssumption
  <2> QED
    BY <1>2, <2>1, <2>2, <2>3 DEF GoodAt, Nothing, Named, NamingOf
<1>3. CASE a = "encryption"
  <2>1. SampleIs(0, 0, <<>>)
    <3>1. Cardinality(Encrypted \cap 1..0) = 0
      BY <1>1
    <3>2. <<>> \in Seq(AllKeys) /\ Len(<<>>) = 0 /\ DOMAIN <<>> = {}
      OBVIOUS
    <3> QED
      BY <3>1, <3>2 DEF SampleIs
  <2>2. InSample(0) = 0
    BY DeepAssumption DEF InSample
  <2>3. Nothing(a) = Sample(0, 0, <<>>)
    BY <1>3 DEF Nothing, Sample
  <2> QED
    BY <1>3, <2>1, <2>2, <2>3 DEF GoodAt, Sampled
<1>4. CASE a = "virus"
  <2>1. ScanIs(0, {}, {}, FALSE, 0)
    <3>1. Cardinality(WantedAt \cap 1..0) = 0 /\ Cardinality({}) = 0
      BY <1>1, FS_EmptySet
    <3>2. KeysOf(InfectedAt \cap 1..0) = {}
      BY <1>0 DEF KeysOf
    <3> QED
      BY <3>1, <3>2 DEF ScanIs
  <2>2. Nothing(a) = VirusScan(0, {}, {}, FALSE)
    BY <1>4 DEF Nothing, VirusScan
  <2> QED
    BY <1>4, <2>1, <2>2 DEF GoodAt, Scanned
<1>5. CASE a = "duplicates"
  <2>1. Etags(0) = {}
    BY <1>0 DEF Etags
  <2> QED
    BY <1>5, <2>1 DEF GoodAt, Nothing, Grouped
<1>6. CASE a = "largeFiles"
  <2>1. FilesOf(Large \cap 1..0) = {}
    BY <1>0 DEF FilesOf
  <2> QED
    BY <1>6, <2>1 DEF GoodAt, Nothing, Kept
<1>7. CASE a = "cost"
  <2>1. Nothing(a) = <<>> /\ DOMAIN <<>> = {} /\ IsFiniteSet({})
    BY <1>7, FS_EmptySet DEF Nothing
  <2>2. /\ SumFunctionOnSet(Breakdown(<<>>), {}) = 0
        /\ SumFunctionOnSet(Prices, 1..0) = 0
    BY <1>0, SumNone
  <2>3. Priced(<<>>, 0)
    BY <2>1, <2>2, Zenon DEF Priced
  <2> QED
    BY <1>7, <2>1, <2>3 DEF GoodAt
<1> QED
  BY <1>2, <1>3, <1>4, <1>5, <1>6, <1>7 DEF Listing

LEMMA InitReports == Init => ReportInv
<1> SUFFICES ASSUME Init PROVE ReportInv
  OBVIOUS
<1>1. IsBucket /\ Len(objects) \in Nat
  BY BucketType DEF Init, IsBucket
<1>2. ASSUME NEW a \in Listing PROVE pc[a] # "call" /\ Collected(a) /\ BrokenOff(a)
  <2>1. /\ a \in Names /\ pc[a] = "off" /\ token[a] = 0 /\ acc[a] = Nothing(a)
        /\ cut = {}
    BY ListingNames DEF Init
  <2>2. GoodAt(a, acc[a], 0)
    BY <1>1, <2>1, NothingGood
  <2> QED
    BY <1>1, <2>1, <2>2 DEF Collected, BrokenOff
<1>3. ASSUME NEW a \in Names PROVE Reported(a)
  BY DEF Init, Reported
<1> QED
  BY <1>2, <1>3 DEF ReportInv

(* The invariant for one analyzer, and what it depends on.                 *)
OneReport(a) ==
  /\ a \in Listing => pc[a] # "call" /\ Collected(a) /\ BrokenOff(a)
  /\ Reported(a)

SameAt(b) ==
  /\ pc'[b] = pc[b] /\ token'[b] = token[b] /\ acc'[b] = acc[b] /\ result'[b] = result[b]
  /\ b \in cut' <=> b \in cut

LEMMA SameReports == ASSUME NEW a, acc'[a] = acc[a] PROVE Reports(a)' = Reports(a)
BY DEF Reports

LEMMA OneStays ==
  ASSUME UNCHANGED objects, NEW b, SameAt(b), OneReport(b)
  PROVE  OneReport(b)'
<1>1. ASSUME Collected(b) PROVE Collected(b)'
  <2>1. \A c, k : GoodAt(b, c, k)' <=> GoodAt(b, c, k)
    BY SameBucket
  <2> QED
    BY <1>1, <2>1 DEF Collected, SameAt
<1>2. Reported(b)'
  BY SameReports DEF SameAt, OneReport, Reported
<1>3. ASSUME BrokenOff(b) PROVE BrokenOff(b)'
  BY <1>3 DEF BrokenOff, SameAt
<1> QED
  BY <1>1, <1>2, <1>3 DEF OneReport, SameAt

LEMMA AllReports == ReportInv <=> \A a \in Names : OneReport(a)
BY ListingNames DEF ReportInv, OneReport

(* The step of one goroutine concerns the others in nothing.               *)
LEMMA OneStep ==
  ASSUME ReportInv, UNCHANGED objects, NEW a \in Names, OneReport(a)',
         \A b \in Names \ {a} : SameAt(b)
  PROVE  ReportInv'
<1>1. ASSUME NEW b \in Names PROVE OneReport(b)'
  <2>1. CASE b = a
    BY <2>1
  <2>2. CASE b # a
    <3>1. OneReport(b) /\ SameAt(b)
      BY <2>2, AllReports
    <3> QED
      BY <3>1, OneStays
  <2> QED
    BY <2>1, <2>2
<1>2. (\A b \in Names : OneReport(b)') => ReportInv'
  BY ListingNames DEF ReportInv, OneReport
<1> QED
  BY <1>1, <1>2

LEMMA SpawnReports ==
  ASSUME IInv, ReportInv, Spawn
  PROVE  ReportInv'
<1>0. next \in 1..9
  BY AnalyzersType DEF Spawn, IInv, StartedOnce
<1>9. PICK a \in Names : a = Analyzers[next]
  BY <1>0, AnalyzersType
<1>1. /\ next \in 1..9 /\ a \in Names /\ pc[a] = "off"
      /\ UNCHANGED <<objects, token, acc, result, cut>>
  BY <1>0, <1>9, AnalyzersType DEF Spawn, IInv, StartedOnce
<1>3. /\ \A b \in Names \ {a} : pc'[b] = pc[b]
      /\ pc'[a] \in {"off", "list", "call"} /\ (a \in Listing => pc'[a] # "call")
  BY <1>1, <1>9 DEF Spawn, Goto, IInv, TypeOK
<1>4. \A b \in Names \ {a} : SameAt(b)
  BY <1>1, <1>3 DEF SameAt
<1>5. OneReport(a)
  BY <1>1, AllReports
<1>6. Reported(a)'
  BY <1>1, <1>5 DEF OneReport, Reported
<1>7. ASSUME a \in Listing PROVE Collected(a)' /\ BrokenOff(a)'
  <2>1. PICK k \in 0..Len(objects) : GoodAt(a, acc[a], k) /\ k = token[a]
    BY <1>1, <1>5, <1>7 DEF OneReport, Collected
  <2>2. GoodAt(a, acc[a], k)'
    <3>1. \A c : GoodAt(a, c, k)' <=> GoodAt(a, c, k)
      BY <1>1, SameBucket
    <3> QED
      BY <1>1, <2>1, <3>1
  <2>3. Collected(a)'
    BY <1>1, <1>3, <1>7, <2>1, <2>2 DEF Collected
  <2> QED
    BY <1>1, <1>5, <1>7, <2>3 DEF OneReport, BrokenOff
<1>8. OneReport(a)'
  BY <1>3, <1>6, <1>7 DEF OneReport
<1> QED
  BY <1>1, <1>4, <1>8, OneStep

(* A goroutine goes on: what it has collected does not change, and its     *)
(* listing, if it has one, was over or breaks off.                         *)
LEMMA GoesOn ==
  ASSUME IInv, ReportInv, NEW a \in Names, NEW step \in {"publish", "log", "done", "ended"},
         Goto(a, step), UNCHANGED <<objects, token, acc>>,
         cut' = cut \/ cut' = cut \cup {a},
         pc[a] # "off", pc[a] = "list" => a \in cut',
         \A b \in Names \ {a} : result'[b] = result[b],
         Reported(a)', a \in Listing => BrokenOff(a)'
  PROVE  ReportInv'
<1>1. /\ pc'[a] = step /\ \A b \in Names \ {a} : pc'[b] = pc[b]
      /\ \A b \in Names \ {a} : b \in cut' <=> b \in cut
      /\ a \notin cut' => a \notin cut /\ pc[a] # "list"
  BY DEF Goto, IInv, TypeOK
<1>2. \A b \in Names \ {a} : SameAt(b)
  BY <1>1 DEF SameAt
<1>3. ASSUME a \in Listing PROVE Collected(a)'
  <2>1. PICK k \in 0..Len(objects) :
          /\ GoodAt(a, acc[a], k)
          /\ a \notin cut' => k = Len(objects) \/ Full(a, acc[a])
    BY <1>1, <1>3 DEF ReportInv, Collected
  <2>2. GoodAt(a, acc[a], k)'
    <3>1. \A c : GoodAt(a, c, k)' <=> GoodAt(a, c, k)
      BY SameBucket
    <3> QED
      BY <2>1, <3>1
  <2> QED
    BY <1>1, <2>1, <2>2 DEF Collected
<1>4. OneReport(a)'
  BY <1>1, <1>3 DEF OneReport
<1> QED
  BY <1>2, <1>4, OneStep

LEMMA ListReports ==
  ASSUME IInv, ReportInv, NEW a \in Names, ListPage(a), a \in Listing
  PROVE  ReportInv'
<1> DEFINE page == ListObjectsPage(token[a])
<1>1. /\ pc[a] = "list" /\ UNCHANGED <<objects, result, cut>> /\ IsBucket
      /\ token[a] \in 0..Len(objects)
  BY DEF ListPage, IInv, TypeOK, IsBucket
<1>2. PICK fails, visited :
        /\ visited = Visited(a, fails, acc[a], page.objects)
        /\ acc' = [acc EXCEPT ![a] = visited]
        /\ IF page.isTruncated /\ ~Full(a, visited)
             THEN token' = [token EXCEPT ![a] = page.continuationToken] /\ UNCHANGED pc
             ELSE Goto(a, "publish") /\ UNCHANGED token
  <2>1. PICK fails \in IF a \in {"encryption", "virus"}
                         THEN SUBSET {o.key : o \in ToSet(page.objects)} ELSE {{}} :
          LET visited == FoldLeft(LAMBDA c, o : Visit(a, c, o, fails), acc[a], page.objects) IN
          /\ acc' = [acc EXCEPT ![a] = visited]
          /\ IF page.isTruncated /\ ~Full(a, visited)
               THEN token' = [token EXCEPT ![a] = page.continuationToken] /\ UNCHANGED pc
               ELSE Goto(a, "publish") /\ UNCHANGED token
    BY Zenon DEF ListPage
  <2> HIDE DEF page
  <2>2. Visited(a, fails, acc[a], page.objects)
          = FoldLeft(LAMBDA c, o : Visit(a, c, o, fails), acc[a], page.objects)
    BY DEF Visited
  <2> QED
    BY <2>1, <2>2, Zenon
<1>0. PICK end : end = page.continuationToken
  OBVIOUS
<1> HIDE DEF page
<1>3. GoodAt(a, acc[a], token[a])
  BY <1>1 DEF ReportInv, Collected
<1>4. end \in 0..Len(objects) /\ (page.isTruncated <=> end # Len(objects))
  BY <1>0, <1>1, PageType DEF page
<1>5. GoodAt(a, visited, end)
  BY <1>0, <1>1, <1>2, <1>3, PageGood DEF page
<1>6. /\ acc'[a] = visited /\ \A b \in Names \ {a} : acc'[b] = acc[b]
      /\ \A b \in Names \ {a} : token'[b] = token[b] /\ pc'[b] = pc[b]
  BY <1>2 DEF Goto, IInv, TypeOK
<1>7. \/ pc'[a] = "list" /\ token'[a] = end
      \/ pc'[a] = "publish" /\ (end = Len(objects) \/ Full(a, visited))
  BY <1>0, <1>1, <1>2, <1>4 DEF Goto, IInv, TypeOK
<1>8. \A b \in Names \ {a} : SameAt(b)
  BY <1>1, <1>6 DEF SameAt
<1>9. OneReport(a)'
  <2>1. GoodAt(a, acc[a], end)'
    <3>1. \A c : GoodAt(a, c, end)' <=> GoodAt(a, c, end)
      BY <1>1, SameBucket
    <3> QED
      BY <1>5, <1>6, <3>1
  <2>2. Collected(a)'
    BY <1>1, <1>4, <1>6, <1>7, <2>1 DEF Collected
  <2>3. result[a] = None /\ ~(a \in cut \ Partial)
    BY <1>1 DEF ReportInv, Reported, BrokenOff
  <2> QED
    BY <1>1, <1>7, <2>2, <2>3 DEF OneReport, Reported, BrokenOff
<1> QED
  BY <1>1, <1>8, <1>9, OneStep

LEMMA AnalyzeReports ==
  ASSUME IInv, ReportInv, NEW a \in Names, Analyze(a)
  PROVE  ReportInv'
<1>1. OneReport(a) /\ (pc[a] \notin {"done", "ended"} => result[a] = None)
  BY AllReports DEF OneReport, Reported
<1>2. CASE ListPage(a)
  <2>1. CASE a \in Listing
    BY <1>2, <2>1, ListReports
  <2>2. CASE a \notin Listing
    <3>1. /\ pc[a] = "list" /\ UNCHANGED <<objects, result, cut>>
          /\ \E visited : acc' = [acc EXCEPT ![a] = visited]
          /\ UNCHANGED pc \/ Goto(a, "publish")
          /\ UNCHANGED token \/ \E end : token' = [token EXCEPT ![a] = end]
      BY <1>2 DEF ListPage
    <3>2. \A b \in Names \ {a} : SameAt(b)
      BY <3>1 DEF SameAt, Goto, IInv, TypeOK
    <3>3. OneReport(a)'
      BY <1>1, <2>2, <3>1 DEF OneReport, Reported
    <3> QED
      BY <3>1, <3>2, <3>3, OneStep
  <2> QED
    BY <2>1, <2>2
<1>3. CASE ListPageFails(a)
  <2>1. pc[a] = "list" /\ UNCHANGED <<objects, token, acc, result>> /\ cut' = cut \cup {a}
    BY <1>3 DEF ListPageFails
  <2>2. PICK step \in {"publish", "log"} : Goto(a, step) /\ (a \notin Partial => step = "log")
    BY <1>3, Zenon DEF ListPageFails
  <2>3. Reported(a)' /\ BrokenOff(a)'
    BY <1>1, <2>1, <2>2 DEF Reported, BrokenOff, Goto, IInv, TypeOK
  <2> QED
    BY <2>1, <2>2, <2>3, GoesOn
<1>4. CASE a = "naming" /\ NoNamingPattern
  <2>1. pc[a] = "list" /\ UNCHANGED <<objects, token, acc, result>> /\ cut' = cut \cup {a}
    BY <1>4 DEF NoNamingPattern
  <2>2. PICK step \in {"publish", "log"} : Goto(a, step)
    BY <1>4, Zenon DEF NoNamingPattern
  <2>3. Reported(a)' /\ BrokenOff(a)'
    BY <1>1, <1>4, <2>1 DEF Reported, BrokenOff, Partial
  <2> QED
    BY <2>1, <2>2, <2>3, GoesOn
<1>5. CASE Call(a)
  <2>1. pc[a] = "call" /\ UNCHANGED <<objects, token, result, cut>> /\ a \notin Listing
    BY <1>1, <1>5 DEF Call, OneReport
  <2>2. \A b \in Names \ {a} : acc'[b] = acc[b]
    BY <1>5 DEF Call, IInv, TypeOK
  <2>3. \A b \in Names \ {a} : SameAt(b)
    BY <1>5, <2>1, <2>2 DEF Call, SameAt, Goto, IInv, TypeOK
  <2>4. OneReport(a)'
    BY <1>1, <2>1 DEF OneReport, Reported
  <2> QED
    BY <2>1, <2>3, <2>4, OneStep
<1>6. CASE CallFails(a)
  <2>1. pc[a] = "call" /\ UNCHANGED <<objects, token, acc, result, cut>> /\ Goto(a, "log")
    BY <1>6 DEF CallFails
  <2>2. Reported(a)' /\ a \notin Listing
    BY <1>1, <2>1 DEF OneReport, Reported
  <2> QED
    BY <2>1, <2>2, GoesOn
<1>7. CASE Publish(a)
  <2>1. /\ pc[a] = "publish" /\ UNCHANGED <<objects, token, acc, cut>> /\ Goto(a, "done")
        /\ \E report \in Reports(a) : result' = [result EXCEPT ![a] = report]
    BY <1>7 DEF Publish
  <2>2. /\ result'[a] \in Reports(a) /\ pc'[a] = "done"
        /\ \A b \in Names \ {a} : result'[b] = result[b]
    BY <2>1 DEF Goto, IInv, TypeOK
  <2>3. Reported(a)'
    BY <2>1, <2>2, SameReports DEF Reported
  <2>4. a \in Listing => BrokenOff(a)'
    BY <1>1, <2>1 DEF OneReport, BrokenOff
  <2> QED
    BY <2>1, <2>2, <2>3, <2>4, GoesOn
<1>8. CASE Log(a)
  <2>1. pc[a] = "log" /\ UNCHANGED <<objects, token, acc, result, cut>> /\ Goto(a, "done")
    BY <1>8 DEF Log
  <2>2. Reported(a)' /\ (a \in Listing => BrokenOff(a)')
    BY <1>1, <2>1 DEF OneReport, Reported, BrokenOff, Goto, IInv, TypeOK
  <2> QED
    BY <2>1, <2>2, GoesOn
<1>9. CASE Done(a)
  <2>1. pc[a] = "done" /\ UNCHANGED <<objects, token, acc, result, cut>> /\ Goto(a, "ended")
    BY <1>9 DEF Done
  <2>2. Reported(a)' /\ (a \in Listing => BrokenOff(a)')
    BY <1>1, <2>1, SameReports DEF OneReport, Reported, BrokenOff, Goto, IInv, TypeOK
  <2> QED
    BY <2>1, <2>2, GoesOn
<1> QED
  BY <1>2, <1>3, <1>4, <1>5, <1>6, <1>7, <1>8, <1>9 DEF Analyze

LEMMA NextReports == IInv /\ ReportInv /\ [Next]_vars => ReportInv'
<1> SUFFICES ASSUME IInv, ReportInv, [Next]_vars PROVE ReportInv'
  OBVIOUS
<1>1. ASSUME UNCHANGED <<objects, pc, token, acc, result, cut>> PROVE ReportInv'
  <2>1. ASSUME NEW a \in Names PROVE OneReport(a)'
    <3>1. SameAt(a) /\ OneReport(a)
      BY <1>1, AllReports DEF SameAt
    <3> QED
      BY <1>1, <3>1, OneStays
  <2>2. (\A a \in Names : OneReport(a)') => ReportInv'
    BY ListingNames DEF ReportInv, OneReport
  <2> QED
    BY <2>1, <2>2
<1>2. CASE Spawn
  BY <1>2, SpawnReports
<1>3. CASE Wait
  BY <1>1, <1>3 DEF Wait
<1>4. ASSUME NEW a \in Names, Analyze(a) PROVE ReportInv'
  BY <1>4, AnalyzeReports
<1>5. CASE UNCHANGED vars
  BY <1>1, <1>5 DEF vars
<1> QED
  BY <1>2, <1>3, <1>4, <1>5 DEF Next, RunAll

(* The invariant holds in every reachable state.                           *)
THEOREM ReportInvariance == Spec => []ReportInv
BY Invariance, InitReports, NextReports, PTL DEF Spec

-----------------------------------------------------------------------------
LEMMA NamingTrue ==
  ASSUME IsBucket, ReportInv, result["naming"] # None
  PROVE  NamingIsTrue
<1> DEFINE a == "naming"
<1>1. a \in Listing /\ a \in Names
  BY ListingNames DEF Listing
<1>2. result[a] = acc[a] /\ pc[a] \notin {"off", "list"}
  BY <1>1 DEF ReportInv, Reported, Reports
<1>3. PICK k \in 0..Len(objects) :
        Named(acc[a], k) /\ (a \notin cut => k = Len(objects))
  BY <1>1, <1>2 DEF ReportInv, Collected, GoodAt, Full
<1>4. /\ Len(objects) \in Nat /\ Misnamed \in SUBSET (1..Len(objects))
      /\ Misnamed = Where(LAMBDA o : ~o.matches)
  BY BucketType DEF Misnamed, Where
<1>5. Cardinality(Misnamed \cap 1..k) <= Cardinality(Misnamed)
  BY <1>4, Below
<1>6. a \notin cut => Cardinality(Misnamed \cap 1..k) = Cardinality(Misnamed)
  <2>1. Misnamed \cap 1..Len(objects) = Misnamed
    BY <1>4
  <2> QED
    BY <1>3, <2>1
<1> DEFINE n == Cardinality(Misnamed \cap 1..k)
<1>7. /\ result[a].count = n
      /\ result[a].examples = SubSeq(KeysAt(Misnamed), 1, IF n < MaxExamples THEN n ELSE MaxExamples)
  <2>1. result[a] = NamingOf(n)
    BY <1>2, <1>3 DEF Named
  <2>2. /\ NamingOf(n).count = n
        /\ NamingOf(n).examples
             = SubSeq(KeysAt(Misnamed), 1, IF n < MaxExamples THEN n ELSE MaxExamples)
    <3> HIDE DEF n
    <3>1. NamingOf(n).count = n
      BY DEF NamingOf
    <3>2. NamingOf(n).examples
            = SubSeq(KeysAt(Misnamed), 1, IF n < MaxExamples THEN n ELSE MaxExamples)
      BY Zenon DEF NamingOf
    <3> QED
      BY <3>1, <3>2
  <2> QED
    BY <2>1, <2>2
<1> HIDE DEF n
<1> QED
  BY <1>4, <1>5, <1>6, <1>7 DEF NamingIsTrue, n

LEMMA VirusTrue ==
  ASSUME IsBucket, ReportInv, result["virus"] # None
  PROVE  VirusIsTrue
<1> DEFINE a == "virus"
<1>1. a \in Listing /\ a \in Names
  BY ListingNames DEF Listing
<1>2. result[a] = Virus(acc[a]) /\ pc[a] \notin {"off", "list"}
  BY <1>1 DEF ReportInv, Reported, Reports
<1>3. PICK k \in 0..Len(objects) :
        Scanned(acc[a], k) /\ (a \notin cut => k = Len(objects) \/ acc[a].limit)
  BY <1>1, <1>2 DEF ReportInv, Collected, GoodAt, Full
<1>4. PICK n, infected, errors, limit :
        acc[a] = VirusScan(n, infected, errors, limit) /\ ScanIs(n, infected, errors, limit, k)
  BY <1>3 DEF Scanned
<1>5. /\ Len(objects) \in Nat /\ WantedAt \in SUBSET (1..Len(objects))
      /\ InfectedAt \in SUBSET (1..Len(objects))
  BY BucketType DEF WantedAt, InfectedAt, Where
<1>6. KeysOf(InfectedAt \cap 1..k) \subseteq KeysOf(InfectedAt)
  BY DEF KeysOf
<1>7. k = Len(objects) => WantedAt \cap 1..k = WantedAt /\ InfectedAt \cap 1..k = InfectedAt
  BY <1>5
<1>8. /\ result[a].infected = infected /\ result[a].errors = errors
      /\ ~limit => result[a].scanned = n
      /\ ~limit => (result[a].status = "completed" <=> infected = {})
      /\ acc[a].limit = limit
  BY <1>2, <1>4 DEF Virus, VirusScan
<1>9. /\ infected \subseteq KeysOf(InfectedAt)
      /\ ~limit /\ a \notin cut =>
           /\ n + Cardinality(errors) = Cardinality(WantedAt)
           /\ KeysOf(InfectedAt) \subseteq infected \cup errors
  BY <1>3, <1>4, <1>6, <1>7, <1>8 DEF ScanIs
<1> QED
  BY <1>8, <1>9 DEF VirusIsTrue, KeysOf, InfectedAt, WantedAt

(* The share of encrypted objects, in hundredths of a percent.             *)
LEMMA PercentagesBelow ==
  ASSUME NEW part \in Nat, NEW whole \in Nat \ {0}, part <= whole, NEW pct \in Percentages(part, whole)
  PROVE  /\ pct \in Int /\ pct * whole <= part * 10000
         /\ pct = 10000 => part = whole
<1> DEFINE p == part * 10000
           q == p \div whole
<1>1. p \in Nat /\ q \in Int /\ q * whole <= p /\ p < q * whole + whole
  <2>1. p \in Nat
    OBVIOUS
  <2> HIDE DEF p
  <2>2. q \in Int /\ q * whole <= p
    BY <2>1
  <2>3. p < q * whole + whole
    BY <2>1
  <2> QED
    BY <2>1, <2>2, <2>3
<1>2. pct = q \/ (pct = q - 1 /\ part < whole)
  BY DEF Percentages
<1> HIDE DEF q
<1>3. CASE pct = q
  <2>1. pct = 10000 => 10000 * whole <= 10000 * part
    BY <1>1, <1>3
  <2> QED
    BY <1>1, <1>3, <2>1
<1>4. CASE pct = q - 1 /\ part < whole
  <2>1. pct * whole = q * whole - whole
    BY <1>1, <1>4
  <2>2. pct = 10000 => 10001 * whole <= 10000 * part
    BY <1>1, <1>4
  <2> QED
    BY <1>1, <1>4, <2>1, <2>2
<1> QED
  BY <1>2, <1>3, <1>4

LEMMA EncryptionTrue ==
  ASSUME IsBucket, ReportInv, result["encryption"] # None
  PROVE  EncryptionIsTrue
<1> DEFINE a == "encryption"
<1>1. a \in Listing /\ a \in Names
  BY ListingNames DEF Listing
<1>2. result[a] \in Encryption(acc[a])
  BY <1>1 DEF ReportInv, Reported, Reports
<1>3. PICK k \in 0..Len(objects) : Sampled(acc[a], k)
  BY <1>1 DEF ReportInv, Collected, GoodAt
<1>4. PICK x, y, u : acc[a] = Sample(x, y, u) /\ SampleIs(x, y, u) /\ x = InSample(k)
  BY <1>3 DEF Sampled
<1> DEFINE known == Encrypted \cap 1..x
<1>5. x \in Nat /\ Len(objects) \in Nat /\ Encrypted \in SUBSET (1..Len(objects))
  BY <1>4, BucketType, DeepAssumption DEF InSample, Encrypted, Where
<1>6. /\ y \in Nat /\ u \in Seq(AllKeys) /\ Len(u) \in Nat /\ y + Len(u) <= x
      /\ y <= Cardinality(known) /\ Cardinality(known) \in Nat /\ Cardinality(known) <= x
      /\ Cardinality(known) = x => known = 1..x
  <2>1. IsFiniteSet(1..x) /\ Cardinality(1..x) = x
    <3>1. 1 \in Int /\ x \in Int
      BY <1>5
    <3>2. /\ IsFiniteSet(1..x)
          /\ Cardinality(1..x) = IF 1 > x THEN 0 ELSE x - 1 + 1
      BY <3>1, FS_Interval, Zenon
    <3> QED
      BY <1>5, <3>2
  <2>2. Cardinality(known) <= x /\ (Cardinality(known) = x => known = 1..x)
    <3>1. known \subseteq 1..x
      OBVIOUS
    <3> QED
      BY <2>1, <3>1, FS_Subset
  <2>3. Cardinality(known) \in Nat
    BY <1>5, Below
  <2> QED
    BY <1>4, <2>2, <2>3 DEF SampleIs
<1>14. acc[a].checked = x /\ acc[a].encrypted = y /\ acc[a].unencryptedKeys = u
  BY <1>4 DEF Sample
<1>7. PICK pct : /\ result[a] = [encryptedPct |-> pct, unencryptedKeys |-> u]
                 /\ pct \in IF x > 0 THEN Percentages(y, x) ELSE {0}
  BY <1>2, <1>14 DEF Encryption
<1>8. pct \in Int /\ pct * x <= y * 10000 /\ (pct = 10000 => y = x)
  <2>1. CASE x > 0
    <3>1. y <= x /\ x \in Nat \ {0}
      BY <1>5, <1>6, <2>1
    <3> QED
      BY <1>6, <1>7, <2>1, <3>1, PercentagesBelow
  <2>2. CASE ~(x > 0)
    BY <1>5, <1>6, <1>7, <2>2
  <2> QED
    BY <2>1, <2>2
<1>9. ASSUME pct = 10000 PROVE known = 1..x /\ u = <<>>
  <2>1. Len(u) = 0 /\ Cardinality(known) = x
    BY <1>5, <1>6, <1>8, <1>9
  <2> QED
    BY <1>6, <2>1
<1>10. pct * x <= 10000 * Cardinality(known)
  <2>1. y * 10000 <= 10000 * Cardinality(known)
    BY <1>6
  <2> QED
    BY <1>5, <1>6, <1>8, <2>1
<1>11. known = Where(LAMBDA o : o.encrypted) \cap 1..x
  BY DEF Encrypted
<1>12. ToSet(u) \subseteq {objects[i].key : i \in 1..x \ known}
  <2>1. \A n \in DOMAIN u : \E i \in (1..x) \ Encrypted : u[n] = objects[i].key
    BY <1>4 DEF SampleIs
  <2> QED
    BY <2>1 DEF ToSet
<1> HIDE DEF known
<1>13. result[a].encryptedPct = pct /\ result[a].unencryptedKeys = u
  BY <1>7
<1>15. known = {i \in DOMAIN objects : objects[i].encrypted} \cap 1..acc[a].checked
  BY <1>11, <1>14 DEF Where
<1>16. result[a].encryptedPct * acc[a].checked <= 10000 * Cardinality(known)
  BY <1>10, <1>13, <1>14
<1>17. result[a].encryptedPct = 10000
         => known = 1..acc[a].checked /\ result[a].unencryptedKeys = <<>>
  BY <1>9, <1>13, <1>14
<1>18. ToSet(result[a].unencryptedKeys) \subseteq {objects[i].key : i \in 1..acc[a].checked \ known}
  BY <1>12, <1>13, <1>14
<1> QED
  BY <1>15, <1>16, <1>17, <1>18 DEF EncryptionIsTrue, Where

(* What the analyzers report that go on when a page cannot be listed is    *)
(* true as far as it goes, for every bucket, page size and limit, and      *)
(* whatever fails.                                                         *)
THEOREM PartialReports == Spec => []PartialReportsAreTrue
<1>1. IInv /\ ReportInv => PartialReportsAreTrue
  BY NamingTrue, EncryptionTrue, VirusTrue DEF IInv, TypeOK, IsBucket, PartialReportsAreTrue
<1> QED
  BY <1>1, Invariance, ReportInvariance, PTL

-----------------------------------------------------------------------------
(***************************************************************************)
(* The reports on the whole bucket                                         *)
(***************************************************************************)
(* An analyzer that gives up on an error has seen all of what it reports.  *)
LEMMA WholeListing ==
  ASSUME IsBucket, ReportInv, NEW a \in {"duplicates", "largeFiles", "cost"}, result[a] # None
  PROVE  GoodAt(a, acc[a], Len(objects)) /\ result[a] \in Reports(a)
<1>1. a \in Listing /\ a \in Names /\ a \notin Partial /\ ~Full(a, acc[a])
  BY ListingNames DEF Listing, Partial, Full
<1>2. pc[a] \in {"done", "ended"} /\ result[a] \in Reports(a) /\ a \notin cut
  BY <1>1 DEF ReportInv, Reported, BrokenOff
<1> QED
  BY <1>1, <1>2 DEF ReportInv, Collected

LEMMA DuplicatesExact ==
  ASSUME IsBucket, ReportInv, result["duplicates"] # None
  PROVE  DuplicatesAreExact
<1> DEFINE n == Len(objects)
           c == acc["duplicates"]
           twice == {j \in DOMAIN objects : objects[j].etag # None
                                            /\ Cardinality(WithTag(objects[j].etag)) > 1}
           etags == {objects[i].etag : i \in twice}
<1>1. Grouped(c, n) /\ result["duplicates"] = Duplicates(c)
  BY WholeListing DEF GoodAt, Reports
<1>2. /\ n \in Nat /\ DOMAIN objects = 1..n
      /\ \A e : WithTag(e) \cap 1..n = WithTag(e)
  BY BucketType DEF WithTag, Where
<1>3. DOMAIN c = Etags(n) /\ \A e \in Etags(n) : c[e] = Group(e, WithTag(e))
  BY <1>1, <1>2 DEF Grouped
<1>4. \A e \in Etags(n) : c[e].count = Cardinality(WithTag(e))
  <2>1. \A e, S : Group(e, S).count = Cardinality(S)
    BY DEF Group
  <2> HIDE DEF c, n
  <2> QED
    BY <1>3, <2>1
<1>5. {d \in DOMAIN c : c[d].count > 1} = etags
  <2>1. {d \in DOMAIN c : c[d].count > 1} = {d \in Etags(n) : Cardinality(WithTag(d)) > 1}
    BY <1>3, <1>4
  <2>2. {d \in Etags(n) : Cardinality(WithTag(d)) > 1} = etags
    BY <1>2 DEF Etags
  <2> QED
    BY <2>1, <2>2
<1>6. etags \subseteq Etags(n)
  BY <1>2 DEF Etags
<1> HIDE DEF c, etags
<1>7. Duplicates(c) = {c[e] : e \in etags}
  BY <1>5 DEF Duplicates
<1>8. {c[e] : e \in etags} = {Group(e, WithTag(e)) : e \in etags}
  BY <1>3, <1>6
<1>9. result["duplicates"] = {Group(e, WithTag(e)) : e \in etags}
  BY <1>1, <1>7, <1>8 DEF c
<1> QED
  BY <1>9, Zenon DEF DuplicatesAreExact, Group, WithTag, etags

LEMMA CostExact ==
  ASSUME IsBucket, ReportInv, result["cost"] # None
  PROVE  CostIsExact
<1> DEFINE c == acc["cost"]
<1>1. Priced(c, Len(objects)) /\ result["cost"] = CostEstimate(c)
  BY WholeListing DEF GoodAt, Reports
<1>2. DOMAIN Prices = 1..Len(objects) /\ DOMAIN Breakdown(c) = DOMAIN c
  BY BucketType DEF Prices, Breakdown
<1>3. CostEstimate(c).monthlyTotal = SumFunction(Breakdown(c))
  BY DEF CostEstimate, Breakdown
<1>4. SumFunction(Breakdown(c)) = SumFunctionOnSet(Breakdown(c), DOMAIN c)
  BY <1>2 DEF SumFunction
<1>5. SumFunction(Prices) = SumFunctionOnSet(Prices, 1..Len(objects))
  BY <1>2 DEF SumFunction
<1>6. result["cost"].monthlyTotal = SumFunction(Prices)
  BY <1>1, <1>3, <1>4, <1>5 DEF Priced
<1> QED
  BY <1>6, Zenon DEF CostIsExact, Prices

(* The first m of the files in an order of all of them.                    *)
LEMMA FirstFiles ==
  ASSUME NEW L, IsFiniteSet(L), NEW p \in SetToSeqs(L), NEW m \in 0..Len(p)
  PROVE  LET files == SubSeq(p, 1, m)
         IN  /\ Len(files) = m /\ DOMAIN files = 1..m /\ \A i \in 1..m : files[i] = p[i]
             /\ ToSet(files) \subseteq L /\ Cardinality(ToSet(files)) = m
             /\ DOMAIN p = 1..Len(p) /\ Len(p) \in Nat
             /\ \A f \in L : \E j \in 1..Len(p) : f = p[j]
<1> DEFINE n == Cardinality(L)
           files == SubSeq(p, 1, m)
<1>1. n \in Nat
  BY FS_CardinalityType
<1>2. p \in [1..n -> L] /\ \A i, j \in 1..n : i # j => p[i] # p[j]
  BY DEF SetToSeqs
<1>3. p \in Seq(L) /\ Len(p) = n /\ DOMAIN p = 1..n
  BY <1>1, <1>2
<1>4. ASSUME NEW k \in Nat PROVE IsFiniteSet(1..k) /\ Cardinality(1..k) = k
  <2>1. 1 \in Int /\ k \in Int
    OBVIOUS
  <2>2. /\ IsFiniteSet(1..k)
        /\ Cardinality(1..k) = IF 1 > k THEN 0 ELSE k - 1 + 1
    BY <2>1, FS_Interval, Zenon
  <2> QED
    BY <2>2
<1>5. \A f \in L : \E j \in 1..n : f = p[j]
  <2>1. p \in Injection(1..n, L)
    BY <1>2 DEF Injection, IsInjective
  <2>2. Cardinality(1..n) = Cardinality(L)
    BY <1>1, <1>4
  <2>3. p \in Surjection(1..n, L)
    BY <2>1, <2>2, FS_Injection
  <2> QED
    BY <2>3 DEF Surjection
<1>6. Len(files) = m /\ DOMAIN files = 1..m /\ m \in Nat /\ m <= n
  <2> HIDE DEF n
  <2> QED
    BY <1>1, <1>3
<1>7. \A i \in 1..m : files[i] = p[i] /\ i \in 1..n
  <2> HIDE DEF n
  <2> QED
    BY <1>1, <1>3
<1> HIDE DEF files, n
<1>8. ToSet(files) = {files[i] : i \in 1..m} /\ ToSet(files) \subseteq L
  BY <1>2, <1>6, <1>7 DEF ToSet
<1>9. Cardinality(ToSet(files)) = m
  <2> DEFINE g == [i \in 1..m |-> files[i]]
             T == ToSet(files)
  <2>1. g \in Surjection(1..m, T)
    BY <1>8 DEF Surjection
  <2>2. g \in Injection(1..m, T)
    BY <1>2, <1>7, <1>8 DEF Injection, IsInjective
  <2> HIDE DEF g, T
  <2>3. Cardinality(T) = Cardinality(1..m)
    BY <1>4, <1>6, <2>1, <2>2, FS_Surjection
  <2> QED
    BY <1>4, <1>6, <2>3 DEF T
<1> QED
  BY <1>1, <1>3, <1>5, <1>6, <1>7, <1>8, <1>9 DEF files

LEMMA LargestListed ==
  ASSUME IsBucket, ReportInv, result["largeFiles"] # None
  PROVE  LargestAreListed
<1> DEFINE files == result["largeFiles"]
           L == FilesOf(Large)
<1>1. files \in LargeFiles(L)
  <2>1. Large \cap 1..Len(objects) = Large
    BY BucketType DEF Large, Where
  <2> QED
    BY <2>1, WholeListing DEF GoodAt, Reports, Kept
<1>2. PICK p \in BySize(L) :
        files = SubSeq(p, 1, IF Len(p) > MaxResults THEN MaxResults ELSE Len(p))
  BY <1>1 DEF LargeFiles
<1>3. IsFiniteSet(L)
  <2> DEFINE f == [i \in Large |-> [key |-> objects[i].key, size |-> objects[i].size]]
  <2>1. IsFiniteSet(Large)
    <3>1. Len(objects) \in Nat /\ Large \in SUBSET (1..Len(objects))
      BY BucketType DEF Large, Where
    <3> QED
      BY <3>1, Below
  <2>2. f \in Surjection(Large, L)
    BY DEF Surjection, FilesOf
  <2> HIDE DEF f, L
  <2> QED
    BY <2>1, <2>2, FS_Surjection
<1>4. p \in SetToSeqs(L) /\ \A i, j \in DOMAIN p : i < j => p[i].size >= p[j].size
  BY <1>2 DEF BySize
<1>5. Len(p) \in Nat /\ DOMAIN p = 1..Len(p) /\ MaxResults \in Nat \ {0}
  <2>1. Len(p) \in Nat /\ DOMAIN p = 1..Len(p)
    <3>1. Cardinality(L) \in Nat /\ p \in [1..Cardinality(L) -> L]
      BY <1>3, <1>4, FS_CardinalityType DEF SetToSeqs
    <3> HIDE DEF L
    <3> QED
      BY <3>1
  <2> QED
    BY <2>1, DeepAssumption
<1> DEFINE m == IF Len(p) > MaxResults THEN MaxResults ELSE Len(p)
<1>6. m \in 0..Len(p)
  BY <1>5
<1> HIDE DEF files, L, m
<1>7. /\ files = SubSeq(p, 1, m)
      /\ Len(files) = m /\ DOMAIN files = 1..m /\ \A i \in 1..m : files[i] = p[i]
      /\ ToSet(files) \subseteq L /\ Cardinality(ToSet(files)) = m
      /\ \A f \in L : \E j \in 1..Len(p) : f = p[j]
  <2>1. files = SubSeq(p, 1, m)
    BY <1>2 DEF m
  <2> QED
    BY <1>3, <1>4, <1>6, <2>1, FirstFiles
<1>8. \A i \in 1..Len(p) : p[i].size \in Nat
  <2>1. \A f \in L : f.size \in Nat
    BY BucketType DEF L, FilesOf, Large, Where
  <2>2. \A i \in 1..Len(p) : p[i] \in L
    BY <1>4, <1>5 DEF SetToSeqs
  <2> QED
    BY <2>1, <2>2
<1>9. \A i, j \in DOMAIN files : i < j => files[i].size >= files[j].size
  <2> SUFFICES ASSUME NEW i \in 1..m, NEW j \in 1..m, i < j
               PROVE  files[i].size >= files[j].size
    BY <1>7
  <2>1. i \in DOMAIN p /\ j \in DOMAIN p
    BY <1>5, <1>6
  <2>2. files[i] = p[i] /\ files[j] = p[j]
    BY <1>7
  <2> QED
    BY <1>4, <2>1, <2>2
<1>10. CASE m = Len(p)
  <2>1. ToSet(files) = L
    <3>1. ASSUME NEW f \in L PROVE f \in ToSet(files)
      BY <1>7, <1>10 DEF ToSet
    <3> QED
      BY <1>7, <3>1
  <2> QED
    BY <1>7, <1>9, <2>1 DEF LargestAreListed, L, FilesOf, Large, files
<1>11. CASE m # Len(p)
  <2>1. m = MaxResults /\ m < Len(p) /\ m \in 1..m
    <3>1. m = MaxResults /\ Len(p) > MaxResults
      BY <1>11 DEF m
    <3> QED
      BY <1>5, <3>1
  <2>2. ASSUME NEW f \in L \ ToSet(files) PROVE f.size <= files[MaxResults].size
    <3>1. PICK j \in 1..Len(p) : f = p[j]
      BY <1>7
    <3>2. ~(j \in 1..m)
      BY <1>7, <2>2, <3>1 DEF ToSet
    <3>3. m < j /\ m \in DOMAIN p /\ j \in DOMAIN p
      BY <1>5, <1>6, <2>1, <3>2
    <3>4. p[m].size >= p[j].size /\ files[m] = p[m]
      BY <1>4, <1>7, <2>1, <3>3
    <3> QED
      BY <1>5, <1>8, <2>1, <3>1, <3>3, <3>4
  <2> QED
    BY <1>7, <1>9, <2>1, <2>2 DEF LargestAreListed, L, FilesOf, Large, files
<1> QED
  BY <1>10, <1>11

(* What FindDuplicates, FindLargeFiles and EstimateCost report is true of  *)
(* the whole bucket, for every bucket, page size, limit and price, and     *)
(* whatever fails.                                                         *)
THEOREM WholeBucket == Spec => []WholeBucketOrNothing
<1>1. IInv /\ ReportInv => WholeBucketOrNothing
  BY DuplicatesExact, LargestListed, CostExact DEF IInv, TypeOK, IsBucket, WholeBucketOrNothing
<1> QED
  BY <1>1, Invariance, ReportInvariance, PTL

=============================================================================
