------------------------------ MODULE ScanStats ------------------------------
(***************************************************************************)
(* The statistics of a scan (internal/scan/stats.go): an aggregator that   *)
(* is given one object at a time, and the tables and figures built from it *)
(* when the scan is over.                                                  *)
(*                                                                         *)
(* An object is a record.  Its key is reduced to what the code takes from  *)
(* it: the part before the first slash (dir, NoDir for an object at the    *)
(* root) and the part after the last dot of its last segment (ext, NoExt   *)
(* if there is none).  Its age is in hours at the time it is added.        *)
(* Fractions are kept in hundredths, as the code rounds them.              *)
(***************************************************************************)
EXTENDS Integers, Sequences, FiniteSets, FiniteSetsExt, SequencesExt

NoDir   == "no dir"
NoExt   == "(no extension)"
NoClass == ""

ScanSummary == [totalObjects : Nat, totalSize : Nat, avgSize : Nat,
                medianSize : Nat, maxSize : Nat, emptyObjects : Nat]
Accumulator == [count : Nat, size : Nat]

-----------------------------------------------------------------------------
TopLevelPrefix(obj) == IF obj.dir = NoDir THEN obj.key ELSE obj.dir

StorageClass(obj) == IF obj.class = NoClass THEN "STANDARD" ELSE obj.class

(* Age buckets are named by their upper bound: a day, a week, 30, 90 and   *)
(* 365 days; Older is the last one, which has none.                        *)
AgeBounds == {24, 168, 720, 2160, 8760}
Older == 0

(* Seeded bug: an object of exactly a day, a week, ... is in the bucket    *)
(* that ends there.                                                        *)
AgeBucketClosed(hours) ==
  LET over == {b \in AgeBounds : hours <= b} IN IF over = {} THEN Older ELSE Min(over)

AgeBucket(hours) ==
  LET over == {b \in AgeBounds : hours < b} IN IF over = {} THEN Older ELSE Min(over)

-----------------------------------------------------------------------------
NoLabels == [label \in {} |-> [count |-> 0, size |-> 0]]

NewStatsAggregator ==
  [totalObjects |-> 0, totalSize |-> 0, sizes |-> <<>>, maxSize |-> 0, emptyObjects |-> 0,
   types |-> NoLabels, ages |-> NoLabels, storage |-> NoLabels, prefixes |-> NoLabels]

(* The accumulator of the label is made when its first object comes.       *)
Accumulate(table, label, size) ==
  [x \in DOMAIN table \cup {label} |->
     LET acc == IF x \in DOMAIN table THEN table[x] ELSE [count |-> 0, size |-> 0]
     IN  IF x = label THEN [count |-> acc.count + 1, size |-> acc.size + size] ELSE acc]

AddObject(agg, obj) ==
  [totalObjects |-> agg.totalObjects + 1,
   totalSize    |-> agg.totalSize + obj.size,
   sizes        |-> Append(agg.sizes, obj.size),
   maxSize      |-> Max({agg.maxSize, obj.size}),
   emptyObjects |-> agg.emptyObjects + (IF obj.size = 0 THEN 1 ELSE 0),
   types        |-> Accumulate(agg.types, obj.ext, obj.size),
   ages         |-> Accumulate(agg.ages, AgeBucket(obj.age), obj.size),
   storage      |-> Accumulate(agg.storage, StorageClass(obj), obj.size),
   prefixes     |-> Accumulate(agg.prefixes, TopLevelPrefix(obj), obj.size)]

(* The batch goes to the aggregator object by object.                      *)
AddBatch(agg, batch) == FoldLeft(AddObject, agg, batch)

-----------------------------------------------------------------------------
(* 100 * n / d, rounded to the nearest integer, halves up (math.Round).    *)
Hundredths(n, d) == IF d = 0 THEN 0 ELSE (200 * n + d) \div (2 * d)

(* The sizes from the smallest to the largest (sort.Slice).                *)
Sorted(sizes) ==
  LET p == CHOOSE p \in Bijection(DOMAIN sizes, DOMAIN sizes) :
             \A i, j \in DOMAIN sizes : i < j => sizes[p[i]] <= sizes[p[j]]
  IN  [i \in DOMAIN sizes |-> sizes[p[i]]]

(* Seeded bug: the upper of the two middle sizes.                          *)
UpperMedian(sizes) ==
  LET sorted == Sorted(sizes) IN
  IF sizes = <<>> THEN 0 ELSE sorted[Len(sizes) \div 2 + 1]

Median(sizes) ==
  LET sorted == Sorted(sizes)
      mid    == Len(sizes) \div 2
  IN  IF sizes = <<>> THEN 0
      ELSE IF Len(sizes) % 2 = 0 THEN (sorted[mid] + sorted[mid + 1]) \div 2
      ELSE sorted[mid + 1]

BuildSummary(agg) ==
  [totalObjects |-> agg.totalObjects,
   totalSize    |-> agg.totalSize,
   avgSize      |-> Hundredths(agg.totalSize, agg.totalObjects),
   medianSize   |-> Median(agg.sizes),
   maxSize      |-> agg.maxSize,
   emptyObjects |-> agg.emptyObjects]

(* The share of each extension, in hundredths of a per cent.               *)
BuildTypes(agg) ==
  [ext \in DOMAIN agg.types |->
     [count     |-> agg.types[ext].count,
      totalSize |-> agg.types[ext].size,
      pct       |-> Hundredths(100 * agg.types[ext].count, agg.totalObjects)]]

BuildReport(agg) ==
  [summary |-> BuildSummary(agg), types |-> BuildTypes(agg), ages |-> agg.ages,
   storage |-> agg.storage, prefixes |-> agg.prefixes]
=============================================================================
