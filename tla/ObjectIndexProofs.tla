--------------------------- MODULE ObjectIndexProofs ---------------------------
(***************************************************************************)
(* Proofs about ObjectIndex for every set of keys and ETags, every batch   *)
(* size, every sequence of changes and any number of scans.                *)
(***************************************************************************)
EXTENDS ObjectIndex, FiniteSetTheorems, WellFoundedInduction, TLAPS

-----------------------------------------------------------------------------
(* The inductive invariant: what is finite, ...                            *)
Finite == IsFiniteSet(DOMAIN listed) /\ IsFiniteSet(Indexed) /\ IsFiniteSet(DOMAIN previous)

(* ... that a scan lists the bucket and has stored what has left its       *)
(* batch, ...                                                              *)
Flushed ==
  kind # "none" =>
    /\ DOMAIN listed \subseteq DOMAIN bucket /\ batch \subseteq DOMAIN listed
    /\ \A k \in DOMAIN listed : listed[k] = bucket[k]
    /\ \A k \in DOMAIN listed \ batch : <<listed[k], k>> \in index

(* ... that a baseline has at least what the last scan has listed and      *)
(* could be read, ...                                                      *)
BaselineCovers == kind = "incremental" => DOMAIN last \ missed \subseteq DOMAIN previous

(* ... and that while the history is clean, the index holds the bucket's   *)
(* own versions only, between scans just what was listed last, and a       *)
(* baseline is what could be read of the last listing.                     *)
CleanIndex ==
  clean => /\ \A p \in index : p[2] \in DOMAIN bucket /\ p[1] = bucket[p[2]]
           /\ kind = "none" => Indexed = DOMAIN last
           /\ kind = "incremental" => previous = Without(last, missed)

IInv ==
  /\ TypeOK /\ Finite /\ Flushed /\ BaselineCovers /\ CleanIndex
  /\ IndexHoldsListing /\ DeltaCountsListed /\ CleanDelta /\ DeltaErrsOneWay

-----------------------------------------------------------------------------
(* A set of numbers has a least element, and Min returns it.               *)
LEMMA LeastNumber ==
  ASSUME NEW T, T \subseteq Nat, T # {}
  PROVE  Min(T) \in T
<1> DEFINE R == OpToRel(<, Nat)
<1>1. PICK x \in T : \A y \in T : ~ (<<y, x>> \in R)
  <2>1. IsWellFoundedOn(R, Nat)
    BY NatLessThanWellFounded
  <2> HIDE DEF R
  <2> QED
    BY <2>1, WFMin
<1>2. \A y \in T : x =< y
  <2> TAKE y \in T
  <2>1. ~ (y < x)
    BY <1>1 DEF OpToRel
  <2> QED
    BY <2>1
<1> QED
  BY <1>2 DEF Min

(* The functions from keys to ETags, by their domains.                     *)
LEMMA ListingsType ==
  ASSUME NEW f
  PROVE  f \in Listings <=> DOMAIN f \subseteq Keys /\ f \in [DOMAIN f -> ETags]
BY DEF Listings

(* What With, Without and Empty are, as listings.                          *)
LEMMA WithType ==
  ASSUME NEW f \in Listings, NEW k \in Keys, NEW e \in ETags
  PROVE  /\ With(f, k, e) \in Listings /\ DOMAIN With(f, k, e) = DOMAIN f \cup {k}
         /\ With(f, k, e)[k] = e /\ \A x \in DOMAIN f \ {k} : With(f, k, e)[x] = f[x]
BY ListingsType DEF With

LEMMA WithoutType ==
  ASSUME NEW f \in Listings, NEW ks
  PROVE  /\ Without(f, ks) \in Listings /\ DOMAIN Without(f, ks) = DOMAIN f \ ks
         /\ \A x \in DOMAIN f \ ks : Without(f, ks)[x] = f[x]
BY ListingsType DEF Without

LEMMA EmptyType == Empty \in Listings /\ DOMAIN Empty = {}
BY ListingsType DEF Empty

(* The key of a stored version is indexed.                                 *)
LEMMA StoredIsIndexed ==
  ASSUME NEW e, NEW k, <<e, k>> \in index
  PROVE  k \in Indexed
<1>1. <<e, k>>[2] = k
  OBVIOUS
<1> QED
  BY <1>1, Zenon DEF Indexed

(* The baseline has the indexed keys, each with a version that is stored.  *)
LEMMA BaselineType ==
  ASSUME index \subseteq ETags \X Keys
  PROVE  /\ Baseline \in Listings /\ DOMAIN Baseline = Indexed
         /\ \A k \in Indexed : <<Baseline[k], k>> \in index
<1>1. \A k \in Indexed : GetObject(k) \in Versions(k)
  <2> TAKE k \in Indexed
  <2>1. Versions(k) \subseteq Nat
    BY IndexAssumption DEF Versions
  <2>2. Versions(k) # {}
    BY DEF Versions, Indexed
  <2> QED
    BY <2>1, <2>2, LeastNumber DEF GetObject
<1>2. Indexed \subseteq Keys
  BY DEF Indexed
<1> QED
  BY <1>1, <1>2, ListingsType DEF Baseline, Versions

(* The counts of a delta are natural numbers, and the first three add up   *)
(* to the objects listed.                                                  *)
LEMMA DeltaType ==
  ASSUME NEW prev, NEW curr, IsFiniteSet(DOMAIN prev), IsFiniteSet(DOMAIN curr)
  PROVE  /\ Delta(prev, curr) \in [new : Nat, modified : Nat, unchanged : Nat, deleted : Nat]
         /\ Delta(prev, curr).new + Delta(prev, curr).modified + Delta(prev, curr).unchanged
              = Cardinality(DOMAIN curr)
<1> DEFINE seen == DOMAIN curr
           old  == DOMAIN prev
           mod  == {k \in seen \cap old : prev[k] # curr[k]}
           unch == {k \in seen \cap old : prev[k] = curr[k]}
<1>1. /\ IsFiniteSet(seen \ old) /\ IsFiniteSet(mod) /\ IsFiniteSet(unch)
      /\ IsFiniteSet(old \ seen) /\ IsFiniteSet(mod \cup unch)
  BY FS_Subset
<1>2. /\ Cardinality(seen \ old) \in Nat /\ Cardinality(mod) \in Nat
      /\ Cardinality(unch) \in Nat /\ Cardinality(old \ seen) \in Nat
  BY <1>1, FS_CardinalityType
<1>3. Cardinality(mod \cup unch) = Cardinality(mod) + Cardinality(unch)
  <2>1. mod \cap unch = {}
    OBVIOUS
  <2>2. Cardinality(mod \cup unch)
          = Cardinality(mod) + Cardinality(unch) - Cardinality(mod \cap unch)
    BY <1>1, FS_Union
  <2> QED
    BY <2>1, <2>2, <1>2, FS_EmptySet
<1>4. Cardinality(seen) = Cardinality(seen \ old) + Cardinality(mod \cup unch)
  <2>1. seen = (seen \ old) \cup (mod \cup unch) /\ (seen \ old) \cap (mod \cup unch) = {}
    OBVIOUS
  <2>2. Cardinality((seen \ old) \cup (mod \cup unch))
          = Cardinality(seen \ old) + Cardinality(mod \cup unch)
              - Cardinality((seen \ old) \cap (mod \cup unch))
    BY <1>1, FS_Union
  <2>3. Cardinality(seen)
          = Cardinality(seen \ old) + Cardinality(mod \cup unch) - Cardinality({})
    BY <2>1, <2>2, Zenon
  <2>4. Cardinality(mod \cup unch) \in Nat /\ Cardinality({}) = 0
    BY <1>1, FS_CardinalityType, FS_EmptySet
  <2> HIDE DEF seen, old, mod, unch
  <2> QED
    BY <2>3, <2>4, <1>2
<1>5. Delta(prev, curr) = [new |-> Cardinality(seen \ old), modified |-> Cardinality(mod),
                           unchanged |-> Cardinality(unch), deleted |-> Cardinality(old \ seen)]
  BY DEF Delta
<1> HIDE DEF seen, old, mod, unch
<1>6. /\ Delta(prev, curr).new = Cardinality(seen \ old)
      /\ Delta(prev, curr).modified = Cardinality(mod)
      /\ Delta(prev, curr).unchanged = Cardinality(unch)
  BY <1>5
<1>7. Delta(prev, curr) \in [new : Nat, modified : Nat, unchanged : Nat, deleted : Nat]
  BY <1>5, <1>2
<1>8. Cardinality(seen)
        = Cardinality(seen \ old) + Cardinality(mod) + Cardinality(unch)
  BY <1>2, <1>3, <1>4
<1> QED
  BY <1>6, <1>7, <1>8 DEF seen

(* A larger baseline makes fewer new objects and more deleted ones.        *)
LEMMA LargerBaseline ==
  ASSUME NEW prev, NEW more, NEW curr, IsFiniteSet(DOMAIN more), IsFiniteSet(DOMAIN curr),
         DOMAIN prev \subseteq DOMAIN more
  PROVE  /\ Delta(more, curr).new <= Delta(prev, curr).new
         /\ Delta(more, curr).deleted >= Delta(prev, curr).deleted
<1>1. IsFiniteSet(DOMAIN curr \ DOMAIN prev) /\ IsFiniteSet(DOMAIN more \ DOMAIN curr)
  BY FS_Subset
<1>2. /\ Cardinality(DOMAIN curr \ DOMAIN more) <= Cardinality(DOMAIN curr \ DOMAIN prev)
      /\ Cardinality(DOMAIN prev \ DOMAIN curr) <= Cardinality(DOMAIN more \ DOMAIN curr)
  BY <1>1, FS_Subset
<1>3. /\ Cardinality(DOMAIN prev \ DOMAIN curr) \in Nat
      /\ Cardinality(DOMAIN more \ DOMAIN curr) \in Nat
  BY <1>1, FS_Subset, FS_CardinalityType
<1> QED
  BY <1>2, <1>3 DEF Delta

-----------------------------------------------------------------------------
LEMMA InitInv == Init => IInv
<1> SUFFICES ASSUME Init PROVE IInv
  OBVIOUS
<1>1. TypeOK
  BY EmptyType, IndexAssumption DEF Init, TypeOK
<1>2. Indexed = {}
  BY DEF Init, Indexed
<1>3. Finite
  BY <1>2, EmptyType, FS_EmptySet DEF Init, Finite
<1> QED
  BY <1>1, <1>2, <1>3, EmptyType
     DEF Init, IInv, Flushed, BaselineCovers, CleanIndex, IndexHoldsListing,
         DeltaCountsListed, CleanDelta, DeltaErrsOneWay

(* Users change the bucket between scans only.                             *)
LEMMA UploadInv ==
  ASSUME IInv, NEW k \in Keys, NEW e \in ETags, Upload(k, e)
  PROVE  IInv'
<1>1. bucket \in Listings /\ bucket' = With(bucket, k, e)
  BY DEF IInv, TypeOK, Upload
<1>2. /\ bucket' \in Listings /\ DOMAIN bucket' = DOMAIN bucket \cup {k}
      /\ \A x \in DOMAIN bucket \ {k} : bucket'[x] = bucket[x]
  <2>1. /\ With(bucket, k, e) \in Listings
        /\ DOMAIN With(bucket, k, e) = DOMAIN bucket \cup {k}
        /\ \A x \in DOMAIN bucket \ {k} : With(bucket, k, e)[x] = bucket[x]
    BY <1>1, WithType, ZenonT(40)
  <2> QED
    BY <1>1, <2>1, Zenon
<1> USE DEF IInv, Upload, baseline, outcome
<1>3. TypeOK'
  <2>1. /\ {bucket', previous', listed', last', before'} \subseteq Listings
        /\ clean' \in BOOLEAN
    BY <1>2 DEF TypeOK
  <2>2. Listings' = Listings
    BY DEF Listings
  <2> QED
    BY <2>1, <2>2 DEF TypeOK
<1>4. Indexed' = Indexed
  BY DEF Indexed
<1>5. Finite' /\ Flushed' /\ BaselineCovers'
  BY <1>4 DEF Finite, Flushed, BaselineCovers
<1>6. CleanIndex'
  BY <1>2, <1>4 DEF CleanIndex, Indexed
<1> QED
  BY <1>3, <1>5, <1>6
     DEF IndexHoldsListing, DeltaCountsListed, CleanDelta, DeltaErrsOneWay

LEMMA RemoveInv ==
  ASSUME IInv, NEW k \in Keys, Remove(k)
  PROVE  IInv'
<1> USE DEF IInv, Remove, baseline, outcome
<1>1. bucket \in Listings
  BY DEF TypeOK
<1>2. /\ bucket' \in Listings /\ DOMAIN bucket' = DOMAIN bucket \ {k}
      /\ \A x \in DOMAIN bucket \ {k} : bucket'[x] = bucket[x]
  BY <1>1, WithoutType
<1>3. TypeOK'
  <2>1. /\ {bucket', previous', listed', last', before'} \subseteq Listings
        /\ clean' \in BOOLEAN
    BY <1>2 DEF TypeOK
  <2>2. Listings' = Listings
    BY DEF Listings
  <2> QED
    BY <2>1, <2>2 DEF TypeOK
<1>4. Indexed' = Indexed
  BY DEF Indexed
<1>5. Finite' /\ Flushed' /\ BaselineCovers'
  BY <1>4 DEF Finite, Flushed, BaselineCovers
<1>6. CleanIndex'
  BY <1>2, <1>4 DEF CleanIndex, Indexed
<1> QED
  BY <1>3, <1>5, <1>6
     DEF IndexHoldsListing, DeltaCountsListed, CleanDelta, DeltaErrsOneWay

(* While the history is clean, a baseline is what is read of the last      *)
(* listing.                                                                *)
LEMMA StartInv ==
  ASSUME IInv, NEW type \in {"full", "incremental"}, Start(type)
  PROVE  IInv'
<1> USE DEF IInv, Start, outcome
<1>1. index \subseteq ETags \X Keys /\ last \in Listings
  BY DEF TypeOK
<1>2. /\ Baseline \in Listings /\ DOMAIN Baseline = Indexed
      /\ \A k \in Indexed : <<Baseline[k], k>> \in index
  BY <1>1, BaselineType
<1>3. PICK lost \in SUBSET Indexed :
        \/ type = "incremental" /\ previous' = Without(Baseline, lost) /\ missed' = lost
        \/ type = "full" /\ previous' = Empty /\ missed' = {} /\ lost = {}
  OBVIOUS
<1>4. /\ Without(Baseline, lost) \in Listings
      /\ DOMAIN Without(Baseline, lost) = Indexed \ lost
      /\ \A k \in Indexed \ lost : Without(Baseline, lost)[k] = Baseline[k]
  BY <1>2, WithoutType
<1>5. TypeOK'
  <2>1. previous' \in Listings /\ listed' \in Listings
    BY <1>3, <1>4, EmptyType
  <2>2. scans' \in 0..MaxScans
    BY IndexAssumption DEF TypeOK
  <2>3. missed' \subseteq Keys
    BY <1>1, <1>3 DEF Indexed
  <2> QED
    BY <2>1, <2>2, <2>3 DEF TypeOK, Listings
<1>6. Indexed' = Indexed
  BY DEF Indexed
<1>7. Finite'
  <2>1. IsFiniteSet(Indexed \ lost)
    BY FS_Subset DEF Finite
  <2> QED
    BY <1>3, <1>4, <1>6, <2>1, EmptyType, FS_EmptySet DEF Finite
<1>8. Flushed'
  BY EmptyType DEF Flushed
<1>9. DOMAIN last \subseteq Indexed
  BY StoredIsIndexed DEF IndexHoldsListing
<1>10. BaselineCovers'
  BY <1>3, <1>4, <1>9 DEF BaselineCovers
<1>11. clean => Without(Baseline, lost) = Without(last, lost)
  <2> SUFFICES ASSUME clean PROVE Without(Baseline, lost) = Without(last, lost)
    OBVIOUS
  <2>1. Indexed = DOMAIN last
    BY DEF CleanIndex
  <2>2. \A k \in Indexed : Baseline[k] = bucket[k] /\ last[k] = bucket[k]
    BY <1>2, <2>1 DEF CleanIndex, IndexHoldsListing
  <2>3. Baseline = last
    BY <1>1, <1>2, <2>1, <2>2, ListingsType
  <2> QED
    BY <2>3, Zenon
<1>12. CleanIndex'
  <2>1. clean /\ type = "incremental" => previous' = Without(last, missed)'
    <3>1. clean /\ type = "incremental" => previous' = Without(last, missed')
      BY <1>3, <1>11, Zenon
    <3> QED
      BY <3>1 DEF Without
  <2> QED
    BY <1>6, <2>1 DEF CleanIndex
<1> QED
  BY <1>5, <1>7, <1>8, <1>10, <1>12
     DEF IndexHoldsListing, DeltaCountsListed, CleanDelta, DeltaErrsOneWay

(* What a flush adds to the index are the versions of the bucket.          *)
LEMMA SaveObjectsIndex ==
  ASSUME NEW ks, NEW listing, SaveObjects(ks, listing)
  PROVE  /\ index \subseteq index' /\ \A k \in ks : <<listing[k], k>> \in index'
         /\ \A p \in index' : p \in index \/ (p[2] \in ks /\ p[1] = listing[p[2]])
         /\ Indexed' = Indexed \cup ks
<1> DEFINE new == {<<listing[k], k>> : k \in ks}
<1>1. index' = index \cup new
  BY DEF SaveObjects
<1>2. {p[2] : p \in new} = ks
  <2>1. \A k \in ks : <<listing[k], k>>[2] = k
    OBVIOUS
  <2>2. \A x : x \in {p[2] : p \in new} <=> \E k \in ks : x = <<listing[k], k>>[2]
    BY Zenon
  <2> QED
    BY <2>1, <2>2, Zenon
<1>3. Indexed' = Indexed \cup {p[2] : p \in new}
  <2> HIDE DEF new
  <2> QED
    BY <1>1, Zenon DEF Indexed
<1> QED
  BY <1>1, <1>2, <1>3

LEMMA CollectInv ==
  ASSUME IInv, NEW k \in Keys, Collect(k)
  PROVE  IInv'
<1>0. ASSUME listed \in Listings, NEW e \in ETags
      PROVE  /\ With(listed, k, e) \in Listings
             /\ DOMAIN With(listed, k, e) = DOMAIN listed \cup {k}
             /\ With(listed, k, e)[k] = e
             /\ \A x \in DOMAIN listed \ {k} : With(listed, k, e)[x] = listed[x]
  BY <1>0, WithType, ZenonT(40)
<1> USE DEF IInv, Collect, baseline, outcome
<1>1. /\ bucket \in Listings /\ listed \in Listings /\ batch \subseteq Keys
      /\ index \subseteq ETags \X Keys
  BY DEF TypeOK
<1>2. PICK e \in ETags : e = bucket[k]
  BY <1>1, ListingsType
<1>3. /\ listed' \in Listings /\ DOMAIN listed' = DOMAIN listed \cup {k}
      /\ \A x \in DOMAIN listed' : listed'[x] = bucket[x]
  <2>1. /\ listed' \in Listings /\ DOMAIN listed' = DOMAIN listed \cup {k}
        /\ listed'[k] = bucket[k] /\ \A x \in DOMAIN listed \ {k} : listed'[x] = listed[x]
    <3>1. listed' = With(listed, k, e)
      BY <1>2
    <3>2. /\ With(listed, k, e) \in Listings
          /\ DOMAIN With(listed, k, e) = DOMAIN listed \cup {k}
          /\ With(listed, k, e)[k] = e
          /\ \A x \in DOMAIN listed \ {k} : With(listed, k, e)[x] = listed[x]
      BY <1>0, <1>1
    <3> QED
      BY <1>2, <3>1, <3>2
  <2> QED
    BY <2>1 DEF Flushed
<1>4. DOMAIN listed' \subseteq DOMAIN bucket
  BY <1>3 DEF Flushed
<1>5. IsFiniteSet(DOMAIN listed')
  BY <1>3, FS_AddElement DEF Finite
<1>6. CASE SaveObjects(batch \cup {k}, listed') /\ batch' = {}
  <2>1. /\ index \subseteq index' /\ \A x \in batch \cup {k} : <<listed'[x], x>> \in index'
        /\ \A p \in index' : p \in index \/ (p[2] \in batch \cup {k} /\ p[1] = listed'[p[2]])
        /\ Indexed' = Indexed \cup (batch \cup {k})
    BY <1>6, SaveObjectsIndex
  <2>2. batch \cup {k} \subseteq DOMAIN listed'
    BY <1>3 DEF Flushed
  <2>3. \A x \in DOMAIN listed' : listed'[x] \in ETags /\ x \in Keys
    BY <1>3, ListingsType
  <2>4. index' \subseteq ETags \X Keys
    BY <1>1, <1>6, <2>2, <2>3 DEF SaveObjects
  <2>5. TypeOK'
    BY <1>3, <1>6, <2>4, SMTT(40) DEF TypeOK, Listings
  <2>6. Finite'
    <3>1. IsFiniteSet(batch \cup {k})
      BY <1>5, <2>2, FS_Subset
    <3> QED
      BY <1>5, <2>1, <3>1, FS_Union DEF Finite
  <2>7. Flushed'
    BY <1>3, <1>4, <1>6, <2>1 DEF Flushed
  <2>8. BaselineCovers'
    BY DEF BaselineCovers
  <2>9. CleanIndex'
    BY <1>3, <1>4, <2>1, <2>2 DEF CleanIndex
  <2>10. IndexHoldsListing'
    BY <2>1 DEF IndexHoldsListing
  <2> QED
    BY <2>5, <2>6, <2>7, <2>8, <2>9, <2>10 DEF DeltaCountsListed, CleanDelta, DeltaErrsOneWay
<1>7. CASE batch' = batch \cup {k} /\ UNCHANGED index
  <2>1. Indexed' = Indexed
    BY <1>7 DEF Indexed
  <2>2. TypeOK'
    BY <1>3, <1>7 DEF TypeOK, Listings
  <2>3. Finite' /\ BaselineCovers'
    BY <1>5, <2>1 DEF Finite, BaselineCovers
  <2>4. Flushed'
    BY <1>3, <1>4, <1>7 DEF Flushed
  <2>5. CleanIndex' /\ IndexHoldsListing'
    BY <1>7, <2>1 DEF CleanIndex, IndexHoldsListing
  <2> QED
    BY <2>2, <2>3, <2>4, <2>5 DEF DeltaCountsListed, CleanDelta, DeltaErrsOneWay
<1> QED
  BY <1>6, <1>7

LEMMA FinishInv ==
  ASSUME IInv, Finish
  PROVE  IInv'
<1> USE DEF IInv, Finish, Return
<1>1. /\ listed \in Listings /\ last \in Listings /\ previous \in Listings
      /\ batch \subseteq Keys /\ index \subseteq ETags \X Keys
  BY DEF TypeOK
<1>2. batch \subseteq DOMAIN listed /\ \A k \in DOMAIN listed : listed[k] = bucket[k]
  BY DEF Flushed
<1>3. /\ index \subseteq index' /\ \A k \in batch : <<listed[k], k>> \in index'
      /\ \A p \in index' : p \in index \/ (p[2] \in batch /\ p[1] = listed[p[2]])
      /\ Indexed' = Indexed \cup batch
  BY SaveObjectsIndex
<1>4. /\ Delta(previous, listed) \in [new : Nat, modified : Nat, unchanged : Nat, deleted : Nat]
      /\ Delta(previous, listed).new + Delta(previous, listed).modified
            + Delta(previous, listed).unchanged = Cardinality(DOMAIN listed)
  BY DeltaType DEF Finite
<1>5. delta' # None => kind = "incremental" /\ delta' = Delta(previous, listed)
  BY DEF TypeOK
<1>6. TypeOK'
  <2>1. index' \subseteq ETags \X Keys
    BY <1>1, <1>2, ListingsType DEF SaveObjects
  <2>2. Listings' = Listings
    BY DEF Listings
  <2>3. {bucket', previous', listed', last', before'} \subseteq Listings
    BY <1>1, EmptyType DEF TypeOK
  <2>4. delta' \in {None} \cup [new : Nat, modified : Nat, unchanged : Nat, deleted : Nat]
    BY <1>4, <1>5
  <2> QED
    BY <2>1, <2>2, <2>3, <2>4 DEF TypeOK
<1>7. Finite'
  <2>1. IsFiniteSet(batch)
    BY <1>2, FS_Subset DEF Finite
  <2> QED
    BY <1>3, <2>1, EmptyType, FS_EmptySet, FS_Union DEF Finite
<1>8. IndexHoldsListing'
  BY <1>3 DEF IndexHoldsListing, Flushed
<1>9. CleanIndex'
  <2>1. Indexed \subseteq DOMAIN bucket \/ ~clean
    BY DEF CleanIndex, Indexed
  <2>2. DOMAIN listed \subseteq Indexed'
    <3>1. \A k \in DOMAIN listed : <<listed[k], k>> \in index \/ k \in batch
      BY DEF Flushed
    <3> QED
      BY <1>3, <3>1, StoredIsIndexed
  <2> QED
    BY <1>2, <1>3, <2>1, <2>2 DEF CleanIndex
<1>10. Flushed' /\ BaselineCovers'
  BY DEF Flushed, BaselineCovers
<1>11. DeltaCountsListed'
  BY <1>4, <1>5 DEF DeltaCountsListed
<1>12. Without(before, unread)' = Without(last, missed)
  BY DEF Without
<1>13. Delta(Without(before, unread), last)' = Delta(Without(last, missed), listed)
  BY <1>12 DEF Delta
<1>14. CleanDelta'
  BY <1>5, <1>13 DEF CleanDelta, CleanIndex
<1>15. DeltaErrsOneWay'
  <2> SUFFICES ASSUME delta' # None
               PROVE  /\ delta'.new <= Delta(Without(last, missed), listed).new
                      /\ delta'.deleted >= Delta(Without(last, missed), listed).deleted
    BY <1>13 DEF DeltaErrsOneWay
  <2>1. DOMAIN Without(last, missed) \subseteq DOMAIN previous
    BY <1>1, <1>5, WithoutType DEF BaselineCovers
  <2> QED
    BY <1>5, <2>1, LargerBaseline DEF Finite
<1> QED
  BY <1>6, <1>7, <1>8, <1>9, <1>10, <1>11, <1>14, <1>15

(* A failed scan leaves the history clean only if it has stored nothing    *)
(* that was not listed before.                                             *)
LEMMA FailInv ==
  ASSUME IInv, Fail
  PROVE  IInv'
<1> USE DEF IInv, Fail, Return, outcome
<1>1. /\ index \subseteq index' /\ index' \subseteq ETags \X Keys
      /\ IsFiniteSet(Indexed') /\ (clean => \A p \in index' : p[2] \in DOMAIN bucket
                                                        /\ p[1] = bucket[p[2]])
  <2>1. CASE UNCHANGED index
    <3>1. Indexed' = Indexed
      BY <2>1 DEF Indexed
    <3> QED
      BY <2>1, <3>1 DEF TypeOK, Finite, CleanIndex
  <2>2. CASE SaveObjects(batch, listed)
    <3>1. /\ batch \subseteq DOMAIN listed /\ \A k \in DOMAIN listed : listed[k] = bucket[k]
          /\ DOMAIN listed \subseteq DOMAIN bucket /\ listed \in Listings
      BY DEF Flushed, TypeOK
    <3>2. /\ index \subseteq index' /\ Indexed' = Indexed \cup batch
          /\ \A p \in index' : p \in index \/ (p[2] \in batch /\ p[1] = listed[p[2]])
      BY <2>2, SaveObjectsIndex
    <3>3. index' \subseteq ETags \X Keys
      BY <2>2, <3>1, ListingsType DEF SaveObjects, TypeOK
    <3>4. IsFiniteSet(batch)
      BY <3>1, FS_Subset DEF Finite
    <3>5. IsFiniteSet(Indexed')
      BY <3>2, <3>4, FS_Union DEF Finite
    <3>6. clean => \A p \in index' : p[2] \in DOMAIN bucket /\ p[1] = bucket[p[2]]
      BY <3>1, <3>2 DEF CleanIndex
    <3> QED
      BY <3>2, <3>3, <3>5, <3>6
  <2> QED
    BY <2>1, <2>2
<1>2. IndexHoldsListing'
  BY <1>1 DEF IndexHoldsListing
<1>3. DOMAIN last \subseteq Indexed'
  <2>1. \A k \in DOMAIN last : <<last[k], k>> \in index'
    BY <1>1 DEF IndexHoldsListing
  <2>2. \A e, k : <<e, k>> \in index' => k \in Indexed'
    <3>1. \A e, k : <<e, k>>[2] = k
      OBVIOUS
    <3> QED
      BY <3>1, Zenon DEF Indexed
  <2> QED
    BY <2>1, <2>2
<1>4. CleanIndex'
  BY <1>1, <1>3 DEF CleanIndex
<1>5. TypeOK'
  <2>1. Listings' = Listings
    BY DEF Listings
  <2>2. {bucket', previous', listed', last', before'} \subseteq Listings
    BY EmptyType DEF TypeOK
  <2> QED
    BY <1>1, <2>1, <2>2 DEF TypeOK
<1>6. Finite'
  BY <1>1, EmptyType, FS_EmptySet DEF Finite
<1> QED
  BY <1>2, <1>4, <1>5, <1>6
     DEF Flushed, BaselineCovers, DeltaCountsListed, CleanDelta, DeltaErrsOneWay

LEMMA NextInv == IInv /\ [Next]_vars => IInv'
<1> SUFFICES ASSUME IInv, [Next]_vars PROVE IInv'
  OBVIOUS
<1>1. ASSUME NEW k \in Keys, NEW e \in ETags, Upload(k, e) PROVE IInv'
  BY <1>1, UploadInv
<1>2. ASSUME NEW k \in Keys, Remove(k) PROVE IInv'
  BY <1>2, RemoveInv
<1>3. ASSUME NEW k \in Keys, Collect(k) PROVE IInv'
  BY <1>3, CollectInv
<1>4. ASSUME Start("full") \/ Start("incremental") PROVE IInv'
  BY <1>4, StartInv
<1>5. ASSUME Finish \/ Fail PROVE IInv'
  BY <1>5, FinishInv, FailInv
<1>6. ASSUME UNCHANGED vars PROVE IInv'
  BY <1>6
     DEF vars, baseline, outcome, Without, IInv, TypeOK, Finite, Indexed, Flushed, BaselineCovers, CleanIndex,
         IndexHoldsListing, DeltaCountsListed, CleanDelta, DeltaErrsOneWay, Listings, Delta
<1> QED
  BY <1>1, <1>2, <1>3, <1>4, <1>5, <1>6 DEF Next

-----------------------------------------------------------------------------
(* The inductive invariant holds in every reachable state.                 *)
THEOREM Invariance == Spec => []IInv
BY InitInv, NextInv, PTL DEF Spec

(* The variables keep their types: no count of a delta is negative.        *)
THEOREM TypeCorrectness == Spec => []TypeOK
<1>1. IInv => TypeOK
  BY DEF IInv
<1> QED
  BY <1>1, Invariance, PTL

(* Every object of the last completed scan stays stored with the ETag it   *)
(* was listed with (SaveObjects, runCollector).                            *)
THEOREM ListingIsStored == Spec => []IndexHoldsListing
<1>1. IInv => IndexHoldsListing
  BY DEF IInv
<1> QED
  BY <1>1, Invariance, PTL

(* computeDelta counts every listed object once.                           *)
THEOREM DeltasAddUp == Spec => []DeltaCountsListed
<1>1. IInv => DeltaCountsListed
  BY DEF IInv
<1> QED
  BY <1>1, Invariance, PTL

(* While the history is clean, a delta is the difference between the last  *)
(* two completed scans, but for the keys whose baseline could not be read  *)
(* (previousObjects, computeDelta).                                        *)
THEOREM CleanDeltasAreRight == Spec => []CleanDelta
<1>1. IInv => CleanDelta
  BY DEF IInv
<1> QED
  BY <1>1, Invariance, PTL

(* In every history a delta errs on one side only, but for the keys whose  *)
(* baseline could not be read (previousObjects, computeDelta).             *)
THEOREM DeltasErrOneWay == Spec => []DeltaErrsOneWay
<1>1. IInv => DeltaErrsOneWay
  BY DEF IInv
<1> QED
  BY <1>1, Invariance, PTL

=============================================================================
