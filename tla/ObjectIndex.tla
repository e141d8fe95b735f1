------------------------------ MODULE ObjectIndex ------------------------------
(***************************************************************************)
(* The stored object listing of one bucket and the deltas computed from it *)
(* over successive scans (internal/store/store.go, the baseline and delta  *)
(* of internal/scan/engine.go).  An object is stored under the key         *)
(* objects/{bucket}/{etag}/{key}, so every version that a scan has seen    *)
(* keeps an entry of its own: scans only ever add entries.                 *)
(*                                                                         *)
(* ETags are numbers in the byte order that Badger iterates in.  The       *)
(* bucket changes between scans, not during them.                          *)
(***************************************************************************)
EXTENDS Naturals, FiniteSets, FiniteSetsExt

CONSTANTS
  Keys, ETags,
  BatchSize,   \* cfg.BatchSize
  Changes,     \* what users do to the bucket: "add", "modify", "remove"
  Faults,      \* what may go wrong: "scan" (it fails), "read" (of the baseline)
  MaxScans,    \* bound on the number of scans
  None

ASSUME IndexAssumption ==
  /\ ETags \subseteq Nat /\ BatchSize \in Nat \ {0} /\ MaxScans \in Nat
  /\ Changes \subseteq {"add", "modify", "remove"} /\ Faults \subseteq {"scan", "read"}

VARIABLES
  bucket,    \* key -> ETag of the objects in S3
  index,     \* <<etag, key>> of every stored object record
  kind,      \* the scan under way: "none", "full" or "incremental"
  previous,  \* previousObjects: key -> ETag
  missed,    \* history: the stored keys that previousObjects lacks because
             \*   listing or getting them failed
  listed,    \* what the collector has received so far: key -> ETag (currentKeys)
  batch,     \* keys of its batch
  delta,     \* the DeltaReport of the last completed scan, None for a full one
  last,      \* history: the listing of the last completed scan
  before,    \* history: the listing of the completed scan before that
  unread,    \* history: the missed keys of the last completed scan
  clean,     \* history: no stored object has been replaced or removed, and
             \*   no failed scan has stored one that was not reported
  scans      \* scans started

baseline == <<previous, missed>>
outcome  == <<delta, last, before, unread>>
vars == <<bucket, index, kind, baseline, listed, batch, outcome, clean, scans>>

Empty == [k \in {} |-> 0]

Init ==
  /\ bucket = Empty /\ index = {} /\ kind = "none" /\ previous = Empty
  /\ listed = Empty /\ batch = {} /\ delta = None /\ last = Empty /\ before = Empty
  /\ missed = {} /\ unread = {} /\ clean = TRUE /\ scans = 0

With(f, k, e) == [x \in DOMAIN f \cup {k} |-> IF x = k THEN e ELSE f[x]]
Without(f, ks) == [x \in DOMAIN f \ ks |-> f[x]]

Indexed == {p[2] : p \in index}
Versions(k) == {e \in ETags : <<e, k>> \in index}

(* GetObject: the entry of the key that the iteration meets first.         *)
GetObject(k) == Min(Versions(k))

(* previousObjects, built from ListObjectKeys and GetObject, if they read  *)
(* everything.                                                             *)
Baseline == [k \in Indexed |-> GetObject(k)]

(* Seeded bugs: a modified object is new as well; sizes are subtracted.    *)
DeltaTwice(prev, curr) ==
  [new       |-> Cardinality({k \in DOMAIN curr : k \notin DOMAIN prev \/ prev[k] # curr[k]}),
   modified  |-> Cardinality({k \in DOMAIN curr \cap DOMAIN prev : prev[k] # curr[k]}),
   unchanged |-> Cardinality({k \in DOMAIN curr \cap DOMAIN prev : prev[k] = curr[k]}),
   deleted   |-> Cardinality(DOMAIN prev \ DOMAIN curr)]
DeltaOfSizes(prev, curr) ==
  [new |-> 0, modified |-> 0, unchanged |-> 0,
   deleted |-> Cardinality(DOMAIN prev) - Cardinality(DOMAIN curr)]

(* computeDelta, for any two listings.                                     *)
Delta(prev, curr) ==
  LET seen == DOMAIN curr
      old  == DOMAIN prev
  IN  [new       |-> Cardinality(seen \ old),
       modified  |-> Cardinality({k \in seen \cap old : prev[k] # curr[k]}),
       unchanged |-> Cardinality({k \in seen \cap old : prev[k] = curr[k]}),
       deleted   |-> Cardinality(old \ seen)]

(***************************************************************************)
(* Users of the bucket                                                     *)
(***************************************************************************)
Upload(k, e) ==
  /\ kind = "none"
  /\ \/ "add" \in Changes /\ k \notin DOMAIN bucket
     \/ "modify" \in Changes /\ k \in DOMAIN bucket /\ bucket[k] # e
  /\ bucket' = With(bucket, k, e)
  /\ clean' = (clean /\ k \notin Indexed)
  /\ UNCHANGED <<index, kind, baseline, listed, batch, outcome, scans>>

Remove(k) ==
  /\ kind = "none" /\ "remove" \in Changes /\ k \in DOMAIN bucket
  /\ bucket' = Without(bucket, {k})
  /\ clean' = (clean /\ k \notin Indexed)
  /\ UNCHANGED <<index, kind, baseline, listed, batch, outcome, scans>>

(***************************************************************************)
(* Scans of the bucket                                                     *)
(***************************************************************************)
(* Errors of ListObjectKeys and GetObject do not stop an incremental scan: *)
(* the first is logged and leaves the baseline empty, the second skips the *)
(* key.                                                                    *)
Start(type) ==
  /\ kind = "none" /\ scans < MaxScans
  /\ kind' = type
  /\ IF type = "incremental"
       THEN \E lost \in IF "read" \in Faults THEN SUBSET Indexed ELSE {{}} :
              previous' = Without(Baseline, lost) /\ missed' = lost
       ELSE previous' = Empty /\ missed' = {}
  /\ listed' = Empty /\ batch' = {} /\ scans' = scans + 1
  /\ UNCHANGED <<bucket, index, outcome, clean>>

SaveObjects(ks, listing) == index' = index \cup {<<listing[k], k>> : k \in ks}

(* Seeded bug: a full batch is dropped instead of stored.                  *)
CollectDropsBatch(k) ==
  /\ kind # "none" /\ k \in DOMAIN bucket \ DOMAIN listed
  /\ listed' = With(listed, k, bucket[k])
  /\ batch' = IF Cardinality(batch \cup {k}) >= BatchSize THEN {} ELSE batch \cup {k}
  /\ UNCHANGED <<bucket, index, kind, baseline, outcome, clean, scans>>

(* The collector receives an object, and flushes a full batch.             *)
Collect(k) ==
  /\ kind # "none" /\ k \in DOMAIN bucket \ DOMAIN listed
  /\ listed' = With(listed, k, bucket[k])
  /\ IF Cardinality(batch \cup {k}) >= BatchSize
       THEN SaveObjects(batch \cup {k}, listed') /\ batch' = {}
       ELSE batch' = batch \cup {k} /\ UNCHANGED index
  /\ UNCHANGED <<bucket, kind, baseline, outcome, clean, scans>>

(* The goroutine of the scan returns, its memory with it.                  *)
Return ==
  /\ kind' = "none" /\ previous' = Empty /\ missed' = {}
  /\ listed' = Empty /\ batch' = {}

(* Seeded bug: the last, partial batch is not stored.                      *)
FinishNoFlush ==
  /\ kind # "none" /\ DOMAIN listed = DOMAIN bucket
  /\ delta' = IF kind = "incremental" THEN Delta(previous, listed) ELSE None
  /\ last' = listed /\ before' = last /\ unread' = missed
  /\ Return
  /\ UNCHANGED <<bucket, index, clean, scans>>

(* objChan is closed: final flush, delta, and the result is stored.        *)
Finish ==
  /\ kind # "none" /\ DOMAIN listed = DOMAIN bucket
  /\ SaveObjects(batch, listed)
  /\ delta' = IF kind = "incremental" THEN Delta(previous, listed) ELSE None
  /\ last' = listed /\ before' = last /\ unread' = missed
  /\ Return
  /\ UNCHANGED <<bucket, clean, scans>>

(* The collector returns an error, or the result of a scan that has listed *)
(* everything cannot be stored: what has been flushed stays stored.        *)
Fail ==
  /\ "scan" \in Faults /\ kind # "none"
  /\ \/ UNCHANGED index
     \/ DOMAIN listed = DOMAIN bucket /\ SaveObjects(batch, listed)
  /\ Return
  /\ clean' = (clean /\ Indexed' \subseteq DOMAIN last)
  /\ UNCHANGED <<bucket, outcome, scans>>

Next == \/ \E k \in Keys : Remove(k) \/ Collect(k) \/ \E e \in ETags : Upload(k, e)
        \/ Start("full") \/ Start("incremental") \/ Finish \/ Fail
Spec == Init /\ [][Next]_vars

-----------------------------------------------------------------------------
Listings == UNION {[D -> ETags] : D \in SUBSET Keys}

(* The variables have their types; no count of a delta is negative.        *)
TypeOK ==
  /\ {bucket, previous, listed, last, before} \subseteq Listings
  /\ index \subseteq ETags \X Keys /\ batch \subseteq Keys
  /\ missed \subseteq Keys /\ unread \subseteq Keys
  /\ kind \in {"none", "full", "incremental"}
  /\ delta \in {None} \cup [new : Nat, modified : Nat, unchanged : Nat, deleted : Nat]
  /\ clean \in BOOLEAN /\ scans \in 0..MaxScans

(* Every object that a completed scan reported is stored with the ETag it  *)
(* was listed with, also when later scans failed half-way.                 *)
IndexHoldsListing == \A k \in DOMAIN last : <<last[k], k>> \in index

(* A delta counts every listed object once: as new, modified or unchanged. *)
DeltaCountsListed ==
  delta # None => delta.new + delta.modified + delta.unchanged = Cardinality(DOMAIN last)

(* The delta of an incremental scan is the difference to the scan that     *)
(* completed before it, until a stored object is replaced or removed, or a *)
(* scan fails after it has flushed an object that no completed scan has    *)
(* listed.  When reading the baseline fails, it is the difference to what  *)
(* could be read of that scan: such keys count as new, or not at all.      *)
CleanDelta == clean /\ delta # None => delta = Delta(Without(before, unread), last)

(* After that it still errs on one side only: nothing that the last        *)
(* completed scan had is reported as new, and nothing that has gone since  *)
(* is missing from the deleted, but for the keys that could not be read.   *)
DeltaErrsOneWay ==
  delta # None => LET exact == Delta(Without(before, unread), last)
                  IN  delta.new <= exact.new /\ delta.deleted >= exact.deleted
=============================================================================
