----------------------------- MODULE DeepAnalyzers -----------------------------
(***************************************************************************)
(* What the analyzers of internal/scan/deep make of the objects of a       *)
(* bucket: for those that list it, the report of an empty listing, the     *)
(* step of one object and the report at the end.  An object has a key, an  *)
(* ETag (None for the empty one), a size, a storage class (None), an       *)
(* extension, an age, and what is only known by asking for it: is it       *)
(* encrypted, infected, does its name match the pattern.  Prices are in    *)
(* millionths of a dollar per unit of size.                                *)
(***************************************************************************)
EXTENDS Integers, Sequences, FiniteSets, SequencesExt

CONSTANTS
  LargeFileThreshold, MaxResults,  \* FindLargeFiles
  MaxExamples,                     \* CheckNamingConvention: 10
  MaxSamples,                      \* AuditEncryption: 1000
  CostOverrides,                   \* storage class -> price
  Extensions, MaxSize, MaxCount, LastSince,  \* VirusScanConfig; 0 and {}: any
  ClamdLimit,                      \* the largest object that clamd scans
  None

ASSUME DeepAssumption ==
  /\ {LargeFileThreshold, MaxSize, MaxCount, LastSince, ClamdLimit} \subseteq Nat
  /\ {MaxResults, MaxExamples, MaxSamples} \subseteq Nat \ {0}
  /\ \A class \in DOMAIN CostOverrides : CostOverrides[class] \in Int

(***************************************************************************)
(* FindDuplicates.  The order of the groups is left out.                   *)
(***************************************************************************)
GroupObject(groups, o) ==
  LET g == IF o.etag \in DOMAIN groups THEN groups[o.etag]
           ELSE [etag |-> o.etag, count |-> 0, totalSize |-> 0, keys |-> <<>>]
      more == [g EXCEPT !.count = @ + 1, !.totalSize = @ + o.size, !.keys = Append(@, o.key)]
  IN  IF o.etag = None THEN groups
      ELSE [e \in DOMAIN groups \cup {o.etag} |-> IF e = o.etag THEN more ELSE groups[e]]

Duplicates(groups) == {groups[e] : e \in {d \in DOMAIN groups : groups[d].count > 1}}

(***************************************************************************)
(* FindLargeFiles.  sort.Slice is not stable: files of one size may come   *)
(* in any order, and any of them may be cut off.                           *)
(***************************************************************************)
KeepLarge(files, o) ==
  IF o.size >= LargeFileThreshold THEN files \cup {[key |-> o.key, size |-> o.size]} ELSE files

BySize(files) ==
  {p \in SetToSeqs(files) : \A i, j \in DOMAIN p : i < j => p[i].size >= p[j].size}

LargeFiles(files) ==
  {SubSeq(p, 1, IF Len(p) > MaxResults THEN MaxResults ELSE Len(p)) : p \in BySize(files)}

(***************************************************************************)
(* EstimateCost                                                            *)
(***************************************************************************)
DefaultCosts ==
  [STANDARD |-> 23000, INTELLIGENT_TIERING |-> 23000, STANDARD_IA |-> 12500,
   ONEZONE_IA |-> 10000, GLACIER |-> 4000, DEEP_ARCHIVE |-> 2000,
   GLACIER_INSTANT_RETRIEVAL |-> 4000]

Rate(class) ==
  IF class \in DOMAIN CostOverrides THEN CostOverrides[class]
  ELSE IF class \in DOMAIN DefaultCosts THEN DefaultCosts[class] ELSE 23000

ClassOf(o) == IF o.class = None THEN "STANDARD" ELSE o.class

AddToClass(totals, o) ==
  LET class == ClassOf(o)
  IN  [c \in DOMAIN totals \cup {class} |->
         (IF c \in DOMAIN totals THEN totals[c] ELSE 0) + (IF c = class THEN o.size ELSE 0)]

CostEstimate(totals) ==
  LET breakdown == [c \in DOMAIN totals |-> totals[c] * Rate(c)]
  IN  [breakdown |-> breakdown,
       monthlyTotal |-> SumFunction(breakdown)]

(***************************************************************************)
(* CheckNamingConvention                                                   *)
(***************************************************************************)
CheckName(naming, o) ==
  IF o.matches THEN naming
  ELSE [count |-> naming.count + 1,
        examples |-> IF Len(naming.examples) < MaxExamples THEN Append(naming.examples, o.key)
                     ELSE naming.examples]

(***************************************************************************)
(* AuditEncryption.  An object whose HeadObject fails is in the sample.    *)
(***************************************************************************)
(* Seeded bug: the answer of a HeadObject that failed is used.             *)
SampleFailedHead(enc, o, fails) ==
  IF enc.checked >= MaxSamples THEN enc
  ELSE IF o.key \in fails \/ o.encrypted
    THEN [enc EXCEPT !.checked = @ + 1, !.encrypted = @ + 1]
  ELSE [enc EXCEPT !.checked = @ + 1, !.unencryptedKeys = Append(@, o.key)]

SampleObject(enc, o, fails) ==
  IF enc.checked >= MaxSamples THEN enc
  ELSE IF o.key \in fails THEN [enc EXCEPT !.checked = @ + 1]
  ELSE IF o.encrypted THEN [enc EXCEPT !.checked = @ + 1, !.encrypted = @ + 1]
  ELSE [enc EXCEPT !.checked = @ + 1, !.unencryptedKeys = Append(@, o.key)]

(* EncryptedPct in hundredths of a percent, rounded down; where nothing    *)
(* has to be rounded the floating-point product may lie just below (29 of  *)
(* 100 give 28.99).                                                        *)
Percentages(part, whole) ==
  LET pct == (part * 10000) \div whole
  IN  IF (part * 10000) % whole = 0 /\ 0 < part /\ part < whole THEN {pct, pct - 1} ELSE {pct}

Encryption(enc) ==
  {[encryptedPct |-> pct, unencryptedKeys |-> enc.unencryptedKeys] :
     pct \in IF enc.checked > 0 THEN Percentages(enc.encrypted, enc.checked) ELSE {0}}

(***************************************************************************)
(* ScanObjectsForVirus                                                     *)
(***************************************************************************)
Wanted(o) ==
  /\ Extensions # {} => o.ext \in Extensions
  /\ MaxSize > 0 => o.size <= MaxSize
  /\ LastSince > 0 => o.modified >= LastSince

(* What clamd answers when it is sent an object.  It refuses one that is   *)
(* larger than its own limit.                                              *)
Clamd(o) == IF o.size > ClamdLimit THEN "ERROR" ELSE IF o.infected THEN "FOUND" ELSE "OK"

(* An answer is only searched for FOUND: a refusal counts as clean.        *)
ScanWithClamd(o) == IF Clamd(o) = "FOUND" THEN "infected" ELSE "clean"

(* fails: the keys whose GetObject, or whose exchange with clamd, fails.   *)
ScanForVirus(v, o, fails) ==
  IF v.limit THEN v
  ELSE IF MaxCount > 0 /\ v.scanned >= MaxCount THEN [v EXCEPT !.limit = TRUE]
  ELSE IF ~Wanted(o) THEN v
  ELSE IF o.key \in fails THEN [v EXCEPT !.errors = @ \cup {o.key}]
  ELSE [v EXCEPT !.scanned = @ + 1,
                 !.infected = IF ScanWithClamd(o) = "infected" THEN @ \cup {o.key} ELSE @]

(* The return at the limit skips what follows the loop: Scanned and Status *)
(* stay as they were initialised.                                          *)
Virus(v) ==
  [scanned |-> IF v.limit THEN 0 ELSE v.scanned,
   infected |-> v.infected, errors |-> v.errors,
   status |-> IF v.infected = {} \/ v.limit THEN "completed" ELSE "completed_with_infections"]

(***************************************************************************)
(* AnalyzeVersioningWaste, FindMultipartUploads, AuditAccess: the answers  *)
(* of one call, or of three of which any may fail                          *)
(***************************************************************************)
(* latest and size are pointers, None when nil.                            *)
VersioningWaste(versions, markers) ==
  LET old == {i \in DOMAIN versions : versions[i].latest = FALSE}
  IN  [totalVersions |-> Len(versions) + markers,
       nonCurrentCount |-> Cardinality(old),
       wastedBytes |-> FoldSet(LAMBDA i, sum : sum + (IF versions[i].size = None THEN 0
                                                     ELSE versions[i].size), 0, old)]

MultipartUploads(uploads) ==
  [i \in DOMAIN uploads |-> IF uploads[i] = None THEN "" ELSE uploads[i]]

(* block: the bucket's public access block, "none" when the call has an    *)
(* answer without one; policy: "none" when it cannot be read or is empty;  *)
(* allUsers: grants to the group AllUsers, 0 when the ACL cannot be read.  *)
Access(block, policy, allUsers) ==
  [publicAccessBlocked |-> block = "configured",
   bucketPolicy        |-> policy,
   findings            |-> (IF block = "error" THEN <<"noBlock">> ELSE <<>>)
                             \o (IF policy = "public" THEN <<"policy">> ELSE <<>>)
                             \o [i \in 1..allUsers |-> "acl"]]

=============================================================================
