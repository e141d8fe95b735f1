------------------------------- MODULE DeepScan -------------------------------
(***************************************************************************)
(* The deep scan of a bucket (RunAll of internal/scan/deep/coordinator.go):*)
(* one goroutine per enabled analyzer, each with its own listing of the    *)
(* bucket, that fill the fields of one shared result; RunAll waits for all *)
(* of them.  Nothing in the repository calls RunAll yet: main builds its   *)
(* Config and hands it to the handlers, which do not use it.               *)
(*                                                                         *)
(* The bucket does not change while it is scanned.  Every call to S3 or to *)
(* clamd may fail.  A page and what is asked of S3 or clamd about its      *)
(* objects is one step: no other goroutine sees anything in between.       *)
(***************************************************************************)
EXTENDS DeepAnalyzers

CONSTANTS
  Buckets,     \* the listings a bucket may have: sequences of objects
  PageSize,    \* objects in a page of a listing
  Versions, Markers, Uploads,  \* what the other calls return
  MaxEnabled   \* bound on the number of analyzers that are enabled

ASSUME ScanAssumption ==
  /\ PageSize \in Nat \ {0} /\ MaxEnabled \in Nat
  /\ \A listing \in Buckets :
       /\ listing \in Seq(ToSet(listing))
       /\ \A i, j \in DOMAIN listing : listing[i].key = listing[j].key => i = j
       /\ \A i \in DOMAIN listing : listing[i].size \in Nat

(* In the order in which RunAll starts them.                               *)
Analyzers == <<"duplicates", "multipart", "access", "encryption", "versioning",
               "largeFiles", "naming", "cost", "virus">>
Names   == ToSet(Analyzers)
Listing == {"duplicates", "encryption", "largeFiles", "naming", "cost", "virus"}
(* The analyzers that report what they have when a page cannot be listed.  *)
Partial == {"encryption", "naming", "virus"}

VARIABLES
  objects,  \* what is in the bucket
  enabled,  \* Config: the Enable... flags
  next,     \* RunAll: the place in Analyzers it has come to; 0: it returned
  pc,       \* what the goroutine of each analyzer does next
  token,    \* its continuation token: how many objects were listed
  acc,      \* what it has collected
  wg,       \* the WaitGroup's counter
  result,   \* the fields of the ScanResult, None when nil
  cut       \* history: the analyzers whose listing broke off

vars == <<objects, enabled, next, pc, token, acc, wg, result, cut>>

Nothing(a) ==
  CASE a = "encryption" -> [checked |-> 0, encrypted |-> 0, unencryptedKeys |-> <<>>]
    [] a = "naming"     -> [count |-> 0, examples |-> <<>>]
    [] a = "virus"      -> [scanned |-> 0, infected |-> {}, errors |-> {}, limit |-> FALSE]
    [] a = "largeFiles" -> {}
    [] OTHER            -> << >>

Init ==
  /\ objects \in Buckets
  /\ enabled \in {e \in SUBSET Names : Cardinality(e) <= MaxEnabled}
  /\ next = 1
  /\ pc = [a \in Names |-> "off"]
  /\ token = [a \in Names |-> 0]
  /\ acc = [a \in Names |-> Nothing(a)]
  /\ wg = 0
  /\ result = [a \in Names |-> None]
  /\ cut = {}

Goto(a, step) == pc' = [pc EXCEPT ![a] = step]

(***************************************************************************)
(* RunAll                                                                  *)
(***************************************************************************)
(* wg.Add(1) and go, or nothing for an analyzer that is not enabled.       *)
Spawn ==
  /\ next \in DOMAIN Analyzers
  /\ LET a == Analyzers[next]
     IN  IF a \in enabled
           THEN wg' = wg + 1 /\ Goto(a, IF a \in Listing THEN "list" ELSE "call")
           ELSE UNCHANGED <<wg, pc>>
  /\ next' = next + 1
  /\ UNCHANGED <<objects, enabled, token, acc, result, cut>>

(* Seeded bug: no wg.Wait().                                               *)
ReturnAtOnce ==
  /\ next = Len(Analyzers) + 1 /\ next' = 0
  /\ UNCHANGED <<objects, enabled, pc, token, acc, wg, result, cut>>

Wait ==
  /\ next = Len(Analyzers) + 1 /\ wg = 0
  /\ next' = 0
  /\ UNCHANGED <<objects, enabled, pc, token, acc, wg, result, cut>>

(***************************************************************************)
(* An analyzer that lists the bucket                                       *)
(***************************************************************************)
ListObjectsPage(start) ==
  LET end == IF start + PageSize < Len(objects) THEN start + PageSize ELSE Len(objects)
  IN  [objects |-> SubSeq(objects, start + 1, end), isTruncated |-> end < Len(objects),
       continuationToken |-> end]

(* What an analyzer does with one object of a page; fails are the keys for *)
(* which it asks S3 or clamd in vain.                                      *)
Visit(a, collected, o, fails) ==
  CASE a = "duplicates" -> GroupObject(collected, o)
    [] a = "largeFiles" -> KeepLarge(collected, o)
    [] a = "cost"       -> AddToClass(collected, o)
    [] a = "naming"     -> CheckName(collected, o)
    [] a = "encryption" -> SampleObject(collected, o, fails)
    [] a = "virus"      -> ScanForVirus(collected, o, fails)

Full(a, collected) ==
  \/ a = "encryption" /\ collected.checked >= MaxSamples
  \/ a = "virus" /\ collected.limit

ListPage(a) ==
  /\ pc[a] = "list"
  /\ LET page == ListObjectsPage(token[a]) IN
     \E fails \in IF a \in {"encryption", "virus"}
                    THEN SUBSET {o.key : o \in ToSet(page.objects)} ELSE {{}} :
       LET visited == FoldLeft(LAMBDA c, o : Visit(a, c, o, fails), acc[a], page.objects) IN
       /\ acc' = [acc EXCEPT ![a] = visited]
       /\ IF page.isTruncated /\ ~Full(a, visited)
            THEN token' = [token EXCEPT ![a] = page.continuationToken] /\ UNCHANGED pc
            ELSE Goto(a, "publish") /\ UNCHANGED token
  /\ UNCHANGED <<objects, enabled, next, wg, result, cut>>

(* Seeded bug: every analyzer reports what it has.                         *)
ListPageBreaks(a) ==
  /\ pc[a] = "list"
  /\ Goto(a, "publish")
  /\ cut' = cut \cup {a}
  /\ UNCHANGED <<objects, enabled, next, token, acc, wg, result>>

ListPageFails(a) ==
  /\ pc[a] = "list"
  /\ Goto(a, IF a \in Partial THEN "publish" ELSE "log")
  /\ cut' = cut \cup {a}
  /\ UNCHANGED <<objects, enabled, next, token, acc, wg, result>>

(* Without a pattern nothing is listed; a pattern that does not compile is *)
(* an error.                                                               *)
NoNamingPattern ==
  /\ pc["naming"] = "list" /\ token["naming"] = 0
  /\ Goto("naming", "publish") \/ Goto("naming", "log")
  /\ cut' = cut \cup {"naming"}
  /\ UNCHANGED <<objects, enabled, next, token, acc, wg, result>>

(***************************************************************************)
(* An analyzer that calls S3 a fixed number of times.  The S3 client pages *)
(* through versions and uploads, and returns all of them or an error.      *)
(***************************************************************************)
Call(a) ==
  /\ pc[a] = "call"
  /\ \/ a = "versioning" /\ acc' = [acc EXCEPT ![a] = VersioningWaste(Versions, Markers)]
     \/ a = "multipart" /\ acc' = [acc EXCEPT ![a] = MultipartUploads(Uploads)]
     \/ /\ a = "access"
        /\ \E block \in {"configured", "none", "error"}, policy \in {"none", "private", "public"},
              allUsers \in 0..2 :
             acc' = [acc EXCEPT ![a] = Access(block, policy, allUsers)]
  /\ Goto(a, "publish")
  /\ UNCHANGED <<objects, enabled, next, token, wg, result, cut>>

CallFails(a) ==
  /\ pc[a] = "call" /\ a # "access"
  /\ Goto(a, "log")
  /\ UNCHANGED <<objects, enabled, next, token, acc, wg, result, cut>>

(***************************************************************************)
(* The end of every goroutine                                              *)
(***************************************************************************)
Reports(a) ==
  CASE a = "duplicates" -> {Duplicates(acc[a])}
    [] a = "largeFiles" -> LargeFiles(acc[a])
    [] a = "cost"       -> {CostEstimate(acc[a])}
    [] a = "encryption" -> Encryption(acc[a])
    [] a = "virus"      -> {Virus(acc[a])}
    [] OTHER            -> {acc[a]}

(* Under the mutex, and it is one assignment.                              *)
Publish(a) ==
  /\ pc[a] = "publish"
  /\ \E report \in Reports(a) : result' = [result EXCEPT ![a] = report]
  /\ Goto(a, "done")
  /\ UNCHANGED <<objects, enabled, next, token, acc, wg, cut>>

(* Seeded bug: the error path returns without Done.                        *)
LogReturns(a) ==
  /\ pc[a] = "log" /\ Goto(a, "ended")
  /\ UNCHANGED <<objects, enabled, next, token, acc, wg, result, cut>>

(* Seeded bug: the error path calls Done, which is deferred as well.       *)
LogDone(a) ==
  /\ pc[a] = "log" /\ Goto(a, "done") /\ wg' = wg - 1
  /\ UNCHANGED <<objects, enabled, next, token, acc, result, cut>>

Log(a) ==
  /\ pc[a] = "log"
  /\ Goto(a, "done")
  /\ UNCHANGED <<objects, enabled, next, token, acc, wg, result, cut>>

(* The deferred wg.Done().                                                 *)
Done(a) ==
  /\ pc[a] = "done"
  /\ Goto(a, "ended") /\ wg' = wg - 1
  /\ UNCHANGED <<objects, enabled, next, token, acc, result, cut>>

-----------------------------------------------------------------------------
RunAll     == Spawn \/ Wait
Analyze(a) == \/ ListPage(a) \/ ListPageFails(a) \/ Call(a) \/ CallFails(a)
              \/ Publish(a) \/ Log(a) \/ Done(a)
              \/ a = "naming" /\ NoNamingPattern

Next == RunAll \/ \E a \in Names : Analyze(a)

(* The goroutines run, and every call to S3 and to clamd returns.          *)
Fairness == WF_vars(RunAll) /\ \A a \in Names : WF_vars(Analyze(a))

Spec     == Init /\ [][Next]_vars
FairSpec == Spec /\ Fairness

-----------------------------------------------------------------------------
Returned == next = 0
Sizes(S) == SumFunctionOnSet([i \in DOMAIN objects |-> objects[i].size], S)
Where(P(_)) == {i \in DOMAIN objects : P(objects[i])}
KeysAt(S) == [n \in 1 .. Cardinality(S) |->
                objects[CHOOSE i \in S : Cardinality({j \in S : j <= i}) = n].key]

(* The variables have their types; the WaitGroup never goes below zero.    *)
TypeOK ==
  /\ objects \in Buckets /\ enabled \subseteq Names
  /\ next \in 0 .. Len(Analyzers) + 1
  /\ pc \in [Names -> {"off", "list", "call", "publish", "log", "done", "ended"}]
  /\ token \in [Names -> 0 .. Len(objects)]
  /\ wg \in 0 .. MaxEnabled
  /\ DOMAIN acc = Names /\ DOMAIN result = Names
  /\ \A a \in Names : result[a] # None => a \in enabled
  /\ cut \subseteq enabled

(* When RunAll has returned, its caller owns the result: no goroutine is   *)
(* left that writes a field of it.                                         *)
ResultIsFinal == [][Returned => UNCHANGED result]_vars

(* What FindDuplicates, FindLargeFiles and EstimateCost report is true of  *)
(* the whole bucket, however it was paged and whatever failed: the groups  *)
(* of objects with one ETag; some MaxResults largest files in descending   *)
(* order; the price of every object by its class.  Otherwise the field is  *)
(* nil.                                                                    *)
DuplicatesAreExact ==
  LET with(e) == Where(LAMBDA o : o.etag = e)
  IN  result["duplicates"] =
        {[etag |-> e, count |-> Cardinality(with(e)), totalSize |-> Sizes(with(e)),
          keys |-> KeysAt(with(e))] :
            e \in {objects[i].etag : i \in {j \in DOMAIN objects :
                     objects[j].etag # None /\ Cardinality(with(objects[j].etag)) > 1}}}

LargestAreListed ==
  LET files == result["largeFiles"]
      large == {[key |-> objects[i].key, size |-> objects[i].size] :
                  i \in Where(LAMBDA o : o.size >= LargeFileThreshold)}
  IN  /\ ToSet(files) \subseteq large /\ Cardinality(ToSet(files)) = Len(files)
      /\ \A i, j \in DOMAIN files : i < j => files[i].size >= files[j].size
      /\ \/ ToSet(files) = large
         \/ /\ Len(files) = MaxResults
            /\ \A f \in large \ ToSet(files) : f.size <= files[MaxResults].size

CostIsExact ==
  result["cost"].monthlyTotal =
    SumFunction([i \in DOMAIN objects |->
                   objects[i].size * Rate(ClassOf(objects[i]))])

WholeBucketOrNothing ==
  /\ result["duplicates"] # None => DuplicatesAreExact
  /\ result["largeFiles"] # None => LargestAreListed
  /\ result["cost"] # None => CostIsExact

(* What the analyzers report that go on after an error is true as far as   *)
(* it goes: names that do not match are counted, all of them unless the    *)
(* listing broke off; the share of encrypted objects is never overstated,  *)
(* and 100% means that nothing in the sample is known to be unencrypted;   *)
(* every infected key is infected, and unless the limit of MaxCount or a   *)
(* listing that broke off ended the scan, every wanted object is counted   *)
(* as scanned or as an error, and no infected one is missing that clamd    *)
(* does not refuse as too large.                                           *)
NamingIsTrue ==
  LET bad == Where(LAMBDA o : ~o.matches)
      n   == result["naming"].count
  IN  /\ n <= Cardinality(bad) /\ ("naming" \notin cut => n = Cardinality(bad))
      /\ result["naming"].examples
           = SubSeq(KeysAt(bad), 1, IF n < MaxExamples THEN n ELSE MaxExamples)

EncryptionIsTrue ==
  LET checked == acc["encryption"].checked
      known   == Where(LAMBDA o : o.encrypted) \cap 1 .. checked
      report  == result["encryption"]
  IN  /\ report.encryptedPct * checked <= 10000 * Cardinality(known)
      /\ report.encryptedPct = 10000 => known = 1 .. checked /\ report.unencryptedKeys = <<>>
      /\ ToSet(report.unencryptedKeys)
           \subseteq {objects[i].key : i \in 1 .. checked \ known}

VirusIsTrue ==
  LET report   == result["virus"]
      wanted   == Where(Wanted)
      infected == {objects[i].key : i \in {j \in wanted :
                     objects[j].infected /\ objects[j].size <= ClamdLimit}}
  IN  /\ report.infected \subseteq infected
      /\ ~acc["virus"].limit =>
           /\ report.status = "completed" <=> report.infected = {}
           /\ "virus" \notin cut =>
                /\ report.scanned + Cardinality(report.errors) = Cardinality(wanted)
                /\ infected \subseteq report.infected \cup report.errors

PartialReportsAreTrue ==
  /\ result["naming"] # None => NamingIsTrue
  /\ result["encryption"] # None => EncryptionIsTrue
  /\ result["virus"] # None => VirusIsTrue

(* RunAll returns.                                                         *)
RunAllReturns == <>Returned

=============================================================================
