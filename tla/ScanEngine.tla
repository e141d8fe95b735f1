------------------------------ MODULE ScanEngine ------------------------------
(***************************************************************************)
(* The life of scans around their pipelines (internal/scan/engine.go, the  *)
(* scan handlers of internal/web/handlers, cmd/s3lytics/main.go): start    *)
(* requests reserve a bucket, write a record and start a goroutine; the    *)
(* goroutine saves a result or a failure and gives the bucket back; scans  *)
(* of different buckets, requests that delete scans, a shutdown and a kill *)
(* fall between any two steps.  The engine keeps one client and one        *)
(* progress record for all of them.                                        *)
(*                                                                         *)
(* The pipeline itself is ScanPipeline: here it ends well or in an error.  *)
(* Each store call is one Badger transaction, so one step.                 *)
(***************************************************************************)
EXTENDS Naturals, FiniteSets

CONSTANTS
  Scans,       \* start requests, and the ids of the scans they start
  Buckets,
  Owner,       \* bucket -> the project (and S3 client) it belongs to
  Faults,      \* what may go wrong: "s3", "store", "kill", "signal"
  MaxDeletes,  \* bound on the number of scans that are deleted, each once
  None

ASSUME EngineAssumption ==
  /\ Faults \subseteq {"s3", "store", "kill", "signal"}
  /\ DOMAIN Owner = Buckets /\ \A b \in Buckets : Owner[b] # None
  /\ MaxDeletes \in Nat /\ None \notin Scans

VARIABLES
  server,     \* the process: "up", "draining" (in srv.Shutdown) or "down"
  client,     \* Engine.client
  running,    \* Engine.running: the reserved buckets
  progress,   \* Engine.progress: None, or the scan it is about and its status
  pc,         \* what each start request, and then its scan, does next
  bucketOf,   \* the bucket of the request
  used,       \* the projects whose client the scan has listed with
  records,    \* store: status of the scan record, "none" if there is none
  results,    \* store: the scans with a ScanResult
  index,      \* store: the scan ids in the bucket's index
  del,        \* what a DeleteScan of this scan does next
  deleted,    \* history: the scans whose deletion was requested ...
  cutShort    \* ... and those of them that were not over by then

memory == <<client, running, progress>>
stored == <<records, results, index>>
history == <<deleted, cutShort>>
vars == <<server, memory, pc, bucketOf, used, stored, del, history>>

HandlerSteps  == {"reserve", "record", "announce"}
FailureSteps  == {"failGet", "failSave", "failProgress"}
SuccessSteps  == {"saveResult", "getRecord", "saveRecord", "addIndex", "complete"}
ScanSteps     == {"scanning", "release"} \cup FailureSteps \cup SuccessSteps
Ended         == {"ended", "rejected", "killed"}
Live(s)       == pc[s] \in ScanSteps
Holds(s)      == pc[s] \in ScanSteps \cup {"record", "announce"}

Init ==
  /\ server = "up" /\ client = None /\ running = {} /\ progress = None
  /\ pc = [s \in Scans |-> "none"]
  /\ bucketOf = [s \in Scans |-> None]
  /\ used = [s \in Scans |-> {}]
  /\ records = [s \in Scans |-> "none"] /\ results = {}
  /\ index = [b \in Buckets |-> {}]
  /\ del = [s \in Scans |-> "no"] /\ deleted = {} /\ cutShort = {}

Goto(s, step) == pc' = [pc EXCEPT ![s] = step]
At(s, step)   == server # "down" /\ pc[s] = step
StoreFails    == "store" \in Faults
SetProgress(s, status) == progress' = [id |-> s, status |-> status]
SetRecord(s, status)   == records' = [records EXCEPT ![s] = status]

(***************************************************************************)
(* The start request: PostStartScan and StartFullScan                      *)
(***************************************************************************)
(* Seeded bug: a request without a bucket is let through.                  *)
PostStartAnyBucket(s) ==
  /\ server = "up" /\ pc[s] = "none"
  /\ \E b \in Buckets \cup {None} : bucketOf' = [bucketOf EXCEPT ![s] = b]
  /\ \E b \in Buckets : client' = Owner[b]
  /\ Goto(s, "reserve")
  /\ UNCHANGED <<server, running, progress, used, stored, del, history>>

(* SetS3Client comes before the engine decides whether the scan may start. *)
PostStartScan(s) ==
  /\ server = "up" /\ pc[s] = "none"
  /\ \E b \in Buckets : bucketOf' = [bucketOf EXCEPT ![s] = b] /\ client' = Owner[b]
  /\ Goto(s, "reserve")
  /\ UNCHANGED <<server, running, progress, used, stored, del, history>>

(* Seeded bug: the reservation does not look at e.running.                 *)
ReserveAnyway(s) ==
  /\ At(s, "reserve") /\ running' = running \cup {bucketOf[s]} /\ Goto(s, "record")
  /\ UNCHANGED <<server, client, progress, bucketOf, used, stored, del, history>>

Reserve(s) ==
  /\ At(s, "reserve")
  /\ IF client = None \/ bucketOf[s] \in running
       THEN Goto(s, "rejected") /\ UNCHANGED running
       ELSE running' = running \cup {bucketOf[s]} /\ Goto(s, "record")
  /\ UNCHANGED <<server, client, progress, bucketOf, used, stored, del, history>>

SaveRunning(s) ==
  /\ At(s, "record")
  /\ \/ SetRecord(s, "running") /\ Goto(s, "announce") /\ UNCHANGED running
     \/ /\ StoreFails
        /\ running' = running \ {bucketOf[s]}
        /\ Goto(s, "rejected") /\ UNCHANGED records
  /\ UNCHANGED <<server, client, progress, bucketOf, used, results, index, del, history>>

Announce(s) ==
  /\ At(s, "announce")
  /\ SetProgress(s, "running")
  /\ Goto(s, "scanning")
  /\ UNCHANGED <<server, client, running, bucketOf, used, stored, del, history>>

(***************************************************************************)
(* The scan goroutine: runFullScan, runIncrementalScan, failScan           *)
(***************************************************************************)
(* discoverPrefixes and every runWorker ask the engine for its client.     *)
GetClient(s) ==
  /\ At(s, "scanning")
  /\ used' = [used EXCEPT ![s] = @ \cup {client}]
  /\ UNCHANGED <<server, memory, pc, bucketOf, stored, del, history>>

(* Seeded bug: completion is announced when the listing is done.           *)
PipelineEndsCompleted(s) ==
  /\ At(s, "scanning") /\ used[s] # {}
  /\ Goto(s, "saveResult") /\ SetProgress(s, "completed")
  /\ UNCHANGED <<server, client, running, bucketOf, used, stored, del, history>>

(* The collector's result.                                                 *)
PipelineEnds(s) ==
  /\ At(s, "scanning") /\ used[s] # {}
  /\ \/ Goto(s, "saveResult")
     \/ {"s3", "store"} \cap Faults # {} /\ Goto(s, "failGet")
  /\ UNCHANGED <<server, memory, bucketOf, used, stored, del, history>>

(* Seeded bug: a result that could not be stored is only logged.           *)
SaveResultLogged(s) ==
  /\ At(s, "saveResult")
  /\ results' = results \cup {s} \/ (StoreFails /\ UNCHANGED results)
  /\ Goto(s, "getRecord")
  /\ UNCHANGED <<server, memory, bucketOf, used, records, index, del, history>>

SaveResult(s) ==
  /\ At(s, "saveResult")
  /\ \/ results' = results \cup {s} /\ Goto(s, "getRecord")
     \/ StoreFails /\ Goto(s, "failGet") /\ UNCHANGED results
  /\ UNCHANGED <<server, memory, bucketOf, used, records, index, del, history>>

(* GetScan; when it fails or finds nothing the record is left alone.       *)
GetRecord(s) ==
  /\ At(s, "getRecord")
  /\ \/ records[s] # "none" /\ Goto(s, "saveRecord")
     \/ (records[s] = "none" \/ StoreFails) /\ Goto(s, "addIndex")
  /\ UNCHANGED <<server, memory, bucketOf, used, stored, del, history>>

SaveRecord(s) ==
  /\ At(s, "saveRecord")
  /\ SetRecord(s, "completed") \/ (StoreFails /\ UNCHANGED records)
  /\ Goto(s, "addIndex")
  /\ UNCHANGED <<server, memory, bucketOf, used, results, index, del, history>>

AddToIndex(s) ==
  /\ At(s, "addIndex")
  /\ \/ index' = [index EXCEPT ![bucketOf[s]] = @ \cup {s}]
     \/ StoreFails /\ UNCHANGED index
  /\ Goto(s, "complete")
  /\ UNCHANGED <<server, memory, bucketOf, used, records, results, del, history>>

ProgressCompleted(s) ==
  /\ At(s, "complete")
  /\ SetProgress(s, "completed")
  /\ Goto(s, "release")
  /\ UNCHANGED <<server, client, running, bucketOf, used, stored, del, history>>

FailGet(s) ==
  /\ At(s, "failGet")
  /\ \/ records[s] # "none" /\ Goto(s, "failSave")
     \/ (records[s] = "none" \/ StoreFails) /\ Goto(s, "failProgress")
  /\ UNCHANGED <<server, memory, bucketOf, used, stored, del, history>>

(* Seeded bug: failScan does not update the record.                        *)
FailSaveSkipped(s) ==
  /\ At(s, "failSave") /\ Goto(s, "failProgress")
  /\ UNCHANGED <<server, memory, bucketOf, used, stored, del, history>>

FailSave(s) ==
  /\ At(s, "failSave")
  /\ SetRecord(s, "failed") \/ (StoreFails /\ UNCHANGED records)
  /\ Goto(s, "failProgress")
  /\ UNCHANGED <<server, memory, bucketOf, used, results, index, del, history>>

(* Seeded bug: no return after failScan.                                   *)
FailThenGoOn(s) ==
  /\ At(s, "failProgress") /\ SetProgress(s, "failed") /\ Goto(s, "getRecord")
  /\ UNCHANGED <<server, client, running, bucketOf, used, stored, del, history>>

(* Seeded bug: only a scan that completes gives its bucket back.           *)
FailNoRelease(s) ==
  /\ At(s, "failProgress") /\ SetProgress(s, "failed") /\ Goto(s, "ended")
  /\ UNCHANGED <<server, client, running, bucketOf, used, stored, del, history>>

FailProgress(s) ==
  /\ At(s, "failProgress")
  /\ SetProgress(s, "failed")
  /\ Goto(s, "release")
  /\ UNCHANGED <<server, client, running, bucketOf, used, stored, del, history>>

(* The deferred delete(e.running, bucket).                                 *)
Release(s) ==
  /\ At(s, "release")
  /\ running' = running \ {bucketOf[s]}
  /\ Goto(s, "ended")
  /\ UNCHANGED <<server, client, progress, bucketOf, used, stored, del, history>>

(***************************************************************************)
(* PostDeleteScan: the transactions of DeleteScan, which stops at the first *)
(* that fails.  The history page offers every scan that has a record.      *)
(***************************************************************************)
PostDeleteScan(s) ==
  /\ server = "up" /\ del[s] = "no" /\ records[s] # "none"
  /\ s \notin deleted /\ Cardinality(deleted) < MaxDeletes
  /\ del' = [del EXCEPT ![s] = "record"]
  /\ deleted' = deleted \cup {s}
  /\ cutShort' = IF Holds(s) THEN cutShort \cup {s} ELSE cutShort
  /\ UNCHANGED <<server, memory, pc, bucketOf, used, stored>>

(* Seeded bug: DeleteScan leaves the result of the scan.                   *)
DeleteRecordKeepResult(s) ==
  /\ server # "down" /\ del[s] = "record"
  /\ SetRecord(s, "none")
  /\ del' = [del EXCEPT ![s] = "index"]
  /\ UNCHANGED <<server, memory, pc, bucketOf, used, results, index, history>>

DeleteRecord(s) ==
  /\ server # "down" /\ del[s] = "record"
  /\ SetRecord(s, "none")
  /\ del' = [del EXCEPT ![s] = "result"]
  /\ UNCHANGED <<server, memory, pc, bucketOf, used, results, index, history>>

DeleteResult(s) ==
  /\ server # "down" /\ del[s] = "result"
  /\ results' = results \ {s}
  /\ del' = [del EXCEPT ![s] = "index"]
  /\ UNCHANGED <<server, memory, pc, bucketOf, used, records, index, history>>

DeleteFromIndex(s) ==
  /\ server # "down" /\ del[s] = "index"
  /\ index' = [b \in Buckets |-> index[b] \ {s}]
  /\ del' = [del EXCEPT ![s] = "no"]
  /\ UNCHANGED <<server, memory, pc, bucketOf, used, records, results, history>>

DeleteFails(s) ==
  /\ server # "down" /\ del[s] # "no" /\ StoreFails
  /\ del' = [del EXCEPT ![s] = "no"]
  /\ UNCHANGED <<server, memory, pc, bucketOf, used, stored, history>>

(***************************************************************************)
(* The process: a signal, srv.Shutdown (which waits up to 15 seconds for   *)
(* requests, never for scan goroutines), a kill, and the next start        *)
(***************************************************************************)
Signal ==
  /\ "signal" \in Faults /\ server = "up"
  /\ server' = "draining"
  /\ UNCHANGED <<memory, pc, bucketOf, used, stored, del, history>>

(* Only the store survives.                                                *)
ProcessEnds ==
  /\ server' = "down"
  /\ client' = None /\ running' = {} /\ progress' = None
  /\ pc' = [s \in Scans |-> IF pc[s] \in {"none"} \cup Ended THEN pc[s] ELSE "killed"]
  /\ del' = [s \in Scans |-> "no"]
  /\ UNCHANGED <<bucketOf, used, stored, history>>

Exit == server = "draining" /\ ProcessEnds

Kill == "kill" \in Faults /\ server = "up" /\ ProcessEnds

(* NewEngine(nil, store): RestoreS3Clients gives the handler its clients,  *)
(* never the engine, and no record is looked at.                           *)
Restart ==
  /\ server = "down"
  /\ server' = "up"
  /\ UNCHANGED <<memory, pc, bucketOf, used, stored, del, history>>

-----------------------------------------------------------------------------
Start(s)   == Reserve(s) \/ SaveRunning(s) \/ Announce(s)
Fail(s)    == FailGet(s) \/ FailSave(s) \/ FailProgress(s)
Succeed(s) == SaveResult(s) \/ GetRecord(s) \/ SaveRecord(s) \/ AddToIndex(s)
                \/ ProgressCompleted(s)
Scan(s)    == PipelineEnds(s) \/ Succeed(s) \/ Fail(s) \/ Release(s)
Delete(s)  == DeleteRecord(s) \/ DeleteResult(s) \/ DeleteFromIndex(s) \/ DeleteFails(s)

Next == \/ \E s \in Scans : \/ PostStartScan(s) \/ Start(s) \/ GetClient(s) \/ Scan(s)
                            \/ PostDeleteScan(s) \/ Delete(s)
        \/ Signal \/ Exit \/ Kill \/ Restart

Spec == Init /\ [][Next]_vars

(***************************************************************************)
(* The goroutines of requests, and of scans once their pipeline has ended, *)
(* run on.  That a pipeline ends is no fairness: its dispatcher may block  *)
(* for ever (engine.go:371, see OnlySendErrHangs of ScanPipeline).  Users  *)
(* and signals owe us nothing.                                             *)
(***************************************************************************)
Fairness ==
  \A s \in Scans : /\ WF_vars(Start(s)) /\ WF_vars(Delete(s))
                   /\ WF_vars(Succeed(s) \/ Fail(s) \/ Release(s))
FairSpec == Spec /\ Fairness

(* What GetScanStatus answers for scan s: it looks at the engine's one     *)
(* progress record, whatever scan that is about.                           *)
ScanStatus(s) == IF progress = None THEN "running" ELSE progress.status

-----------------------------------------------------------------------------
(* The variables have their types.                                         *)
TypeOK ==
  /\ server \in {"up", "draining", "down"}
  /\ client \in {None} \cup {Owner[b] : b \in Buckets}
  /\ running \subseteq Buckets
  /\ progress \in {None} \cup [id : Scans, status : {"running", "completed", "failed"}]
  /\ pc \in [Scans -> {"none"} \cup HandlerSteps \cup ScanSteps \cup Ended]
  /\ bucketOf \in [Scans -> Buckets \cup {None}]
  /\ used \in [Scans -> SUBSET ({None} \cup {Owner[b] : b \in Buckets})]
  /\ records \in [Scans -> {"none", "running", "completed", "failed"}]
  /\ results \subseteq Scans /\ cutShort \subseteq deleted /\ deleted \subseteq Scans
  /\ index \in [Buckets -> SUBSET Scans]
  /\ del \in [Scans -> {"no", "record", "result", "index"}]

(* A bucket is reserved exactly while one scan holds it, through every     *)
(* failure of a start or of a scan: never two scans of one bucket, never a *)
(* bucket that stays locked without a scan.                                *)
ReservationMatchesScan ==
  /\ running = {bucketOf[s] : s \in {t \in Scans : Holds(t)}}
  /\ \A s, t \in Scans : Holds(s) /\ Holds(t) /\ bucketOf[s] = bucketOf[t] => s = t

(* The history never shows a completed scan without a report nor a failed  *)
(* one with a report, wherever the process was killed or the store failed. *)
RecordMatchesResult ==
  \A s \in Scans \ deleted : /\ records[s] = "completed" => s \in results
                             /\ records[s] = "failed" => s \notin results

(* The index of a bucket names scans of that bucket that have a report.    *)
IndexedHasResult ==
  \A b \in Buckets : \A s \in index[b] \ deleted : s \in results /\ bucketOf[s] = b

(* When the progress says "completed", the report the page redirects to is *)
(* already stored for the scan the progress is about.                      *)
ProgressHasReport ==
  progress # None /\ progress.status = "completed" => progress.id \in results \cup deleted

(* A record is created running, ends once, as completed or failed, and     *)
(* from then on only a deletion changes it.  The scans that were deleted   *)
(* before they were over are exempt: their goroutines write the record     *)
(* back (see the README).                                                  *)
RecordLifecycle ==
  [][\A s \in Scans : records'[s] # records[s] =>
       \/ records[s] = "none" /\ records'[s] = "running" /\ s \notin deleted
       \/ records[s] = "running" /\ records'[s] \in {"completed", "failed"}
       \/ records'[s] = "none" /\ s \in deleted
       \/ s \in cutShort]_vars

(* Where the store does not fail, a scan whose goroutine has finished has  *)
(* its outcome in the store: completed, with report and index entry, or    *)
(* failed, with neither.                                                   *)
EndedIsRecorded ==
  \A s \in Scans \ deleted : pc[s] \in {"release", "ended"} =>
    \/ records[s] = "completed" /\ s \in results /\ s \in index[bucketOf[s]]
    \/ records[s] = "failed" /\ s \notin results /\ s \notin index[bucketOf[s]]

(* The only way to lose a bucket is a pipeline that never ends: a bucket   *)
(* is free again and again, so that the user can scan it, unless from some *)
(* time on the pipeline of one scan of it stays unfinished.                *)
NeverEnds(s) == <>[](At(s, "scanning"))
BucketsAreReleased ==
  \A b \in Buckets : \/ []<>(b \notin running)
                      \/ \E s \in Scans : <>[](bucketOf[s] = b) /\ NeverEnds(s)

(* While a scan runs, the status its progress page polls does not send it  *)
(* to a report that does not exist ("the progress page updates every 2     *)
(* seconds; redirects to the report when done", README.md).                *)
StatusMeansReport ==
  \A s \in Scans : Live(s) /\ ScanStatus(s) = "completed" => s \in results \cup deleted

(* A scan lists its bucket with the client of the bucket's project ("the   *)
(* handler swaps in the right per-project S3 client before each scan",     *)
(* main.go).                                                               *)
RightClient == \A s \in Scans : used[s] # {} => used[s] = {Owner[bucketOf[s]]}

=============================================================================
