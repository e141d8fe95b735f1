---------------------------- MODULE ScanEngineProofs ----------------------------
(***************************************************************************)
(* Proofs about ScanEngine for any number of scans, buckets, projects and  *)
(* deletions and every combination of faults: a bucket is reserved exactly *)
(* while a scan holds it, and what the store says of a scan agrees.        *)
(***************************************************************************)
EXTENDS ScanEngine, TLAPS

-----------------------------------------------------------------------------
(* The inductive invariant.  A request that has not written its record has *)
(* left nothing in the store, so nobody can have asked for its deletion.   *)
Untouched ==
  /\ \A s \in Scans : pc[s] \in {"none", "reserve", "record"} =>
       records[s] = "none" /\ s \notin results /\ s \notin deleted
  /\ \A s \in Scans : pc[s] # "none" => bucketOf[s] \in Buckets

(* A scan that was deleted when it was over is still over.                 *)
OverWhenDeleted ==
  /\ \A s \in deleted \ cutShort : pc[s] \in Ended
  /\ \A s \in Scans : del[s] # "no" => s \in deleted

(* How far the goroutine of a scan is tells what the store has of it.      *)
StoredSoFar ==
  \A s \in Scans \ deleted :
    /\ pc[s] \in {"announce", "scanning", "saveResult", "failGet", "failSave"} =>
         records[s] = "running" /\ s \notin results
    /\ pc[s] = "failProgress" => records[s] # "completed" /\ s \notin results
    /\ pc[s] \in {"getRecord", "saveRecord"} =>
         records[s] = "running" /\ s \in results
    /\ pc[s] \in {"addIndex", "complete"} => records[s] # "failed" /\ s \in results

(* What is in the index has been put there by a scan of that bucket.       *)
IndexedByScan ==
  \A b \in Buckets : \A s \in index[b] :
    pc[s] # "none" /\ bucketOf[s] = b /\ s \in results \cup deleted

(* Where the store does not fail, no step of the goroutine is lost.        *)
NothingLost ==
  ~ StoreFails => \A s \in Scans \ deleted :
    /\ pc[s] = "failProgress" => records[s] = "failed"
    /\ pc[s] \in {"addIndex", "complete"} => records[s] = "completed"
    /\ pc[s] = "complete" => s \in index[bucketOf[s]]

(* All of it; EndedIsRecorded is a promise for a store that does not fail.  *)
IInv ==
  /\ TypeOK /\ ReservationMatchesScan
  /\ Untouched /\ OverWhenDeleted /\ StoredSoFar /\ RecordMatchesResult
  /\ IndexedByScan /\ ProgressHasReport
  /\ NothingLost /\ (StoreFails \/ EndedIsRecorded)

-----------------------------------------------------------------------------
(* No step of any actor breaks a part of it, wherever it falls between two *)
(* steps of the others.                                                    *)

(* The types: a bucket is reserved and indexed as the request named it.    *)
LEMMA TypeInv ==
  ASSUME TypeOK, Untouched, [Next]_vars
  PROVE  TypeOK'
<1> USE DEF TypeOK, Untouched,
     Holds, Ended, ScanSteps, SuccessSteps, FailureSteps, HandlerSteps,
     At, Goto, SetRecord, SetProgress, vars, memory, stored, history
<1>1. CASE \E s \in Scans : PostStartScan(s)
  BY <1>1, EngineAssumption DEF PostStartScan
<1>2. CASE \E s \in Scans : Start(s)
  BY <1>2 DEF Start, Reserve, SaveRunning, Announce
<1>3. CASE \E s \in Scans : GetClient(s)
  BY <1>3 DEF GetClient
<1>4. CASE \E s \in Scans : PipelineEnds(s) \/ Succeed(s)
  BY <1>4 DEF PipelineEnds, Succeed, SaveResult, GetRecord, SaveRecord,
       AddToIndex, ProgressCompleted
<1>5. CASE \E s \in Scans : Fail(s) \/ Release(s)
  BY <1>5 DEF Fail, FailGet, FailSave, FailProgress, Release
<1>6. CASE \E s \in Scans : PostDeleteScan(s) \/ Delete(s)
  BY <1>6 DEF PostDeleteScan, Delete, DeleteRecord, DeleteResult,
       DeleteFromIndex, DeleteFails
<1>7. CASE Exit \/ Kill
  BY <1>7 DEF Exit, Kill, ProcessEnds
<1>8. CASE Signal \/ Restart \/ UNCHANGED vars
  BY <1>8 DEF Signal, Restart
<1> QED
  BY <1>1, <1>2, <1>3, <1>4, <1>5, <1>6, <1>7, <1>8 DEF Next, Scan

(* The reservation: only Reserve adds a bucket, and only one that is free. *)
LEMMA ReservationInv ==
  ASSUME TypeOK, Untouched, ReservationMatchesScan, [Next]_vars
  PROVE  ReservationMatchesScan'
<1> USE DEF TypeOK, Untouched, ReservationMatchesScan,
     Holds, Ended, ScanSteps, SuccessSteps, FailureSteps, HandlerSteps,
     At, Goto, SetRecord, SetProgress, vars, memory, stored, history
<1>1. CASE \E s \in Scans : PostStartScan(s)
  BY <1>1, EngineAssumption DEF PostStartScan
<1>2. CASE \E s \in Scans : Start(s)
  BY <1>2 DEF Start, Reserve, SaveRunning, Announce
<1>3. CASE \E s \in Scans : GetClient(s)
  BY <1>3 DEF GetClient
<1>4. CASE \E s \in Scans : PipelineEnds(s) \/ Succeed(s)
  BY <1>4 DEF PipelineEnds, Succeed, SaveResult, GetRecord, SaveRecord,
       AddToIndex, ProgressCompleted
<1>5. CASE \E s \in Scans : Fail(s) \/ Release(s)
  BY <1>5 DEF Fail, FailGet, FailSave, FailProgress, Release
<1>6. CASE \E s \in Scans : PostDeleteScan(s) \/ Delete(s)
  BY <1>6 DEF PostDeleteScan, Delete, DeleteRecord, DeleteResult,
       DeleteFromIndex, DeleteFails
<1>7. CASE Exit \/ Kill
  BY <1>7 DEF Exit, Kill, ProcessEnds
<1>8. CASE Signal \/ Restart \/ UNCHANGED vars
  BY <1>8 DEF Signal, Restart
<1> QED
  BY <1>1, <1>2, <1>3, <1>4, <1>5, <1>6, <1>7, <1>8 DEF Next, Scan

(* Requests and deletions: the history offers no scan that has no record yet. *)
LEMMA DeletionInv ==
  ASSUME TypeOK, Untouched, OverWhenDeleted, [Next]_vars
  PROVE  Untouched' /\ OverWhenDeleted'
<1> USE DEF TypeOK, Untouched, OverWhenDeleted,
     Holds, Ended, ScanSteps, SuccessSteps, FailureSteps, HandlerSteps,
     At, Goto, SetRecord, SetProgress, vars, memory, stored, history
<1>1. CASE \E s \in Scans : PostStartScan(s)
  BY <1>1, EngineAssumption DEF PostStartScan
<1>2. CASE \E s \in Scans : Start(s)
  BY <1>2 DEF Start, Reserve, SaveRunning, Announce
<1>3. CASE \E s \in Scans : GetClient(s)
  BY <1>3 DEF GetClient
<1>4. CASE \E s \in Scans : PipelineEnds(s) \/ Succeed(s)
  BY <1>4 DEF PipelineEnds, Succeed, SaveResult, GetRecord, SaveRecord,
       AddToIndex, ProgressCompleted
<1>5. CASE \E s \in Scans : Fail(s) \/ Release(s)
  BY <1>5 DEF Fail, FailGet, FailSave, FailProgress, Release
<1>6. CASE \E s \in Scans : PostDeleteScan(s) \/ Delete(s)
  BY <1>6 DEF PostDeleteScan, Delete, DeleteRecord, DeleteResult,
       DeleteFromIndex, DeleteFails
<1>7. CASE Exit \/ Kill
  BY <1>7 DEF Exit, Kill, ProcessEnds
<1>8. CASE Signal \/ Restart \/ UNCHANGED vars
  BY <1>8 DEF Signal, Restart
<1> QED
  BY <1>1, <1>2, <1>3, <1>4, <1>5, <1>6, <1>7, <1>8 DEF Next, Scan

(* Record and result, step by step. *)
LEMMA StoredInv ==
  ASSUME TypeOK, Untouched, OverWhenDeleted, StoredSoFar,
         RecordMatchesResult, [Next]_vars
  PROVE  StoredSoFar' /\ RecordMatchesResult'
<1> USE DEF TypeOK, Untouched, OverWhenDeleted, StoredSoFar, RecordMatchesResult,
     Holds, Ended, ScanSteps, SuccessSteps, FailureSteps, HandlerSteps,
     At, Goto, SetRecord, SetProgress, vars, memory, stored, history
<1>1. CASE \E s \in Scans : PostStartScan(s)
  BY <1>1, EngineAssumption DEF PostStartScan
<1>2. CASE \E s \in Scans : Start(s)
  BY <1>2 DEF Start, Reserve, SaveRunning, Announce
<1>3. CASE \E s \in Scans : GetClient(s)
  BY <1>3 DEF GetClient
<1>4. CASE \E s \in Scans : PipelineEnds(s) \/ Succeed(s)
  BY <1>4 DEF PipelineEnds, Succeed, SaveResult, GetRecord, SaveRecord,
       AddToIndex, ProgressCompleted
<1>5. CASE \E s \in Scans : Fail(s) \/ Release(s)
  BY <1>5 DEF Fail, FailGet, FailSave, FailProgress, Release
<1>6. CASE \E s \in Scans : PostDeleteScan(s) \/ Delete(s)
  BY <1>6 DEF PostDeleteScan, Delete, DeleteRecord, DeleteResult,
       DeleteFromIndex, DeleteFails
<1>7. CASE Exit \/ Kill
  BY <1>7 DEF Exit, Kill, ProcessEnds
<1>8. CASE Signal \/ Restart \/ UNCHANGED vars
  BY <1>8 DEF Signal, Restart
<1> QED
  BY <1>1, <1>2, <1>3, <1>4, <1>5, <1>6, <1>7, <1>8 DEF Next, Scan

(* The index: the result is there before the entry. *)
LEMMA IndexInv ==
  ASSUME TypeOK, Untouched, OverWhenDeleted, StoredSoFar, IndexedByScan, [Next]_vars
  PROVE  IndexedByScan'
<1> USE DEF TypeOK, Untouched, OverWhenDeleted, StoredSoFar, IndexedByScan,
     Holds, Ended, ScanSteps, SuccessSteps, FailureSteps, HandlerSteps,
     At, Goto, SetRecord, SetProgress, vars, memory, stored, history
<1>1. CASE \E s \in Scans : PostStartScan(s)
  BY <1>1, EngineAssumption DEF PostStartScan
<1>2. CASE \E s \in Scans : Start(s)
  BY <1>2 DEF Start, Reserve, SaveRunning, Announce
<1>3. CASE \E s \in Scans : GetClient(s)
  BY <1>3 DEF GetClient
<1>4. CASE \E s \in Scans : PipelineEnds(s) \/ Succeed(s)
  BY <1>4 DEF PipelineEnds, Succeed, SaveResult, GetRecord, SaveRecord,
       AddToIndex, ProgressCompleted
<1>5. CASE \E s \in Scans : Fail(s) \/ Release(s)
  BY <1>5 DEF Fail, FailGet, FailSave, FailProgress, Release
<1>6. CASE \E s \in Scans : PostDeleteScan(s) \/ Delete(s)
  BY <1>6 DEF PostDeleteScan, Delete, DeleteRecord, DeleteResult,
       DeleteFromIndex, DeleteFails
<1>7. CASE Exit \/ Kill
  BY <1>7 DEF Exit, Kill, ProcessEnds
<1>8. CASE Signal \/ Restart \/ UNCHANGED vars
  BY <1>8 DEF Signal, Restart
<1> QED
  BY <1>1, <1>2, <1>3, <1>4, <1>5, <1>6, <1>7, <1>8 DEF Next, Scan

(* The progress: "completed" is announced after everything is stored. *)
LEMMA ProgressInv ==
  ASSUME TypeOK, OverWhenDeleted, StoredSoFar, ProgressHasReport, [Next]_vars
  PROVE  ProgressHasReport'
<1> USE DEF TypeOK, OverWhenDeleted, StoredSoFar, ProgressHasReport,
     Holds, Ended, ScanSteps, SuccessSteps, FailureSteps, HandlerSteps,
     At, Goto, SetRecord, SetProgress, vars, memory, stored, history
<1>1. CASE \E s \in Scans : PostStartScan(s)
  BY <1>1, EngineAssumption DEF PostStartScan
<1>2. CASE \E s \in Scans : Start(s)
  BY <1>2 DEF Start, Reserve, SaveRunning, Announce
<1>3. CASE \E s \in Scans : GetClient(s)
  BY <1>3 DEF GetClient
<1>4. CASE \E s \in Scans : PipelineEnds(s) \/ Succeed(s)
  BY <1>4 DEF PipelineEnds, Succeed, SaveResult, GetRecord, SaveRecord,
       AddToIndex, ProgressCompleted
<1>5. CASE \E s \in Scans : Fail(s) \/ Release(s)
  BY <1>5 DEF Fail, FailGet, FailSave, FailProgress, Release
<1>6. CASE \E s \in Scans : PostDeleteScan(s) \/ Delete(s)
  BY <1>6 DEF PostDeleteScan, Delete, DeleteRecord, DeleteResult,
       DeleteFromIndex, DeleteFails
<1>7. CASE Exit \/ Kill
  BY <1>7 DEF Exit, Kill, ProcessEnds
<1>8. CASE Signal \/ Restart \/ UNCHANGED vars
  BY <1>8 DEF Signal, Restart
<1> QED
  BY <1>1, <1>2, <1>3, <1>4, <1>5, <1>6, <1>7, <1>8 DEF Next, Scan

(* The outcome, where the store does not fail. *)
LEMMA NothingLostInv ==
  ASSUME TypeOK, Untouched, OverWhenDeleted, StoredSoFar, IndexedByScan,
         NothingLost, StoreFails \/ EndedIsRecorded, [Next]_vars
  PROVE  NothingLost' /\ (StoreFails \/ EndedIsRecorded)'
<1> USE DEF TypeOK, Untouched, OverWhenDeleted, StoredSoFar, IndexedByScan,
     NothingLost, StoreFails, EndedIsRecorded,
     Holds, Ended, ScanSteps, SuccessSteps, FailureSteps, HandlerSteps,
     At, Goto, SetRecord, SetProgress, vars, memory, stored, history
<1>1. CASE \E s \in Scans : PostStartScan(s)
  BY <1>1, EngineAssumption DEF PostStartScan
<1>2. CASE \E s \in Scans : Start(s)
  BY <1>2 DEF Start, Reserve, SaveRunning, Announce
<1>3. CASE \E s \in Scans : GetClient(s)
  BY <1>3 DEF GetClient
<1>4. CASE \E s \in Scans : PipelineEnds(s) \/ Succeed(s)
  BY <1>4 DEF PipelineEnds, Succeed, SaveResult, GetRecord, SaveRecord,
       AddToIndex, ProgressCompleted
<1>5. CASE \E s \in Scans : Fail(s) \/ Release(s)
  BY <1>5 DEF Fail, FailGet, FailSave, FailProgress, Release
<1>6. CASE \E s \in Scans : PostDeleteScan(s) \/ Delete(s)
  BY <1>6 DEF PostDeleteScan, Delete, DeleteRecord, DeleteResult,
       DeleteFromIndex, DeleteFails
<1>7. CASE Exit \/ Kill
  BY <1>7 DEF Exit, Kill, ProcessEnds
<1>8. CASE Signal \/ Restart \/ UNCHANGED vars
  BY <1>8 DEF Signal, Restart
<1> QED
  BY <1>1, <1>2, <1>3, <1>4, <1>5, <1>6, <1>7, <1>8 DEF Next, Scan

-----------------------------------------------------------------------------
(***************************************************************************)
(* The theorems                                                            *)
(***************************************************************************)
LEMMA InitInv == Init => IInv
BY EngineAssumption
   DEF Init, IInv, TypeOK, ReservationMatchesScan, Untouched, OverWhenDeleted,
       StoredSoFar, RecordMatchesResult, IndexedByScan, ProgressHasReport,
       NothingLost, EndedIsRecorded, Holds, HandlerSteps, ScanSteps, SuccessSteps,
       FailureSteps, Ended

LEMMA NextInv == IInv /\ [Next]_vars => IInv'
BY TypeInv, ReservationInv, DeletionInv, StoredInv, IndexInv, ProgressInv,
   NothingLostInv DEF IInv

(* The invariant holds in every reachable state, for any number of scans   *)
(* and buckets and every combination of faults.                            *)
THEOREM Invariance == Spec => []IInv
BY InitInv, NextInv, PTL DEF Spec

(* The variables have their types.                                         *)
THEOREM TypeCorrectness == Spec => []TypeOK
<1>1. IInv => TypeOK
  BY DEF IInv
<1> QED
  BY <1>1, Invariance, PTL

(* StartFullScan: a bucket is reserved exactly while one scan holds it,    *)
(* through every failure of a start or of a scan, a shutdown and a kill.   *)
THEOREM OneScanPerBucket == Spec => []ReservationMatchesScan
<1>1. IInv => ReservationMatchesScan
  BY DEF IInv
<1> QED
  BY <1>1, Invariance, PTL

(* runFullScan, failScan: record and result of a scan agree, wherever the  *)
(* process was killed or the store failed.                                 *)
THEOREM RecordsAgree == Spec => []RecordMatchesResult
<1>1. IInv => RecordMatchesResult
  BY DEF IInv
<1> QED
  BY <1>1, Invariance, PTL

(* AddScanToBucketIndex: the index of a bucket names scans of that bucket  *)
(* that have a report.                                                     *)
THEOREM IndexIsHonest == Spec => []IndexedHasResult
<1>1. IInv => IndexedHasResult
  BY DEF IInv, IndexedByScan, TypeOK, IndexedHasResult
<1> QED
  BY <1>1, Invariance, PTL

(* GetScanProgress: the scan whose progress is "completed" has its report. *)
THEOREM CompletedHasReport == Spec => []ProgressHasReport
<1>1. IInv => ProgressHasReport
  BY DEF IInv
<1> QED
  BY <1>1, Invariance, PTL

(* Where the store does not fail, a scan that has ended is recorded as     *)
(* completed with report and index entry, or as failed with neither.       *)
THEOREM OutcomeIsStored == Spec => [](StoreFails \/ EndedIsRecorded)
<1>1. IInv => StoreFails \/ EndedIsRecorded
  BY DEF IInv
<1> QED
  BY <1>1, Invariance, PTL

(* A record is created running and ends once; then only a deletion changes *)
(* it, unless the scan was deleted before it was over.                     *)
THEOREM RecordsEndOnce == Spec => RecordLifecycle
<1> DEFINE Legal(s) ==
      \/ records[s] = "none" /\ records'[s] = "running" /\ s \notin deleted
      \/ records[s] = "running" /\ records'[s] \in {"completed", "failed"}
      \/ records'[s] = "none" /\ s \in deleted
      \/ s \in cutShort
<1>1. ASSUME IInv, Next
      PROVE  \A s \in Scans : records'[s] # records[s] => Legal(s)
  <2> USE <1>1 DEF IInv, TypeOK, Untouched, OverWhenDeleted, StoredSoFar, Ended, At,
                   Goto, SetRecord, stored
  <2>1. ASSUME NEW s \in Scans, SaveRunning(s)
        PROVE  \A t \in Scans : records'[t] # records[t] => Legal(t)
    BY <2>1 DEF SaveRunning
  <2>2. ASSUME NEW s \in Scans, SaveRecord(s) \/ FailSave(s)
        PROVE  \A t \in Scans : records'[t] # records[t] => Legal(t)
    BY <2>2 DEF SaveRecord, FailSave
  <2>3. ASSUME NEW s \in Scans, DeleteRecord(s)
        PROVE  \A t \in Scans : records'[t] # records[t] => Legal(t)
    BY <2>3 DEF DeleteRecord
  <2>4. \/ UNCHANGED records
        \/ \E s \in Scans :
             SaveRunning(s) \/ SaveRecord(s) \/ FailSave(s) \/ DeleteRecord(s)
    BY DEF Next, PostStartScan, Start, Reserve, Announce, GetClient, Scan, PipelineEnds,
           Succeed, SaveResult, GetRecord, AddToIndex, ProgressCompleted, Fail, FailGet,
           FailProgress, Release, PostDeleteScan, Delete, DeleteResult, DeleteFromIndex,
           DeleteFails, Signal, Exit, Kill, ProcessEnds, Restart
  <2> QED
    BY <2>1, <2>2, <2>3, <2>4
<1>2. IInv /\ [Next]_vars =>
        [\A s \in Scans : records'[s] # records[s] => Legal(s)]_vars
  BY <1>1
<1> QED
  BY <1>2, Invariance, PTL DEF Spec, RecordLifecycle

=============================================================================
