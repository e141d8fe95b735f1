-------------------------- MODULE HistoryPagesProofs --------------------------
(***************************************************************************)
(* Proofs about HistoryPages for any number of scans, buckets and          *)
(* deletions and every combination of faults: a page is built from several *)
(* reads with steps of scans, deletions and the process between them, and  *)
(* still says of a scan that was not deleted what the store has of it.     *)
(***************************************************************************)
EXTENDS HistoryPages, ScanEngineProofs, Sequences

-----------------------------------------------------------------------------
(* The inductive invariant, on top of that of the engine.  The page has    *)
(* its type; the rows of a page that is not loaded any more are all read,  *)
(* and what is asked for was in a row or is the None of a row without id.  *)
Status == {"none", "running", "completed", "failed"}

PageSet ==
  [at : {"closed", "rows", "history", "first", "second", "report", "comparison", "notFound"},
   rows : UNION {[S -> Status] : S \in SUBSET Scans}, ghosts : BOOLEAN,
   unread : SUBSET Scans, totals : SUBSET (Scans \cup {None}),
   asked : Seq(Scans \cup {None}), failed : BOOLEAN]

PageType ==
  /\ page \in PageSet
  /\ page.at = "history" => page.unread = {}
  /\ page.at \in {"first", "second"} => Len(page.asked) = 2
  /\ page.at \in {"first", "second", "notFound"} =>
       \A i \in DOMAIN page.asked : page.asked[i] \in DOMAIN page.rows \cup {None}

(* A scan that was shown as completed still is, unless it was deleted: the *)
(* fact that makes a later read of its result succeed.                     *)
RowsStayTrue ==
  \A s \in DOMAIN page.rows \ deleted :
    page.rows[s] = "completed" => records[s] = "completed" /\ s \in results

(* The totals that were read so far are those of the completed rows.       *)
TotalsSoFar ==
  page.at \in {"rows", "history"} /\ ~page.failed =>
    \A s \in DOMAIN page.rows \ (deleted \cup page.unread) :
      page.rows[s] = "completed" => s \in page.totals

(* Whenever a result was not found, there is a reason.                     *)
Excused(s) == s = None \/ page.rows[s] # "completed" \/ s \in deleted
MissingExcused ==
  /\ page.at = "second" /\ ~page.failed /\ page.asked[1] \notin page.totals =>
       Excused(page.asked[1])
  /\ page.at = "notFound" /\ ~page.failed =>
       \E i \in DOMAIN page.asked : Excused(page.asked[i])

(* How far a deletion is tells what it has left.                           *)
DeletedSoFar ==
  \A s \in deleted \ (cutShort \cup broken) :
    /\ del[s] # "record" => records[s] = "none"
    /\ del[s] \in {"index", "no"} => s \notin results
    /\ del[s] = "no" => \A b \in Buckets : s \notin index[b]

PagesInv ==
  IInv /\ PageType /\ RowsStayTrue /\ TotalsSoFar /\ MissingExcused /\ DeletedSoFar

-----------------------------------------------------------------------------
(* A page with nothing on it has its type, ...                             *)
LEMMA BlankType ==
  ASSUME NEW at \in {"closed", "rows", "first", "report", "comparison", "notFound"}
  PROVE  /\ Blank(at) \in PageSet /\ Blank(at).at = at /\ DOMAIN Blank(at).rows = {}
         /\ Blank(at).unread = {} /\ Blank(at).failed = FALSE /\ DOMAIN Blank(at).asked = {}
<1>1. << >> \in [{} -> Status] /\ DOMAIN << >> = {} /\ << >> \in Seq(Scans \cup {None})
  OBVIOUS
<1>2. << >> \in UNION {[S -> Status] : S \in SUBSET Scans}
  BY <1>1
<1> QED
  BY <1>1, <1>2 DEF Blank, Page, PageSet

(* The engine below the pages: a deletion is never forgotten, ...          *)
LEMMA DeletedGrows ==
  ASSUME [Next]_vars
  PROVE  deleted \subseteq deleted'
BY DEF Next, vars, history, PostStartScan, Start, Reserve, SaveRunning, Announce, GetClient,
   Scan, PipelineEnds, Succeed, SaveResult, GetRecord, SaveRecord, AddToIndex,
   ProgressCompleted, Fail, FailGet, FailSave, FailProgress, Release, PostDeleteScan,
   Delete, DeleteRecord, DeleteResult, DeleteFromIndex, DeleteFails, Signal, Exit, Kill,
   ProcessEnds, Restart

(* ... a scan that was shown as completed still is one, ...                *)
LEMMA CompletedStays ==
  ASSUME IInv, [Next]_vars, NEW s \in Scans \ deleted', records[s] = "completed"
  PROVE  records'[s] = "completed" /\ s \in results'
<1>1. IInv'
  BY NextInv
<1>2. deleted \subseteq deleted'
  BY DeletedGrows
<1>3. records'[s] = "completed"
  <2> USE DEF IInv, TypeOK, Untouched, OverWhenDeleted, StoredSoFar, At, Goto, SetRecord,
              stored, vars
  <2>1. \/ UNCHANGED records
        \/ \E t \in Scans :
             SaveRunning(t) \/ SaveRecord(t) \/ FailSave(t) \/ DeleteRecord(t)
    BY DEF Next, PostStartScan, Start, Reserve, Announce, GetClient, Scan, PipelineEnds,
           Succeed, SaveResult, GetRecord, AddToIndex, ProgressCompleted, Fail, FailGet,
           FailProgress, Release, PostDeleteScan, Delete, DeleteResult, DeleteFromIndex,
           DeleteFails, Signal, Exit, Kill, ProcessEnds, Restart
  <2>2. ASSUME NEW t \in Scans, SaveRunning(t) \/ SaveRecord(t) \/ FailSave(t) \/ DeleteRecord(t)
        PROVE  records'[s] = "completed"
    BY <1>2, <2>2 DEF SaveRunning, SaveRecord, FailSave, DeleteRecord
  <2> QED
    BY <2>1, <2>2
<1> QED
  BY <1>1, <1>3 DEF IInv, RecordMatchesResult

(* ... and to one that was deleted when it was over: only its deletion     *)
(* touches it, and a deletion that stops early is noted as broken.         *)
LEMMA DeletedInv ==
  ASSUME IInv, DeletedSoFar, EngineStep
  PROVE  DeletedSoFar'
<1> USE DEF IInv, TypeOK, Untouched, OverWhenDeleted, StoredSoFar, DeletedSoFar, EngineStep,
     Holds, Ended, ScanSteps, SuccessSteps, FailureSteps, HandlerSteps,
     At, Goto, SetRecord, SetProgress, vars, memory, stored, history
<1>1. CASE \E s \in Scans : PostStartScan(s)
  BY <1>1, EngineAssumption DEF PostStartScan
<1>2. CASE \E s \in Scans : Start(s)
  BY <1>2 DEF Start, Reserve, SaveRunning, Announce
<1>3. CASE \E s \in Scans : GetClient(s)
  BY <1>3 DEF GetClient
<1>4. CASE \E s \in Scans : PipelineEnds(s) \/ Succeed(s)
  BY <1>4 DEF PipelineEnds, Succeed, SaveResult, GetRecord, SaveRecord,
       AddToIndex, ProgressCompleted
<1>5. CASE \E s \in Scans : Fail(s) \/ Release(s)
  BY <1>5 DEF Fail, FailGet, FailSave, FailProgress, Release
<1>6. CASE \E s \in Scans : PostDeleteScan(s)
  BY <1>6 DEF PostDeleteScan
<1>7. CASE \E s \in Scans : Delete(s)
  BY <1>7 DEF Delete, DeleteRecord, DeleteResult, DeleteFromIndex, DeleteFails
<1>8. CASE Exit \/ Kill
  BY <1>8 DEF Exit, Kill, ProcessEnds, DeleteFromIndex
<1>9. CASE Signal \/ Restart
  BY <1>9 DEF Signal, Restart
<1> QED
  BY <1>1, <1>2, <1>3, <1>4, <1>5, <1>6, <1>7, <1>8, <1>9 DEF Next, Scan

(* A page that is shown, or half loaded, stays true while the engine goes  *)
(* on.                                                                     *)
LEMMA EngineStepInv ==
  ASSUME PagesInv, EngineStep
  PROVE  PagesInv'
<1> USE DEF PagesInv
<1>1. IInv' /\ DeletedSoFar'
  BY NextInv, DeletedInv DEF EngineStep
<1>2. CASE page' = page
  <2>1. deleted \subseteq deleted'
    BY DeletedGrows DEF EngineStep
  <2>2. DOMAIN page.rows \subseteq Scans
    BY DEF PageType, PageSet
  <2>3. RowsStayTrue'
    BY <1>2, <2>1, <2>2, CompletedStays DEF EngineStep, RowsStayTrue
  <2>4. PageType' /\ TotalsSoFar' /\ MissingExcused'
    BY <1>2, <2>1 DEF PageType, TotalsSoFar, MissingExcused, Excused
  <2> QED
    BY <1>1, <2>3, <2>4
<1>3. CASE page' = Blank("closed")
  BY <1>1, <1>3, BlankType DEF PageType, RowsStayTrue, TotalsSoFar, MissingExcused
<1> QED
  BY <1>2, <1>3 DEF EngineStep

-----------------------------------------------------------------------------
(* The steps of a page change nothing of the engine.                       *)
PageInv == PageType /\ RowsStayTrue /\ TotalsSoFar /\ MissingExcused

(* GetHistory: what ListScans read is true at that moment.                 *)
LEMMA HistoryInv ==
  ASSUME PagesInv, NEW b \in Buckets \cup {None}, GetHistory(b)
  PROVE  PageInv'
<1> USE DEF PagesInv, PageInv
<1>1. UNCHANGED <<records, results, deleted>>
  BY DEF GetHistory, vars, stored, history
<1>2. CASE page' = ListScans(b)
  <2> DEFINE found == {s \in Scans : records[s] # "none" /\ b \in {None, bucketOf[s]}}
             rows  == [s \in found |-> records[s]]
  <2>1. rows \in [found -> Status] /\ found \in SUBSET Scans /\ DOMAIN rows = found
    BY DEF IInv, TypeOK, Status
  <2>2. rows \in UNION {[S -> Status] : S \in SUBSET Scans}
    BY <2>1
  <2>3. << >> \in Seq(Scans \cup {None})
    OBVIOUS
  <2>4. page' = Page("rows", rows, b = None /\ (results # {} \/ SettingsSaved))
    BY <1>2 DEF ListScans
  <2>5. (b = None /\ (results # {} \/ SettingsSaved)) \in BOOLEAN
    OBVIOUS
  <2> HIDE DEF rows
  <2>6. /\ page' \in PageSet /\ page'.at = "rows" /\ page'.rows = rows
        /\ page'.unread = found /\ page'.failed = FALSE
    BY <2>1, <2>2, <2>3, <2>4, <2>5 DEF Page, PageSet
  <2>7. RowsStayTrue'
    BY <1>1, <2>1, <2>6 DEF RowsStayTrue, IInv, RecordMatchesResult, rows
  <2> QED
    BY <2>1, <2>6, <2>7 DEF PageType, TotalsSoFar, MissingExcused
<1>3. CASE page' = [Blank("rows") EXCEPT !.failed = TRUE]
  <2>1. page' \in PageSet /\ page'.at = "rows" /\ DOMAIN page'.rows = {}
    BY <1>3, BlankType DEF PageSet
  <2> QED
    BY <2>1 DEF PageType, RowsStayTrue, TotalsSoFar, MissingExcused
<1> QED
  BY <1>2, <1>3 DEF GetHistory

(* A total that is read for a completed row is there.                      *)
LEMMA ReadTotalInv ==
  ASSUME PagesInv, NEW s \in Scans, ReadTotal(s)
  PROVE  PageInv'
<1> USE DEF PagesInv, PageInv
<1>1. UNCHANGED <<records, results, deleted>>
  BY DEF ReadTotal, vars, stored, history
<1>2. CASE page' = [page EXCEPT !.unread = @ \ {s},
                                !.totals = IF s \in results THEN @ \cup {s} ELSE @]
  <2>1. /\ page' \in PageSet /\ page'.at = "rows" /\ page'.rows = page.rows
        /\ page'.unread = page.unread \ {s} /\ page'.failed = page.failed
        /\ page'.totals = IF s \in results THEN page.totals \cup {s} ELSE page.totals
    BY <1>2 DEF ReadTotal, PageType, PageSet
  <2>2. page.at = "rows"
    BY DEF ReadTotal
  <2>3. TotalsSoFar'
    BY <1>1, <2>1, <2>2 DEF RowsStayTrue, TotalsSoFar
  <2> QED
    BY <1>1, <2>1, <2>3 DEF PageType, RowsStayTrue, MissingExcused
<1>3. CASE page' = [page EXCEPT !.unread = @ \ {s}, !.failed = TRUE]
  <2>1. /\ page' \in PageSet /\ page'.at = "rows" /\ page'.rows = page.rows
        /\ page'.failed = TRUE
    BY <1>3 DEF ReadTotal, PageType, PageSet
  <2> QED
    BY <1>1, <2>1 DEF PageType, RowsStayTrue, TotalsSoFar, MissingExcused
<1> QED
  BY <1>2, <1>3 DEF ReadTotal

(* ShowHistory comes when every row is read.                               *)
LEMMA ShowHistoryInv ==
  ASSUME PagesInv, ShowHistory
  PROVE  PageInv'
<1> USE DEF PagesInv, PageInv
<1>1. UNCHANGED <<records, results, deleted>>
  BY DEF ShowHistory, vars, stored, history
<1>2. /\ page' \in PageSet /\ page'.at = "history"
      /\ page'.rows = page.rows /\ page'.unread = page.unread
      /\ page'.failed = page.failed /\ page'.totals = page.totals
  BY DEF ShowHistory, PageType, PageSet
<1> QED
  BY <1>1, <1>2 DEF PageType, RowsStayTrue, TotalsSoFar, MissingExcused, ShowHistory

(* A request for rows of the history keeps what they said.                 *)
LEMMA AskingType ==
  ASSUME PageType, NEW at \in {"first", "notFound"},
         NEW asked \in Seq(DOMAIN page.rows \cup {None}), page' = Asking(at, asked)
  PROVE  /\ page' \in PageSet /\ page'.at = at /\ page'.asked = asked
         /\ page'.failed = FALSE
         /\ DOMAIN page'.rows = {asked[i] : i \in DOMAIN asked} \ {None}
         /\ \A s \in DOMAIN page'.rows : page'.rows[s] = page.rows[s] /\ s \in DOMAIN page.rows
<1> DEFINE S == {asked[i] : i \in DOMAIN asked} \ {None}
           rows == [s \in S |-> page.rows[s]]
<1>1. S \subseteq DOMAIN page.rows
  OBVIOUS
<1>2. DOMAIN page.rows \subseteq Scans /\ \A s \in DOMAIN page.rows : page.rows[s] \in Status
  BY DEF PageType, PageSet
<1>3. rows \in [S -> Status] /\ S \in SUBSET Scans
  BY <1>1, <1>2
<1>4. rows \in UNION {[T -> Status] : T \in SUBSET Scans}
  BY <1>3
<1>5. asked \in Seq(Scans \cup {None})
  BY <1>2
<1>6. page' = [Blank(at) EXCEPT !.asked = asked, !.rows = rows]
  BY DEF Asking
<1>7. DOMAIN rows = S /\ \A s \in S : rows[s] = page.rows[s]
  OBVIOUS
<1> HIDE DEF rows, S
<1>8. page' \in PageSet /\ page'.at = at /\ page'.asked = asked /\ page'.failed = FALSE
      /\ page'.rows = rows
  <2> DEFINE blank == Blank(at)
  <2>1. blank \in PageSet /\ blank.at = at /\ blank.failed = FALSE
    BY BlankType
  <2> HIDE DEF blank
  <2>2. page' = [[blank EXCEPT !.asked = asked] EXCEPT !.rows = rows]
    BY <1>6 DEF blank
  <2>3. [blank EXCEPT !.asked = asked] \in PageSet
    BY <1>5, <2>1 DEF PageSet
  <2>4. page' \in PageSet
    BY <1>4, <2>2, <2>3 DEF PageSet
  <2>5. page'.at = at /\ page'.failed = FALSE
    BY <2>1, <2>2 DEF PageSet
  <2>6. page'.asked = asked
    BY <2>1, <2>2 DEF PageSet
  <2>7. page'.rows = rows
    BY <2>1, <2>2 DEF PageSet
  <2> QED
    BY <2>4, <2>5, <2>6, <2>7
<1> QED
  BY <1>1, <1>7, <1>8 DEF S

(* GetScanReport: one read.                                                *)
LEMMA GetScanReportInv ==
  ASSUME PagesInv, NEW s \in Scans, GetScanReport(s)
  PROVE  PageInv'
<1> USE DEF PagesInv, PageInv
<1>1. UNCHANGED <<records, results, deleted>> /\ s \in DOMAIN page.rows
  BY DEF GetScanReport, vars, stored, history
<1>2. CASE page' = Blank("report")
  BY <1>2, BlankType DEF PageType, RowsStayTrue, TotalsSoFar, MissingExcused
<1>3. CASE s \notin results /\ page' = Asking("notFound", <<s>>)
  <2>1. /\ <<s>> \in Seq(DOMAIN page.rows \cup {None}) /\ DOMAIN <<s>> = {1} /\ <<s>>[1] = s
        /\ {<<s>>[i] : i \in DOMAIN <<s>>} = {s}
    BY <1>1
  <2>2. s # None
    BY EngineAssumption
  <2>3. /\ page' \in PageSet /\ page'.at = "notFound" /\ page'.asked = <<s>>
        /\ DOMAIN page'.rows = {s} /\ page'.rows[s] = page.rows[s]
    BY <1>3, <2>1, <2>2, AskingType
  <2>4. s \notin deleted => page.rows[s] # "completed"
    BY <1>1, <1>3 DEF RowsStayTrue
  <2>5. Excused(s)'
    BY <1>1, <2>3, <2>4 DEF Excused
  <2> QED
    BY <1>1, <1>3, <2>1, <2>3, <2>4, <2>5
       DEF PageType, RowsStayTrue, TotalsSoFar, MissingExcused
<1>4. CASE page' = [Blank("notFound") EXCEPT !.failed = TRUE]
  <2>1. /\ page' \in PageSet /\ page'.at = "notFound" /\ DOMAIN page'.rows = {}
        /\ DOMAIN page'.asked = {} /\ page'.failed = TRUE
    BY <1>4, BlankType DEF PageSet
  <2> QED
    BY <2>1 DEF PageType, RowsStayTrue, TotalsSoFar, MissingExcused
<1> QED
  BY <1>2, <1>3, <1>4 DEF GetScanReport

(* GetComparison: two reads, in two steps of their own.                    *)
LEMMA GetComparisonInv ==
  ASSUME PagesInv, NEW a \in Scans \cup {None}, NEW b \in Scans \cup {None},
         GetComparison(a, b)
  PROVE  PageInv'
<1> USE DEF PagesInv, PageInv
<1>1. UNCHANGED <<records, results, deleted>> /\ page' = Asking("first", <<a, b>>)
  BY DEF GetComparison, vars, stored, history
<1>2. <<a, b>> \in Seq(DOMAIN page.rows \cup {None}) /\ DOMAIN <<a, b>> = {1, 2}
      /\ {<<a, b>>[i] : i \in DOMAIN <<a, b>>} = {a, b}
  BY DEF GetComparison, Rows
<1>3. /\ page' \in PageSet /\ page'.at = "first" /\ page'.asked = <<a, b>>
      /\ DOMAIN page'.rows = {a, b} \ {None}
      /\ \A s \in DOMAIN page'.rows : page'.rows[s] = page.rows[s] /\ s \in DOMAIN page.rows
  BY <1>1, <1>2, AskingType
<1> QED
  BY <1>1, <1>2, <1>3 DEF PageType, RowsStayTrue, TotalsSoFar, MissingExcused

(* What was shown as completed and has no result was deleted.              *)
LEMMA ExcusedWhenMissing ==
  ASSUME PagesInv, NEW s \in DOMAIN page.rows \cup {None}, s \notin results
  PROVE  Excused(s)
BY DEF PagesInv, RowsStayTrue, Excused

(* The first of them ...                                                   *)
LEMMA ReadFirstInv ==
  ASSUME PagesInv, ReadFirst
  PROVE  PageInv'
<1> USE DEF PagesInv, PageInv
<1>1. UNCHANGED <<records, results, deleted>>
  BY DEF ReadFirst, vars, stored, history
<1>2. page.asked[1] \in DOMAIN page.rows \cup {None} /\ page.asked \in Seq(Scans \cup {None})
      /\ Len(page.asked) = 2
  BY DEF ReadFirst, PageType, PageSet
<1>3. /\ page' \in PageSet /\ page'.at = "second" /\ page'.rows = page.rows
      /\ page'.asked = page.asked
      /\ ~page'.failed => ~page.failed /\ page'.totals = {page.asked[1]} \cap results
  <2>1. CASE page' = [page EXCEPT !.at = "second", !.totals = {page.asked[1]} \cap results]
    BY <2>1, <1>2 DEF PageType, PageSet, IInv, TypeOK
  <2>2. CASE page' = [page EXCEPT !.at = "second", !.failed = TRUE]
    BY <2>2 DEF PageType, PageSet
  <2> QED
    BY <2>1, <2>2 DEF ReadFirst
<1>4. ~page'.failed /\ page'.asked[1] \notin page'.totals => Excused(page.asked[1])
  BY <1>2, <1>3, ExcusedWhenMissing
<1> QED
  BY <1>1, <1>2, <1>3, <1>4
     DEF PageType, RowsStayTrue, TotalsSoFar, MissingExcused, ReadFirst, Excused

(* ... and the second, after whatever came in between.                     *)
LEMMA ReadSecondInv ==
  ASSUME PagesInv, ReadSecond
  PROVE  PageInv'
<1> USE DEF PagesInv, PageInv
<1>1. UNCHANGED <<records, results, deleted>>
  BY DEF ReadSecond, vars, stored, history
<1>2. CASE page' = Blank("comparison")
  BY <1>2, BlankType DEF PageType, RowsStayTrue, TotalsSoFar, MissingExcused
<1>3. CASE /\ page' = [page EXCEPT !.at = "notFound"]
           /\ ~(page.asked[1] \in page.totals /\ page.asked[2] \in results)
  <2>1. /\ page' \in PageSet /\ page'.at = "notFound" /\ page'.rows = page.rows
        /\ page'.asked = page.asked /\ page'.failed = page.failed
    BY <1>3 DEF PageType, PageSet
  <2>2. page.asked \in Seq(Scans \cup {None}) /\ Len(page.asked) = 2 /\ page.at = "second"
    BY DEF ReadSecond, PageType, PageSet
  <2>3. 1 \in DOMAIN page.asked /\ 2 \in DOMAIN page.asked
    BY <2>2
  <2>4. ~page.failed => \E i \in DOMAIN page.asked : Excused(page.asked[i])
    BY <1>3, <2>2, <2>3, ExcusedWhenMissing DEF MissingExcused, PageType
  <2> QED
    BY <1>1, <2>1, <2>2, <2>4 DEF PageType, RowsStayTrue, TotalsSoFar, MissingExcused, Excused
<1>4. CASE page' = [Blank("notFound") EXCEPT !.failed = TRUE]
  <2>1. /\ page' \in PageSet /\ page'.at = "notFound" /\ DOMAIN page'.rows = {}
        /\ DOMAIN page'.asked = {} /\ page'.failed = TRUE
    BY <1>4, BlankType DEF PageSet
  <2> QED
    BY <2>1 DEF PageType, RowsStayTrue, TotalsSoFar, MissingExcused
<1> QED
  BY <1>2, <1>3, <1>4 DEF ReadSecond

(* So no step of a page breaks the invariant.                              *)
LEMMA PageStepInv ==
  ASSUME PagesInv, PageStep
  PROVE  PagesInv'
<1>1. UNCHANGED <<vars, broken>>
  BY DEF PageStep, GetHistory, ReadTotal, GetScanReport, GetComparison, ShowHistory,
       ReadFirst, ReadSecond
<1>2. IInv' /\ DeletedSoFar'
  BY <1>1, NextInv DEF PagesInv, DeletedSoFar, vars, stored, history
<1>3. PageInv'
  BY HistoryInv, ReadTotalInv, GetScanReportInv, GetComparisonInv, ShowHistoryInv,
     ReadFirstInv, ReadSecondInv DEF PageStep
<1> QED
  BY <1>2, <1>3 DEF PageInv, PagesInv

-----------------------------------------------------------------------------
(* The invariant holds when the server has started.                        *)
LEMMA PagesInitInv == PagesInit => PagesInv
<1> SUFFICES ASSUME PagesInit PROVE PagesInv
  OBVIOUS
<1>1. IInv /\ deleted = {}
  BY InitInv DEF PagesInit, Init
<1> QED
  BY <1>1, BlankType DEF PagesInit, PagesInv, PageType, RowsStayTrue, TotalsSoFar,
     MissingExcused, DeletedSoFar

(* The invariant holds in every reachable state, for any number of scans   *)
(* and buckets, with or without saved settings.                            *)
THEOREM PagesInvariance == PagesSpec => []PagesInv
<1>1. PagesInv /\ [PagesNext]_<<vars, page, broken>> => PagesInv'
  <2> SUFFICES ASSUME PagesInv, [PagesNext]_<<vars, page, broken>> PROVE PagesInv'
    OBVIOUS
  <2>1. CASE UNCHANGED <<vars, page, broken>>
    <3>1. IInv'
      BY <2>1, NextInv DEF PagesInv
    <3> QED
      BY <2>1, <3>1 DEF PagesInv, PageType, RowsStayTrue, TotalsSoFar, MissingExcused, Excused,
         DeletedSoFar, vars, stored, history
  <2> QED
    BY <2>1, EngineStepInv, PageStepInv DEF PagesNext
<1> QED
  BY <1>1, PagesInitInv, PTL DEF PagesSpec

(* GetHistory: a row of a completed scan has its total, unless the scan    *)
(* was deleted meanwhile or a read failed.                                 *)
THEOREM HistoryShowsTotals == PagesSpec => []CompletedRowsHaveTotals
<1>1. PagesInv => CompletedRowsHaveTotals
  BY DEF PagesInv, PageType, TotalsSoFar, CompletedRowsHaveTotals
<1> QED
  BY <1>1, PagesInvariance, PTL

(* GetScanReport and GetComparison find the results of completed rows that *)
(* were not deleted.                                                       *)
THEOREM RowsOpen == PagesSpec => []CompletedRowsOpen
<1>1. PagesInv => CompletedRowsOpen
  BY DEF PagesInv, MissingExcused, Excused, CompletedRowsOpen
<1> QED
  BY <1>1, PagesInvariance, PTL

(* DeleteScan: an unbroken deletion of a scan that was over leaves nothing *)
(* of it in the store.                                                     *)
THEOREM DeletionLeavesNothing == PagesSpec => []DeletionIsComplete
<1>1. PagesInv => DeletionIsComplete
  BY DEF PagesInv, DeletedSoFar, DeletionIsComplete
<1> QED
  BY <1>1, PagesInvariance, PTL
=============================================================================
