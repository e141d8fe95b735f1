----------------------------- MODULE HistoryPages -----------------------------
(***************************************************************************)
(* The pages that show scans, next to the engine that runs and deletes     *)
(* them (GetHistory, GetScanReport and GetComparison of                    *)
(* internal/web/handlers).  Every page is built from several store reads,  *)
(* each a transaction of its own, so steps of scans, deletions and the     *)
(* process fall between the reads of one page.                             *)
(*                                                                         *)
(* One browser: it opens any page of a running server, any number of       *)
(* times, and goes on from the rows of the history it was shown.           *)
(***************************************************************************)
EXTENDS ScanEngine

CONSTANT SettingsSaved  \* is there a ScanResult "__settings__" in the store
ASSUME SettingsAssumption == SettingsSaved \in BOOLEAN

VARIABLES
  page,      \* the page the browser loads or shows
  broken     \* history: the scans whose DeleteScan failed or was cut off

(* at: what the request does next, or the page it ended with; rows: the    *)
(* records ListScans returned, by status; ghosts: did it return rows with  *)
(* no id; unread: the rows whose total is still to be read; totals: those  *)
(* it was found for; asked: the scans of a comparison; failed: did a read  *)
(* of this page fail.                                                      *)
Page(at, rows, ghosts) ==
  [at |-> at, rows |-> rows, ghosts |-> ghosts, unread |-> DOMAIN rows,
   totals |-> {}, asked |-> <<>>, failed |-> FALSE]
Blank(at) == Page(at, << >>, FALSE)

Loading == {"rows", "first", "second"}

PagesInit == Init /\ page = Blank("closed") /\ broken = {}

(***************************************************************************)
(* GetHistory: ListScans, then GetScanResult for every row                 *)
(***************************************************************************)
(* ListScans iterates "scans/", which also covers "scans/result/": a       *)
(* result decodes as a record without id, bucket and status, which no      *)
(* bucket filter matches.  No bucket (None) is no filter.                  *)
ListScans(bucket) ==
  LET found == {s \in Scans : records[s] # "none" /\ bucket \in {None, bucketOf[s]}}
  IN  Page("rows", [s \in found |-> records[s]],
           bucket = None /\ (results # {} \/ SettingsSaved))

GetHistory(bucket) ==
  /\ server = "up" /\ page.at \notin Loading
  /\ \/ page' = ListScans(bucket)
     \/ StoreFails /\ page' = [Blank("rows") EXCEPT !.failed = TRUE]
  /\ UNCHANGED <<vars, broken>>

(* Seeded bug: the totals of the scans that are indexed are read.          *)
ReadTotalIndexed(s) ==
  /\ server # "down" /\ page.at = "rows" /\ s \in page.unread
  /\ page' = [page EXCEPT !.unread = @ \ {s},
                          !.totals = IF s \in index[bucketOf[s]] THEN @ \cup {s} ELSE @]
  /\ UNCHANGED <<vars, broken>>

ReadTotal(s) ==
  /\ server # "down" /\ page.at = "rows" /\ s \in page.unread
  /\ \/ page' = [page EXCEPT !.unread = @ \ {s},
                             !.totals = IF s \in results THEN @ \cup {s} ELSE @]
     \/ StoreFails /\ page' = [page EXCEPT !.unread = @ \ {s}, !.failed = TRUE]
  /\ UNCHANGED <<vars, broken>>

ShowHistory ==
  /\ server # "down" /\ page.at = "rows" /\ page.unread = {}
  /\ page' = [page EXCEPT !.at = "history"]
  /\ UNCHANGED <<vars, broken>>

(***************************************************************************)
(* GetScanReport and GetComparison, asked for from rows of the history; a  *)
(* row without id asks for None, of which there is never a result.  Of the *)
(* history, "not found" keeps the rows that were asked for.                *)
(***************************************************************************)
Rows == DOMAIN page.rows \cup (IF page.ghosts THEN {None} ELSE {})

Asking(at, asked) ==
  [Blank(at) EXCEPT !.asked = asked,
     !.rows = [s \in {asked[i] : i \in DOMAIN asked} \ {None} |-> page.rows[s]]]

GetScanReport(s) ==
  /\ server = "up" /\ page.at = "history" /\ s \in DOMAIN page.rows
  /\ \/ page' = IF s \in results THEN Blank("report") ELSE Asking("notFound", <<s>>)
     \/ StoreFails /\ page' = [Blank("notFound") EXCEPT !.failed = TRUE]
  /\ UNCHANGED <<vars, broken>>

GetComparison(a, b) ==
  /\ server = "up" /\ page.at = "history" /\ {a, b} \subseteq Rows /\ a # b
  /\ page' = Asking("first", <<a, b>>)
  /\ UNCHANGED <<vars, broken>>

(* The second result is read whether or not the first was there.           *)
ReadFirst ==
  /\ server # "down" /\ page.at = "first"
  /\ \/ page' = [page EXCEPT !.at = "second", !.totals = {page.asked[1]} \cap results]
     \/ StoreFails /\ page' = [page EXCEPT !.at = "second", !.failed = TRUE]
  /\ UNCHANGED <<vars, broken>>

ReadSecond ==
  /\ server # "down" /\ page.at = "second"
  /\ \/ page' = IF page.asked[1] \in page.totals /\ page.asked[2] \in results
                  THEN Blank("comparison") ELSE [page EXCEPT !.at = "notFound"]
     \/ StoreFails /\ page' = [Blank("notFound") EXCEPT !.failed = TRUE]
  /\ UNCHANGED <<vars, broken>>

(***************************************************************************)
(* The engine's own steps.  A request dies with its process, a page that   *)
(* was sent does not.                                                      *)
(***************************************************************************)
EngineStep ==
  /\ Next
  /\ page' = IF server' = "down" /\ page.at \in Loading THEN Blank("closed") ELSE page
  /\ broken' = broken \cup {s \in Scans : /\ del[s] # "no" /\ del'[s] = "no"
                                          /\ ~DeleteFromIndex(s)}

-----------------------------------------------------------------------------
PageStep ==
  \/ \E b \in Buckets \cup {None} : GetHistory(b)
  \/ \E s \in Scans : ReadTotal(s) \/ GetScanReport(s)
  \/ \E a, b \in Scans \cup {None} : GetComparison(a, b)
  \/ ShowHistory \/ ReadFirst \/ ReadSecond

PagesNext == EngineStep \/ PageStep

PagesSpec == PagesInit /\ [][PagesNext]_<<vars, page, broken>>

-----------------------------------------------------------------------------
(* The history shows the number of objects in the row of every completed   *)
(* scan, although it reads the records first and each result later, unless *)
(* the scan was deleted in between or a read failed.                       *)
CompletedRowsHaveTotals ==
  page.at = "history" /\ ~page.failed =>
    \A s \in DOMAIN page.rows \ deleted : page.rows[s] = "completed" => s \in page.totals

(* A report or a comparison is "not found" only for a row that was not     *)
(* completed, that has no id, that was deleted, or when a read failed:     *)
(* whatever happened since the history was shown.                          *)
CompletedRowsOpen ==
  page.at = "notFound" /\ ~page.failed =>
    \E i \in DOMAIN page.asked :
      LET s == page.asked[i] IN s = None \/ page.rows[s] # "completed" \/ s \in deleted

(* The deletion of a scan that was over leaves nothing of it behind, its   *)
(* record, its report (a row without id, which cannot be deleted) or its   *)
(* place in the index, unless a transaction of it failed or the process    *)
(* ended before the last one.                                              *)
DeletionIsComplete ==
  \A s \in deleted \ (cutShort \cup broken) : del[s] = "no" =>
    records[s] = "none" /\ s \notin results /\ \A b \in Buckets : s \notin index[b]

=============================================================================
