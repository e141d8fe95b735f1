----------------------------- MODULE ScanProgress -----------------------------
(***************************************************************************)
(* What a scan counts, shows while it runs and reports when it is over     *)
(* (internal/scan/engine.go: runCollector with its ticker, setProgress,    *)
(* updateProgress, failScan and the last part of runFullScan).             *)
(*                                                                         *)
(* Scans of different buckets run at the same time.  Each has a collector, *)
(* which feeds the aggregator of ScanStats batch by batch, and a ticker    *)
(* goroutine; they all write into the engine's one progress record, which  *)
(* updateProgress changes whatever scan it is about.  The ticker reads the *)
(* collector's counter in one step and writes it in another.               *)
(*                                                                         *)
(* The pipeline (ScanPipeline) delivers some of Objects[s], once each and  *)
(* in any order; it may end with an error instead.                         *)
(***************************************************************************)
EXTENDS ScanStats

CONSTANTS
  Scans,      \* scans, each of a bucket of its own
  Objects,    \* scan -> the objects that its pipeline may deliver
  BatchSize,  \* cfg.BatchSize
  Faults,     \* what may go wrong: "s3", "store"
  None

ASSUME ProgressAssumption ==
  /\ DOMAIN Objects = Scans /\ \A s \in Scans : IsFiniteSet(Objects[s])
  /\ \A s \in Scans : \A o \in Objects[s] : o.size \in Nat /\ o.age \in Int
  /\ BatchSize \in Nat \ {0} /\ Faults \subseteq {"s3", "store"} /\ None \notin Scans

VARIABLES
  progress,   \* Engine.progress
  pc,         \* what the scan does next
  phase,      \* of its objChan: "open", "closed", or "error" was received
  listed,     \* the objects it has received
  received,   \* objectsReceived, the counter the ticker reads
  batch,      \* the collector's batch
  agg,        \* its aggregator
  ticker,     \* the ticker goroutine: "off", "select", or about to "write"
  loaded,     \* the count it is about to write
  result,     \* store: scan -> its ScanResult, if it has one
  mixed       \* history: the record holds counts that another scan, or a
              \*   ticker after the scan was over, has written into it

collector == <<pc, phase, listed, received, batch, agg>>
tickers   == <<ticker, loaded>>
vars      == <<progress, collector, tickers, result, mixed>>

Init ==
  /\ progress = None /\ mixed = FALSE
  /\ pc = [s \in Scans |-> "none"] /\ phase = [s \in Scans |-> "open"]
  /\ listed = [s \in Scans |-> {}] /\ received = [s \in Scans |-> 0]
  /\ batch = [s \in Scans |-> <<>>] /\ agg = [s \in Scans |-> NewStatsAggregator]
  /\ ticker = [s \in Scans |-> "off"] /\ loaded = [s \in Scans |-> 0]
  /\ result = [s \in {} |-> {}]

At(s, step)   == pc[s] = step
Goto(s, step) == pc' = [pc EXCEPT ![s] = step]

(* Seeded bug: close(done) and Stop are missing.                           *)
CollectingForEver(s) == pc[s] # "none"

(* From the start of the ticker until done is closed and it is stopped.    *)
Collecting(s) == pc[s] \in {"collect", "flush", "return"}
StoreFails    == "store" \in Faults

(* A new record, so nothing of an earlier one is left in it.               *)
SetProgress(s, status, total) ==
  /\ progress' = [id |-> s, status |-> status, objectsDone |-> total, totalFound |-> total]
  /\ mixed' = FALSE

(* The count goes into the record that is there, without a look at its id. *)
UpdateProgress(s, count) ==
  /\ progress' = [progress EXCEPT !.objectsDone = count]
  /\ mixed' = (mixed \/ progress.id # s \/ progress.status # "running")

(***************************************************************************)
(* The scan and its collector                                              *)
(***************************************************************************)
(* setProgress, and the start of the collector with its ticker.            *)
Start(s) ==
  /\ At(s, "none") /\ Goto(s, "collect")
  /\ SetProgress(s, "running", 0)
  /\ ticker' = [ticker EXCEPT ![s] = "select"]
  /\ UNCHANGED <<phase, listed, received, batch, agg, loaded, result>>

ReceiveObject(s, obj) ==
  /\ At(s, "collect") /\ obj \in Objects[s] \ listed[s]
  /\ listed' = [listed EXCEPT ![s] = @ \cup {obj}]
  /\ received' = [received EXCEPT ![s] = @ + 1]
  /\ batch' = [batch EXCEPT ![s] = Append(@, obj)]
  /\ Goto(s, IF Len(batch'[s]) >= BatchSize THEN "flush" ELSE "collect")
  /\ UNCHANGED <<progress, phase, agg, tickers, result, mixed>>

(* The channel is closed: one more flush, of what is left of a batch.      *)
ReceiveClosed(s) ==
  /\ At(s, "collect")
  /\ phase' = [phase EXCEPT ![s] = "closed"]
  /\ Goto(s, IF batch[s] = <<>> THEN "return" ELSE "flush")
  /\ UNCHANGED <<progress, listed, received, batch, agg, tickers, result, mixed>>

(* An error message, or the deadline.                                      *)
ReceiveError(s) ==
  /\ "s3" \in Faults /\ At(s, "collect")
  /\ phase' = [phase EXCEPT ![s] = "error"] /\ Goto(s, "return")
  /\ UNCHANGED <<progress, listed, received, batch, agg, tickers, result, mixed>>

(* Seeded bug: the batch is not emptied.                                   *)
FlushKeepsBatch(s) ==
  /\ At(s, "flush")
  /\ agg' = [agg EXCEPT ![s] = AddBatch(@, batch[s])]
  /\ UpdateProgress(s, agg'[s].totalObjects)
  /\ Goto(s, IF phase[s] = "closed" THEN "return" ELSE "collect")
  /\ UNCHANGED <<phase, listed, received, batch, tickers, result>>

(* flushBatch: the aggregator has the batch even if it cannot be stored.   *)
(* Nothing but a tick's write can fall between its steps, and that does no *)
(* more there than before or after them.                                   *)
Flush(s) ==
  /\ At(s, "flush")
  /\ agg' = [agg EXCEPT ![s] = AddBatch(@, batch[s])]
  /\ \/ /\ UpdateProgress(s, agg'[s].totalObjects)
        /\ batch' = [batch EXCEPT ![s] = <<>>]
        /\ Goto(s, IF phase[s] = "closed" THEN "return" ELSE "collect")
        /\ UNCHANGED phase
     \/ /\ StoreFails
        /\ phase' = [phase EXCEPT ![s] = "error"] /\ Goto(s, "return")
        /\ UNCHANGED <<progress, batch, mixed>>
  /\ UNCHANGED <<listed, received, tickers, result>>

(* The deferred close(done) and progressTick.Stop(): Collecting is over.   *)
Return(s) ==
  /\ At(s, "return")
  /\ Goto(s, IF phase[s] = "error" THEN "fail" ELSE "save")
  /\ UNCHANGED <<progress, phase, listed, received, batch, agg, tickers, result, mixed>>

Stored(s) == [t \in DOMAIN result \cup {s} |->
                IF t = s THEN BuildReport(agg[s]) ELSE result[t]]

(* Seeded bug: a result that could not be stored is only logged.           *)
SaveResultLogged(s) ==
  /\ At(s, "save") /\ Goto(s, "complete")
  /\ result' = Stored(s) \/ (StoreFails /\ UNCHANGED result)
  /\ UNCHANGED <<progress, phase, listed, received, batch, agg, tickers, mixed>>

SaveResult(s) ==
  /\ At(s, "save")
  /\ \/ result' = Stored(s) /\ Goto(s, "complete")
     \/ StoreFails /\ Goto(s, "fail") /\ UNCHANGED result
  /\ UNCHANGED <<progress, phase, listed, received, batch, agg, tickers, mixed>>

Complete(s) ==
  /\ At(s, "complete") /\ Goto(s, "ended")
  /\ SetProgress(s, "completed", BuildSummary(agg[s]).totalObjects)
  /\ UNCHANGED <<phase, listed, received, batch, agg, tickers, result>>

FailScan(s) ==
  /\ At(s, "fail") /\ Goto(s, "ended")
  /\ SetProgress(s, "failed", 0)
  /\ UNCHANGED <<phase, listed, received, batch, agg, tickers, result>>

(***************************************************************************)
(* The ticker                                                              *)
(***************************************************************************)
Tick(s) ==
  /\ ticker[s] = "select" /\ Collecting(s)
  /\ loaded' = [loaded EXCEPT ![s] = received[s]]
  /\ ticker' = [ticker EXCEPT ![s] = "write"]
  /\ UNCHANGED <<progress, collector, result, mixed>>

TickWrite(s) ==
  /\ ticker[s] = "write"
  /\ UpdateProgress(s, loaded[s])
  /\ ticker' = [ticker EXCEPT ![s] = "select"]
  /\ loaded' = [loaded EXCEPT ![s] = 0]
  /\ UNCHANGED <<collector, result>>

TickerExit(s) ==
  /\ ticker[s] = "select" /\ ~Collecting(s)
  /\ ticker' = [ticker EXCEPT ![s] = "off"]
  /\ UNCHANGED <<progress, collector, loaded, result, mixed>>

-----------------------------------------------------------------------------
Collect(s) == \/ \E obj \in Objects[s] : ReceiveObject(s, obj)
              \/ ReceiveClosed(s) \/ ReceiveError(s)
              \/ Flush(s) \/ Return(s)
Scan(s)    == Start(s) \/ Collect(s)
                \/ SaveResult(s) \/ Complete(s) \/ FailScan(s)
Ticker(s)  == TickWrite(s) \/ TickerExit(s)

Next == \E s \in Scans : Scan(s) \/ Tick(s) \/ Ticker(s)
Spec == Init /\ [][Next]_vars

(* The ticker goroutines run; that a tick comes is nobody's duty.          *)
Fairness == \A s \in Scans : WF_vars(Ticker(s))
FairSpec == Spec /\ Fairness

-----------------------------------------------------------------------------
TotalSize(objs) == SumFunction([o \in objs |-> o.size])

Groups(objs, Label(_)) ==
  [v \in {Label(o) : o \in objs} |->
     LET group == {o \in objs : Label(o) = v}
     IN  [count |-> Cardinality(group), size |-> TotalSize(group)]]

(* The smallest size that at least n of the objects do not exceed.         *)
NthSize(objs, n) ==
  Min({o.size : o \in {p \in objs : Cardinality({q \in objs : q.size <= p.size}) >= n}})

Ext(o) == o.ext

SummaryDescribes(sum, objs) ==
  LET n     == Cardinality(objs)
      total == TotalSize(objs)
  IN  /\ sum.totalObjects = n /\ sum.totalSize = total
      /\ sum.emptyObjects = Cardinality({o \in objs : o.size = 0})
      /\ n > 0 => /\ sum.maxSize = NthSize(objs, n)
                  /\ sum.medianSize = (NthSize(objs, (n + 1) \div 2)
                                         + NthSize(objs, n \div 2 + 1)) \div 2
                  /\ 2 * n * sum.avgSize - 200 * total \in -n..n
      /\ n = 0 => sum.maxSize = 0 /\ sum.medianSize = 0 /\ sum.avgSize = 0

TypesDescribe(types, objs) ==
  LET n == Cardinality(objs)
  IN  /\ [e \in DOMAIN types |-> [count |-> types[e].count, size |-> types[e].totalSize]]
           = Groups(objs, Ext)
      /\ \A e \in DOMAIN types : 2 * n * types[e].pct - 20000 * types[e].count \in -n..n

(* The buckets up to a bound hold the objects that are younger.            *)
AgesDescribe(ages, objs) ==
  /\ \A b \in AgeBounds \cup {Older} :
       LET younger == {o \in objs : \E c \in AgeBounds : o.age < c /\ (c <= b \/ b = Older)}
           shown   == {c \in DOMAIN ages : c <= b \/ b = Older} \ {Older}
       IN  Cardinality(younger) = SumFunction([c \in shown |-> ages[c].count])
  /\ SumFunction([c \in DOMAIN ages |-> ages[c].count]) = Cardinality(objs)
  /\ SumFunction([c \in DOMAIN ages |-> ages[c].size]) = TotalSize(objs)

(* What a report says of a set of objects, whatever the order and the      *)
(* batches in which they came.                                             *)
Describes(report, objs) ==
  /\ SummaryDescribes(report.summary, objs)
  /\ TypesDescribe(report.types, objs) /\ AgesDescribe(report.ages, objs)
  /\ report.storage  = Groups(objs, StorageClass)
  /\ report.prefixes = Groups(objs, TopLevelPrefix)

-----------------------------------------------------------------------------
Counts == UNION {0..Cardinality(Objects[s]) : s \in Scans}

(* The variables have their types; a batch never exceeds its capacity.     *)
TypeOK ==
  /\ progress \in {None} \cup [id : Scans, status : {"running", "completed", "failed"},
                               objectsDone : Counts, totalFound : Counts]
  /\ pc \in [Scans -> {"none", "collect", "flush", "return",
                       "save", "complete", "fail", "ended"}]
  /\ phase \in [Scans -> {"open", "closed", "error"}]
  /\ \A s \in Scans : /\ listed[s] \subseteq Objects[s] /\ received[s] \in Counts
                      /\ batch[s] \in Seq(Objects[s]) /\ Len(batch[s]) <= BatchSize
                      /\ agg[s].totalObjects \in Nat /\ agg[s].sizes \in Seq(Nat)
                      /\ \A e \in DOMAIN agg[s].types : agg[s].types[e] \in Accumulator
  /\ DOMAIN result \subseteq Scans
  /\ \A s \in DOMAIN result : result[s].summary \in ScanSummary
  /\ ticker \in [Scans -> {"off", "select", "write"}] /\ loaded \in [Scans -> Counts]
  /\ mixed \in BOOLEAN

(* The report that is stored for a scan describes exactly the objects that *)
(* the pipeline has delivered, in every table and figure, for every order  *)
(* and batching of them and wherever other scans and store errors come in  *)
(* between.                                                                *)
ReportIsExact ==
  [][\A s \in DOMAIN result' : s \notin DOMAIN result \/ result'[s] # result[s]
                                => Describes(result'[s], listed[s])]_vars

(* The count a user sees is one that the counter of some scan has reached, *)
(* and of the scan the record names unless counts were mixed: neither      *)
(* flushes nor ticks count an object before it was received.               *)
CountWasReached ==
  progress # None => /\ \E s \in Scans : progress.objectsDone <= received[s]
                     /\ ~mixed => progress.objectsDone <= received[progress.id]

(* A completed record shows the total of the stored report, and goes on to *)
(* do so unless counts were mixed into it (see the README).                *)
CompletedShowsTotal ==
  progress # None /\ progress.status = "completed" =>
    /\ progress.id \in DOMAIN result
    /\ progress.totalFound = result[progress.id].summary.totalObjects
    /\ ~mixed => progress.objectsDone = progress.totalFound

(* No ticker goroutine outlives its collector for ever.                    *)
TickersStop == \A s \in Scans : pc[s] = "ended" ~> ticker[s] = "off"
=============================================================================
