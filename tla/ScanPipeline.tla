----------------------------- MODULE ScanPipeline -----------------------------
(***************************************************************************)
(* The pipeline of one bucket scan (internal/scan/engine.go): runFullScan  *)
(* starts a dispatcher goroutine that feeds prefixes to a pool of worker   *)
(* goroutines over prefixChan; a worker lists its prefix page by page, one *)
(* page ahead, and feeds the objects to the collector goroutine over       *)
(* objChan; the collector aggregates and stores them in batches.  All of   *)
(* them share one context whose deadline is the 24h timeout of the scan.   *)
(* runIncrementalScan runs the same pipeline.                              *)
(*                                                                         *)
(* An object is an opaque value, a page is the set of the objects it lists *)
(* (the order inside a page is left open) and the bucket does not change   *)
(* while it is listed.                                                     *)
(***************************************************************************)
EXTENDS Naturals, Sequences, FiniteSets, Functions

CONSTANTS
  Workers,         \* the worker goroutines (cfg.Workers of them)
  Objects,         \* the objects of the bucket
  Root,            \* the prefix "": the listing of the whole bucket
  CommonPrefixes,  \* what ListPrefixes returns when it succeeds
  Listing,         \* prefix -> the pages ListObjectsPage returns for it
  ObjCap,          \* capacity of objChan (10000 in the code)
  BatchSize,       \* cfg.BatchSize
  Faults,          \* what may go wrong in this instance
  Err              \* a collectorMsg that carries an error

Prefixes == {Root} \cup {CommonPrefixes[i] : i \in DOMAIN CommonPrefixes}

ASSUME WorkersAssumption == IsFiniteSet(Workers) /\ Workers # {}
ASSUME BoundsAssumption  == ObjCap \in Nat \ {0} /\ BatchSize \in Nat \ {0}
ASSUME ObjectsAssumption == Err \notin Objects
ASSUME FaultsAssumption  == Faults \subseteq {"s3", "store", "discovery", "deadline"}

(***************************************************************************)
(* S3 returns distinct common prefixes, at least one (maybe empty) page    *)
(* for each prefix, and an object on one page of one common prefix only.   *)
(***************************************************************************)
ASSUME PrefixesAssumption ==
  /\ CommonPrefixes \in Seq(Prefixes \ {Root})
  /\ \A i, j \in DOMAIN CommonPrefixes :
       CommonPrefixes[i] = CommonPrefixes[j] => i = j
ASSUME ListingAssumption ==
  /\ Listing \in [Prefixes -> Seq(SUBSET Objects)]
  /\ \A p \in Prefixes : Listing[p] # <<>>
  /\ \A p, q \in Prefixes : \A m \in DOMAIN Listing[p], n \in DOMAIN Listing[q] :
       (Listing[p][m] \cap Listing[q][n] # {} /\ (p = Root <=> q = Root))
          => p = q /\ m = n

VARIABLES
  ctxDone,      \* the context of the scan is done
  disp,         \* where the dispatcher goroutine is
  prefixes,     \* the slice it ranges over
  sent,         \* how many of them it has sent on prefixChan ...
  taken,        \* ... and how many the workers have received from it
  prefixClosed, \* prefixChan is closed
  wpc,          \* where each worker is
  held,         \* index in prefixes of the worker's prefix, 0 for none
  page,         \* the page its newest fetch asked for
  next,         \* that fetch, and nextCh: "none", "inflight", "page" or "err"
  todo,         \* objects of the page in hand that it has not sent
  objChan,      \* the buffered channel of objects and errors
  objClosed,    \* objChan is closed
  batch,        \* the collector's batch
  counted,      \* how often the aggregator was given each object
  saved,        \* the objects stored by SaveObjects
  coll,         \* the collector: "run", or its result "ok" or "err"
  main          \* runFullScan: "wait" (for wg), "join" (collCh), "ok", "failed"

dispatcherVars == <<disp, prefixes, sent, prefixClosed>>
workerVars     == <<wpc, held, page, next, todo>>
collectorVars  == <<batch, counted, saved, coll>>
vars == <<ctxDone, dispatcherVars, taken, workerVars, objChan, objClosed,
          collectorVars, main>>

DispatcherStates == {"discover", "send", "fallback", "sendErr", "closing", "done"}
WorkerStates     == {"idle", "check", "recv", "send", "sendErr", "done"}

Discovered == IF CommonPrefixes = <<>> THEN <<Root>> ELSE CommonPrefixes
Pages(i) == Listing[prefixes[i]]
Occurs(o, s) == Cardinality({i \in DOMAIN s : s[i] = o})

(* A receive from prefixChan ends the range loop.                          *)
PrefixesEmpty   == taken = sent   \* seeded bug: an empty channel taken for a closed one
PrefixesDrained == prefixClosed /\ taken = sent

RoomForOneMore == Len(objChan) <= ObjCap   \* seeded bug: off by one
HasRoom        == Len(objChan) < ObjCap

(* page.IsTruncated of the page that w receives.                           *)
TruncatedOffByOne(w) == page[w] + 1 < Len(Pages(held[w]))   \* seeded bug
Truncated(w)         == page[w] < Len(Pages(held[w]))

Init ==
  /\ ctxDone = FALSE
  /\ disp = "discover" /\ prefixes = <<>> /\ sent = 0 /\ prefixClosed = FALSE
  /\ taken = 0
  /\ wpc = [w \in Workers |-> "idle"]
  /\ held = [w \in Workers |-> 0]
  /\ page = [w \in Workers |-> 0]
  /\ next = [w \in Workers |-> "none"]
  /\ todo = [w \in Workers |-> {}]
  /\ objChan = <<>> /\ objClosed = FALSE
  /\ batch = <<>> /\ counted = [o \in Objects |-> 0] /\ saved = {} /\ coll = "run"
  /\ main = "wait"

(***************************************************************************)
(* The deadline of context.WithTimeout(context.Background(), 24*time.Hour) *)
(***************************************************************************)
Deadline ==
  /\ "deadline" \in Faults /\ ~ctxDone /\ main \in {"wait", "join"}
  /\ ctxDone' = TRUE
  /\ UNCHANGED <<dispatcherVars, taken, workerVars, objChan, objClosed,
                 collectorVars, main>>

(***************************************************************************)
(* The dispatcher: runDispatcher, then close(prefixChan)                   *)
(***************************************************************************)
(* Seeded bug: a failed discovery fails the scan.                          *)
DiscoverPrefixesOrFail ==
  /\ disp = "discover"
  /\ \/ prefixes' = Discovered /\ disp' = "send"
     \/ /\ "discovery" \in Faults \/ ctxDone
        /\ prefixes' = <<Root>> /\ disp' = "sendErr"
  /\ UNCHANGED <<ctxDone, sent, taken, prefixClosed, workerVars, objChan,
                 objClosed, collectorVars, main>>

DiscoverPrefixes ==
  /\ disp = "discover"
  /\ \/ prefixes' = Discovered /\ disp' = "send"
     \/ /\ "discovery" \in Faults \/ ctxDone
        /\ prefixes' = <<Root>> /\ disp' = "fallback"
  /\ UNCHANGED <<ctxDone, sent, taken, prefixClosed, workerVars, objChan,
                 objClosed, collectorVars, main>>

SendPrefix ==
  /\ disp \in {"send", "fallback"}
  /\ sent < Len(prefixes) /\ sent - taken < Cardinality(Workers)
  /\ sent' = sent + 1
  /\ disp' = IF sent' = Len(prefixes) THEN "closing" ELSE disp
  /\ UNCHANGED <<ctxDone, prefixes, taken, prefixClosed, workerVars, objChan,
                 objClosed, collectorVars, main>>

(* The ctx.Done() branches of its two selects: only the loop over the      *)
(* discovered prefixes returns an error.                                   *)
DispatchAbort ==
  /\ ctxDone /\ disp \in {"send", "fallback"}
  /\ disp' = IF disp = "send" THEN "sendErr" ELSE "closing"
  /\ UNCHANGED <<ctxDone, prefixes, sent, taken, prefixClosed, workerVars,
                 objChan, objClosed, collectorVars, main>>

(* objChan <- collectorMsg{err: err}: a plain send, no select.             *)
DispatchSendErr ==
  /\ disp = "sendErr" /\ HasRoom
  /\ objChan' = Append(objChan, Err)
  /\ disp' = "closing"
  /\ UNCHANGED <<ctxDone, prefixes, sent, taken, prefixClosed, workerVars,
                 objClosed, collectorVars, main>>

(* Seeded bug: the dispatcher ends without close(prefixChan).              *)
ForgetPrefixes ==
  /\ disp = "closing" /\ disp' = "done"
  /\ UNCHANGED <<ctxDone, prefixes, sent, taken, prefixClosed, workerVars, objChan,
                 objClosed, collectorVars, main>>

ClosePrefixes ==
  /\ disp = "closing"
  /\ prefixClosed' = TRUE /\ disp' = "done"
  /\ UNCHANGED <<ctxDone, prefixes, sent, taken, workerVars, objChan, objClosed,
                 collectorVars, main>>

(***************************************************************************)
(* A worker: range over prefixChan, and runWorker for each prefix          *)
(***************************************************************************)
TakePrefix(w) ==
  /\ wpc[w] = "idle" /\ taken < sent
  /\ taken' = taken + 1
  /\ held' = [held EXCEPT ![w] = taken + 1]
  /\ page' = [page EXCEPT ![w] = 1]
  /\ next' = [next EXCEPT ![w] = "inflight"]
  /\ wpc' = [wpc EXCEPT ![w] = "check"]
  /\ UNCHANGED <<ctxDone, dispatcherVars, todo, objChan, objClosed,
                 collectorVars, main>>

WorkerExit(w) ==
  /\ wpc[w] = "idle" /\ PrefixesDrained
  /\ wpc' = [wpc EXCEPT ![w] = "done"]
  /\ UNCHANGED <<ctxDone, dispatcherVars, taken, held, page, next, todo, objChan,
                 objClosed, collectorVars, main>>

(* runWorker returns; a fetch still in flight is left to its own goroutine. *)
Return(w) ==
  /\ wpc' = [wpc EXCEPT ![w] = "idle"]
  /\ held' = [held EXCEPT ![w] = 0]
  /\ page' = [page EXCEPT ![w] = 0]
  /\ next' = [next EXCEPT ![w] = "none"]
  /\ todo' = [todo EXCEPT ![w] = {}]

CheckCtx(w) ==
  /\ wpc[w] = "check"
  /\ IF ctxDone
       THEN Return(w)
       ELSE wpc' = [wpc EXCEPT ![w] = "recv"] /\ UNCHANGED <<held, page, next, todo>>
  /\ UNCHANGED <<ctxDone, dispatcherVars, taken, objChan, objClosed,
                 collectorVars, main>>

(* The goroutine that calls ListObjectsPage and sends the result to nextCh. *)
FetchDone(w) ==
  /\ next[w] = "inflight"
  /\ \/ next' = [next EXCEPT ![w] = "page"]
     \/ /\ "s3" \in Faults \/ ctxDone
        /\ next' = [next EXCEPT ![w] = "err"]
  /\ UNCHANGED <<ctxDone, dispatcherVars, taken, wpc, held, page, todo, objChan,
                 objClosed, collectorVars, main>>

Receive(w) ==
  /\ wpc[w] = "recv" /\ next[w] = "page"
  /\ todo' = [todo EXCEPT ![w] = Pages(held[w])[page[w]]]
  /\ IF Truncated(w)     \* fetch one page ahead
       THEN /\ page' = [page EXCEPT ![w] = @ + 1]
            /\ next' = [next EXCEPT ![w] = "inflight"]
       ELSE /\ next' = [next EXCEPT ![w] = "none"]
            /\ UNCHANGED page
  /\ wpc' = [wpc EXCEPT ![w] = "send"]
  /\ UNCHANGED <<ctxDone, dispatcherVars, taken, held, objChan, objClosed,
                 collectorVars, main>>

(* Seeded bug: a failed page is taken for the end of the listing.          *)
ErrorAsLastPage(w) ==
  /\ wpc[w] = "recv" /\ next[w] = "err" /\ Return(w)
  /\ UNCHANGED <<ctxDone, dispatcherVars, taken, objChan, objClosed, collectorVars, main>>

ReceiveErr(w) ==
  /\ wpc[w] = "recv" /\ next[w] = "err"
  /\ wpc' = [wpc EXCEPT ![w] = "sendErr"]
  /\ UNCHANGED <<ctxDone, dispatcherVars, taken, held, page, next, todo, objChan,
                 objClosed, collectorVars, main>>

SendObject(w) ==
  /\ wpc[w] = "send" /\ HasRoom
  /\ \E o \in todo[w] :
       /\ objChan' = Append(objChan, o)
       /\ todo' = [todo EXCEPT ![w] = @ \ {o}]
  /\ UNCHANGED <<ctxDone, dispatcherVars, taken, wpc, held, page, next, objClosed,
                 collectorVars, main>>

PageDone(w) ==
  /\ wpc[w] = "send" /\ todo[w] = {}
  /\ IF next[w] = "none"
       THEN Return(w)
       ELSE wpc' = [wpc EXCEPT ![w] = "check"] /\ UNCHANGED <<held, page, next, todo>>
  /\ UNCHANGED <<ctxDone, dispatcherVars, taken, objChan, objClosed,
                 collectorVars, main>>

SendErr(w) ==
  /\ wpc[w] = "sendErr" /\ HasRoom
  /\ objChan' = Append(objChan, Err)
  /\ Return(w)
  /\ UNCHANGED <<ctxDone, dispatcherVars, taken, objClosed, collectorVars, main>>

(* The ctx.Done() branch of sendMsg.                                       *)
SendAbort(w) ==
  /\ ctxDone
  /\ wpc[w] = "sendErr" \/ (wpc[w] = "send" /\ todo[w] # {})
  /\ Return(w)
  /\ UNCHANGED <<ctxDone, dispatcherVars, taken, objChan, objClosed,
                 collectorVars, main>>

(***************************************************************************)
(* The collector: runCollector                                             *)
(***************************************************************************)
(* flushBatch aggregates the batch before SaveObjects stores it, in one    *)
(* transaction; after the flush the collector is at state then.            *)
Aggregate(b) == counted' = [o \in Objects |-> counted[o] + Occurs(o, b)]

(* Seeded bugs: the batch is not emptied; a failed save is only logged.    *)
FlushKeepsBatch(b, then) ==
  Aggregate(b) /\ saved' = saved \cup Range(b) /\ batch' = b /\ coll' = then
FlushIgnoresError(b, then) ==
  Aggregate(b) /\ batch' = <<>> /\ coll' = then /\ saved' \in {saved, saved \cup Range(b)}

Flush(b, then) ==
  /\ Aggregate(b)
  /\ \/ /\ saved' = saved \cup Range(b) /\ batch' = <<>> /\ coll' = then
     \/ /\ "store" \in Faults /\ b # <<>>
        /\ batch' = b /\ coll' = "err" /\ UNCHANGED saved

CollectObject ==
  /\ coll = "run" /\ objChan # <<>> /\ Head(objChan) # Err
  /\ objChan' = Tail(objChan)
  /\ LET b == Append(batch, Head(objChan)) IN
       IF Len(b) >= BatchSize
         THEN Flush(b, "run")
         ELSE batch' = b /\ UNCHANGED <<counted, saved, coll>>
  /\ UNCHANGED <<ctxDone, dispatcherVars, taken, workerVars, objClosed, main>>

CollectErr ==
  /\ coll = "run" /\ objChan # <<>> /\ Head(objChan) = Err
  /\ objChan' = Tail(objChan)
  /\ coll' = "err"
  /\ UNCHANGED <<ctxDone, dispatcherVars, taken, workerVars, objClosed, batch,
                 counted, saved, main>>

CollectClosed ==
  /\ coll = "run" /\ objChan = <<>> /\ objClosed
  /\ Flush(batch, "ok")
  /\ UNCHANGED <<ctxDone, dispatcherVars, taken, workerVars, objChan, objClosed, main>>

CollectCtxDone ==
  /\ coll = "run" /\ ctxDone
  /\ coll' = "err"
  /\ UNCHANGED <<ctxDone, dispatcherVars, taken, workerVars, objChan, objClosed,
                 batch, counted, saved, main>>

(***************************************************************************)
(* runFullScan itself: wg.Wait, close(objChan), then the collector's result *)
(***************************************************************************)
CloseObjects ==
  /\ main = "wait" /\ \A w \in Workers : wpc[w] = "done"
  /\ objClosed' = TRUE /\ main' = "join"
  /\ UNCHANGED <<ctxDone, dispatcherVars, taken, workerVars, objChan, collectorVars>>

Join ==
  /\ main = "join" /\ coll # "run"
  /\ main' = IF coll = "ok" THEN "ok" ELSE "failed"
  /\ UNCHANGED <<ctxDone, dispatcherVars, taken, workerVars, objChan, objClosed,
                 collectorVars>>

-----------------------------------------------------------------------------
Dispatcher == DiscoverPrefixes \/ SendPrefix \/ DispatchAbort \/ DispatchSendErr
                \/ ClosePrefixes
Worker(w)  == TakePrefix(w) \/ WorkerExit(w) \/ CheckCtx(w) \/ Receive(w)
                \/ ReceiveErr(w) \/ SendObject(w) \/ PageDone(w) \/ SendErr(w)
                \/ SendAbort(w)
Collector  == CollectObject \/ CollectErr \/ CollectClosed \/ CollectCtxDone
Main       == CloseObjects \/ Join

Next == \/ Deadline \/ Dispatcher \/ Collector \/ Main
        \/ \E w \in Workers : Worker(w) \/ FetchDone(w)

Spec == Init /\ [][Next]_vars

(***************************************************************************)
(* The Go scheduler runs every goroutine that can run, and S3 answers or   *)
(* fails every request.  Whether the 24 hours pass is left to the          *)
(* properties.                                                             *)
(***************************************************************************)
Fairness ==
  /\ WF_vars(Dispatcher) /\ WF_vars(Collector) /\ WF_vars(Main)
  /\ \A w \in Workers : WF_vars(Worker(w)) /\ WF_vars(FetchDone(w))
FairSpec == Spec /\ Fairness

-----------------------------------------------------------------------------
(* The variables have their types, and the two channels respect their      *)
(* capacities (make(chan string, cfg.Workers), make(chan collectorMsg,     *)
(* 10000)).                                                                *)
TypeOK ==
  /\ ctxDone \in BOOLEAN /\ prefixClosed \in BOOLEAN /\ objClosed \in BOOLEAN
  /\ disp \in DispatcherStates
  /\ prefixes \in Seq(Prefixes)
  /\ taken \in Nat /\ sent \in Nat
  /\ taken <= sent /\ sent <= Len(prefixes) /\ sent - taken <= Cardinality(Workers)
  /\ wpc \in [Workers -> WorkerStates]
  /\ held \in [Workers -> Nat]
  /\ page \in [Workers -> Nat]
  /\ next \in [Workers -> {"none", "inflight", "page", "err"}]
  /\ todo \in [Workers -> SUBSET Objects]
  /\ objChan \in Seq(Objects \cup {Err}) /\ Len(objChan) <= ObjCap
  /\ batch \in Seq(Objects) /\ counted \in [Objects -> Nat]
  /\ saved \subseteq Objects
  /\ coll \in {"run", "ok", "err"}
  /\ main \in {"wait", "join", "ok", "failed"}

(* No goroutine is about to send on a channel that is closed, which panics *)
(* in Go: the dispatcher sends its error on objChan although wg does not   *)
(* wait for it, and only the order of that send, close(prefixChan),        *)
(* wg.Wait and close(objChan) keeps it safe.                               *)
NoSendOnClosedChannel ==
  /\ objClosed => disp # "sendErr" /\ \A w \in Workers : wpc[w] \notin {"send", "sendErr"}
  /\ prefixClosed => disp \notin {"send", "fallback"}

(* What makes the two above inductive.  A fetch is for a page that its     *)
(* prefix has, and prefixes does not change once a worker holds an index;  *)
(* the channels are closed in the order dispatcher, workers, runFullScan.  *)
FetchInRange ==
  /\ disp = "discover" => sent = 0
  /\ \A w \in Workers :
       /\ wpc[w] \in {"check", "recv"} => next[w] # "none"
       /\ next[w] # "none" => /\ held[w] \in 1..taken
                              /\ page[w] \in 1..Len(Pages(held[w]))
ClosingOrder ==
  /\ prefixClosed <=> disp = "done"
  /\ objClosed <=> main # "wait"
  /\ \A w \in Workers : wpc[w] = "done" => prefixClosed /\ taken = sent
  /\ objClosed => \A w \in Workers : wpc[w] = "done"
IInv == TypeOK /\ FetchInRange /\ ClosingOrder

(* The aggregator is given no object twice: not by two workers, not by a   *)
(* page fetched ahead, not by a batch flushed again.                       *)
CountedAtMostOnce == \A o \in Objects : counted[o] <= 1

(* What the report counts is what the object index holds, at every moment  *)
(* of a scan whose collector has not failed.                               *)
CountedIsSaved == coll # "err" => saved = {o \in Objects : counted[o] > 0}

(* A scan that completes before its deadline has counted and stored every  *)
(* object of every prefix that the discovery gave it: prefetching, the     *)
(* error paths, batching and the closing order lose nothing silently.      *)
SuccessIsComplete ==
  main = "ok" /\ ~ctxDone =>
    /\ prefixes # <<>>
    /\ \A i \in DOMAIN prefixes : \A m \in DOMAIN Pages(i) : \A o \in Pages(i)[m] :
         counted[o] = 1 /\ o \in saved

(* The pipeline implements ScanContract: nothing but a fault or the         *)
(* deadline makes a scan fail, and its report is what discovery and listing *)
(* could give, whole unless the deadline has passed.                        *)
ListedUnder(ps) == UNION {UNION Range(Listing[p]) : p \in Range(ps)}
Contract == INSTANCE ScanContract WITH
  phase     <- CASE main = "ok" -> "completed" [] main = "failed" -> "failed"
                 [] OTHER -> "running",
  expired   <- ctxDone,
  report    <- IF main = "ok" THEN {o \in Objects : counted[o] > 0} ELSE {},
  Complete  <- {ListedUnder(Discovered)} \cup
                 (IF Faults \cap {"discovery", "deadline"} = {}
                    THEN {} ELSE {ListedUnder(<<Root>>)}),
  MayFail   <- Faults \cap {"s3", "store"} # {},
  MayExpire <- "deadline" \in Faults
ImplementsContract == Contract!Spec

TimePasses  == WF_vars(Deadline)
Ended       == main \in {"ok", "failed"}
PageErrors  == \E w \in Workers : next[w] = "err"
SaveErrors  == coll = "err" /\ \E o \in Objects : counted[o] > 0 /\ o \notin saved
SendStuck   == disp = "sendErr" /\ ctxDone /\ ~HasRoom

(* Every scan ends, and gives its bucket back ("24h timeout prevents       *)
(* infinite hang", engine.go:343).                                         *)
ScanTerminates == TimePasses => <>Ended

(* The one thing that can keep a scan from ending is the dispatcher's plain *)
(* send of its error to a collector that has gone: every other send,       *)
(* receive and wait of the pipeline is resolved by the deadline.           *)
OnlySendErrHangs == TimePasses => <>Ended \/ <>[]SendStuck

(* When the deadline does not pass and no page and no save fails, the scan *)
(* completes, whatever the capacity of objChan and the number of prefixes, *)
(* and also when the discovery of prefixes fails: backpressure never       *)
(* deadlocks it.                                                           *)
HealthyScanCompletes == <>(ctxDone \/ PageErrors \/ SaveErrors) \/ <>(main = "ok")

(* A full scan that completes has listed the whole bucket ("Full Scan      *)
(* (complete listing)", README.md).                                        *)
FullScanListsBucket == main = "ok" => \A o \in Objects : counted[o] > 0

=============================================================================
