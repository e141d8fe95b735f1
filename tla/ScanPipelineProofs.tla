-------------------------- MODULE ScanPipelineProofs --------------------------
(***************************************************************************)
(* Proofs about ScanPipeline, for every number of workers, every bucket,   *)
(* every capacity and batch size and every combination of faults: types    *)
(* and the order in which the channels are closed first; then what the     *)
(* pipeline delivers: no object is counted twice, a scan that completes in *)
(* time has counted and stored all of them, and the pipeline implements    *)
(* ScanContract.                                                           *)
(***************************************************************************)
EXTENDS ScanPipeline, FiniteSetTheorems, TLAPS

(* There is at least one worker, and their number is a natural number.     *)
LEMMA WorkerCount == Cardinality(Workers) \in Nat
BY WorkersAssumption, FS_CardinalityType

(* The prefixes that discovery yields, on either path, are prefixes.       *)
LEMMA DiscoveredType == Discovered \in Seq(Prefixes) /\ <<Root>> \in Seq(Prefixes)
<1>1. CommonPrefixes \in Seq(Prefixes)
  BY PrefixesAssumption
<1>2. Root \in Prefixes
  BY DEF Prefixes
<1> QED
  BY <1>1, <1>2 DEF Discovered

(* Every prefix of the dispatcher's slice has at least one page, and its   *)
(* pages are sets of objects.                                              *)
LEMMA PagesType ==
  ASSUME prefixes \in Seq(Prefixes), NEW i \in 1..Len(prefixes)
  PROVE  Pages(i) \in Seq(SUBSET Objects) /\ Len(Pages(i)) >= 1
BY ListingAssumption DEF Pages

(* The number of occurrences of an object in a batch is a natural number.  *)
LEMMA OccursType ==
  ASSUME NEW b \in Seq(Objects), NEW o
  PROVE  Occurs(o, b) \in Nat
<1>1. IsFiniteSet(1..Len(b))
  BY FS_Interval
<1>2. {i \in DOMAIN b : b[i] = o} \subseteq 1..Len(b)
  OBVIOUS
<1>3. IsFiniteSet({i \in DOMAIN b : b[i] = o})
  BY <1>1, <1>2, FS_Subset
<1> QED
  BY <1>3, FS_CardinalityType DEF Occurs

-----------------------------------------------------------------------------
(* The inductive invariant holds initially.                                *)
LEMMA InitIInv == Init => IInv
<1> SUFFICES ASSUME Init PROVE IInv
  OBVIOUS
<1>1. TypeOK
  <2>1. /\ prefixes \in Seq(Prefixes) /\ batch \in Seq(Objects)
        /\ objChan \in Seq(Objects \cup {Err}) /\ Len(objChan) <= ObjCap
    BY BoundsAssumption DEF Init
  <2>2. taken <= sent /\ sent <= Len(prefixes) /\ sent - taken <= Cardinality(Workers)
    BY WorkerCount DEF Init
  <2> QED
    BY <2>1, <2>2 DEF Init, TypeOK, DispatcherStates, WorkerStates
<1>2. FetchInRange
  BY DEF Init, FetchInRange
<1>3. ClosingOrder
  BY DEF Init, ClosingOrder
<1> QED
  BY <1>1, <1>2, <1>3 DEF IInv

(* The dispatcher's steps preserve it.                                     *)
LEMMA DispatcherIInv ==
  ASSUME IInv, Dispatcher
  PROVE  IInv'
<1> USE DEF IInv
<1>1. CASE DiscoverPrefixes
  <2>1. /\ taken = 0 /\ sent = 0
        /\ \A w \in Workers : next[w] = "none"
    BY <1>1 DEF DiscoverPrefixes, FetchInRange, TypeOK
  <2>2. prefixes' \in Seq(Prefixes)
    BY <1>1, DiscoveredType DEF DiscoverPrefixes
  <2>3. TypeOK'
    BY <1>1, <2>1, <2>2 DEF DiscoverPrefixes, TypeOK, DispatcherStates, workerVars, collectorVars
  <2>4. FetchInRange'
    BY <1>1, <2>1 DEF DiscoverPrefixes, FetchInRange, workerVars
  <2>5. ClosingOrder'
    BY <1>1 DEF DiscoverPrefixes, ClosingOrder, workerVars
  <2> QED
    BY <2>3, <2>4, <2>5
<1>2. CASE SendPrefix
  <2>1. TypeOK'
    BY <1>2, WorkerCount DEF SendPrefix, TypeOK, DispatcherStates, workerVars, collectorVars
  <2>2. FetchInRange'
    BY <1>2 DEF SendPrefix, FetchInRange, workerVars, Pages
  <2>3. ClosingOrder'
    BY <1>2 DEF SendPrefix, ClosingOrder, workerVars
  <2> QED
    BY <2>1, <2>2, <2>3
<1>3. CASE DispatchAbort
  <2>1. TypeOK'
    BY <1>3 DEF DispatchAbort, TypeOK, DispatcherStates, workerVars, collectorVars
  <2>2. FetchInRange'
    BY <1>3 DEF DispatchAbort, FetchInRange, workerVars, Pages
  <2>3. ClosingOrder'
    BY <1>3 DEF DispatchAbort, ClosingOrder, workerVars
  <2> QED
    BY <2>1, <2>2, <2>3
<1>4. CASE DispatchSendErr
  <2>1. objChan' \in Seq(Objects \cup {Err}) /\ Len(objChan') <= ObjCap
    BY <1>4, BoundsAssumption DEF DispatchSendErr, TypeOK, HasRoom
  <2>2. TypeOK'
    BY <1>4, <2>1 DEF DispatchSendErr, TypeOK, DispatcherStates, workerVars, collectorVars
  <2>3. FetchInRange'
    BY <1>4 DEF DispatchSendErr, FetchInRange, workerVars, Pages
  <2>4. ClosingOrder'
    BY <1>4 DEF DispatchSendErr, ClosingOrder, workerVars
  <2> QED
    BY <2>2, <2>3, <2>4
<1>5. CASE ClosePrefixes
  <2>1. TypeOK'
    BY <1>5 DEF ClosePrefixes, TypeOK, DispatcherStates, workerVars, collectorVars
  <2>2. FetchInRange'
    BY <1>5 DEF ClosePrefixes, FetchInRange, workerVars, Pages
  <2>3. ClosingOrder'
    BY <1>5 DEF ClosePrefixes, ClosingOrder, workerVars
  <2> QED
    BY <2>1, <2>2, <2>3
<1> QED
  BY <1>1, <1>2, <1>3, <1>4, <1>5 DEF Dispatcher

(* A return from runWorker keeps the worker variables typed and in range.  *)
LEMMA ReturnType ==
  ASSUME TypeOK, NEW w \in Workers, Return(w)
  PROVE  /\ wpc' \in [Workers -> WorkerStates]
         /\ held' \in [Workers -> Nat] /\ page' \in [Workers -> Nat]
         /\ next' \in [Workers -> {"none", "inflight", "page", "err"}]
         /\ todo' \in [Workers -> SUBSET Objects]
         /\ wpc'[w] = "idle" /\ next'[w] = "none" /\ held'[w] = 0 /\ todo'[w] = {}
         /\ \A v \in Workers \ {w} :
              /\ wpc'[v] = wpc[v] /\ next'[v] = next[v] /\ todo'[v] = todo[v]
              /\ held'[v] = held[v] /\ page'[v] = page[v]
BY DEF TypeOK, Return, WorkerStates

(* A worker's steps preserve the invariant.                                *)
LEMMA WorkerIInv ==
  ASSUME IInv, NEW w \in Workers, Worker(w)
  PROVE  IInv'
<1> USE DEF IInv
<1>1. CASE TakePrefix(w)
  <2>1. TypeOK'
    BY <1>1, WorkerCount DEF TakePrefix, TypeOK, WorkerStates, dispatcherVars, collectorVars
  <2>2. FetchInRange'
    <3>1. taken + 1 \in 1..Len(prefixes)
      BY <1>1 DEF TakePrefix, TypeOK
    <3>2. 1 \in 1..Len(Pages(taken + 1))
      BY <3>1, PagesType DEF TypeOK
    <3> QED
      BY <1>1, <3>1, <3>2 DEF TakePrefix, TypeOK, FetchInRange, Pages, dispatcherVars
  <2>3. ClosingOrder'
    BY <1>1 DEF TakePrefix, TypeOK, ClosingOrder, dispatcherVars
  <2> QED
    BY <2>1, <2>2, <2>3
<1>2. CASE WorkerExit(w)
  <2>1. TypeOK'
    BY <1>2 DEF WorkerExit, TypeOK, WorkerStates, dispatcherVars, collectorVars
  <2>2. FetchInRange'
    BY <1>2 DEF WorkerExit, TypeOK, FetchInRange, Pages, dispatcherVars
  <2>3. ClosingOrder'
    BY <1>2 DEF WorkerExit, PrefixesDrained, TypeOK, ClosingOrder, dispatcherVars
  <2> QED
    BY <2>1, <2>2, <2>3
<1>3. CASE CheckCtx(w) /\ ctxDone
  <2>1. TypeOK'
    BY <1>3, ReturnType DEF CheckCtx, TypeOK, dispatcherVars, collectorVars
  <2>2. FetchInRange'
    BY <1>3, ReturnType DEF CheckCtx, FetchInRange, Pages, dispatcherVars
  <2>3. ClosingOrder'
    BY <1>3, ReturnType DEF CheckCtx, ClosingOrder, dispatcherVars
  <2> QED
    BY <2>1, <2>2, <2>3
<1>4. CASE CheckCtx(w) /\ ~ctxDone
  <2>1. TypeOK'
    BY <1>4 DEF CheckCtx, TypeOK, WorkerStates, dispatcherVars, collectorVars
  <2>2. FetchInRange'
    BY <1>4 DEF CheckCtx, TypeOK, FetchInRange, Pages, dispatcherVars
  <2>3. ClosingOrder'
    BY <1>4 DEF CheckCtx, TypeOK, ClosingOrder, dispatcherVars
  <2> QED
    BY <2>1, <2>2, <2>3
<1>5. CASE Receive(w)
  <2>1. /\ held[w] \in 1..Len(prefixes)
        /\ page[w] \in 1..Len(Pages(held[w]))
    BY <1>5 DEF Receive, FetchInRange, TypeOK
  <2>2. Pages(held[w])[page[w]] \in SUBSET Objects /\ Len(Pages(held[w])) \in Nat
    BY <2>1, PagesType DEF TypeOK
  <2>3. TypeOK'
    <3>1. /\ page' \in [Workers -> Nat]
          /\ next' \in [Workers -> {"none", "inflight", "page", "err"}]
      <4>1. CASE Truncated(w)
        <5>1. /\ page' = [page EXCEPT ![w] = page[w] + 1]
              /\ next' = [next EXCEPT ![w] = "inflight"]
          BY <1>5, <4>1 DEF Receive
        <5>2. page[w] + 1 \in Nat
          BY DEF TypeOK
        <5> QED
          BY <5>1, <5>2 DEF TypeOK
      <4>2. CASE ~Truncated(w)
        BY <1>5, <4>2 DEF Receive, TypeOK
      <4> QED
        BY <4>1, <4>2
    <3>2. /\ wpc' \in [Workers -> WorkerStates]
          /\ todo' \in [Workers -> SUBSET Objects]
      BY <1>5, <2>2 DEF Receive, TypeOK, WorkerStates
    <3> QED
      BY <1>5, <3>1, <3>2 DEF Receive, TypeOK, dispatcherVars, collectorVars
  <2>4. FetchInRange'
    BY <1>5, <2>1, <2>2, SMTT(30) DEF Receive, Truncated, TypeOK, FetchInRange, Pages, dispatcherVars
  <2>5. ClosingOrder'
    BY <1>5 DEF Receive, TypeOK, ClosingOrder, dispatcherVars
  <2> QED
    BY <2>3, <2>4, <2>5
<1>6. CASE ReceiveErr(w)
  <2>1. TypeOK'
    BY <1>6 DEF ReceiveErr, TypeOK, WorkerStates, dispatcherVars, collectorVars
  <2>2. FetchInRange'
    BY <1>6 DEF ReceiveErr, TypeOK, FetchInRange, Pages, dispatcherVars
  <2>3. ClosingOrder'
    BY <1>6 DEF ReceiveErr, TypeOK, ClosingOrder, dispatcherVars
  <2> QED
    BY <2>1, <2>2, <2>3
<1>7. CASE SendObject(w)
  <2>1. PICK o \in todo[w] : /\ objChan' = Append(objChan, o)
                             /\ todo' = [todo EXCEPT ![w] = @ \ {o}]
    BY <1>7 DEF SendObject
  <2>2. o \in Objects
    BY DEF TypeOK
  <2>3. objChan' \in Seq(Objects \cup {Err}) /\ Len(objChan') <= ObjCap
    BY <1>7, <2>1, <2>2, BoundsAssumption DEF SendObject, HasRoom, TypeOK
  <2>4. TypeOK'
    BY <1>7, <2>1, <2>3 DEF SendObject, TypeOK, dispatcherVars, collectorVars
  <2>5. FetchInRange'
    BY <1>7 DEF SendObject, FetchInRange, Pages, dispatcherVars
  <2>6. ClosingOrder'
    BY <1>7 DEF SendObject, ClosingOrder, dispatcherVars
  <2> QED
    BY <2>4, <2>5, <2>6
<1>8. CASE PageDone(w) /\ next[w] = "none"
  <2>1. TypeOK'
    BY <1>8, ReturnType DEF PageDone, TypeOK, dispatcherVars, collectorVars
  <2>2. FetchInRange'
    BY <1>8, ReturnType DEF PageDone, FetchInRange, Pages, dispatcherVars
  <2>3. ClosingOrder'
    BY <1>8, ReturnType DEF PageDone, ClosingOrder, dispatcherVars
  <2> QED
    BY <2>1, <2>2, <2>3
<1>9. CASE PageDone(w) /\ next[w] # "none"
  <2>1. TypeOK'
    BY <1>9 DEF PageDone, TypeOK, WorkerStates, dispatcherVars, collectorVars
  <2>2. FetchInRange'
    BY <1>9 DEF PageDone, TypeOK, FetchInRange, Pages, dispatcherVars
  <2>3. ClosingOrder'
    BY <1>9 DEF PageDone, TypeOK, ClosingOrder, dispatcherVars
  <2> QED
    BY <2>1, <2>2, <2>3
<1>10. CASE SendErr(w)
  <2>1. objChan' \in Seq(Objects \cup {Err}) /\ Len(objChan') <= ObjCap
    BY <1>10, BoundsAssumption DEF SendErr, TypeOK, HasRoom
  <2>2. TypeOK'
    BY <1>10, <2>1, ReturnType DEF SendErr, TypeOK, dispatcherVars, collectorVars
  <2>3. FetchInRange'
    BY <1>10, ReturnType DEF SendErr, FetchInRange, Pages, dispatcherVars
  <2>4. ClosingOrder'
    BY <1>10, ReturnType DEF SendErr, ClosingOrder, dispatcherVars
  <2> QED
    BY <2>2, <2>3, <2>4
<1>11. CASE SendAbort(w)
  <2>1. TypeOK'
    BY <1>11, ReturnType DEF SendAbort, TypeOK, dispatcherVars, collectorVars
  <2>2. FetchInRange'
    <3>1. Return(w) /\ UNCHANGED <<disp, sent, taken, prefixes>>
      BY <1>11 DEF SendAbort, dispatcherVars
    <3> QED
      BY <3>1, ReturnType DEF FetchInRange, Pages
  <2>3. ClosingOrder'
    BY <1>11, ReturnType DEF SendAbort, ClosingOrder, dispatcherVars
  <2> QED
    BY <2>1, <2>2, <2>3
<1> QED
  BY <1>1, <1>2, <1>3, <1>4, <1>5, <1>6, <1>7, <1>8, <1>9, <1>10, <1>11 DEF Worker

(* The fetch goroutines preserve it.                                       *)
LEMMA FetchIInv ==
  ASSUME IInv, NEW w \in Workers, FetchDone(w)
  PROVE  IInv'
<1> USE DEF IInv
<1>1. TypeOK'
  BY DEF FetchDone, TypeOK, dispatcherVars, collectorVars
<1>2. FetchInRange'
  BY DEF FetchDone, TypeOK, FetchInRange, Pages, dispatcherVars
<1>3. ClosingOrder'
  BY DEF FetchDone, ClosingOrder, dispatcherVars
<1> QED
  BY <1>1, <1>2, <1>3

(* A flush keeps the collector's variables typed.                          *)
LEMMA FlushType ==
  ASSUME TypeOK, NEW b \in Seq(Objects), NEW then \in {"run", "ok"}, Flush(b, then)
  PROVE  /\ batch' \in Seq(Objects) /\ counted' \in [Objects -> Nat]
         /\ saved' \subseteq Objects /\ coll' \in {"run", "ok", "err"}
<1>1. counted' \in [Objects -> Nat]
  BY OccursType DEF Flush, Aggregate, TypeOK
<1>2. Range(b) \subseteq Objects
  BY DEF Range
<1>3. <<>> \in Seq(Objects)
  OBVIOUS
<1>4. saved' \subseteq Objects
  BY <1>2 DEF Flush, TypeOK
<1>5. batch' \in Seq(Objects) /\ coll' \in {"run", "ok", "err"}
  BY <1>3 DEF Flush
<1> QED
  BY <1>1, <1>4, <1>5

(* The collector's steps preserve the invariant.                           *)
LEMMA CollectorIInv ==
  ASSUME IInv, Collector
  PROVE  IInv'
<1> USE DEF IInv
<1>1. CASE CollectObject
  <2>1. Head(objChan) \in Objects
    BY <1>1 DEF CollectObject, TypeOK
  <2>2. objChan' \in Seq(Objects \cup {Err}) /\ Len(objChan') <= ObjCap
    BY <1>1, BoundsAssumption DEF CollectObject, TypeOK
  <2>3. Append(batch, Head(objChan)) \in Seq(Objects)
    BY <2>1 DEF TypeOK
  <2>4. /\ batch' \in Seq(Objects) /\ counted' \in [Objects -> Nat]
        /\ saved' \subseteq Objects /\ coll' \in {"run", "ok", "err"}
    BY <1>1, <2>3, FlushType DEF CollectObject, TypeOK
  <2>5. TypeOK'
    BY <1>1, <2>2, <2>4 DEF CollectObject, TypeOK, dispatcherVars, workerVars
  <2>6. FetchInRange'
    BY <1>1 DEF CollectObject, FetchInRange, Pages, dispatcherVars, workerVars
  <2>7. ClosingOrder'
    BY <1>1 DEF CollectObject, ClosingOrder, dispatcherVars, workerVars
  <2> QED
    BY <2>5, <2>6, <2>7
<1>2. CASE CollectErr
  <2>1. objChan' \in Seq(Objects \cup {Err}) /\ Len(objChan') <= ObjCap
    BY <1>2, BoundsAssumption DEF CollectErr, TypeOK
  <2>2. TypeOK'
    BY <1>2, <2>1 DEF CollectErr, TypeOK, dispatcherVars, workerVars
  <2>3. FetchInRange'
    BY <1>2 DEF CollectErr, FetchInRange, Pages, dispatcherVars, workerVars
  <2>4. ClosingOrder'
    BY <1>2 DEF CollectErr, ClosingOrder, dispatcherVars, workerVars
  <2> QED
    BY <2>2, <2>3, <2>4
<1>3. CASE CollectClosed
  <2>1. /\ batch' \in Seq(Objects) /\ counted' \in [Objects -> Nat]
        /\ saved' \subseteq Objects /\ coll' \in {"run", "ok", "err"}
    BY <1>3, FlushType DEF CollectClosed, TypeOK
  <2>2. TypeOK'
    BY <1>3, <2>1 DEF CollectClosed, TypeOK, dispatcherVars, workerVars
  <2>3. FetchInRange'
    BY <1>3 DEF CollectClosed, FetchInRange, Pages, dispatcherVars, workerVars
  <2>4. ClosingOrder'
    BY <1>3 DEF CollectClosed, ClosingOrder, dispatcherVars, workerVars
  <2> QED
    BY <2>2, <2>3, <2>4
<1>4. CASE CollectCtxDone
  <2>1. TypeOK'
    BY <1>4 DEF CollectCtxDone, TypeOK, dispatcherVars, workerVars
  <2>2. FetchInRange'
    BY <1>4 DEF CollectCtxDone, FetchInRange, Pages, dispatcherVars, workerVars
  <2>3. ClosingOrder'
    BY <1>4 DEF CollectCtxDone, ClosingOrder, dispatcherVars, workerVars
  <2> QED
    BY <2>1, <2>2, <2>3
<1> QED
  BY <1>1, <1>2, <1>3, <1>4 DEF Collector

(* The deadline and runFullScan itself preserve it.                        *)
LEMMA MainIInv ==
  ASSUME IInv, Deadline \/ Main
  PROVE  IInv'
<1> USE DEF IInv
<1>1. CASE Deadline
  BY <1>1 DEF Deadline, TypeOK, FetchInRange, ClosingOrder, Pages, dispatcherVars,
              workerVars, collectorVars
<1>2. CASE CloseObjects
  BY <1>2 DEF CloseObjects, TypeOK, FetchInRange, ClosingOrder, Pages, dispatcherVars,
              workerVars, collectorVars
<1>3. CASE Join
  BY <1>3 DEF Join, TypeOK, FetchInRange, ClosingOrder, Pages, dispatcherVars,
              workerVars, collectorVars
<1> QED
  BY <1>1, <1>2, <1>3 DEF Main

-----------------------------------------------------------------------------
(* Every step preserves it, ...                                            *)
LEMMA NextIInv ==
  ASSUME IInv, [Next]_vars
  PROVE  IInv'
<1>1. CASE Next
  BY <1>1, DispatcherIInv, WorkerIInv, FetchIInv, CollectorIInv, MainIInv DEF Next
<1>2. CASE UNCHANGED vars
  BY <1>2 DEF IInv, TypeOK, FetchInRange, ClosingOrder, Pages, vars, dispatcherVars,
              workerVars, collectorVars
<1> QED
  BY <1>1, <1>2

(* ... so every reachable state satisfies it.                              *)
THEOREM Invariance == Spec => []IInv
BY InitIInv, NextIInv, PTL DEF Spec

(* The variables keep their types and the channels their capacities, for   *)
(* every instance of the pipeline.                                         *)
THEOREM TypeCorrectness == Spec => []TypeOK
<1>1. IInv => TypeOK
  BY DEF IInv
<1> QED
  BY <1>1, Invariance, PTL

(* No goroutine ever sends on a closed channel: although wg.Wait does not  *)
(* wait for the dispatcher, its error is sent before close(prefixChan),    *)
(* which every worker waits for before close(objChan).                     *)
THEOREM ChannelsSafe == Spec => []NoSendOnClosedChannel
<1>1. IInv => NoSendOnClosedChannel
  <2> SUFFICES ASSUME IInv PROVE NoSendOnClosedChannel
    OBVIOUS
  <2>1. ASSUME objClosed PROVE disp = "done"
    BY <2>1, WorkersAssumption DEF IInv, ClosingOrder
  <2> QED
    BY <2>1 DEF IInv, ClosingOrder, NoSendOnClosedChannel
<1> QED
  BY <1>1, Invariance, PTL

-----------------------------------------------------------------------------
(***************************************************************************)
(* What the pipeline delivers: where every object of the bucket is.        *)
(***************************************************************************)
(* The objects on the pages of the dispatcher's prefixes, ...              *)
Listed ==
  {o \in Objects :
     \E i \in DOMAIN prefixes : \E m \in DOMAIN Pages(i) : o \in Pages(i)[m]}

(* ... those on pages that no worker has received, where page m of         *)
(* prefixes[i] is still to come if nobody has taken the prefix, or the     *)
(* worker that has is not past the page, ...                               *)
Coming(i, m) ==
  i > taken \/ \E w \in Workers : held[w] = i /\ next[w] # "none" /\ m >= page[w]
ToCome ==
  {o \in Objects :
     \E i \in DOMAIN prefixes : \E m \in DOMAIN Pages(i) : o \in Pages(i)[m] /\ Coming(i, m)}

(* ... and the other places an object can be in.                           *)
InHand  == {o \in Objects : \E w \in Workers : o \in todo[w]}
InChan  == Objects \cap Range(objChan)
InBatch == Range(batch)
Counted == {o \in Objects : counted[o] > 0}
Unsent  == InHand \cup ToCome
Sent    == InChan \cup InBatch \cup Counted

-----------------------------------------------------------------------------
(* The inductive invariant.  Discovery comes first and gives what it found *)
(* or the root, and in time all of it is sent.                             *)
Dispatched ==
  /\ disp = "discover" => prefixes = <<>> /\ Sent = {}
  /\ disp # "discover" => prefixes \in {Discovered, <<Root>>}
  /\ disp \in {"closing", "done"} => ctxDone \/ sent = Len(prefixes)

(* A worker that is neither idle nor done has a prefix of its own, and what *)
(* it has in hand is of the page before the one it fetches ahead, if any.  *)
PageInHand(w) == IF next[w] = "none" THEN page[w] ELSE page[w] - 1
AtWork ==
  \A w \in Workers :
    /\ wpc[w] \in {"idle", "done"} => held[w] = 0 /\ next[w] = "none" /\ todo[w] = {}
    /\ wpc[w] \notin {"idle", "done"} => held[w] \in 1..taken
    /\ wpc[w] \in {"check", "recv", "sendErr"} => next[w] # "none" /\ todo[w] = {}
    /\ wpc[w] = "send" => /\ PageInHand(w) \in DOMAIN Pages(held[w])
                          /\ todo[w] \subseteq Pages(held[w])[PageInHand(w)]
    /\ \A v \in Workers : held[v] = held[w] /\ held[w] # 0 => v = w

(* An object is in one place at a time.                                    *)
OnePlace ==
  /\ \A i, j \in DOMAIN objChan : objChan[i] = objChan[j] /\ objChan[i] # Err => i = j
  /\ \A i, j \in DOMAIN batch : batch[i] = batch[j] => i = j
  /\ Unsent \cap Sent = {}
  /\ InChan \cap (InBatch \cup Counted) = {}
  /\ coll # "err" => InBatch \cap Counted = {}
  /\ CountedAtMostOnce

(* Nothing but a listed object is in any place, and none gets lost before  *)
(* an error is under way to the collector, or the deadline has passed.     *)
Spoilt ==
  \/ ctxDone \/ coll = "err" \/ Err \in Range(objChan)
  \/ \E w \in Workers : wpc[w] = "sendErr"
NoneLost ==
  /\ Sent \subseteq Listed
  /\ Spoilt \/ Listed \subseteq Unsent \cup Sent

(* What runFullScan returns is what the collector does, which returns nil  *)
(* from a closed and empty channel only.                                   *)
Outcome ==
  /\ coll = "ok" => objChan = <<>> /\ objClosed /\ batch = <<>>
  /\ main = "ok" => coll = "ok"
  /\ main = "failed" => coll = "err"

(* Every error, and a fallback to the root, has a fault or the deadline as *)
(* its cause.                                                              *)
Excused == Faults \cap {"s3", "store"} # {} \/ ctxDone
Caused ==
  /\ coll = "err" \/ Err \in Range(objChan) => Excused
  /\ \A w \in Workers : next[w] = "err" \/ wpc[w] = "sendErr" => Excused
  /\ disp = "sendErr" => ctxDone
  /\ ctxDone => "deadline" \in Faults
  /\ disp # "discover" /\ prefixes # Discovered => "discovery" \in Faults \/ ctxDone

DeliveryInv ==
  /\ IInv /\ Dispatched /\ AtWork /\ OnePlace /\ NoneLost /\ Outcome /\ CountedIsSaved
  /\ Caused

-----------------------------------------------------------------------------
(* S3 lists an object once, so what a worker sends cannot be anywhere else. *)
LEMMA OnePage ==
  ASSUME TypeOK, Dispatched, NEW i \in DOMAIN prefixes, NEW j \in DOMAIN prefixes,
         NEW m \in DOMAIN Pages(i), NEW n \in DOMAIN Pages(j),
         Pages(i)[m] \cap Pages(j)[n] # {}
  PROVE  i = j /\ m = n
<1>1. prefixes = CommonPrefixes \/ prefixes = <<Root>>
  BY DEF Dispatched, Discovered
<1>2. prefixes[i] \in Prefixes /\ prefixes[j] \in Prefixes
  BY DEF TypeOK
<1>3. prefixes[i] = Root <=> prefixes[j] = Root
  BY <1>1, PrefixesAssumption
<1>4. prefixes[i] = prefixes[j] /\ m = n
  BY <1>2, <1>3, ListingAssumption DEF Pages
<1> QED
  BY <1>1, <1>4, PrefixesAssumption

(* An object that a batch has once is counted once.                        *)
LEMMA OccursOnce ==
  ASSUME NEW b \in Seq(Objects), \A i, j \in DOMAIN b : b[i] = b[j] => i = j, NEW o
  PROVE  Occurs(o, b) = IF o \in Range(b) THEN 1 ELSE 0
<1>1. CASE o \in Range(b)
  <2>1. PICK i \in DOMAIN b : b[i] = o
    BY <1>1 DEF Range
  <2>2. {j \in DOMAIN b : b[j] = o} = {i}
    BY <2>1
  <2> QED
    BY <1>1, <2>2, FS_Singleton DEF Occurs
<1>2. CASE o \notin Range(b)
  <2>1. {j \in DOMAIN b : b[j] = o} = {}
    BY <1>2 DEF Range
  <2> QED
    BY <1>2, <2>1, FS_EmptySet DEF Occurs
<1> QED
  BY <1>1, <1>2

(* So aggregating objects that are in one place counts them once.          *)
LEMMA AggregateOnce ==
  ASSUME TypeOK, CountedAtMostOnce, NEW b \in Seq(Objects),
         \A i, j \in DOMAIN b : b[i] = b[j] => i = j,
         Range(b) \cap Counted = {}, Aggregate(b)
  PROVE  Counted' = Counted \cup Range(b) /\ CountedAtMostOnce'
<1>1. \A o \in Objects :
        counted'[o] = counted[o] + (IF o \in Range(b) THEN 1 ELSE 0)
  BY OccursOnce DEF Aggregate
<1>2. Range(b) \subseteq Objects
  BY DEF Range
<1>3. \A o \in Objects : counted[o] \in Nat
  BY DEF TypeOK
<1>4. Counted' = Counted \cup Range(b)
  BY <1>1, <1>2, <1>3 DEF Counted
<1>5. CountedAtMostOnce'
  BY <1>1, <1>3 DEF CountedAtMostOnce, Counted
<1> QED
  BY <1>4, <1>5

-----------------------------------------------------------------------------
(* The prefix of a worker at work is one of the dispatcher's, and nobody   *)
(* else's; the page it fetches is one of the prefix.                       *)
LEMMA AtWorkFacts ==
  ASSUME TypeOK, FetchInRange, AtWork, NEW w \in Workers
  PROVE  /\ held[w] \in 0..taken
         /\ wpc[w] \notin {"idle", "done"} =>
              /\ held[w] \in 1..taken /\ held[w] \in DOMAIN prefixes
              /\ \A v \in Workers : held[v] = held[w] => v = w
              /\ page[w] \in Nat
              /\ Pages(held[w]) \in Seq(SUBSET Objects)
              /\ next[w] # "none" => page[w] \in DOMAIN Pages(held[w])
<1>1. taken \in Nat /\ sent \in Nat /\ taken <= sent /\ sent <= Len(prefixes)
  BY DEF TypeOK
<1>2. CASE wpc[w] \in {"idle", "done"}
  BY <1>1, <1>2 DEF AtWork
<1>3. CASE wpc[w] \notin {"idle", "done"}
  <2>1. held[w] \in 1..taken
    BY <1>3 DEF AtWork
  <2>2. held[w] \in 1..Len(prefixes)
    BY <1>1, <2>1 DEF TypeOK
  <2>3. \A v \in Workers : held[v] = held[w] => v = w
    BY <1>1, <2>1 DEF AtWork
  <2>4. Pages(held[w]) \in Seq(SUBSET Objects)
    BY <2>2, PagesType DEF TypeOK
  <2>5. next[w] # "none" => page[w] \in DOMAIN Pages(held[w])
    BY <2>4 DEF FetchInRange
  <2> QED
    BY <1>1, <1>3, <2>1, <2>2, <2>3, <2>4, <2>5 DEF TypeOK
<1> QED
  BY <1>2, <1>3

(* What the steps of the workers do to the objects that are not sent.      *)
LEMMA ReturnPlaces ==
  ASSUME DeliveryInv, NEW w \in Workers, Return(w), UNCHANGED <<prefixes, taken>>
  PROVE  /\ Listed' = Listed /\ Unsent' \subseteq Unsent
         /\ todo[w] = {} /\ next[w] = "none" => Unsent' = Unsent
<1> USE DEF DeliveryInv, IInv
<1>1. Listed' = Listed
  BY DEF Listed, Pages
<1>2. InHand' \subseteq InHand /\ (todo[w] = {} => InHand' = InHand)
  BY ReturnType DEF InHand
<1>3. ToCome' \subseteq ToCome /\ (next[w] = "none" => ToCome' = ToCome)
  BY ReturnType DEF ToCome, Coming, Pages
<1> QED
  BY <1>1, <1>2, <1>3 DEF Unsent

(* Receiving a page puts it in hand, and fetches the next one.             *)
LEMMA ReceivePlaces ==
  ASSUME DeliveryInv, NEW w \in Workers, Receive(w)
  PROVE  Listed' = Listed /\ Unsent' = Unsent
<1> USE DEF DeliveryInv, IInv
<1>a. wpc[w] = "recv" /\ next[w] # "none"
  BY DEF Receive
<1>b. PICK i \in 1..taken, m \in Nat : i = held[w] /\ m = page[w]
  BY <1>a, AtWorkFacts
<1>1. /\ i \in DOMAIN prefixes
      /\ m \in DOMAIN Pages(i) /\ todo[w] = {}
      /\ Pages(i) \in Seq(SUBSET Objects)
      /\ \A v \in Workers : held[v] = i => v = w
  BY <1>a, <1>b, AtWorkFacts DEF AtWork
<1>2. Listed' = Listed
  BY DEF Receive, dispatcherVars, Listed, Pages
<1>3. \A v \in Workers : todo'[v] = IF v = w THEN Pages(i)[m] ELSE todo[v]
  BY <1>b DEF Receive, TypeOK
<1>4. InHand' = InHand \cup Pages(i)[m]
  BY <1>1, <1>3 DEF InHand
<1>5. \A v \in Workers \ {w} : held'[v] # i /\ held'[v] = held[v] /\ next'[v] = next[v]
                                 /\ page'[v] = page[v]
  BY <1>1 DEF Receive, TypeOK
<1>6. \A n \in DOMAIN Pages(i) : Coming(i, n)' <=> n > m
  <2>1. CASE Truncated(w)
    <3>1. next'[w] = "inflight" /\ page'[w] = m + 1 /\ held'[w] = i /\ taken' = taken
      BY <2>1, <1>b DEF Receive, TypeOK
    <3>2. \A n \in DOMAIN Pages(i) : n > m <=> n >= m + 1
      BY <1>1
    <3> QED
      BY <1>1, <1>5, <3>1, <3>2, SMTT(40) DEF Coming, TypeOK
  <2>2. CASE ~Truncated(w)
    <3>1. next'[w] = "none" /\ held'[w] = i /\ taken' = taken
      BY <2>2, <1>b DEF Receive, TypeOK
    <3>2. \A n \in DOMAIN Pages(i) : ~(n > m)
      BY <1>1, <1>b, <2>2 DEF Truncated
    <3> QED
      BY <1>1, <1>5, <3>1, <3>2 DEF Coming, TypeOK
  <2> QED
    BY <2>1, <2>2
<1>7. \A n \in DOMAIN Pages(i) : Coming(i, n) <=> n >= m
  BY <1>a, <1>b, <1>1 DEF Coming, TypeOK
<1>8. \A j \in DOMAIN prefixes \ {i} : \A n : Coming(j, n)' <=> Coming(j, n)
  BY <1>b, <1>5 DEF Coming, Receive, TypeOK
<1>9. ToCome \cup Pages(i)[m] = ToCome' \cup Pages(i)[m]
  <2>1. prefixes' = prefixes /\ \A j : Pages(j)' = Pages(j)
    BY DEF Receive, dispatcherVars, Pages
  <2>2. ASSUME NEW j \in DOMAIN prefixes, NEW n \in DOMAIN Pages(j), j # i \/ n # m
        PROVE  Coming(j, n)' <=> Coming(j, n)
    <3>1. CASE j # i
      BY <3>1, <1>8
    <3>2. CASE j = i
      <4>1. n \in Int /\ m \in Int /\ n # m
        BY <3>2, <2>2, <1>1
      <4> QED
        BY <3>2, <4>1, <1>6, <1>7
    <3> QED
      BY <3>1, <3>2
  <2> QED
    BY <2>1, <2>2 DEF ToCome
<1>10. Pages(i)[m] \subseteq ToCome
  BY <1>1, <1>7 DEF ToCome
<1> QED
  BY <1>2, <1>4, <1>9, <1>10 DEF Unsent

(* Taking a prefix makes its pages the worker's: they are still to come.   *)
LEMMA TakePlaces ==
  ASSUME DeliveryInv, NEW w \in Workers, TakePrefix(w)
  PROVE  Listed' = Listed /\ Unsent' = Unsent
<1> USE DEF DeliveryInv, IInv
<1>1. prefixes' = prefixes /\ \A j : Pages(j)' = Pages(j)
  BY DEF TakePrefix, dispatcherVars, Pages
<1>2. \A i \in DOMAIN prefixes : \A m \in DOMAIN Pages(i) : Coming(i, m)' <=> Coming(i, m)
  <2>1. held[w] = 0 /\ taken \in Nat
    BY DEF TakePrefix, AtWork, TypeOK
  <2>2. \A v \in Workers : held[v] \in 0..taken
    BY AtWorkFacts
  <2>3. /\ taken' = taken + 1
        /\ held'[w] = taken + 1 /\ page'[w] = 1 /\ next'[w] = "inflight"
        /\ \A v \in Workers \ {w} : held'[v] = held[v] /\ page'[v] = page[v]
                                      /\ next'[v] = next[v]
    BY DEF TakePrefix, TypeOK
  <2> TAKE i \in DOMAIN prefixes
  <2> TAKE m \in DOMAIN Pages(i)
  <2>4. i \in Nat \ {0} /\ m \in Nat \ {0}
    BY PagesType DEF TypeOK
  <2>5. CASE i = taken + 1
    BY <2>1, <2>3, <2>4, <2>5 DEF Coming
  <2>6. CASE i > taken + 1
    BY <2>1, <2>3, <2>4, <2>6 DEF Coming
  <2>7. CASE i < taken + 1
    <3>1. held'[w] # i /\ held[w] # i /\ ~(i > taken) /\ ~(i > taken')
      BY <2>1, <2>3, <2>4, <2>7
    <3> QED
      BY <2>3, <3>1 DEF Coming
  <2> QED
    BY <2>1, <2>4, <2>5, <2>6, <2>7
<1>3. ToCome' = ToCome
  BY <1>1, <1>2 DEF ToCome
<1>4. InHand' = InHand
  BY DEF TakePrefix, InHand
<1>5. Listed' = Listed
  BY <1>1 DEF Listed
<1> QED
  BY <1>3, <1>4, <1>5 DEF Unsent

(* Only a sent object leaves the unsent ones, or the scan is spoilt.       *)
LEMMA WorkerPlaces ==
  ASSUME DeliveryInv, NEW w \in Workers, Worker(w) \/ FetchDone(w), ~SendObject(w)
  PROVE  Listed' = Listed /\ Unsent' \subseteq Unsent /\ (Spoilt' \/ Unsent' = Unsent)
<1> USE DEF DeliveryInv, IInv
<1>1. CASE TakePrefix(w)
  BY <1>1, TakePlaces
<1>2. CASE Receive(w)
  BY <1>2, ReceivePlaces
<1>3. CASE WorkerExit(w) \/ ReceiveErr(w) \/ (CheckCtx(w) /\ ~ctxDone)
             \/ (PageDone(w) /\ next[w] # "none") \/ FetchDone(w)
  <2>1. /\ UNCHANGED <<prefixes, taken, held, page, todo>>
        /\ \A v \in Workers : next'[v] = "none" <=> next[v] = "none"
    BY <1>3 DEF WorkerExit, ReceiveErr, CheckCtx, PageDone, FetchDone, dispatcherVars, TypeOK
  <2> QED
    BY <2>1 DEF Listed, Unsent, InHand, ToCome, Coming, Pages
<1>4. CASE (CheckCtx(w) /\ ctxDone) \/ SendAbort(w)
  <2>1. Return(w) /\ UNCHANGED <<prefixes, taken>> /\ ctxDone'
    BY <1>4 DEF CheckCtx, SendAbort, dispatcherVars
  <2> QED
    BY <2>1, ReturnPlaces DEF Spoilt
<1>5. CASE PageDone(w) /\ next[w] = "none"
  <2>1. Return(w) /\ UNCHANGED <<prefixes, taken>> /\ todo[w] = {}
    BY <1>5 DEF PageDone, dispatcherVars
  <2> QED
    BY <1>5, <2>1, ReturnPlaces
<1>6. CASE SendErr(w)
  <2>1. Return(w) /\ UNCHANGED <<prefixes, taken>> /\ objChan' = Append(objChan, Err)
    BY <1>6 DEF SendErr, dispatcherVars
  <2>2. Err \in Range(objChan')
    <3>1. objChan'[Len(objChan) + 1] = Err /\ Len(objChan) + 1 \in DOMAIN objChan'
      BY <2>1 DEF TypeOK
    <3> QED
      BY <3>1 DEF Range
  <2> QED
    BY <2>1, <2>2, ReturnPlaces DEF Spoilt
<1> QED
  BY <1>1, <1>2, <1>3, <1>4, <1>5, <1>6 DEF Worker

(* An object that is sent was in one worker's hands only.                  *)
LEMMA SendPlaces ==
  ASSUME DeliveryInv, NEW w \in Workers, SendObject(w)
  PROVE  \E o \in Unsent : /\ objChan' = Append(objChan, o)
                           /\ Listed' = Listed /\ o \in Listed /\ Unsent' = Unsent \ {o}
<1> USE DEF DeliveryInv, IInv
<1>1. PICK o \in todo[w] : /\ objChan' = Append(objChan, o)
                           /\ todo' = [todo EXCEPT ![w] = todo[w] \ {o}]
  BY DEF SendObject
<1> DEFINE i == held[w]
           m == PageInHand(w)
<1>2. /\ i \in 1..taken /\ i \in DOMAIN prefixes /\ m \in DOMAIN Pages(i)
      /\ o \in Pages(i)[m] /\ o \in Objects
  BY DEF SendObject, AtWork, TypeOK
<1>3. UNCHANGED <<prefixes, taken, wpc, held, page, next>> /\ \A j : Pages(j)' = Pages(j)
  BY DEF SendObject, dispatcherVars, Pages
<1>4. o \in Unsent /\ o \in Listed
  BY <1>2 DEF Unsent, InHand, Listed
<1>5. \A v \in Workers \ {w} : o \notin todo[v]
  <2> SUFFICES ASSUME NEW v \in Workers \ {w}, o \in todo[v] PROVE FALSE
    OBVIOUS
  <2>1. wpc[v] = "send"
    BY SMTT(40) DEF AtWork, TypeOK, WorkerStates
  <2>2. held[v] \in DOMAIN prefixes /\ held[v] # i
    BY <2>1, AtWorkFacts
  <2>3. PageInHand(v) \in DOMAIN Pages(held[v]) /\ o \in Pages(held[v])[PageInHand(v)]
    BY <2>1 DEF AtWork
  <2> QED
    BY <1>2, <2>2, <2>3, OnePage
<1>6. o \notin ToCome
  <2> SUFFICES ASSUME NEW j \in DOMAIN prefixes, NEW n \in DOMAIN Pages(j),
                      o \in Pages(j)[n], Coming(j, n)
               PROVE  FALSE
    BY DEF ToCome
  <2>1. j = i /\ n = m
    BY <1>2, OnePage
  <2>2. next[w] # "none" /\ m >= page[w]
    <3>1. \A v \in Workers : held[v] = i => v = w
      BY <1>2, AtWorkFacts DEF SendObject
    <3>2. ~(i > taken)
      BY <1>2 DEF TypeOK
    <3> QED
      BY <2>1, <3>1, <3>2 DEF Coming
  <2> QED
    BY <2>2 DEF PageInHand, TypeOK
<1>7. ToCome' = ToCome /\ Listed' = Listed
  BY <1>3 DEF ToCome, Coming, Listed
<1>8. InHand' = InHand \ {o}
  BY <1>1, <1>5 DEF InHand, TypeOK
<1> QED
  BY <1>1, <1>4, <1>6, <1>7, <1>8 DEF Unsent

-----------------------------------------------------------------------------
(* The parts of the invariant one by one.  An error stays until the        *)
(* collector has it, and then for good.                                    *)
LEMMA ErrAppended ==
  ASSUME TypeOK, objChan' = Append(objChan, Err)
  PROVE  Err \in Range(objChan') /\ InChan' = InChan
<1>1. /\ DOMAIN objChan' = DOMAIN objChan \cup {Len(objChan) + 1}
      /\ \A i \in DOMAIN objChan : objChan'[i] = objChan[i]
      /\ objChan'[Len(objChan) + 1] = Err
  BY DEF TypeOK
<1>2. Range(objChan') = Range(objChan) \cup {Err}
  BY <1>1 DEF Range
<1> QED
  BY <1>2, ObjectsAssumption DEF InChan

(* Receiving the head of objChan takes it from the channel, and nothing    *)
(* else.                                                                   *)
LEMMA HeadReceived ==
  ASSUME TypeOK, OnePlace, objChan # <<>>, objChan' = Tail(objChan)
  PROVE  /\ Head(objChan) = Err => InChan' = InChan
         /\ Head(objChan) # Err => /\ Head(objChan) \in InChan
                                   /\ InChan' = InChan \ {Head(objChan)}
                                   /\ Err \in Range(objChan) => Err \in Range(objChan')
         /\ \A i, j \in DOMAIN objChan' :
              objChan'[i] = objChan'[j] /\ objChan'[i] # Err => i = j
<1>1. /\ Len(objChan) \in Nat \ {0} /\ DOMAIN objChan = 1..Len(objChan)
      /\ DOMAIN objChan' = 1..(Len(objChan) - 1)
      /\ \A i \in DOMAIN objChan' : objChan'[i] = objChan[i + 1]
      /\ Head(objChan) = objChan[1] /\ objChan[1] \in Objects \cup {Err}
  BY DEF TypeOK
<1>2. Range(objChan) = Range(objChan') \cup {Head(objChan)}
  <2>1. \A i \in DOMAIN objChan : i = 1 \/ i - 1 \in DOMAIN objChan'
    BY <1>1
  <2>2. \A i \in DOMAIN objChan' : i + 1 \in DOMAIN objChan
    BY <1>1
  <2>3. \A i \in DOMAIN objChan \ {1} : objChan[i] = objChan'[i - 1]
    BY <1>1, <2>1
  <2> QED
    BY <1>1, <2>1, <2>2, <2>3 DEF Range
<1>3. Head(objChan) # Err => Head(objChan) \notin Range(objChan')
  <2> SUFFICES ASSUME Head(objChan) # Err, NEW i \in DOMAIN objChan',
                      objChan'[i] = Head(objChan)
               PROVE  FALSE
    BY DEF Range
  <2>1. i + 1 \in DOMAIN objChan /\ 1 \in DOMAIN objChan /\ objChan[i + 1] = objChan[1]
    BY <1>1
  <2>2. i + 1 = 1
    BY <1>1, <2>1 DEF OnePlace
  <2> QED
    BY <1>1, <2>2
<1>4. \A i, j \in DOMAIN objChan' :
        objChan'[i] = objChan'[j] /\ objChan'[i] # Err => i = j
  <2> SUFFICES ASSUME NEW i \in DOMAIN objChan', NEW j \in DOMAIN objChan',
                      objChan'[i] = objChan'[j], objChan'[i] # Err
               PROVE  i = j
    OBVIOUS
  <2>1. i + 1 \in DOMAIN objChan /\ j + 1 \in DOMAIN objChan
        /\ objChan[i + 1] = objChan[j + 1] /\ objChan[i + 1] # Err
    BY <1>1
  <2>2. i + 1 = j + 1
    BY <2>1 DEF OnePlace
  <2> QED
    BY <1>1, <2>2
<1> QED
  BY <1>1, <1>2, <1>3, <1>4, ObjectsAssumption DEF InChan

(* A spoilt scan stays spoilt.                                             *)
LEMMA SpoiltStays ==
  ASSUME DeliveryInv, [Next]_vars, Spoilt
  PROVE  Spoilt'
<1> USE DEF DeliveryInv, IInv
<1>1. CASE ctxDone
  BY <1>1 DEF Next, vars, Spoilt, Deadline, Dispatcher, DiscoverPrefixes, SendPrefix,
       DispatchAbort, DispatchSendErr, ClosePrefixes, Worker, TakePrefix, WorkerExit,
       CheckCtx, Receive, ReceiveErr, SendObject, PageDone, SendErr, SendAbort, FetchDone,
       Collector, CollectObject, CollectErr, CollectClosed, CollectCtxDone, Main,
       CloseObjects, Join
<1>2. CASE coll = "err"
  BY <1>2 DEF Next, vars, collectorVars, Spoilt, Deadline, Dispatcher, DiscoverPrefixes,
       SendPrefix, DispatchAbort, DispatchSendErr, ClosePrefixes, Worker, TakePrefix,
       WorkerExit, CheckCtx, Receive, ReceiveErr, SendObject, PageDone, SendErr, SendAbort,
       FetchDone, Collector, CollectObject, CollectErr, CollectClosed, CollectCtxDone,
       Main, CloseObjects, Join
<1>3. CASE Err \in Range(objChan)
  <2>1. CASE UNCHANGED objChan
    BY <1>3, <2>1 DEF Spoilt
  <2>2. ASSUME NEW x \in Objects \cup {Err}, objChan' = Append(objChan, x)
        PROVE  Spoilt'
    <3>1. \A i \in DOMAIN objChan : i \in DOMAIN objChan' /\ objChan'[i] = objChan[i]
      BY <2>2 DEF TypeOK
    <3> QED
      BY <1>3, <3>1 DEF Spoilt, Range
  <2>3. CASE CollectObject
    BY <1>3, <2>3, HeadReceived DEF CollectObject, Spoilt
  <2>4. CASE CollectErr
    BY <2>4 DEF CollectErr, Spoilt
  <2>5. \/ UNCHANGED objChan
        \/ CollectObject \/ CollectErr
        \/ objChan' = Append(objChan, Err)
        \/ \E w \in Workers : SendObject(w)
    BY DEF Next, vars, Deadline, Dispatcher, DiscoverPrefixes, SendPrefix, DispatchAbort,
         DispatchSendErr, ClosePrefixes, Worker, TakePrefix, WorkerExit, CheckCtx, Receive,
         ReceiveErr, PageDone, SendErr, SendAbort, FetchDone, Collector, CollectClosed,
         CollectCtxDone, Main, CloseObjects, Join
  <2>6. ASSUME NEW w \in Workers, SendObject(w)
        PROVE  Spoilt'
    BY <2>2, <2>6 DEF SendObject, TypeOK
  <2> QED
    BY <2>1, <2>2, <2>3, <2>4, <2>5, <2>6
<1>4. ASSUME NEW w \in Workers, wpc[w] = "sendErr", wpc'[w] # "sendErr"
      PROVE  Spoilt'
  <2>1. SendErr(w) \/ SendAbort(w)
    BY <1>4 DEF Next, vars, workerVars, TypeOK, Deadline, Dispatcher, DiscoverPrefixes,
         SendPrefix, DispatchAbort, DispatchSendErr, ClosePrefixes, Worker, TakePrefix,
         WorkerExit, CheckCtx, Receive, ReceiveErr, SendObject, PageDone, SendErr,
         SendAbort, Return, FetchDone, Collector, CollectObject, CollectErr, CollectClosed,
         CollectCtxDone, Main, CloseObjects, Join
  <2> QED
    BY <2>1, ErrAppended DEF SendErr, SendAbort, Spoilt
<1> QED
  BY <1>1, <1>2, <1>3, <1>4 DEF Spoilt

(* A step that moves no object disturbs no place ...                       *)
LEMMA NothingMoves ==
  ASSUME DeliveryInv, [Next]_vars, Listed' = Listed, Unsent' \subseteq Unsent,
         Spoilt' \/ Unsent' = Unsent, InChan' = InChan,
         \A i, j \in DOMAIN objChan' : objChan'[i] = objChan'[j] /\ objChan'[i] # Err => i = j,
         UNCHANGED <<batch, counted>>, coll' \in {coll, "err"}
  PROVE  OnePlace' /\ NoneLost'
<1>1. InBatch' = InBatch /\ Counted' = Counted /\ Sent' = Sent
  BY DEF InBatch, Counted, Sent
<1>2. OnePlace'
  BY <1>1 DEF DeliveryInv, OnePlace, CountedAtMostOnce
<1>3. NoneLost'
  BY <1>1, SpoiltStays DEF DeliveryInv, NoneLost
<1> QED
  BY <1>2, <1>3

(* ... which is so for most of the steps.                                  *)
LEMMA DispatcherPlaces ==
  ASSUME DeliveryInv, Dispatcher
  PROVE  OnePlace' /\ NoneLost'
<1> USE DEF DeliveryInv, IInv
<1>1. CASE DiscoverPrefixes
  <2>1. Sent' = Sent /\ Sent = {} /\ UNCHANGED <<objChan, batch, counted, coll, taken>>
    BY <1>1 DEF DiscoverPrefixes, collectorVars, Sent, InChan, InBatch, Counted, Dispatched
  <2>2. ToCome' = Listed'
    <3>1. taken = 0 /\ taken' = taken
      BY <1>1 DEF DiscoverPrefixes, FetchInRange, TypeOK
    <3>2. prefixes' \in Seq(Prefixes)
      BY <1>1, DiscoveredType DEF DiscoverPrefixes
    <3>3. \A i \in DOMAIN prefixes' : i > taken'
      BY <3>1, <3>2
    <3> QED
      BY <3>3 DEF ToCome, Listed, Coming
  <2>3. OnePlace'
    BY <2>1 DEF OnePlace, InChan, InBatch, Counted, Sent, CountedAtMostOnce
  <2>4. NoneLost'
    BY <2>1, <2>2 DEF NoneLost, Unsent
  <2> QED
    BY <2>3, <2>4
<1>2. CASE SendPrefix \/ DispatchAbort \/ ClosePrefixes
  <2>1. UNCHANGED <<prefixes, taken, workerVars, objChan, collectorVars>>
    BY <1>2 DEF SendPrefix, DispatchAbort, ClosePrefixes
  <2>2. Listed' = Listed /\ Unsent' = Unsent /\ InChan' = InChan
    BY <2>1 DEF workerVars, Listed, Unsent, InHand, ToCome, Coming, Pages, InChan
  <2> QED
    BY <1>2, <2>1, <2>2, NothingMoves DEF Next, Dispatcher, collectorVars, OnePlace
<1>3. CASE DispatchSendErr
  <2>1. UNCHANGED <<prefixes, taken, workerVars, collectorVars>>
        /\ objChan' = Append(objChan, Err)
    BY <1>3 DEF DispatchSendErr
  <2>2. Listed' = Listed /\ Unsent' = Unsent
    BY <2>1 DEF workerVars, Listed, Unsent, InHand, ToCome, Coming, Pages
  <2>3. \A i, j \in DOMAIN objChan' :
          objChan'[i] = objChan'[j] /\ objChan'[i] # Err => i = j
    BY <2>1 DEF OnePlace, TypeOK
  <2> QED
    BY <1>3, <2>1, <2>2, <2>3, ErrAppended, NothingMoves DEF Next, Dispatcher, collectorVars
<1> QED
  BY <1>1, <1>2, <1>3 DEF Dispatcher

(* Only SendObject moves an object, from a worker to the channel.          *)
LEMMA WorkersPlaces ==
  ASSUME DeliveryInv, NEW w \in Workers, Worker(w) \/ FetchDone(w)
  PROVE  OnePlace' /\ NoneLost'
<1> USE DEF DeliveryInv, IInv
<1>1. CASE SendObject(w)
  <2>1. PICK o \in Unsent : /\ objChan' = Append(objChan, o)
                            /\ Listed' = Listed /\ o \in Listed /\ Unsent' = Unsent \ {o}
    BY <1>1, SendPlaces
  <2>2. UNCHANGED <<batch, counted, coll>>
    BY <1>1 DEF SendObject, collectorVars
  <2>3. o \in Objects /\ o # Err /\ o \notin Sent
    BY ObjectsAssumption DEF Unsent, InHand, ToCome, OnePlace
  <2>4. /\ DOMAIN objChan' = DOMAIN objChan \cup {Len(objChan) + 1}
        /\ Len(objChan) + 1 \notin DOMAIN objChan
        /\ \A i \in DOMAIN objChan : objChan'[i] = objChan[i]
        /\ objChan'[Len(objChan) + 1] = o
    BY <2>1 DEF TypeOK
  <2>5. InChan' = InChan \cup {o}
    BY <2>3, <2>4 DEF InChan, Range
  <2>6. \A i, j \in DOMAIN objChan' :
          objChan'[i] = objChan'[j] /\ objChan'[i] # Err => i = j
    BY <2>3, <2>4 DEF Sent, InChan, Range, OnePlace
  <2>7. InBatch' = InBatch /\ Counted' = Counted /\ Sent' = Sent \cup {o}
    BY <2>2, <2>5 DEF InBatch, Counted, Sent
  <2>8. OnePlace'
    BY <2>1, <2>2, <2>3, <2>5, <2>6, <2>7 DEF OnePlace, CountedAtMostOnce, Sent
  <2>9. Spoilt => Spoilt'
    BY <1>1, SpoiltStays DEF Next, Worker
  <2>10. NoneLost'
    BY <2>1, <2>7, <2>9 DEF NoneLost
  <2> QED
    BY <2>8, <2>10
<1>2. CASE SendErr(w)
  <2>1. objChan' = Append(objChan, Err) /\ UNCHANGED collectorVars
    BY <1>2 DEF SendErr
  <2>2. \A i, j \in DOMAIN objChan' :
          objChan'[i] = objChan'[j] /\ objChan'[i] # Err => i = j
    BY <2>1 DEF OnePlace, TypeOK
  <2>3. ~SendObject(w)
    BY <1>2 DEF SendErr, SendObject
  <2> QED
    BY <1>2, <2>1, <2>2, <2>3, ErrAppended, WorkerPlaces, NothingMoves
       DEF Next, Worker, collectorVars
<1>3. CASE ~SendObject(w) /\ ~SendErr(w)
  <2>1. UNCHANGED <<objChan, collectorVars>>
    BY <1>3 DEF Worker, TakePrefix, WorkerExit, CheckCtx, Receive, ReceiveErr, PageDone,
         SendAbort, FetchDone
  <2>2. InChan' = InChan
    BY <2>1 DEF InChan
  <2> QED
    BY <1>3, <2>1, <2>2, WorkerPlaces, NothingMoves DEF Next, collectorVars, OnePlace
<1> QED
  BY <1>1, <1>2, <1>3

(* Flushing a batch that has the objects b counts them, whether or not they *)
(* can be stored.                                                          *)
LEMMA FlushPlaces ==
  ASSUME DeliveryInv, [Next]_vars, NEW b \in Seq(Objects), NEW then \in {"run", "ok"},
         Flush(b, then), coll = "run",
         Listed' = Listed, Unsent' = Unsent,
         \A i, j \in DOMAIN b : b[i] = b[j] => i = j,
         \A i, j \in DOMAIN objChan' : objChan'[i] = objChan'[j] /\ objChan'[i] # Err => i = j,
         InChan' \cup Range(b) = InChan \cup InBatch,
         InChan' \cap Range(b) = {}, InChan' \subseteq InChan, Range(b) \cap Counted = {}
  PROVE  OnePlace' /\ NoneLost' /\ CountedIsSaved'
<1> USE DEF DeliveryInv, IInv
<1>1. Counted' = Counted \cup Range(b) /\ CountedAtMostOnce'
  BY AggregateOnce DEF Flush, OnePlace
<1>2. CASE saved' = saved \cup Range(b) /\ batch' = <<>> /\ coll' = then
  <2>1. InBatch' = {}
    BY <1>2 DEF InBatch, Range
  <2>2. \A i, j \in DOMAIN batch' : batch'[i] = batch'[j] => i = j
    BY <1>2
  <2>3. Sent' = Sent
    BY <1>1, <2>1 DEF Sent
  <2>4. OnePlace'
    BY <1>1, <2>1, <2>2, <2>3 DEF OnePlace
  <2>5. NoneLost'
    BY <2>3, SpoiltStays DEF NoneLost
  <2>6. CountedIsSaved'
    BY <1>1, <1>2 DEF CountedIsSaved, Counted
  <2> QED
    BY <2>4, <2>5, <2>6
<1>3. CASE batch' = b /\ coll' = "err"
  <2>1. InBatch' = Range(b)
    BY <1>3 DEF InBatch
  <2>2. Sent' = Sent
    BY <1>1, <2>1 DEF Sent
  <2>3. OnePlace'
    BY <1>1, <1>3, <2>1, <2>2 DEF OnePlace
  <2>4. NoneLost'
    BY <2>2, SpoiltStays DEF NoneLost
  <2>5. CountedIsSaved'
    BY <1>3 DEF CountedIsSaved
  <2> QED
    BY <2>3, <2>4, <2>5
<1> QED
  BY <1>2, <1>3 DEF Flush

(* The collector moves the head of objChan to its batch, and the batch into *)
(* the counts.                                                             *)
LEMMA CollectorPlaces ==
  ASSUME DeliveryInv, Collector
  PROVE  OnePlace' /\ NoneLost' /\ CountedIsSaved'
<1> USE DEF DeliveryInv, IInv
<1>1. [Next]_vars /\ Listed' = Listed /\ Unsent' = Unsent
  <2>1. UNCHANGED <<prefixes, taken, workerVars>>
    BY DEF Collector, CollectObject, CollectErr, CollectClosed, CollectCtxDone,
         dispatcherVars
  <2> QED
    BY <2>1 DEF Next, workerVars, Listed, Unsent, InHand, ToCome, Coming, Pages
<1>2. CASE CollectObject
  <2> DEFINE o == Head(objChan)
             b == Append(batch, o)
  <2>1. /\ o \in InChan /\ InChan' = InChan \ {o}
        /\ \A i, j \in DOMAIN objChan' :
             objChan'[i] = objChan'[j] /\ objChan'[i] # Err => i = j
    BY <1>2, HeadReceived DEF CollectObject
  <2>2. o \in Objects /\ o \notin InBatch /\ o \notin Counted
    BY <2>1 DEF InChan, OnePlace
  <2>3. /\ b \in Seq(Objects) /\ DOMAIN b = DOMAIN batch \cup {Len(batch) + 1}
        /\ Len(batch) + 1 \notin DOMAIN batch
        /\ \A i \in DOMAIN batch : b[i] = batch[i]
        /\ b[Len(batch) + 1] = o
    BY <2>2 DEF TypeOK
  <2>4. Range(b) = InBatch \cup {o}
    BY <2>3 DEF InBatch, Range
  <2>5. \A i, j \in DOMAIN b : b[i] = b[j] => i = j
    BY <2>2, <2>3 DEF OnePlace, InBatch, Range
  <2>6. InBatch \cap Counted = {} /\ coll = "run"
    BY <1>2 DEF CollectObject, OnePlace
  <2>7. CASE Flush(b, "run")
    <3>1. /\ InChan' \cup Range(b) = InChan \cup InBatch
          /\ InChan' \cap Range(b) = {} /\ InChan' \subseteq InChan
          /\ Range(b) \cap Counted = {}
      BY <2>1, <2>2, <2>4, <2>6 DEF OnePlace
    <3> HIDE DEF b
    <3> QED
      BY <1>1, <2>1, <2>3, <2>5, <2>6, <2>7, <3>1, FlushPlaces
  <2>8. CASE batch' = b /\ UNCHANGED <<counted, saved, coll>>
    <3>1. InBatch' = InBatch \cup {o} /\ Counted' = Counted /\ Sent' = Sent
      BY <2>1, <2>4, <2>8 DEF InBatch, Counted, Sent
    <3>2. OnePlace'
      BY <1>1, <2>1, <2>2, <2>5, <2>8, <3>1 DEF OnePlace, CountedAtMostOnce
    <3>3. NoneLost'
      BY <1>1, <3>1, SpoiltStays DEF NoneLost
    <3>4. CountedIsSaved'
      BY <2>8 DEF CountedIsSaved
    <3> QED
      BY <3>2, <3>3, <3>4
  <2> QED
    BY <1>2, <2>7, <2>8 DEF CollectObject
<1>3. CASE CollectErr
  <2>1. /\ InChan' = InChan
        /\ \A i, j \in DOMAIN objChan' :
             objChan'[i] = objChan'[j] /\ objChan'[i] # Err => i = j
    BY <1>3, HeadReceived DEF CollectErr
  <2>2. UNCHANGED <<batch, counted>> /\ coll' = "err"
    BY <1>3 DEF CollectErr
  <2> QED
    BY <1>1, <2>1, <2>2, NothingMoves DEF CountedIsSaved
<1>4. CASE CollectClosed
  <2>1. Flush(batch, "ok") /\ coll = "run" /\ UNCHANGED objChan /\ batch \in Seq(Objects)
    BY <1>4 DEF CollectClosed, TypeOK
  <2>2. /\ InChan' = InChan /\ InBatch = Range(batch)
        /\ InChan' \cap Range(batch) = {} /\ Range(batch) \cap Counted = {}
    BY <2>1 DEF InChan, InBatch, OnePlace
  <2> QED
    BY <1>1, <2>1, <2>2, FlushPlaces DEF OnePlace
<1>5. CASE CollectCtxDone
  <2>1. UNCHANGED <<objChan, batch, counted>> /\ coll' = "err" /\ InChan' = InChan
    BY <1>5 DEF CollectCtxDone, InChan
  <2> QED
    BY <1>1, <2>1, NothingMoves DEF OnePlace, CountedIsSaved
<1> QED
  BY <1>2, <1>3, <1>4, <1>5 DEF Collector

(* Every object stays in one place, and none gets lost.                    *)
LEMMA PlacesInv ==
  ASSUME DeliveryInv, [Next]_vars
  PROVE  OnePlace' /\ NoneLost' /\ CountedIsSaved'
<1>1. CASE Dispatcher \/ \E w \in Workers : Worker(w) \/ FetchDone(w)
  <2>1. UNCHANGED <<counted, saved, coll>>
    BY <1>1 DEF Dispatcher, DiscoverPrefixes, SendPrefix, DispatchAbort, DispatchSendErr,
         ClosePrefixes, Worker, TakePrefix, WorkerExit, CheckCtx, Receive, ReceiveErr,
         SendObject, PageDone, SendErr, SendAbort, FetchDone, collectorVars
  <2>2. CountedIsSaved'
    BY <2>1 DEF DeliveryInv, CountedIsSaved
  <2> QED
    BY <1>1, <2>2, DispatcherPlaces, WorkersPlaces
<1>2. CASE Collector
  BY <1>2, CollectorPlaces
<1>3. CASE Deadline \/ Main \/ UNCHANGED vars
  <2>1. UNCHANGED <<dispatcherVars, taken, workerVars, objChan, collectorVars>>
    BY <1>3 DEF Deadline, Main, CloseObjects, Join, vars
  <2>2. Listed' = Listed /\ Unsent' = Unsent /\ InChan' = InChan
    BY <2>1 DEF dispatcherVars, workerVars, Listed, Unsent, InHand, ToCome, Coming, Pages,
         InChan
  <2>3. OnePlace' /\ NoneLost'
    BY <2>1, <2>2, NothingMoves DEF DeliveryInv, OnePlace, collectorVars
  <2>4. CountedIsSaved'
    BY <2>1 DEF DeliveryInv, CountedIsSaved, collectorVars
  <2> QED
    BY <2>3, <2>4
<1> QED
  BY <1>1, <1>2, <1>3 DEF Next


-----------------------------------------------------------------------------
(* Until the prefixes are discovered nothing moves, ...                    *)
LEMMA DispatchedInv ==
  ASSUME DeliveryInv, [Next]_vars
  PROVE  Dispatched'
<1> USE DEF DeliveryInv, IInv
<1>1. ASSUME disp' = "discover"
      PROVE  prefixes' = <<>> /\ Sent' = {}
  <2>1. disp = "discover" /\ prefixes' = prefixes
    BY <1>1 DEF Next, vars, Deadline, Dispatcher, DiscoverPrefixes, SendPrefix,
         DispatchAbort, DispatchSendErr, ClosePrefixes, Worker, TakePrefix, WorkerExit,
         CheckCtx, Receive, ReceiveErr, SendObject, PageDone, SendErr, SendAbort, FetchDone,
         Collector, CollectObject, CollectErr, CollectClosed, CollectCtxDone, Main,
         CloseObjects, Join, dispatcherVars
  <2>2. prefixes = <<>> /\ InChan = {} /\ InBatch = {} /\ Counted = {}
    BY <2>1 DEF Dispatched, Sent
  <2>3. taken = 0
    BY <2>1 DEF FetchInRange, TypeOK
  <2>4. \A w \in Workers : ~SendObject(w) /\ ~SendErr(w)
    BY <2>3 DEF AtWork, SendObject, SendErr, TypeOK
  <2>5. ~CollectObject
    <3> SUFFICES ASSUME objChan # <<>>, Head(objChan) # Err PROVE FALSE
      BY DEF CollectObject
    <3>1. Head(objChan) \in Objects /\ Head(objChan) \in Range(objChan)
      BY DEF TypeOK, Range
    <3> QED
      BY <2>2, <3>1 DEF InChan
  <2>6. ~CollectClosed
    BY <2>1, WorkersAssumption DEF CollectClosed, ClosingOrder
  <2>7. UNCHANGED <<batch, counted>> /\ (UNCHANGED objChan \/ CollectErr)
    BY <2>1, <2>4, <2>5, <2>6 DEF Next, vars, Deadline, Dispatcher, DiscoverPrefixes,
         SendPrefix, DispatchAbort, DispatchSendErr, ClosePrefixes, Worker, TakePrefix,
         WorkerExit, CheckCtx, Receive, ReceiveErr, PageDone, SendAbort, FetchDone,
         Collector, CollectErr, CollectCtxDone, Main, CloseObjects, Join, collectorVars
  <2>8. InChan' = InChan
    <3>1. CASE UNCHANGED objChan
      BY <3>1 DEF InChan
    <3>2. CASE CollectErr
      BY <3>2, HeadReceived DEF CollectErr
    <3> QED
      BY <2>7, <3>1, <3>2
  <2> QED
    BY <2>1, <2>2, <2>7, <2>8 DEF Sent, InBatch, Counted
<1>2. CASE DiscoverPrefixes
  BY <1>1, <1>2 DEF DiscoverPrefixes, Dispatched
<1>3. CASE SendPrefix \/ DispatchAbort \/ DispatchSendErr \/ ClosePrefixes
  <2>1. /\ disp # "discover" /\ disp' # "discover" /\ prefixes' = prefixes
        /\ ctxDone' = ctxDone
    BY <1>3 DEF SendPrefix, DispatchAbort, DispatchSendErr, ClosePrefixes
  <2>2. disp' \in {"closing", "done"} => ctxDone \/ sent' = Len(prefixes)
    BY <1>3 DEF SendPrefix, DispatchAbort, DispatchSendErr, ClosePrefixes, Dispatched, Caused
  <2> QED
    BY <2>1, <2>2 DEF Dispatched
<1>4. CASE ~Dispatcher
  <2>1. UNCHANGED <<disp, prefixes, sent>> /\ (ctxDone => ctxDone')
    BY <1>4 DEF Next, vars, Deadline, Worker, TakePrefix, WorkerExit,
         CheckCtx, Receive, ReceiveErr, SendObject, PageDone, SendErr, SendAbort, FetchDone,
         Collector, CollectObject, CollectErr, CollectClosed, CollectCtxDone, Main,
         CloseObjects, Join, dispatcherVars
  <2> QED
    BY <1>1, <2>1 DEF Dispatched
<1> QED
  BY <1>2, <1>3, <1>4 DEF Dispatcher

(* ... and a worker has its own prefix from its TakePrefix to its Return.  *)
LEMMA WorkerAtWork ==
  ASSUME DeliveryInv, NEW w \in Workers, Worker(w) \/ FetchDone(w)
  PROVE  AtWork'
<1> USE DEF DeliveryInv, IInv
<1>1. CASE TakePrefix(w)
  BY <1>1, AtWorkFacts, SMTT(40) DEF TakePrefix, TypeOK, AtWork, PageInHand, Pages, dispatcherVars
<1>2. CASE Receive(w)
  <2>1. /\ held[w] \in 1..taken /\ page[w] \in DOMAIN Pages(held[w]) /\ page[w] \in Nat
        /\ UNCHANGED <<prefixes, taken, held>>
    BY <1>2, AtWorkFacts DEF Receive, dispatcherVars
  <2>2. /\ wpc'[w] = "send" /\ todo'[w] = Pages(held[w])[page[w]]
        /\ next'[w] = "none" => page'[w] = page[w]
        /\ next'[w] # "none" => page'[w] = page[w] + 1
    BY <1>2 DEF Receive, TypeOK
  <2>3. \A v \in Workers \ {w} : /\ wpc'[v] = wpc[v] /\ todo'[v] = todo[v]
                                 /\ next'[v] = next[v] /\ page'[v] = page[v]
    BY <1>2 DEF Receive, TypeOK
  <2>4. PageInHand(w)' = page[w]
    BY <2>1, <2>2 DEF PageInHand
  <2>5. \A v \in Workers \ {w} : PageInHand(v)' = PageInHand(v)
    BY <2>3 DEF PageInHand
  <2> QED
    BY <2>1, <2>2, <2>3, <2>4, <2>5 DEF AtWork, Pages
<1>3. CASE Return(w) /\ UNCHANGED <<prefixes, taken>>
  BY <1>3, ReturnType DEF AtWork, PageInHand, Pages
<1>4. CASE SendObject(w)
  BY <1>4 DEF SendObject, TypeOK, AtWork, PageInHand, Pages, dispatcherVars
<1>5. CASE WorkerExit(w) \/ ReceiveErr(w) \/ (CheckCtx(w) /\ ~ctxDone)
             \/ (PageDone(w) /\ next[w] # "none") \/ FetchDone(w)
  <2>1. /\ UNCHANGED <<prefixes, taken, held, page, todo>>
        /\ \A v \in Workers : next'[v] = "none" <=> next[v] = "none"
        /\ \A v \in Workers \ {w} : wpc'[v] = wpc[v]
    BY <1>5 DEF WorkerExit, ReceiveErr, CheckCtx, PageDone, FetchDone, dispatcherVars, TypeOK
  <2>2. /\ wpc'[w] \in {"idle", "done"} <=> wpc[w] \in {"idle", "done"}
        /\ wpc'[w] \in {"check", "recv", "sendErr"} => next[w] # "none" /\ todo[w] = {}
        /\ wpc'[w] = "send" => wpc[w] = "send"
    BY <1>5 DEF WorkerExit, ReceiveErr, CheckCtx, PageDone, FetchDone, AtWork, TypeOK
  <2> QED
    BY <2>1, <2>2 DEF AtWork, PageInHand, Pages
<1> QED
  BY <1>1, <1>2, <1>3, <1>4, <1>5 DEF Worker, CheckCtx, PageDone, SendErr, SendAbort,
       dispatcherVars

(* Nobody else touches what the workers hold, and discovery comes before.  *)
LEMMA AtWorkInv ==
  ASSUME DeliveryInv, [Next]_vars
  PROVE  AtWork'
<1>1. CASE \E w \in Workers : Worker(w) \/ FetchDone(w)
  BY <1>1, WorkerAtWork
<1>2. CASE DiscoverPrefixes
  <2>1. \A w \in Workers : wpc[w] \in {"idle", "done"}
    BY <1>2 DEF DeliveryInv, IInv, AtWork, FetchInRange, TypeOK, DiscoverPrefixes
  <2> QED
    BY <1>2, <2>1 DEF DeliveryInv, AtWork, DiscoverPrefixes, workerVars
<1>3. CASE ~DiscoverPrefixes /\ (Dispatcher \/ Collector \/ Deadline \/ Main \/ UNCHANGED vars)
  <2>1. UNCHANGED <<prefixes, taken, workerVars>>
    BY <1>3 DEF Dispatcher, SendPrefix, DispatchAbort, DispatchSendErr, ClosePrefixes,
         Collector, CollectObject, CollectErr, CollectClosed, CollectCtxDone, Deadline, Main,
         CloseObjects, Join, vars, dispatcherVars
  <2> QED
    BY <2>1 DEF DeliveryInv, AtWork, PageInHand, Pages, workerVars
<1> QED
  BY <1>1, <1>2, <1>3 DEF Next

(* The collector's result is what runFullScan returns.                     *)
LEMMA OutcomeInv ==
  ASSUME DeliveryInv, [Next]_vars
  PROVE  Outcome'
<1> USE DEF DeliveryInv, IInv, TypeOK, Outcome
<1>1. CASE Collector
  BY <1>1 DEF Collector, CollectObject, CollectErr, CollectClosed, CollectCtxDone, Flush
<1>2. CASE Dispatcher
  <2>1. disp # "done" /\ UNCHANGED <<collectorVars, main>>
    BY <1>2 DEF Dispatcher, DiscoverPrefixes, SendPrefix, DispatchAbort, DispatchSendErr,
         ClosePrefixes
  <2>2. coll # "ok"
    BY <2>1, WorkersAssumption DEF ClosingOrder
  <2> QED
    BY <2>1, <2>2 DEF collectorVars
<1>3. CASE \E w \in Workers : Worker(w) \/ FetchDone(w)
  BY <1>3 DEF ClosingOrder, Worker, TakePrefix, WorkerExit, CheckCtx, Receive, ReceiveErr,
       SendObject, PageDone, SendErr, SendAbort, FetchDone, collectorVars
<1>4. CASE Deadline \/ Main \/ UNCHANGED vars
  BY <1>4 DEF Deadline, Main, CloseObjects, Join, vars, collectorVars
<1> QED
  BY <1>1, <1>2, <1>3, <1>4 DEF Next

(* Nothing but a fault or the deadline makes an error.                     *)
LEMMA CausedInv ==
  ASSUME DeliveryInv, [Next]_vars
  PROVE  Caused'
<1> USE DEF DeliveryInv, IInv
<1>1. Excused => Excused'
  BY DEF Excused, Next, vars, Deadline, Dispatcher, DiscoverPrefixes, SendPrefix,
       DispatchAbort, DispatchSendErr, ClosePrefixes, Worker, TakePrefix, WorkerExit,
       CheckCtx, Receive, ReceiveErr, SendObject, PageDone, SendErr, SendAbort, FetchDone,
       Collector, CollectObject, CollectErr, CollectClosed, CollectCtxDone, Main,
       CloseObjects, Join
<1>2. ASSUME Err \in Range(objChan'), Err \notin Range(objChan)
      PROVE  Excused
  <2>1. \/ DispatchSendErr
        \/ \E w \in Workers : SendErr(w) \/ SendObject(w)
        \/ objChan # <<>> /\ objChan' = Tail(objChan)
    BY <1>2 DEF Next, vars, Deadline, Dispatcher, DiscoverPrefixes, SendPrefix,
         DispatchAbort, ClosePrefixes, Worker, TakePrefix, WorkerExit, CheckCtx, Receive,
         ReceiveErr, PageDone, SendAbort, FetchDone, Collector, CollectObject, CollectErr,
         CollectClosed, CollectCtxDone, Main, CloseObjects, Join
  <2>2. CASE DispatchSendErr \/ \E w \in Workers : SendErr(w)
    BY <2>2 DEF DispatchSendErr, SendErr, Caused, Excused
  <2>3. ASSUME NEW o \in Objects, objChan' = Append(objChan, o)
        PROVE  FALSE
    <3>1. \A i \in DOMAIN objChan' : objChan'[i] = o \/ (i \in DOMAIN objChan /\ objChan'[i] = objChan[i])
      BY <2>3 DEF TypeOK
    <3> QED
      BY <1>2, <3>1, ObjectsAssumption DEF Range
  <2>4. CASE \E w \in Workers : SendObject(w)
    BY <2>3, <2>4 DEF SendObject, TypeOK
  <2>5. CASE objChan # <<>> /\ objChan' = Tail(objChan)
    <3>1. \A i \in DOMAIN objChan' : i + 1 \in DOMAIN objChan /\ objChan'[i] = objChan[i + 1]
      BY <2>5 DEF TypeOK
    <3> QED
      BY <1>2, <3>1 DEF Range
  <2> QED
    BY <2>1, <2>2, <2>4, <2>5
<1>3. coll' = "err" => Excused \/ Excused'
  <2>1. CASE coll = "err"
    BY <2>1 DEF Caused
  <2>2. CASE CollectErr
    <3>1. Head(objChan) \in Range(objChan)
      BY <2>2 DEF CollectErr, TypeOK, Range
    <3> QED
      BY <2>2, <3>1 DEF CollectErr, Caused
  <2>3. CASE coll # "err" /\ ~CollectErr
    BY <2>3 DEF Excused, TypeOK, Next, vars, Deadline, Dispatcher, DiscoverPrefixes,
         SendPrefix, DispatchAbort, DispatchSendErr, ClosePrefixes, Worker, TakePrefix,
         WorkerExit, CheckCtx, Receive, ReceiveErr, SendObject, PageDone, SendErr, SendAbort,
         FetchDone, Collector, CollectObject, CollectClosed, CollectCtxDone, Flush, Main,
         CloseObjects, Join, collectorVars
  <2> QED
    BY <2>1, <2>2, <2>3
<1>4. \A w \in Workers : next'[w] = "err" \/ wpc'[w] = "sendErr" => Excused
  <2>1. CASE \E w \in Workers : Worker(w) \/ FetchDone(w)
    BY <2>1 DEF Caused, Excused, TypeOK, WorkerStates, Worker, TakePrefix, WorkerExit,
         CheckCtx, Receive, ReceiveErr, SendObject, PageDone, SendErr, SendAbort, Return,
         FetchDone
  <2>2. CASE UNCHANGED workerVars
    BY <2>2 DEF Caused, workerVars
  <2> QED
    BY <2>1, <2>2 DEF Next, vars, Deadline, Dispatcher, DiscoverPrefixes, SendPrefix,
         DispatchAbort, DispatchSendErr, ClosePrefixes, Collector, CollectObject, CollectErr,
         CollectClosed, CollectCtxDone, Main, CloseObjects, Join
<1>5. /\ disp' = "sendErr" => ctxDone'
      /\ ctxDone' => "deadline" \in Faults
      /\ disp' # "discover" /\ prefixes' # Discovered => "discovery" \in Faults \/ ctxDone'
  BY DEF Caused, TypeOK, Next, vars, Deadline, Dispatcher, DiscoverPrefixes, SendPrefix,
       DispatchAbort, DispatchSendErr, ClosePrefixes, Worker, TakePrefix, WorkerExit,
       CheckCtx, Receive, ReceiveErr, SendObject, PageDone, SendErr, SendAbort, FetchDone,
       Collector, CollectObject, CollectErr, CollectClosed, CollectCtxDone, Main,
       CloseObjects, Join, dispatcherVars
<1> QED
  BY <1>1, <1>2, <1>3, <1>4, <1>5 DEF Caused

-----------------------------------------------------------------------------
(* The invariant is inductive: it holds initially, and every step          *)
(* preserves it.                                                           *)
LEMMA InitDeliveryInv == Init => DeliveryInv
<1> SUFFICES ASSUME Init PROVE DeliveryInv
  OBVIOUS
<1>1. Listed = {} /\ Unsent = {}
  BY DEF Init, Listed, Unsent, InHand, ToCome
<1>2. InChan = {} /\ InBatch = {} /\ Counted = {} /\ Sent = {}
  BY DEF Init, InChan, InBatch, Counted, Sent, Range
<1>3. OnePlace /\ NoneLost
  BY <1>1, <1>2 DEF Init, OnePlace, NoneLost, CountedAtMostOnce
<1>4. Dispatched /\ AtWork /\ Outcome /\ CountedIsSaved
  BY <1>2 DEF Init, Dispatched, AtWork, Outcome, CountedIsSaved
<1>5. Caused
  BY DEF Init, Caused, Range
<1> QED
  BY <1>3, <1>4, <1>5, InitIInv DEF DeliveryInv

(* One lemma per group of its parts.                                       *)
LEMMA NextDeliveryInv ==
  ASSUME DeliveryInv, [Next]_vars
  PROVE  DeliveryInv'
BY NextIInv, PlacesInv, DispatchedInv, AtWorkInv, OutcomeInv, CausedInv DEF DeliveryInv

(* Every object is in one place in every reachable state, and is lost only *)
(* to an error that the collector will see, or to the deadline.            *)
THEOREM Delivery == Spec => []DeliveryInv
BY InitDeliveryInv, NextDeliveryInv, PTL DEF Spec

(* The aggregator is given no object twice: what is in a worker's hands or *)
(* on a page to come was not sent, and what was sent is in one place.      *)
THEOREM NoDoubleCount == Spec => []CountedAtMostOnce
<1>1. DeliveryInv => CountedAtMostOnce
  BY DEF DeliveryInv, OnePlace
<1> QED
  BY <1>1, Delivery, PTL

(* The report counts what the object index holds, up to a failed save.     *)
THEOREM CountsAreStored == Spec => []CountedIsSaved
<1>1. DeliveryInv => CountedIsSaved
  BY DEF DeliveryInv
<1> QED
  BY <1>1, Delivery, PTL

(* When the collector has returned nil in time, no object is on its way    *)
(* any more, and none was lost.                                            *)
LEMMA AllCounted ==
  ASSUME DeliveryInv, coll = "ok"
  PROVE  /\ disp = "done" /\ Counted \subseteq Listed
         /\ ~ctxDone => Counted = Listed
<1> USE DEF DeliveryInv, IInv
<1>1. objChan = <<>> /\ batch = <<>> /\ objClosed
  BY DEF Outcome
<1>2. \A w \in Workers : wpc[w] = "done"
  BY <1>1 DEF ClosingOrder
<1>3. disp = "done" /\ taken = sent
  BY <1>2, WorkersAssumption DEF ClosingOrder
<1>4. InChan = {} /\ InBatch = {}
  BY <1>1 DEF InChan, InBatch, Range
<1>5. ASSUME ~ctxDone
      PROVE  Listed \subseteq Counted
  <2>1. taken = Len(prefixes)
    BY <1>3, <1>5 DEF Dispatched
  <2>2. InHand = {}
    BY <1>2 DEF AtWork, InHand
  <2>3. \A i \in DOMAIN prefixes : \A m : ~Coming(i, m)
    BY <1>2, <2>1 DEF AtWork, Coming, TypeOK
  <2>4. Unsent = {}
    BY <2>2, <2>3 DEF Unsent, ToCome
  <2>5. ~Spoilt
    BY <1>1, <1>2, <1>5 DEF Spoilt, Range
  <2> QED
    BY <1>4, <2>4, <2>5 DEF NoneLost, Sent
<1> QED
  BY <1>3, <1>5 DEF NoneLost, Sent

(* A scan that completes before its deadline has counted and stored every  *)
(* object of every prefix of the dispatcher, once.                         *)
THEOREM CompleteInTime == Spec => []SuccessIsComplete
<1>1. DeliveryInv => SuccessIsComplete
  <2> SUFFICES ASSUME DeliveryInv, main = "ok", ~ctxDone PROVE SuccessIsComplete
    BY DEF SuccessIsComplete
  <2>1. disp = "done" /\ Counted = Listed
    BY AllCounted DEF DeliveryInv, Outcome
  <2>2. prefixes \in {Discovered, <<Root>>}
    BY <2>1 DEF DeliveryInv, Dispatched
  <2>3. prefixes # <<>>
    BY <2>2 DEF Discovered
  <2>4. \A o \in Listed : counted[o] = 1 /\ o \in saved
    BY <2>1 DEF Counted, DeliveryInv, Outcome, OnePlace, CountedAtMostOnce, CountedIsSaved,
         IInv, TypeOK
  <2>5. \A i \in DOMAIN prefixes : \A m \in DOMAIN Pages(i) : Pages(i)[m] \subseteq Listed
    <3>1. prefixes \in Seq(Prefixes)
      BY DEF DeliveryInv, IInv, TypeOK
    <3>2. \A i \in DOMAIN prefixes : \A m \in DOMAIN Pages(i) : Pages(i)[m] \subseteq Objects
      BY <3>1, PagesType
    <3> QED
      BY <3>2 DEF Listed
  <2> QED
    BY <2>3, <2>4, <2>5 DEF SuccessIsComplete
<1> QED
  BY <1>1, Delivery, PTL

-----------------------------------------------------------------------------
(* The refinement of ScanContract: what is listed is what the contract     *)
(* calls a complete listing, ...                                           *)
LEMMA ListedIsComplete ==
  ASSUME DeliveryInv, disp # "discover"
  PROVE  Listed \in {ListedUnder(Discovered)} \cup
           (IF Faults \cap {"discovery", "deadline"} = {} THEN {} ELSE {ListedUnder(<<Root>>)})
<1> USE DEF DeliveryInv, IInv
<1>1. prefixes \in Seq(Prefixes)
  BY DEF TypeOK
<1>2. \A i \in DOMAIN prefixes : \A m \in DOMAIN Pages(i) : Pages(i)[m] \subseteq Objects
  BY <1>1, PagesType
<1>3. Listed = ListedUnder(prefixes)
  BY <1>1, <1>2 DEF Listed, ListedUnder, Range, Pages
<1>4. prefixes = Discovered \/ (prefixes = <<Root>> /\ Faults \cap {"discovery", "deadline"} # {})
  BY DEF Dispatched, Caused
<1> QED
  BY <1>3, <1>4

(* ... and every step of the pipeline is a step of the contract, or none.  *)
LEMMA ContractStep ==
  ASSUME DeliveryInv, [Next]_vars
  PROVE  [Contract!Next]_(Contract!vars)
<1> USE DEF DeliveryInv, IInv
<1>1. CASE Deadline
  BY <1>1 DEF Deadline, Contract!Next, Contract!Expire, Contract!vars, collectorVars, Caused
<1>2. CASE Join /\ coll = "ok"
  <2>1. main = "join" /\ main' = "ok" /\ UNCHANGED <<counted, ctxDone>>
    BY <1>2 DEF Join, collectorVars
  <2>2. disp # "discover" /\ Counted \subseteq Listed /\ (~ctxDone => Counted = Listed)
    BY <1>2, AllCounted
  <2>3. Contract!Succeed
    BY <2>1, <2>2, ListedIsComplete DEF Contract!Succeed, Counted
  <2> QED
    BY <2>3 DEF Contract!Next
<1>3. CASE Join /\ coll # "ok"
  <2>1. main = "join" /\ main' = "failed" /\ coll = "err" /\ UNCHANGED ctxDone
    BY <1>3 DEF Join, TypeOK
  <2>2. Contract!Fail
    BY <2>1 DEF Contract!Fail, Caused, Excused
  <2> QED
    BY <2>2 DEF Contract!Next
<1>4. CASE ~Deadline /\ ~Join
  <2>1. /\ ctxDone' = ctxDone
        /\ main' = main \/ {main, main'} = {"wait", "join"}
        /\ counted' = counted \/ Collector
    BY <1>4 DEF Next, vars, Dispatcher, DiscoverPrefixes, SendPrefix,
         DispatchAbort, DispatchSendErr, ClosePrefixes, Worker, TakePrefix, WorkerExit,
         CheckCtx, Receive, ReceiveErr, SendObject, PageDone, SendErr, SendAbort, FetchDone,
         Collector, CollectObject, CollectErr, CollectClosed, CollectCtxDone, Main,
         CloseObjects, collectorVars
  <2>2. Collector => main # "ok"
    BY DEF Outcome, Collector, CollectObject, CollectErr, CollectClosed, CollectCtxDone
  <2>3. UNCHANGED Contract!vars
    BY <2>1, <2>2 DEF Contract!vars
  <2> QED
    BY <2>3
<1> QED
  BY <1>1, <1>2, <1>3, <1>4

(* The pipeline implements ScanContract.                                   *)
THEOREM PipelineImplementsContract == Spec => ImplementsContract
<1>1. Init => Contract!Init
  BY DEF Init, Contract!Init
<1>2. DeliveryInv /\ [Next]_vars => [Contract!Next]_(Contract!vars)
  BY ContractStep
<1> QED
  BY <1>1, <1>2, Delivery, PTL DEF Spec, ImplementsContract, Contract!Spec
=============================================================================
