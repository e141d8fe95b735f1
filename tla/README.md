# S3lytics in TLA+

This directory specifies the parts of S3lytics in which order, failure and
concurrency matter, checks them with TLC on small instances, and proves some of
the results with TLAPS for every instance. Paths below are relative to `src/`;
`PROJECT.json` maps each definition to the lines it models.

## The system

S3lytics is one Go process: a web server that signs a user in at the storage
provider, obtains S3 keys for the user's projects, scans buckets in the
background, and shows reports. All its data is in one embedded Badger database.

| Component | State | Operations | Modelled in |
|---|---|---|---|
| Scan pipeline, `internal/scan/engine.go` 112-293, 343-394 | context, two channels, goroutines, batch, aggregator | discover, list a prefix page by page, collect, flush | `ScanPipeline`, `ScanContract` |
| Scan engine, `engine.go` 43-103, 295-341, 396-528, 592-645; scan handlers, `handlers.go` 398-540 | `client`, `running`, `progress`; records, results and bucket index in the store | start, save, fail, poll, delete | `ScanEngine` |
| Counts and tickers of a scan, `engine.go` 209-293, 431-470 | the progress record, the counter of each scan, its ticker goroutine | count, flush, tick, complete, fail | `ScanProgress` |
| Pages that show scans, `handlers.go` 505-632 | the page being built | list, read totals, open a report, compare | `HistoryPages` |
| Object index and deltas, `store.go` 301-386, `engine.go` 523-552, 647-671 | stored objects, the baseline of an incremental scan | save, list, look up, compare | `ObjectIndex` |
| Login and S3 keys, `handlers.go` 80-346, `internal/auth`, `store.go` 151-286 | refresh cookie, session, account, cached credentials, bucket lists, S3 clients | sign in, reconcile keys, make clients, log out, restore | `LoginFlow` |
| Store, `internal/store` | the Badger key space | get, save, list and delete by prefix | steps of its callers |
| Stats aggregator, `internal/scan/stats.go` | counters, maps, sizes | add an object, build figures and breakdowns | `ScanStats` |
| Process, `cmd/s3lytics/main.go` | | start, signal, shutdown, kill, restart | `ScanEngine`, `LoginFlow` |
| Deep scan and virus scan, `internal/scan/deep` | a goroutine per analyzer, the shared result | `RunAll` and nine analyzers | `DeepScan`, `DeepAnalyzers` |
| Settings, `handlers.go` 634-752 | the engine's configuration | show, save | not modelled but for the stored row (`HistoryPages`) |
| S3 client, `internal/s3` | | list, head, get | its answers are inputs of `ScanPipeline` and `DeepScan` |
| Rendering, templates, `cmd/debug` | none shared | | not modelled |

How they interact. A handler swaps the engine's S3 client and calls
`StartFullScan`; the engine reserves the bucket, stores a record and starts a
goroutine, which starts the pipeline's dispatcher, workers and collector. The
collector feeds the aggregator and the object index. When the pipeline has
ended the goroutine stores result, record and index and announces the end in the
progress record, which the browser polls. The history, report and comparison
pages read records and results, each read a transaction of its own. Login writes session, account,
credentials and bucket lists, and fills the handler's table of clients; after a
restart the table is rebuilt from the store.

Hard behaviours. Goroutines over two bounded channels with a deadline; errors
sent on a channel nobody may read; several store transactions per operation,
with a kill or an error between any two; one progress record and one client
shared by scans of different buckets; deletion of a scan that is running;
requests to the provider that fail after they took effect; a refresh cookie that
any answer may replace; two logins at once; an object index that only grows;
ticker goroutines that write late; pages built from several reads while scans
and deletions go on; analyzers that go on after an error, and others that do not.

What makes each part correct. Pipeline: no send on a closed channel, nothing
lost or counted twice in a scan that completes, no deadlock. Engine: a bucket is
reserved exactly while a scan holds it, and record, result, index and progress
agree at every step. Counts: what is shown was reached, and a report is exact for what was
listed. Pages: what is read in pieces fits together. Index: a completed scan's listing is stored, and a delta
is what changed since the scan before. Login: a cached key exists at the
provider, keys do not pile up, the stored cookie is the latest, and a listed
bucket has a client. Deep scan: a report is exact, absent, or true as far as it
goes, and all goroutines are waited for.

## Modules

**ScanPipeline** has one process per goroutine. Its variables are the
goroutines' program counters, the two channels (`sent`, `taken` and `prefixClosed`
stand for `prefixChan`, `objChan` is a sequence), each worker's prefix, page,
fetch in flight and unsent objects, and the collector's batch, counts and saved
objects. `FetchDone` is the goroutine that fetches one page ahead.
An object is an opaque value; the listing of each prefix, page by page, is a
constant, and assumptions say what S3 guarantees about it.
Full and incremental scans run the same pipeline.

**ScanContract** is what a scan promises its caller: running until it fails or
completes; a report that is a complete listing unless the deadline has passed;
failure only from a fault or the deadline. `ImplementsContract` is the refinement.

**ScanEngine** has one actor per start request, which becomes the scan it
starts, one per `DeleteScan`, and the process itself. Every store transaction and
every critical section of the engine's mutex is one step. The pipeline is
abstracted to its outcome, which is what `ScanContract` says of it.

**ScanStats** has the aggregator of `stats.go` as operators without state. A key is
reduced to what the code takes from it (its first segment and its extension),
an age to hours, a fraction to the hundredths the code rounds it to.

**ScanProgress** extends it with what happens to the counts of scans that run at
the same time: each has a collector, which feeds its aggregator batch by batch,
and a ticker goroutine, which reads the counter in one step and writes it into
the engine's one progress record in another. `pc` says how far a scan's goroutine
is, `phase` how its channel ended, `result` what the store has (a function on the scans that have one), `loaded` what its ticker has read. The history
variable `mixed` is true while the record holds a count that another scan, or a
ticker after the end, has written. A stopped ticker delivers no tick any more
(go.mod asks for Go 1.26), so a tick is received only while the collector runs; the
write may come at any later time.

**HistoryPages** extends `ScanEngine` with one browser. Its steps are the
transactions of `GetHistory`, `GetScanReport` and `GetComparison`, and every step
of `ScanEngine` may fall between any two of them (`EngineStep`). The variable `page`
is the page being built or shown, `broken` the deletions that failed or were cut
off.

**ObjectIndex** interleaves users who add, replace and remove objects with scans
that store them. ETags are numbers in the byte order of the database, because
`GetObject` returns the first entry of an iteration. An incremental scan may be unable to
read any part of its baseline: `missed`, and `unread` after its end, are those keys.

**LoginFlow** has a program counter per login request, and logout, kill, restart
and the provider's console as other actors. Every request and every transaction
is one step. Any answer, an error too, may set a new refresh cookie, and that of a signin
that succeeds does (nothing in the code asks for it, but a login needs a cookie). Of a copy of
the cookie, the stored one (`session`) or the one a login is about to store (`seen`), it records
only whether it is the "latest" the program has received or an "old" one, and a restart goes on
with the stored one, whichever it is. An account has a "gateway" or is "bare". The history
variables `slips`, `mishaps` and `adrift` record the faults that excuse a property, so each
property says exactly what may break it: `adrift` is true from a cookie that came with a request
after which nothing saves it, or a failure or a kill before a save, until a session is saved.

**DeepAnalyzers** has what each analyzer of `internal/scan/deep` makes of one object,
and its report at the end. **DeepScan** runs them: `RunAll` spawns the enabled ones
in the order of the code, each lists the bucket by pages of its own, publishes its
field or logs its error, and counts down the wait group. `ListPage` is one step
with what the analyzer asks of S3 or clamd about the page's objects; `fails` is the
set of keys for which that fails.

The names of actions are those of the functions they model where there is one.
Definitions marked *seeded bug* are variants of a function with a plausible
mistake. They are not part of the specifications: put in place of the
function, each makes the property it is paired with in `PROJECT.json` fail.

## Runs

| Run | Instance | Shows |
|---|---|---|
| `pipeline_safety` | 2 workers, 3 prefixes, pages `{o1,o2} {} {o3}`, `{o4}`, `{}`, channel of 2, batches of 2, all faults | types; nothing is sent on a closed channel; nothing is counted twice, or counted and not stored; a scan that completes in time is complete; the contract is implemented; without page errors, store errors or a deadline a scan completes, whatever the channel holds; with them, the dispatcher's plain send is the only thing that can keep a scan from ending |
| `pipeline_hang` | the same with a channel of 1, page errors and the deadline | **violation**: a scan may never end |
| `pipeline_mixed` | an object at the root beside two prefixes, no faults | **violation**: a full scan misses it |
| `engine_safety` | 3 scans, 2 buckets of a project, one deletion, page and store errors, kills | reservations, records, results, index and progress agree at every step |
| `engine_ends` | 2 scans, signal and restart, no store errors | an ended scan has its outcome in the store; a reserved bucket becomes free, unless the pipeline of a scan of it never ends |
| `engine_status` | 2 scans, no faults | **violation**: the page of a running scan is told "completed" |
| `engine_client` | 2 scans, 2 projects, no faults | **violation**: a scan lists with another project's client |
| `index_all` | 3 keys, 2 ETags, 3 scans that may fail or read a part of their baseline only, batches of 2 | listings are stored, deltas count each object once, are right against what could be read while the index is clean, and later err on one side only |
| `login_all` | 2 projects with their own names, 2 logins, 2 creation attempts, 2 keys per name, 1 revocation, cookies with any answer, 1 kind of mishap | cached keys exist, logins use working keys, keys do not pile up, the stored cookie is the latest wherever the program gets to saving it, listed buckets have clients |
| `progress_all` | 2 scans of 3 objects and of 1, batches of 2, page and store errors | counts shown were reached, completed records show the total of their report, reports are exact, tickers end |
| `pages_all` | 2 scans of one bucket, 1 deletion, store errors, kills, settings saved | completed rows have their total and open; a deletion leaves nothing behind |
| `deep_all` | every choice of at most 2 analyzers, buckets of 0, 4 and 5 objects in pages of 2, limits that are reached | reports are exact or absent; partial ones are true; RunAll waits and returns |

### Bounds

Two workers are enough for every pair of goroutines of a kind; the third prefix
makes one worker come back for more. The channel of one or two elements is
smaller than the bucket, so that senders block, and batches of two leave a
partial batch at times. The three pages of a prefix, one of them empty, make a
first, a middle and a last page, and the prefetch runs against each of them.
Three scans of two buckets give a collision on a bucket while another scan runs.
`MaxDeletes` bounds how many scans are deleted, once each. Three scans are
needed for a delta that meets entries older than its baseline. Two scans suffice
for `ScanProgress` and `HistoryPages`: one record with two writers, one comparison.
Their three objects have equal and different labels, ages on both sides of a bound
and a size of zero, and give an even and an odd number of sizes. `MaxEnabled`
bounds the analyzers of one deep scan: they share nothing but the wait group and
the result, so two show every interplay, and every pair is tried. The buckets of
`deep_all` reach each limit (`MaxResults`, `MaxExamples`, `MaxSamples`, `MaxCount`,
`ClamdLimit`) in the middle of a page and at the end of one; its limits are smaller than
those of the code, which are 100, 10 and 1000 and the user's. Two logins are needed for
every property of `LoginFlow`: a second one meets what the first left, wherever
that was interrupted; a kill, and a logout, may fall between them or into them.
`MaxKeys` counts the keys ever created per user and name, so a login may lose one
to a failed request and create another. `MaxMishaps` bounds the *kinds* of
mishap; a kind may happen any number of times. Two more bounds of `login_all` are constraints of
`MCLoginFlow`, beyond which a behaviour is checked but not continued: at most two keys are lost to failed
requests (`FewLost`), and a cookie that nothing saves does not come together with a mishap, a
revocation or a lost key, once the steps that save cookies are over (`OneTrouble`). What the
second leaves out changes the cookie only: to keys, cache and clients a failed or interrupted
sync is no different from a failure or a kill just before or after it, which is explored, and
`CookieIsPersisted` is exempt there anyway. The proofs know neither bound. `login_all` has one handler, that is
no two logins at once: every property exempts that (see below), while the proofs'
and the module's definitions allow it. Symmetry is used where the runs' configurations name it, for
scans and keys, which the modules compare only for equality, and only in runs
without liveness properties.

Deadlock is not checked: scans and logins are bounded in number, so every
instance comes to rest. `pipeline_safety`, `engine_ends`, `progress_all` and
`deep_all` say what must not be left waiting.

### Fairness

`ScanPipeline` assumes weak fairness of each goroutine (the Go scheduler) and of
each fetch (S3 answers or fails; the client's context ends it otherwise). That
the 24 hours pass is no fairness of the specification: the properties that speak
of the deadline have it as a premise (`TimePasses`), so `HealthyScanCompletes`
says what happens when it does not come. A select with several ready cases is a
free choice; nothing depends on its fairness. `ScanEngine` assumes weak fairness
of request handlers and of scan goroutines once their pipeline has ended. That the pipeline ends
is not assumed, because `engine.go:371` can block for ever (`pipeline_hang`): `BucketsAreReleased`
exempts a bucket with a scan that stays in `scanning` for ever (`NeverEnds`), and nothing else.
`ScanProgress` assumes it of ticker goroutines about to write or to leave, not that a tick
comes. `DeepScan` assumes it of `RunAll` and its goroutines, and so that every call to
S3 and to clamd returns; the read of clamd's answer (`virus.go:150`) has no deadline, so
for clamd this is an assumption about the daemon. No fairness is given to users,
signals or restarts.

## Proofs

`ScanPipelineProofs` proves, for any number of workers, prefixes, pages and
objects, any capacities and any faults: `Invariance` (`Spec => []IInv`),
`TypeCorrectness` (`Spec => []TypeOK`) and `ChannelsSafe`
(`Spec => []NoSendOnClosedChannel`). The assumptions are the named ones of
`ScanPipeline`: a finite, non-empty set of workers, positive capacities, and what
S3 guarantees of prefixes and pages.

`NoSendOnClosedChannel` is not inductive. It holds because of the order in which
channels are closed: `close(prefixChan)` is the dispatcher's last step, a worker ends only
when `prefixChan` is closed and drained, and `objChan` is closed when all workers
have ended (`ClosingOrder`). The run `pipeline_safety` checks both on a small
instance. `TypeOK` is not inductive either: that the page a worker asks for exists
needs `FetchInRange`, which ties the newest fetch to a
prefix that has been sent. `IInv` is the conjunction; the proof has one step for
each action, grouped by goroutine.

The module's second part goes on from there to what the pipeline delivers, for the same
constants: `Delivery` (`Spec => []DeliveryInv`), `NoDoubleCount` (`CountedAtMostOnce`),
`CountsAreStored` (`CountedIsSaved`), `CompleteInTime` (`SuccessIsComplete`) and
`PipelineImplementsContract` (`Spec => ImplementsContract`: the initial states map to initial
states of `ScanContract`, each step to one of its steps or a stutter). The argument gives every
object one place: still on a page to come, on the page in a worker's hands, in
`objChan`, with the collector, or counted (`OnePlace`). A prefix that was sent is being worked on or
done (`Dispatched`, `AtWork`), and an object of it that has no place any more was lost to the
deadline or to an error whose message is on its way to the collector (`NoneLost`, `Outcome`), so a
collector that sees the channel closed in time has them all. A scan fails only if
there was a fault or the deadline (`Caused`).

`LoginFlowProofs` proves, for any number of handlers, projects, users, key names
(shared ones too) and attempts: `Invariance`, `TypeCorrectness`, `CacheIsSound`
(`Spec => []CachedKeyExists`) and `KeysDoNotPileUp` (`Spec => []KeysAccounted`). It
assumes that targets have names and projects, that there is at least one target and one
attempt, and that `None` is no key (`LoginAssumption`, `NoneAssumption`).

`CachedKeyExists` is not inductive: that a deletion leaves the cache sound needs
that the key to delete is not the one cached under its name (what
`reconcileProjectCredential` has just compared) nor under any other (names of
keys are names of their entries), and that a write to the cache is of a key that
exists (`CacheSafe`, `AtTarget`). `KeysAccounted` needs, before a key is created, that
there is a place left: without the key that was found there are at most `slips`
others (`RoomForKey`). Both need that no other login is under way (`OneLogin`),
which is why overlaps are exempt; the induction covers states with several logins
all the same. A step that touches neither keyvault nor cache is dealt with by
one lemma, `Quiet`.

Its other half proves `LoginKeys` (`Spec => []LoginKeysWork`), `ClientsForBuckets`
(`BucketsHaveClients`) and `CookieKept` (`CookieIsPersisted`). A client made of a cached key is
safe because the reconciliation has compared the cached key with the keyvault's after the login
began, and later deletions of the same login are of keys with other names (`WorksInv`,
`ShapeInv`). A listed bucket has a client because a login empties the lists
before it touches a key and lists a project's buckets after its client is made, and
because a restart finds a credential in the cache for every list, and an account with a gateway
next to them (`BackedInv`). `CookieInv` says, for each step of a login, which copies of the cookie
may be old: outside the steps that save one, only `adrift` lets the stored one be. The first two
need that two projects do not share a key name (`NamesApart`, a premise of both properties): where they do, TLC
shows a client of a deleted key (three targets of one name and a mishap of the
provider) and a bucket without a client (two projects of one user and a kill).

`ScanEngineProofs` proves, for any number of scans, buckets, projects and deletions and
every combination of faults, kills and shutdowns included: `Invariance`,
`TypeCorrectness`, `OneScanPerBucket` (`ReservationMatchesScan`), `RecordsAgree`
(`RecordMatchesResult`), `IndexIsHonest` (`IndexedHasResult`), `CompletedHasReport`
(`ProgressHasReport`), `OutcomeIsStored` (`EndedIsRecorded`, unless "store" is among the
faults) and `RecordsEndOnce` (`RecordLifecycle`), from `EngineAssumption`. That record and
result agree needs to know how far the goroutine is (`StoredSoFar`): what it has
stored at every step, deletions apart. The
exemptions of the properties hold because a request without a record has left nothing
to delete (`Untouched`) and a scan deleted when it was over stays over
(`OverWhenDeleted`). There is one lemma for each part of the invariant, with one case
for each actor.

`HistoryPagesProofs` puts the browser next to it: `PagesInvariance`
(`PagesSpec => []PagesInv`), `HistoryShowsTotals` (`CompletedRowsHaveTotals`), `RowsOpen`
(`CompletedRowsOpen`) and `DeletionLeavesNothing` (`DeletionIsComplete`), for any number of scans,
buckets and deletions, from `EngineAssumption`. What a page read some steps ago and what it reads
now fit together because a completed record never changes again but by a deletion
(`RowsStayTrue`, from the engine's `RecordLifecycle` argument), so its result was there when the row was read and is
missing later only if the scan was deleted (`TotalsSoFar`, `MissingExcused`);
`DeletedSoFar` says what an unbroken deletion has removed at each of its steps.

`ObjectIndexProofs` proves, for any bucket, any keys and ETags and any batch size:
`Invariance`, `TypeCorrectness`, `ListingIsStored` (`IndexHoldsListing`), `DeltasAddUp`
(`DeltaCountsListed`), `CleanDeltasAreRight` (`CleanDelta`) and `DeltasErrOneWay`
(`DeltaErrsOneWay`), from `IndexAssumption`. None of the last four is inductive: the listing is
stored because at every moment of a scan whatever is not in the batch any more is
in the index (`Flushed`); a delta errs in one direction only because a baseline has at
least what the last scan listed (`BaselineCovers`), and in a clean history exactly that
(`CleanIndex`). That `GetObject` finds an entry with a smallest ETag is a lemma, from the
well-founded order of the numbers in the library. The two statements about deltas are relative to
what the scan could read of its baseline (`Without(before, unread)`), since the code goes on when
reading fails; without such errors `unread` is empty and they speak of the whole last listing.

`DeepScanProofs` proves, for any buckets, page size, limits, prices, set of enabled analyzers and
faults: `Invariance`, `TypeCorrectness`, `ReturnedResultIsFinal` (`Spec => ResultIsFinal`),
`ReportInvariance`, `PartialReports` (`PartialReportsAreTrue`) and `WholeBucket`
(`WholeBucketOrNothing`), from `ScanAssumption` and `DeepAssumption`: the objects of a bucket have
different keys and sizes that are natural numbers. That no field is
written after `RunAll` has returned needs that the wait group counts exactly the
goroutines that have not ended (`WaitGroupCounts`), that none is started twice
(`StartedOnce`) and so that none is left after the return (`NoneLeft`).

The reports are true because what an analyzer has collected is right for the objects before its
continuation token (`GoodAt`, `Collected`): one lemma per analyzer says that one more object
keeps it so, and `PageGood` carries that over a page, which is a fold. One that gives up on an
error has reported nothing if its listing broke off (`BrokenOff`), so what it reports
is of all objects. Two definitions of the library need an induction of their own,
over the members of a set (`UpTo`): the fold of a page (`FoldExists`, `VisitSteps`), and
sums, which add up in an order that is chosen, so that the sum of the costs of the
storage classes is that of the objects only because any order gives the
same (`SumAnyOrder`, `SumUnique`; both in `SumTheorems`). Sorting needs none: `FindLargeFiles` is modelled by every order
that `sort.Slice` may leave.

`ScanProgressProofs` proves, for any number of scans and objects, any batch size and any
interleaving of collectors and tickers: `ProgressInvariance` (`Spec => []ProgressInv`),
`CountsWereReached` (`CountWasReached`) and `CompletedTotals` (`CompletedShowsTotal`), from
`ProgressAssumption`. An object received is in the batch or counted by the aggregator, and in
no third place (`Counted`); a stored report is that of the aggregator and counts every object
received (`Reported`); what the record shows was read from one of those counters (`Shown`).
That `AddBatch` counts each object of a batch is a statement about a fold, whose
recursion is over the positions of the batch. The library's induction theorems cannot
be used, because they take a predicate as a parameter, so the induction is over the
members of a set (`NatSetInduction`, from the well-founded order of the numbers): first that a function
exists that satisfies the recursion, then what it computes.

The same module proves that reports are right: `ReportInvariance` (`Spec => []ReportInv`),
`ReportsAreExact` (`Spec => ReportIsExact`) and `TypeCorrectness` (`Spec => []TypeOK`).
The property compares two descriptions that share nothing: the report, made of an
aggregator that was fed object by object, and the set of objects delivered, with its counts, sums,
groups and middle. The invariant between them is that the aggregator *describes*
exactly the objects listed that are not in the batch (`Aggregates`, `Collected`), as long as no
flush has failed and no error has come; a scan that fails there stores no report. The
aggregator's list of sizes is in order of arrival, so the relation to the set is a numbering
of its objects (`SizesOf`), and `Median` is right because in a sorted list not more than
half are above, and not more than half below, the middle (`NotAboveNth`, `BelowNth`). That
sorting succeeds at all is a theorem too (`Sortable`). The buckets of ages add up
because a count of the union of groups is the sum of their counts (`CountsAddUp`, `SumsAddUp`).
`ProgressAssumption` says of objects that sizes are natural numbers and ages integers (an object
may be dated after the scan).

`SumTheorems` has what the last two modules need of mathematics: induction over the members of
a set, sums over finite sets in any order, counts and sums of groups, sorting. It knows
nothing of the program.

Only model-checked are the liveness properties, `HealthyScanCompletes`, `OnlySendErrHangs`,
`BucketsAreReleased`, `TickersStop` and `RunAllReturns`: fairness and `ENABLED` are beyond
the proof system. A listed theorem states every other property of the passing runs.

The modules avoid recursive operators, for which the proof system loses its SMT solver.

## Disagreements between code and documentation

With a run (quoted in full in `PROJECT.json`):

- `engine.go:371`: the dispatcher's send can block for ever after the deadline;
  the comment at line 343 says the timeout "prevents infinite hang".
- `engine.go:119`: root objects of a bucket that has prefixes are not listed;
  README.md:38 says "complete listing".
- `handlers.go:498`: the status of one scan is answered for another;
  README.md:39 says the page "redirects to the report when done".
- `engine.go:152`: the client is read anew for every prefix; main.go:66 says "the
  handler swaps in the right per-project S3 client before each scan".

Without a run, met while modelling; properties that would fail because of one
exempt it by name:

- `SaveObjects` stores an object under its ETag and key (`store.go:315`) and nothing
  removes the entries of earlier versions or of deleted objects; `GetObject` returns
  the one with the smallest ETag. After a replacement or a removal every later
  incremental scan reports it again, where README.md:38 says "delta since last scan".
  `CleanDelta` ends there; `DeltaErrsOneWay` says what still holds.
- At the deadline a scan may complete with a part of the listing: workers return
  silently at `engine.go:171`, and the collector may see the closed channel first.
  `SuccessIsComplete` and the contract speak of scans that complete in time.
- An error does not cancel the context, unlike in
  `docs/superpowers/specs/2026-05-22-parallel-scan-design.md:161`: other workers go
  on until the channel is full.
- Deleting a scan that is running: its goroutine has read the record and writes it
  back (`engine.go:423`), which leaves a completed record, at times without a
  result. `deleted` and `cutShort` exempt such scans. `DeleteScan` stops at its first
  failure and `PostDeleteScan` only logs it (`broken`). What is left, a result without a
  record, is a row without an id in the history, and no button deletes it.
- A ticker may write after its scan's last progress (`engine.go:253`): the record of a
  completed scan then shows a smaller count next to the right total, and with two scans
  the counts of one appear in the record of the other (`mixed`).
- A shutdown waits for requests, not for scans (`main.go:138`), and after a restart
  their records stay "running".
- A second request for a bucket is rejected; the design (line 312) wants it queued.
- An error of `ListObjectKeys` is only logged, and one of `GetObject` skips its key
  (`engine.go:533-547`): the scan reports a delta against the rest, in which keys it could not
  read are new, or not deleted. `CleanDelta` and `DeltaErrsOneWay` compare with what was read.
- Batches that a failed scan has flushed enter the next baseline (`CleanDelta`
  exempts them).
- Two logins at once take each other's new keys for orphans and delete them, and
  the dead key is then cached (`handlers.go:199-245`, no lock). `CachedKeyExists` fails without
  its exemption of "overlap".
- `s3KeyName` gives names that differ only in case or blanks the same key. The
  second project's login replaces the key of the first, and after a restart the
  first has buckets but no client (main.go:115-116 promises one).
- An error of `GetS3Credential` counts as nothing cached (`handlers.go:199`), so a
  working key is deleted ("misread").
- The cookie is saved only by a login (`session.go:58`) and after a forge (`session.go:89`). One
  that comes with another answer (`http.go:116` takes it from every one), with a login that fails
  before its session is saved, or just before a kill or a store error, is in the memory of the
  process only; a restart goes on with the one it superseded (`adrift`).
- An account without a gateway replaces the one stored (`session.go:63-67`), but the bucket lists of
  the earlier login stay, as `handlers.go:130` skips the rest: after the next restart
  (`handlers.go:328`) they have no clients ("bare"). The same happens when the restart cannot read
  the store or cannot make a client, at best with a line in the log ("misread").
- `SyncRefreshToken` writes back a session it has read before; a logout in between
  is undone.
- After a logout, a restart and a login whose `GetProjects` fails, the bucket
  lists of the earlier login are shown without clients ("logout").
- `GetValidJWT` has no caller, so no token is "proactively refreshed" (design,
  line 96); `fallbackCred` in `initS3ClientsForProjects` is never used, as every
  credential has both keys.
- `ListScans` also decodes results as records (`store.go:416-432`): a history without
  a bucket filter has an empty row for every stored result, the settings' one included.
- `PostSettings` sets the engine's configuration and redirects to `GetSettings`
  (`handlers.go:637`), which sets it to the defaults again; the values of the flags are lost
  with the first look at the page, too. README.md:54 says "Scan performance can also be
  adjusted at runtime via the Settings page".
- `RunAll` has no caller, so no report has the sections of a deep scan.
- A virus scan that reaches `MaxCount` returns at once (`virus.go:51`): it reports 0
  scanned objects and "completed", also with infected ones. An object that clamd
  refuses as too large counts as clean, because its answer is only searched for
  "FOUND" (`virus.go:156`).
- `PublicAccessBlocked` is true whenever there is a configuration, whatever its flags
  say (`access.go:18`).
- `EncryptedPct` is cut off after two decimals of a floating-point product and may be one
  hundredth too low (`encryption.go:65`).

## Not modelled

- Settings: two assignments to the engine's configuration, described above. The proofs
  about the pipeline hold for any number of workers and any batch size.
- The deep scan's context, `AuditEncryption`'s list of algorithms, the texts of
  findings, and the limits of single analyzers other than those named.
- The order of rows in tables, which is by count with ties in any order.
- The overflow of sums of sizes: objects are at most 5 TB, so 64 bits hold the sum of
  millions of them, and the median adds only two.
- `GetValidJWT`, `GetScanSummary`, `SaveScanSummary`, `GetBucketScanIDs`, `SaveObject`,
  `DeleteObject`: nothing calls them.
- Rendering, templates, static files, flags, directories and `cmd/debug`, which share no
  changing state with the rest.

## Plan

Every invariant and action property of the passing runs is proved. What is left is outside the
present modules:

- the settings handlers, once their redirect no longer undoes what they set (see above);
- a caller of `RunAll`, when there is one: it would compose `DeepScan` with `ScanEngine`,
  whose record a deep scan's sections belong to.
