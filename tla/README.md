# TLA+ specifications of HTrace

These modules model Apache HTrace: the tracing client libraries, the `htraced` daemon, and the web
application with the JavaScript libraries it ships. TLC checks them on small instances, and TLAPS
proves the main results about the clients, the data store, its loader and its searches for all
instances. The definitions are translated from the code; `PROJECT.json` maps each one to its lines.

    tlc -workers 2 -config StoreSafety.cfg MCDataStore     # a run: cfg and MC module
    tlapm DataStore_proofs.tla                             # the proofs of a module

## The system

An application traces itself with a client library (Java `htrace-core4`, C `htrace-c`). Threads
open and close *scopes*; a closed scope yields a *span*, which the tracer hands to its *span
receivers*. A receiver writes spans to a file, or ships them to Zipkin, Flume, HBase, Kudu or
`htraced`. `htraced` (Go) takes spans over HRPC (msgpack) or REST (JSON), stores them in several
LevelDB shards, prunes expired ones, and answers queries of the web application and of `htracedTool`.
The web application is a single page on Backbone, jQuery, Bootstrap, Underscore and Moment: the
router opens a view per hash, the search view asks htraced for pages of spans and draws them on a
canvas, and a click on a span fetches the spans around it.

## Modules

The clients:

| Module | Models | Run |
|---|---|---|
| `HTracedSpanReceiver` | the Java receiver for htraced: two buffers, the flushing thread, both buffer managers | `HTraced*` |
| `SpanDelivery` | what that receiver promises | refinement in `HTracedRest` |
| `Scopes` | the Java tracer's scopes: the current scope of a thread, depths, detach and reattach | `Safety` |
| `TracerPool` | tracers and the receivers they share: loading, removing, closing, delivering | `Safety` |
| `LocalFile` | `LocalFileSpanReceiver`: the buffer swap under two locks | `Safety` |
| `QueueReceiver` | the Zipkin, Flume and HBase receivers: queue, batches, errors, close | `Native` |
| `CScopes` | scopes of the C client and who owns a span | `Safety`, `CScopeParent` |
| `CReceiver` | the C receiver for htraced: two buffers, transmitter, flush, free | `Native`, `CAddSpan` |
| `HTable` | the C hash table | `Safety` |

htraced:

| Module | Models | Run |
|---|---|---|
| `DataStore` | ingestion, shards, reaper, statistics, `Close()` | `Store*` |
| `Query` | searches page by page, and `DumpAll()` | `Native`, `QueryLePage` |
| `Loader` | starting on shard directories, crashes included | `Safety` |

The web application:

| Module | Models | Run |
|---|---|---|
| `WebRouter` | `router.js` on Backbone's History; views and their resize handlers | `WebLive` |
| `SearchPage` | predicates, search requests, the time line, selection, Clear, Zoom | `Safety` |
| `Canvas` | widget manager, partition, expand buttons, mouse gestures | `Safety` |
| `SpanReify` | fetching parents and children, one level or all; and the HBase viewer's rows | `WebLive` |
| `Modal` | Bootstrap's modal as `modal.js` uses it | `WebLive` |
| `Dates` | dates on the page: Moment's calendar, weeks, offsets and durations, `dateToString`, `parseDate` | `Safety` |

Its libraries:

| Module | Models | Run |
|---|---|---|
| `Deferreds` | `jQuery.Callbacks`, `jQuery.Deferred`, `then`, `when` | `Safety` |
| `JQEvents`, `JQData` | `jQuery.event`; `.data()`, ready, class names and `.val()` | `Safety` |
| `Effects`, `Ajax` | the fx queue with its animations; `jQuery.ajax`, time-outs, JSONP | `WebLive` |
| `BackboneEvents`, `BackboneModel`, `BackboneCollection` | Backbone | `Safety` |
| `Transitions`, `Tooltip`, `Carousel` | Bootstrap's transition ends, tooltip, carousel | `WebLive` |
| `Menus`, `ScrollSpy` | accordion, dropdowns and tabs; scrollspy, affix and button | `Safety` |
| `Underscore`, `Throttle` | its algorithms and `isEqual`; `throttle` and `debounce` | `Safety`, `WebLive` |

`MCHTracedSpanReceiver` and `MCDataStore` instantiate one module each. `MCSafety`, `MCWebLive` and
`MCNative` each hold several modules that do not interact: the variable `part` says which one a
behaviour is of, `Rest(p)` keeps the others in one initial state, and a property speaks of a
module's variables where `part` names it. `Parts` chooses which of them run. Where components do
interact, one module has both: the receiver with htraced's request handling, the store with its
reaper and statistics, the web application's search with `HandleQuery`, routing with the views, the
modal with its transitions.

Operators whose comment begins with "Mutant" stand directly before the definition they are a
faulty version of; none is part of a specification. Each property of a passing run is broken by
one of them (`PROJECT.json`, "mutants"). The properties of the composed runs are conjunctions; the
mutant of such a property breaks one conjunct.

JavaScript runs one call at a time, but calls nest: a callback may call back into the list, event,
queue or model that is calling it. The library modules therefore keep the call stack as a variable
(`frames`, `evFrames`, `work`, `sets`, `removing`, `inDone`), and the next step of the innermost call
is an action; the user's callback may do anything the module offers before it returns. In `Effects` a
complete callback may queue, stop, finish or clear before the queue goes on, and in `Deferreds` a
callback may throw. Browser events, timers and answers come only when the stack is empty.

### HTracedSpanReceiver

`position`, `content`, `numSpans` and `prequel` are the two buffer managers; `activeBuf`,
`flushingBuf`, `shutdown`, `unbufferableSpans` and `lock` are the receiver's fields. `pc` says where
a thread is in `receiveSpan()` and `ppc` where the `PostSpansThread` is in `run()` and `doFlush()`.
A critical section is one action, except the one around `unbufferableSpans++`, whose field
`doFlush()` uses without the lock. `Packed` chooses the buffer manager. For packed buffers the
model keeps whether the prequel that the next try sends is the one `prepare()` wrote, because
`flush()` reads the response into the same buffer; `ReadRequestBody` is what `htraced` makes of it.
The ghost variable `fate` records what became of every span and `ingested` what htraced has.
Times appear as the outcomes of the comparisons made with them (`late`, `overdue`). The error path of
a failing `prepare()` is left out: the configured bounds exclude it.

`SpanDelivery` is the promise: a span offered is refused, dropped or accepted; an accepted span
ends as delivered (and then htraced has it), given up or lost; htraced only ever gets spans
that the receiver is in charge of, possibly more than once.

### DataStore

A handler of a `WriteSpans` request decodes the spans of `SpansOf[r]` one by one, and may break off;
`batches` are its ingestor's. A shard has its channel `incoming`, its goroutine (`spc`, `writing`,
totals) and its LevelDB: `stored` (id to begin time) and `beginIndex`. The other indices are written
and deleted in the same LevelDB batches. Only a shard's goroutine writes its LevelDB, so a pass of
`pruneExpired()` is one action; `Passed` says which index entries it gets past. The reaper date moves
forward by `HandleHeartbeat`. `Close()` begins when no request is in progress, as in its only
callers, the tests' `MiniHTraced`: `htraced` itself never closes its store, but exits on a signal.
`failed` and `reaped` are history.

### Query

An index of a shard is a set of rows `<<value, id>>`. A search keeps its predicate (`query`, `key`),
the source's own one (`srcOp`, `srcKey`, which differ when the search is continued), and per shard
the iterator's snapshot, its position and the pending span. One round of the loop in
`populateNextFromShard()` is one step, so spans may be written and reaped between any two lookups.
The history variable `broken` has the shards whose part of a page was ended by a span that its index
still had and a lookup did not find.
Predicates beyond the indexed one are the set `Matching`. The search is chosen from `Searches` at
the start: field, operator, key, limit and client. The client is the web application
(continuation token) or `DumpAll()` (next id). Begin time, end time and duration are treated alike,
so one `ValueOf` stands for each of them.

### The other clients and the loader

Work under a lock is one action wherever nothing outside the lock reads what it changes. In
`LocalFile` a thread that swapped the buffer is between two actions; in `TracerPool` receivers are
closed and served one by one, a caller may add a receiver of its own at any time, and a receiver may
be closed before a delivery gets to it; in `CReceiver` the transmitter sends between two actions, and a
thread that found no room goes on without the lock, as the code does. In `Scopes` the depth of a
tracer and the current scope are per thread, and calls that throw a client error change nothing. In
`Loader` every write to a directory is an action, the daemon may be killed after any of them
(`DaemonEnds`, and `PowerFails`, which also loses what was not synced), and the next start may be
configured with other directories. In `QueueReceiver` the collector goes down and comes back.
`HTable` is compared with the set of what was put.

### The web application

`WebRouter` separates the change of the hash from its `hashchange` event, and fetches from their
answers. In `SearchPage` a result is a group of nodes (itself, a parent, a child) that may be
expanded and selected; requests answer or fail at any time, also after the page was left. Times count
parts of a millisecond because `setTimes()` halves. `Canvas` has one row of pixels; the mouse button
may go up where the canvas does not hear it. `SpanReify` numbers the models it makes, for a span may
be fetched several times, and every call has its stage. Texts of dates are sequences of digit runs
and separators; conversions between texts and moments are modelled digit run by digit run.

## What the runs check

Deadlock is not checked: applications may stop ending spans, requests and searches end, and user
actions are bounded.

| Run | Shows |
|---|---|
| `HTracedRest` | REST buffers, 2 threads, 4 spans, 1 retry, thread death: accepted spans are buffered until settled, requests count their spans, flushed spans were ingested, an exit drains, the buffer being sent is stable, and the receiver implements `SpanDelivery` |
| `HTracedPacked` | packed buffers under fair scheduling: accepted spans are settled, `receiveSpan()` returns (also for a span that never fits), `close()` ends the thread |
| `StoreSafety` | a span repeated, another rewritten with a new begin time, an invalid one, a request that breaks off, LevelDB errors: indices exact, answered spans stored, statistics add up, the reaper spares unexpired spans and goes oldest first |
| `StoreLive` | no handler and no `Close()` blocks for ever; expired spans are reaped |
| `Native` | searches by id (all operators, and `DumpAll()`) and by time, while spans are written and reaped, are ordered, without repetition, and end; they are complete but for shards in which a search by time met a span reaped meanwhile (`SearchesAreRight`); the queue receivers and the C receiver keep what they accepted (`ReceiversKeepSpans`) and finish (`WorkIsFinished`) |
| `Safety` | see below |
| `WebLive` | see below |

Properties of `Safety`:

| Property | Says |
|---|---|
| `CallbacksAreServed` | fire calls are neither lost, doubled nor reordered whatever callbacks do to their list; a deferred settles once, its callbacks run once and in order; `then` follows, `when` waits for all |
| `PageStateIsExact` | native listeners exist exactly while handlers do, delegated handlers come first, stopped events stop; `.data()` reads the last value; ready waits for all holds; classes are a set; `.val()` reads back |
| `ModelsAnnounceChanges` | once is once, listeners can be taken off, changes are announced against the outermost `set()`; a collection's indexes are exact, it hears exactly its models, and becomes what the server sent |
| `SearchPageIsRight` | the time line has an extent, Zoom fits, results are distinct and drawn, Clear is precise |
| `GesturesAreSound` | buttons fire under the mouse only, the partition stays in view, a release ends gestures |
| `DatesAreExact` | units bracket a moment, weeks round-trip, offsets keep the time, differences add up, durations bubble, dates are read as what they say |
| `UnderscoreIsRight` | searches, set operations, orders, objects and `isEqual` against reference definitions |
| `ChoicesAreExclusive` | one accordion panel, one menu, one tab, one scroll target, one affix place, the last button text |
| `LoadedStoreIsWhole` | what is served is one whole datastore in its order, and only `data.store.clear` removes spans |
| `TracersAreSound` | depths are exact and scopes nested; receivers in use stay open, close once, and go with the last tracer; the file receiver keeps its spans |
| `CClientIsSound` | a C span has one owner and the parent of its scope; the hash table is a function and its searches stop |

Properties of `WebLive`:

| Property | Says |
|---|---|
| `TimersAreOrderly` | animations complete once, the queue is never stuck, what runs ticks, one at a time unless the queue is cleared or a callback stops or finishes; runs of limited functions are spaced |
| `RequestsAreOrderly` | the outcome of a request is final, `jQuery.active` is exact, JSONP names are not shared, only well-formed answers succeed |
| `PagesFollowHash` | the view is that of the hash, statistics shown were fetched, closed views are silent |
| `SpanTreesAreWhole` | parents and children know each other, "expand all" is deep, the HBase viewer's rows are the tree |
| `WidgetsAreWhole` | modal, tooltip and carousel are consistent between their transitions |
| `BegunIsEnded` | animations, requests with a time-out, owed runs, new hashes, calls for spans, hidden modals, left tooltips and waiting slides come to their ends |

The other runs each show one disagreement between the code and what a comment or message says of it:

| Run | Disagreement |
|---|---|
| `HTracedPackedRetry` | after a lost response the second retry of a packed flush "succeeds" with no spans |
| `StoreStaleEntry` | a rewritten, then reaped span leaves an index entry at which every later pruning stops |
| `QueryLePage` | `le` on a secondary index misses spans equal to the bound |
| `CAddSpan` | a thread that finds no room in the C receiver's buffer goes on without the lock and the room |
| `CScopeParent` | the search for the parent of a C span looks at every other scope |

### Bounds

* Receiver: two threads are enough for one to be dropping a span while another is accepted; four
  spans of two or three bytes against buffers of four bytes give full buffers, exact fits and a
  refill of the buffer that was flushed first; `big`, in the packed run, never fits. One retry
  separates "fails and succeeds" from "gives up"; the packed violation needs the default of two.
* Store: two shards, channels of one batch and batches of at most two spans make every hand-over
  block somewhere; a span repeated by the second request stands for a client's retry; dates up to 4
  pass every begin time.
* Query: four spans in two shards, pages of one or two spans, keys below, at, between and above.
  A search that repeats a span stops recording results, which keeps it finite. Two of the spans, one
  in each shard, may be reaped during any search (`ReapSome`).
* Loader: two directories in any order and number, and two datastores ever made: enough for a new
  one over the remains of an old one.
* Java tracers: two threads and two tracers with three scopes, so that a scope can be reattached
  between scopes of the other tracer; three tracers of which each two share a receiver class.
* File and queue receivers: buffers and queues of two, more spans than that, two workers, and two
  errors in a row for the code's ten.
* C: buffers of two spans with three to add, and two sends' worth of time; three scopes deep in
  two threads; three keys that collide, wrap around and force the table to grow.
* Web libraries: the user makes three to six calls (`MaxEvOps`, `MaxSets`, ...), which nests calls
  three deep and mixes every two operations; a complete callback makes one call (`MaxCallbackOps`), and
  the callbacks that it brings about one each; two functions, attributes or listeners of a kind. Three
  models with two ids collide. `Days` are the leap day of year 0, the ends of years at the turn of
  ISO weeks, the last millisecond of a day, and dates before 1970. Arrays have up to five elements of
  three values, objects may be cyclic.
* Web page: three spans with overlapping times and two orders; three moves through the pages and
  two clicks on a tree of five spans.

### Fairness

Weak fairness of every thread and goroutine: the schedulers of the JVM, of Go and of pthreads run what
can run. The clock advances, so timed waits end and a backing-off thread's deadline passes (strong
fairness of the wake-up that finds it passed, since the thread wakes again and again). The heartbeater
keeps beating. Go's `select` chooses at random among ready channels, so a shard neither ignores
heartbeats nor batches for ever. In the browser, timers that are due run and events are delivered, and
the running call goes on; strong fairness of the animation tick and of delays, because calls of the
user interrupt them again and again. An XMLHttpRequest without time-out need not be answered; the
fetches of the router and of `SpanReify` are answered or fail. Nothing is assumed of applications,
users, `close()` calls, or the network; LevelDB does not fail in the liveness runs, and what
`QueueReceiver` promises depends on a collector that is up from some time on.

## What is proved

`HTracedSpanReceiver_proofs` proves for every set of threads, finite set of spans, span lengths,
buffer and trigger sizes and number of retries (`ReceiverAssumption`):

* `TypeCorrectness`, including that no buffer exceeds its size;
* `NoAcceptedSpanForgotten`: an accepted span is in a buffer until its fate is settled;
* `RequestCountsItsSpans`: `NumSpans` of a request is the number of its spans;
* `ExitDrains`: a graceful exit leaves no accepted span behind;
* `FlushedBufferUntouched`: nobody changes the buffer that is being sent;
* `RestFlushDelivers` and `RestRefinesDelivery`, for REST buffers: what `flush()` reports as sent was
  ingested, and the receiver implements `SpanDelivery`. For packed buffers this is false
  (`HTracedPackedRetry`).

The properties are not inductive by themselves. `IInv` adds: which span a thread holds
(`HeldSpans`); that a span is in at most one buffer (`BuffersApart`); that the buffer that is neither
filled nor flushed is empty (`IdleBufferEmpty`), without which a swap could offer a buffer that still
holds settled spans; that a buffer about to be cleared holds settled spans only
(`ClearedSpansSettled`); that the position is positive when there is content
(`PositionCoversContent`), which is why an empty `contentLength()` at exit means no spans; that the
thread exits only after shutdown (`ExitedAfterShutdown`), so nothing is accepted afterwards; and
that REST flushes ingest (`RestIngests`). One lemma per action shows that it preserves `IInv`.
TLC confirms `IInv` on the instance of `HTracedRest`, with either buffer manager.

`DataStore_proofs` proves for every number of shards, hash function, finite sets of ids and requests,
spans, batch size of at least two and channel size, with and without LevelDB errors
(`StoreAssumption`):

* `StoreTypeCorrectness`, including that no channel exceeds its capacity;
* `StoredSpansAreIndexed` and `NoEntryDangles`: the begin time index is complete, and exact but for
  spans that were sent with several begin times;
* `UnexpiredSpansStay` and `OldestSpansGoFirst`: what a pass of the reaper deletes, and in which order;
* `AnsweredSpansArrive`: once the shards are done, no valid span of an answered request is missing
  unless LevelDB refused it or it was reaped;
* `StatisticsAlwaysAddUp`: the totals of the metrics sink agree with each other when the shards are
  done and all requests are answered, and with the contents of the store at all times.

The argument has layers; the others rest on the first, `Accounted` also on `OrderInv`. `TypeInv` adds
to the types that batches only hold valid spans of their own shard (`Routed`), so a write goes where
a lookup goes. `IndexInv` adds that every entry comes from a span that was sent (`EntriesWereSent`): a
second write of an id with one begin time then repeats its entry, and only rewritten spans leave
stale ones. `OrderInv` says that `Close()` starts after the last request and that its nil is the last
thing in a channel (`NilIsLast`), and that idle goroutines and answered requests hold no batch
(`DoneIsEmpty`); batches are handed over only when not empty, so none is mistaken for a nil.
`Accounted` says that every decoded span is settled or in its ingestor's batch, its shard's channel,
or the batch being written. When all of these are empty it is settled. The batch size must be at
least two for this (it is 128): with one, an empty batch would be handed over.

For the statistics, `Balanced` makes the equation hold in every state: to what was reported as
ingested it adds what ingestors have handed over and not reported (`Handed`), and to what was reported
as written and dropped what is in a channel, in the batch of a goroutine or counted by it and not
reported (`InShard`). A hand-over moves the length of a batch from one side's sum to the other's. The
bound on the store's contents is a sum over the shards of the same kind (`Held`, `Unreported`): a
write adds at most one span and counts one, a deletion takes one away and counts one. What this needs of
the sums of the module `Functions`, whose definition leaves the order of summation open, is derived first:
that the recursion has one solution, and what changing, adding or shifting an element does to a sum.

The components that run side by side in `MCSafety` and `MCNative` have an inductive invariant each;
`MCSafety_proofs` and the end of `MCNative_proofs` conclude what the runs check:

| Theorem | Component | Assumption | What the invariant adds |
|---|---|---|---|
| `TracersSafe` | `Scopes` | `ScopesAssumption` | `ScopesInv`: parents lead from a thread's current scope through a chain of its own; every other scope is detached or closed, and depths count the chain and the null scopes (`Nested`) |
| | `TracerPool` | `PoolAssumption` | `PoolInv`: a receiver is in the pool, about to be closed, closed once, or was taken out (`Holders`); the pool's tracers are those that are built and not closed, and without any there are no receivers but those a caller added since (`strays`) |
| | `LocalFile` | | `LocalFileInv`: every span received is in the buffer, in a batch swapped out, in the file, lost or refused, no two of which share one (`Apart`); nothing is buffered after `close()` |
| `CClientSafe` | `CScopes` | `CScopesAssumption` | `CScopesInv`: a span is in one scope of one thread, disowned, handed on or freed, and one of these only (`HeldOnce`, `PlacedOnce`); what its parent and trace are (`ParentsRight`) |
| | `HTable` | `HTableAssumption` | `HTableInv`: the capacity is even and less than half is used, so a search stops; and until something is removed, no hole is between the slot a key hashes to and its entry (`Reachable`) |
| `LoaderSafe` | `Loader` | `LoaderAssumption` | `LoaderInv`: no two directories are the same shard of a datastore (`InfosRight`); the shards made so far have their infos, and nothing else has the new id (`MakingRight`) |
| `ReceiversSafe` | `QueueReceiver` | `QueueAssumption` | `QueueInv`: the types of the queue and the workers' lists |
| | `CReceiver` | `CReceiverAssumption` | `CReceiverInv`: while no thread has met a full buffer, where a span is and that the buffer not in use is empty unless it is being sent (`PlacesRight`); what was added before the time the transmitter read is handled or being sent (`TimesRight`) |
| `SearchesSafe` | `Query` | `QueryAssumption`, `PlainSearches` | `QueryInv`, see below |

The assumptions give constants their types and make sets that are counted finite. `Tracers_proofs` has
the invariants of `Scopes`, `CScopes` and `LocalFile`, `Storage_proofs` those of `TracerPool`, `HTable` and
`Loader`, `Query_proofs` that of `Query`, and `MCNative_proofs` the others. `DataLemmas` has the facts about
numbers and sequences that they share.

`SearchesSafe` has a hypothesis besides, `PlainSearches`, since `HandleQuery` does not get every search
right (see the next section; the run `QueryLePage` refutes one). A search on the index of a time must
not descend and its spans must differ in that time; and there and for `DumpAll()` no span has the
largest id, after which `Next()` is 0. Spans may be reaped during any search: what a search by time may
then miss is confined to the shard of the span it did not find (`broken`), and what it returns is in
order and without repetition all the same. That an `eq` search by time needs the last condition came out
of the proof, and TLC confirms it: the next page starts at id 0 again. Other searches by id need no
condition. `NativeSearchesArePlain` proves that the constants of the run `Native` satisfy it. `QueryInv`
says where the client is (`ClientInv`: its results are in order, and the span it goes on from is the
last of them), where the source is (`SourceInv`: what a shard's iterator has yet to pass, and what it
looked ahead to, comes after everything returned), and that a wanted span that stays, in a shard that is
not broken, is among the results, on the page, or still ahead of its shard's iterator (`PageInv`). A
page that is not full ends with all iterators closed, so the last case is impossible. TLC confirms
`QueryInv` on the instance of `Native`.

`SMTT(30)`, `Zenon` and `ZenonT(60)` in a proof choose the prover that finds it quickly, and a `USE` at the
head of a module the order in which the provers are tried elsewhere.

Model-checked only:

* liveness, which needs fairness, and the properties of `MCWebLive`: those that mix safety with progress,
  and those of a module that reaches the recursive operators of `SpanReify`;
* `GesturesAreSound`, `DatesAreExact`, `UnderscoreIsRight` and `ChoicesAreExclusive` of `MCSafety`. They
  compare what recursive definitions and folds compute (the calendar, arrays and their sorting, list
  positions) with a reference, which is induction over data for every input.

## Where the code does not do what one would expect

The properties hold of the model with the exceptions their comments name. These are the exceptions, and
other behaviour met while modelling that no run refutes:

* Searches: continued `le` searches on a secondary index return the continuation span again when its id
  minus one is not stored; continued `ge` and `eq` searches there miss spans that share a value; a span
  reaped during a search by time ends its shard's part of the page, and the spans of that shard that
  belong before the page's last one are missed; `DumpAll()` never ends once the largest id is stored,
  and an `eq` search by time returns the span with that id again; spans with a negative begin time are
  never reaped.
* Receiver for htraced: the number of dropped spans that is logged can be wrong, since the counter is
  reset outside the lock; the arguments of `deltaMs` are swapped; spans of a request that breaks off
  are counted as written but not as ingested.
* Java tracer: a null scope opened inside a traced scope leaves the depth raised; `close()` of the file
  receiver loses what another thread has swapped out; Zipkin's worker ends when its transport cannot be
  opened and HBase's when it is idle without a mutator; batches that failed stay in the worker's list
  and are sent again; a receiver that `close()` of a tracer closes may still be handed a span by a
  delivery under way, and one that a caller adds to a pool without tracers stays open until the next
  tracer is closed or the process ends; a span that passes the check of `running` before `close()` may
  stay in the queue.
* Loader: a crash between creating a LevelDB and writing its info makes every later start refuse
  until `data.store.clear`.
* C: `htable_pop` hides colliding keys behind the hole (the library never removes); `htrace.h:304`
  allows a NULL sampler that `scope.c:58` uses; a span under a detached scope gets a new trace id even when
  it has a parent; `add_span` unlocks twice when it gives up.
* jQuery: `clearQueue` drops the sentinel of a running animation; `stop()` or `finish()` in a complete
  callback dequeues, and the callback's own end dequeues again, so that two items of the queue run at
  once, and so does queueing in a callback of `finish()`; `stop()` or `finish()` called by a callback of
  one of these leaves the outer loop over `jQuery.timers` with an index that is too large, so that it
  skips timers, which are lost, or throws; a callback that throws leaves its list firing for ever and leaks
  `jQuery.active`; `abort()` in an `ajaxSend` handler is counted down twice, since `ajax()` goes on and
  comes to `done()` again; `one` may run twice under
  nested triggers; removing an element does not tear down delegated focus handlers.
* Backbone: attributes set in the `request` handler of `save` with `wait` are lost; a silent or nested id
  change leaves the index behind; a model added again in its own `remove` handler is not heard.
* Bootstrap: a modal shown while fading can stay without a backdrop or locked until it is shown again
  after a rest off the screen; a tooltip entered while it fades disappears; an accordion clicked quickly
  opens two panels, and does so again later; a tab clicked while a pane fades leaves two active panes.
* Web application: a late answer to `#serverInfo` replaces another page; overlapping visits share the
  global `stats`; closing a view takes off the next view's resize handler and leaves its own timer; a
  failed search drops results that stay drawn; a fetch that fails leaves a reification pending;
  `setTimes()` takes 0 for "not given"; changed predicates bring results twice.
* Moment and Underscore: ISO week dates that spill into the next year, 29 February of year 0 and years
  after 9999 are not read back; a debounced function may run in the very millisecond of a call, while
  its comment (`underscore-1.7.0.js:754`) has it wait until the calls have stopped for the whole `wait`:
  `later` asks whether the time since the last call is greater than 0. No property claims the comment.

## Not modelled

* Kudu receiver, REST read handlers, samplers' arithmetic, executors and value types: no state that two
  actors share, or one call into a library.
* `hrpc.c` below "the send succeeds or fails", the HRPC server's codec pool and deadlines, the metrics'
  per-host map and latency ring: bookkeeping behind one lock or inside the Go library's scheduling.
* Configuration, logging, process set-up, generated and minified code.
* In the JavaScript: the selector engine, DOM manipulation, CSS and animation values, canvas drawing,
  templates, locales and the wording of formats. They are large pure functions of documents and strings;
  what they decide (whether an element matches, how wide it is) is an input of the models.
* The Java and C tracers are not composed with their receivers, nor `Query` with `DataStore`: the
  interface is one call (`receiveSpan`, a snapshot), which each module allows at any time.
