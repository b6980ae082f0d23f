# A TLA+ model of m3x

m3x is the library of shared parts of M3: contexts whose finalizers return pooled
resources, watchable values, a TCP server, generic hash maps, object and worker
pools, reference-counted bytes and identifiers, retries, time ranges and
instrumentation. Most of it is used by many goroutines at a time, and most of its
promises are about what happens when they meet. This directory holds TLA+ modules
for the parts with logic of their own, TLC runs that check them on small instances
and TLAPS proofs of the results that matter most.

Check a run with `tlc -config MCPools.cfg MCPools`, a proof with
`tlapm DataProofs.tla`. `PROJECT.json` lists the runs, the source lines of every
definition, the hazards the properties are aimed at, the faulty variant that shows
each property can fail, and the theorems.

## 1. The system

| Component | State | Operations | Talks to |
|---|---|---|---|
| `context` | per context: done flag, finalizers, wait group of dependencies, parent, Go context; the pool of contexts | RegisterFinalizer/Closer, DependsOn, Close, BlockingClose, Reset, StartTraceSpan; pool Get/Put | resources through `Finalize`, other contexts through DependsOn, `pool.ObjectPool` |
| `watch.Watchable` | value, set of active channels, closed flag, a one-place channel per watch | Get, Watch, Update, Close, closing a watch | watchers through channels |
| `watch.Source`, `watch.Value` | closed flag and polling goroutine; status, updatable and one goroutine per subscription | NewSource, Close; Watch, Unwatch | the source updates a Watchable, the value watches it |
| `server` on `net` | set and number of connections, closed flag, wait group, listener, metrics goroutine | ListenAndServe, Serve, Close; accept loop, a goroutine per connection | `net.StartAcceptLoop` through channels, the handler |
| `generics/hashmap` | Go map from hash to entry | Get, Set, SetUnsafe, Delete, Reset, Reallocate | finalizes the keys it has copied |
| `pool.ObjectPool` | channel of free objects, refill flag, allocator | Init, Get, Put, the refilling goroutine | - |
| `pool` of slices, `arraypool` | a queue of arrays per capacity | Get, Put, AppendByte, grow | ObjectPool |
| `leakcheckpool` | counts and a list of what is out | Get, Put, Check | the pool under test |
| `sync.WorkerPool`, `PooledWorkerPool` | channel of tokens; sharded queues, workers, their number | Go, GoIfAvailable, GoWithTimeout; workers that kill and replace themselves | - |
| `checked` | reference, read and write counts, a finalizer; the traceback ring | IncRef, DecRef, IncReads, ..., Finalize; append | checked object pool, `ident` |
| `ident` | pooled ids over checked bytes, tags, iterators | BinaryID, StringID, Clone, Finalize, NoFinalize; Next, Duplicate, Reset, Close | bytes pools, contexts |
| `retry`, `errors` | attempts, backoff and metrics; accumulated errors | Attempt, AttemptWhile; Add, wrappers | retry asks `errors` what is retryable |
| `time` | sorted disjoint ranges; durations, units | AddRange(s), RemoveRange(s), Overlaps; parse, print, convert | - |
| `instrument`, `sampler` | reporter goroutines, counters | Start, Stop, Sample, ReportSuccessOrError | the Go runtime |
| `debug.RWMutex` | counters next to a mutex, the stack of the last Lock | Lock, Unlock, RLock, RUnlock, Report | - |
| `log`, `config/hostid`, `clock` | levels and fields; a polling loop | NewLevelLogger, WithFields, Log; Resolve, WaitUntil | files, time |
| options, interfaces, `opentracing`, `process`, `tcp`, `unsafe`, mocks | - | records, declarations, system calls | - |

What is hard in it:

- *Interleavings.* Two goroutines close one context; `DependsOn` runs while the
  blocker is closed; `Watch` sends its first notification outside the lock; the
  server's `Close` works on a copy of the connections while others come and go;
  clients use an object pool that `Init` is still filling; the checks of a reference
  count load it after their own add; `getDebuggerRef` wraps a finalizer without
  compare-and-swap; a reporter's `Stop` waits under its lock.
- *State that outlives its owner.* Pooled contexts, watch goroutines after
  `Unwatch`, hash map keys after `Delete`, bytes of finalized identifiers, arrays
  with the elements of their last user, traceback entries that are reused, backing
  arrays two errors share.
- *Lossy delivery.* Notifications are dropped when a channel is full; the value
  itself must still get through.
- *Progress.* Finalizers wait for wait groups, `Close` for handlers, `Stop` for
  reporters; workers kill themselves, goroutines have to end.
- *Bounds and widths.* Full pools and queues, hashes and counters that wrap around,
  a backoff that overflows, the least 64-bit duration, a ring of 256 pauses, division
  of a pool's size by its shards.

What makes each component right is listed under "Runs" below.

## 2. Modules

| Module | Models | Remarks |
|---|---|---|
| `Context` | `context/context.go`, `context/pool.go` | A Close call is a goroutine that goes through the steps of `close`, `finalize` and `returnToPool`; the lock a context keeps across `DependsOn` is `dep`. Resources are model values; the history variables `registered` and `runs` record registrations and executions. `owners` is the client discipline: a pooled context is used by those who hold it. |
| `Watchable` | `watch/watch.go` | A channel is one place (`token`) and a flag (`shut`); critical sections are one step; `Watch` is two, since it sends after it unlocks. |
| `Value` | `watch/source.go`, `watch/value.go` | Extends `Watchable`: the source is the only writer, the value watches through one channel at a time. `Watch` holds the value's lock over several steps. Polls, `getUpdateFn` and `processFn` may fail. |
| `Server` | `server/server.go`, `net/server.go` | Acceptor, serve loop, connection goroutines, Close calls and the metrics goroutine. The error channel, which serve reads after the loop, is the acceptor's last step. |
| `Reporters` | `instrument/reporter.go`, `build.go`, `extended.go` | Channels are named by the Start that made them (a generation); `Stop` holds the mutex from `close` to the receive. An extended reporter reads the collector's ring of `Ring` pauses and its `GCWidth`-bit counter (256 and 32). |
| `DebugMutex` | `debug/mutex.go` | One step per atomic operation; a stack is the goroutine it belongs to. |
| `Dictionary`, `HashMap` | `generics/hashmap/map.go` | `Dictionary` is the promise: a function from keys to values. `HashMap` has HashSize hashes (2^64 in the code) that wrap around, and every hash function of `HashFns`. |
| `ObjectPool` | `pool/object.go` | `Init` in steps, `Get` in two (the object, the watermark check), the refilling goroutine in three. |
| `WorkerPool`, `PooledWorkerPool` | `sync/worker_pool.go`, `sync/pooled_worker_pool.go` | The random choice to kill a worker is a nondeterministic one. |
| `SlicePools` | `pool/bucketized.go`, `bytes.go`, `floats.go`, `checked_bytes.go`, `generics/arraypool/pool.go` | A slice is the cells of its array and a length; a cell holds the client that wrote it. A bucket's object pool is a queue; a request below one is answered with no slice. |
| `LeakcheckPool` | `generics/leakcheckpool/pool.go` | Elements are pairs of which `EqualsFn` compares the first half. |
| `Checked` | `checked/ref.go`, `bytes.go`, `debug.go`, `pool/checked_object.go` | A method is the sequence of its atomic steps, interleaved with those of other goroutines; a report is followed by the traceback it prints, which loads and stores the finalizer. The owner shares the object after its IncRefs and finalizes it when all references are back. |
| `Debugger` | `checked/debug.go` | The ring of cycles over pooled entries; `cycles` remembers all events. |
| `Ident` | `ident/identifier.go`, `identifier_pool.go`, `types.go`, `tag.go` | IDs and bytes are numbered; `madeOf` remembers the text of an ID. Objects of a pool are alike, so the first free one is taken. |
| `Iterators` | `ident/iterator.go`, `tag_iterator.go`, `tag_iterator_matcher.go` | The three iterators are the same machine; `iterPooled` says whether they come from a pool and go back to it, in which case `TagsIterator` hands one out as it was put back. |
| `Errors`, `MultiError` | `errors/errors.go` | An error is the sequence of its layers. `MultiError` keeps Go's slices: arrays with a capacity, and values that share them. |
| `Retry` | `retry/retry.go`, `options.go`, `config.go` | Backoffs are fractions converted to `IntWidth`-bit integers; the two operands are rounded to `FloatBits` significant bits, as float64 rounds to 53; jitter is a choice. |
| `TimeRanges` | `time/range.go`, `ranges.go`, `range_iter.go` | Instants 0..Horizon; lists of ranges with the code's searches, against the sets of instants they stand for. |
| `Durations` | `time/duration.go`, `unit.go`, `time.go` | Integers of `Width` bits; a text is a sign and a sequence of numbers and units. |
| `Sampling` | `sampler/sampler.go`, `instrument/methods.go` | A signed and an unsigned counter of `CntWidth` bits. |
| `Logging` | `log/logger.go`, `config.go` | A logger is its base, a slice of fields and the levels around it; loggers share arrays of fields as in Go, and `given` remembers the fields each was made with. |
| `Polling` | `config/hostid/hostid.go`, `clock/types.go` | A clock that ticks, a file another program changes, wake-ups late by at most `Late`. |
| `MC...` | | Instances for TLC. `MCWatch`, `MCServices`, `MCPools` and `MCLibrary` hold components side by side that do not touch each other: a behaviour picks one at the start and the others stand still, so each is explored in full and their states do not multiply. |
| `...Proofs` | | Theorems, see below. |

Operators called `X_Something` are faulty variants of `X`: each is a plausible bug
that some property of a run catches. They are not part of any specification.

Several CONSTANTS say what clients do: `Traced` (the contexts whose clients set a Go
context and start spans) and `Sampled` (those spans are sampled and create child contexts),
`Resets`, `LateDepends` (DependsOn on contexts that others may be closing),
`RacyClose` (Close of a watchable during a Watch), `CollidingDeletes` (Delete although
hashes collide), `Live` (the MultiErrors that are added to), `SharedBytes` (two
identifiers of the same bytes), `PollsNumRef` (finalizing when `NumRef` reads zero
instead of when all users have returned from DecRef). `Traced` and `Resets` are
on in `context_pooled`, and `Sampled` in `context_children`, whose contexts have no pool.
With the others off the properties hold; with one of them on, or with `Sampled` and a
pool, something breaks, and section 5 says what.

## 3. Runs

Passing runs; all of them explore the instance completely.

- `context_pooled`: `FinalizedExactlyOnce` (a finalizer that is not pending has run
  once), `FinalizersWaitForBlockers`, `OneHolder` (a pooled context is with a client, a
  closing goroutine or the pool, never in two places), `FreshFromPool` (what Get
  returns is open and has no finalizers, no Go context and no tracing verdict of its last
  use; its wait group is not reset, but counts exactly the calls of Finalize that the
  contexts its last user depended on will still make), and
  `NoFinalizerStranded` (a finalization does not wait forever unless something it
  depends on stays open).
- `context_children`: `FinalizedExactlyOnce` for child contexts that delegate to a parent.
  That `FinalizersWaitForBlockers` holds for them is a theorem only.
- `watch_and_map`: `NoLostUpdate` (a watcher behind the current value has a notification
  pending), `NoPanic` (no send on or close of a closed channel); for a value behind a
  source, `ProcessedInOrder` (a goroutine takes a value only of the updatable that is in
  use, while the status is watching, and none is processed after a newer one),
  `EventuallyProcessed` (also after an init timeout), and
  `GoroutinesEnd`; for a hash map, `KeysFinalizedOnce` and `ImplementsDictionary` (the
  refinement: every operation is the dictionary's on the same key).
- `services`: of the server, `ConnsTracked` (set and counter are the live
  connections), `ClosedReachesEveryConn` and `ShutsDown`; of the reporters,
  `OneReporter` (no two goroutines of one reporter run, across stops and restarts),
  `StopReturns`, `PausesReportedOnce` (the pauses reported are those of distinct
  collections, in order, none made up and none skipped that the ring still had); of the
  mutex, `ReportShowsWriter` (a report that began while a writer held the lock, and
  ends while it still does, names it).
- `pools`: `OneOwner` and `RefillReachesHigh` of the object pool, `TokensConserved` of
  the worker pool, `ShardsStaffed` and `AllWorkDone` of the pooled one;
  `SlicesFitAndOwn` (a bucket's arrays are large enough and a client sees only what it
  wrote); `LeaksFound` (what is pending is what clients have, so Check fails just when
  something is out); `ReportsExact` (clients that follow the protocol are reported for
  overlapping writes and for nothing else, and those are reported) and `FinalizerKept`
  (an object that is out has the finalizer its Get gave it, and goes back once).
- `library`: `RangesAreSets` (add, remove, overlap, iteration agree with sets of
  instants, and lists stay sorted and disjoint); `DurationsExact` (printing and parsing
  are inverse, the longest fitting unit is found, normalization is exact, Ceil is the
  least multiple not below); `AttemptsAccounted` (metrics agree with the calls made, and
  a non-retryable error is the last); `BackoffInRange` (a backoff is at most the
  maximum and, unless the exponential rounds to the first integer that does not fit, at
  least half of it or the maximum, section 5); `MultiErrorImmutable` for values
  that are only added to in one place; `SampledEvenly` (the calls since the
  last sample are fewer than n, fewer than 2n - 1 once the counter has wrapped, and a timer
  has recorded a latency for every n reports, and at most one more per wrap of its counter);
  `LoggersKeepTheirFields` (a logger prints the fields it was made with, whatever is derived
  later from it or from the loggers it shares arrays with); `PollFindsInTime`; `TraceIsRecent`; `IDsKeepTheirBytes` (an ID that
  is not finalized reads the text it was made of); `IteratorsComplete` (also for an iterator
  that a pool hands out again).

### Bounds

Three contexts are a context, the one it depends on and a third that races or
depends on either; two goroutines close at a time, and one resource is enough for a
finalizer to run twice or never. `MaxWait` bounds the dependencies outstanding at a
time. In `context_pooled` the pool has one place for two contexts, so a Put meets a
full pool. Two channels are an old subscription and the new one, or a watch that falls
behind and one that closes; three updates let a second one be dropped on a full
channel. Two connections are enough for the swap of `removeConnection` to move one of
them, and two Close calls for the second to find the server closed. Reporters start
three times with two callers; the collector's ring holds 2 of 11 collections and its
counter has 3 bits, so both wrap. The hash map has three keys in four hashes, and of
the hash functions that differ only in the names of the keys one is enough: runs of
three colliding keys, wrap-around and the free slot that ends a probe (2^64 hashes are
never all taken). The object pool has two places, two clients and the five objects
that can then exist. The worker pools have fewer tokens than tasks, a size that the
number of shards does not divide, and three pieces of work for shards of one place, so
that temporary workers appear. Slices have capacities up to 3 in buckets of 1 and 3
with one place each: a capacity between two buckets, above the last, and a full bucket
all occur. A checked object is taken twice, with two finalizers and three overlapping
reads, writes or moves of owner and user: the second life is what a stale store could
hit. The traceback keeps 2 cycles of 6 events in 4 entries, so entries are reused. Four
IDs and four bytes are two tags, or one and its clone. Integers have 8 (durations)
and 6 bits (backoffs) in place of 64; the sampler's and the timers' counters have 3, so they
wrap more than once; the units are scaled so that each is a multiple of the next and the
largest fits, and the backoffs so that they reach and pass the largest integer.
Floating point keeps 3 bits of 5, so integers at both sides of a rounding occur, the
largest among them, as 53 of 63 do. Four fields are what it takes for a derived logger's
array to have room that a second one could write to.

Deadlock is not checked: clients may stop at any time, and a program in which
nobody calls anything is a legal one.

### Fairness

Weak fairness of goroutines and calls that are under way, never of clients that
would have to start something: nobody needs to Close, Update, Put or Watch. The Go
scheduler runs what can run, work functions, finalizers and reporting functions are
assumed to return, and timeouts to pass. Two assumptions come from interfaces:
`Accept` fails on a closed listener, and a handler returns once its connection is
closed. Where a select has a ticker and a channel that stays closed
(`reportMetrics`, the reporters), Go chooses at random among the ready cases, so the
closed channel is not starved: the reporters have strong fairness there.

## 4. Proofs

The theorems hold for any number of contexts, goroutines, channels, connections,
clients, objects, tokens, keys and hashes and any hash function; their assumptions on
constants are the named ASSUMEs. Each invariant `I` of a run is proved with an
inductive invariant that contains it: it holds initially, one lemma per action shows
that the action keeps it, and the theorem puts these together. Specifications without
fairness (`Spec`, `ServerSpec`, `ObjectPoolSpec`, ...) are enough for safety; the
components that share an MC module have one of their own each.

| Module | Theorem | Shows |
|---|---|---|
| `WatchableProofs` | `UpdatesAreNotLost`, `ActiveChannelsAreOpen`, `NoSendOnClosedChannel`; `ValueUsesWatchable`, `UpdatesProcessedInOrder`, `WatchingValueIsServed` | `NoLostUpdate`; without a racing Close, `NoPanic`; that a Source with a Value implements `WatchableSpec`, `ProcessedInOrder`, and the goroutine of a watching Value |
| `ContextProofs` | `PooledContextHasOneHolder`, `PoolHandsOutCleanContexts`, `FinalizersCalledOnce`, `FinalizersWait` | `OneHolder`, `FreshFromPool`, if no span is sampled (Go contexts may still be set and spans started); `FinalizedExactlyOnce`, `FinalizersWaitForBlockers`, unless child contexts are pooled |
| `DataProofs` | `EntriesAreReachable`, `KeysAreFinalizedOnce`, `MapIsDictionary`; `RangesBehaveAsSets`; `DurationsAreExact` | `KeysFinalizedOnce`; the refinement `ImplementsDictionary`; `RangesAreSets`; `DurationsExact` |
| `ServerProofs` | `ConnectionsAreTracked`, `CloseReachesConnections`, `WaitGroupIsExact`, `HandlerClosedOnce` | `ConnsTracked`, `ClosedReachesEveryConn`, the wait group's count, an action property of `CloseHandler` |
| `ServicesProofs` | `ReportsShowWriters`, `MutexCountersAreExact`, `ReporterIsAlone`, `PausesAreReportedOnce`, `SamplesAreEven` | `ReportShowsWriter`, `OneReporter`, `PausesReportedOnce`, `SampledEvenly` |
| `PoolProofs` | `TokensAreConserved`, `WorkIsBounded`, `ObjectsHaveOneOwner`, `ShardsStayStaffed`; `ReportsAreExact`, `FinalizersAreKept` | `TokensConserved`, `OneOwner`, `ShardsStaffed`; unless an owner polls NumRef, `ReportsExact`, `FinalizerKept` |
| `ResourceProofs` | `LeaksAreFound`, `SlicesAreClean`, `GetsAreLargeEnough`, `IDsReadTheirText` | `LeaksFound`, `SlicesFitAndOwn`, an action property of `GetSlice`, `IDsKeepTheirBytes` |
| `LibraryProofs` | `PollsFindInTime`, `LoggersPrintTheirFields`, `MultiErrorsKeepErrors`, `AttemptsAreAccounted`, `BackoffsAreInRange`, `TracesAreRecent`, `IteratorsAreComplete` | `PollFindsInTime`, `LoggersKeepTheirFields`, `MultiErrorImmutable`, `AttemptsAccounted`, `BackoffInRange`, `TraceIsRecent`, `IteratorsComplete` |

What the invariants had to be strengthened with, and why:

- `Watchable`. `WatchableInv` adds that a channel is shut only by its watch or by the
  watchable, and that a channel whose first notification is still to come is open:
  without these a step of `WatchNotify` or `CloseWatch` could start from a state in
  which it panics.
- `Value`. Every step of the Source and of the Value is a step of the watchable
  between them or leaves it alone, so `WatchableInv` carries over; `ValueInv` adds that
  a watching Value has an updatable and, once Watch has returned, a goroutine for it,
  and that nothing newer than the value has been processed.
- `Context`, pool. `OneHolder` alone is not inductive: a Reset could follow links to a
  parent, so `HolderInv` adds that there are none and that unused contexts have no
  holder. `FreshFromPool` needs that a context on its way into the pool stays as its
  Reset left it, whatever its former user's DependsOn was doing (`ReturningClean`), and
  of its wait group that it counts exactly the dependencies in the slices of others, plus
  one for a DependsOn under way (`Owed` is zero, `WaitsExact`). A call would leave the
  count too high if its blocker were closed meanwhile: a client that holds the blocker
  and keeps it open for the call excludes that (`BlockerOpen`, where `LateDepends` is
  needed).
- `Context`, finalizers. A finalizer is in some slice, in the hands of a closing
  goroutine, or it has run; that the counts agree through `Capture` and `Reset` needs
  that a goroutine in `close` has marked its context done, that what was registered is
  left for exactly one capture and that a Reset meets only captured contexts
  (`MarkedDone`, `LeftToCapture`, `ItemsInFinalize`, `DoneUnlocked`, `FinalizedUnlocked`);
  an unpooled context may be reset while its finalizers are still being called. Waiting follows from
  `WaitsCounted`: a wait group counts at least the entries of its context in the slices
  of others and the DependsOn call under way, so past `Wait` there are none
  (`RunsUnblocked`). With child contexts a call ends at some root, and the proof needs
  only that it is one context without a parent: the shape of a family does not matter,
  as long as no child is returned to a pool, where its Reset would reach the parent
  (`NoPooledChildren`). `LateDepends` is not excluded: such a call may leave the count too
  high, which strands finalizers (section 5) but never runs one early.
- `HashMap`. A set only fills the slot where the probe stops, so no other probe loses
  its path; where keys do not collide every entry sits at its own hash (`AtHome`), so a
  delete opens a hole in nobody's path.
- `Server`. `ServerInv` ties every place a connection can be in to the set, the counter
  and the wait group (`WaitGroupCounts`), and says that at most one Close call is past
  its first step, which has set `serverClosed` (`OneCloses`).
- `DebugMutex`. `CountersExact` makes each counter the number of goroutines between its
  two updates; `StackOfWriter` says whose stack is stored while a writer holds the
  lock, and `ReportSeesWriter` what a report has already read.
- `Reporters`. Only the goroutine of the last generation can be alive, and it is while
  the state says so (`LastAlive`). For the pauses, `PausesInv` adds that the last count
  seen is the wrapped number of the last collection reported; it uses that the ring
  divides the range of the counter, as 256 divides 2^32.
- `ObjectPool`. `OneOwner` speaks of pairs of holders; `Owned` adds that the channel
  holds no object twice, and that objects not made yet are nowhere.
- `PooledWorkerPool`. `ShardsStaffed` counts permanent workers; a worker that kills
  itself starts its successor in the same step, and temporary workers are never counted.
- `SlicePools`. The invariant is about whole arrays, not only the part a slice shows:
  appending and reslicing reach what is behind the length (`GoodBuckets`, `GoodSlices`).
- `LeakcheckPool`. The list of pending items matches the elements that are out value
  by value (`ItemsMatch`), since Put removes the first item of an equal value.
- `Ident`. IDs that are alive have bytes of their own (`BytesApart`), and an ID is
  finalized by one of the client, its tags and the context (`OneFinalizer`): otherwise
  the second finalizer would take the bytes of a later owner. The pools hand out the
  lowest free number; that it exists is shown by a least counterexample.
- `MultiError`. The variable that is added to has the longest slice of its array
  (`LongestInArray`), so `append` writes only where no copy looks.
- `Retry`. `LoopState` says at each point of the loop how many calls and retries are
  counted, and how many are left. That a non-retryable layer is found at any depth
  (`LayerFound`) is a fact about the recursive search of `GetInner`: its definition is
  shown to have a solution, the search from the first such layer on, and the layers in
  front are crossed by a least counterexample. For the backoff, the options are the
  configured ones throughout (`BackoffInv`), the exponential is any fraction (the theorem
  does not depend on how floating point rounds), and the jittered and capped value is compared
  with the exponential case by case.
- `Checked`. `CheckedInv` has five parts. `ControlInv` says what each goroutine has left
  to do: it is the rest of a method (`Text`), preceded after a check by the tracebacks of
  what it reported (`Traces`, `Follows`), only the owner's can finalize, and while an
  object is finalized or in its pool nobody else is in a method of it (`QuietInv`).
  `FinInv` is about what has been loaded and not stored: any finalizer in somebody's
  hands is the one of this Get, so a late store changes nothing. `RefsInv` counts the
  references held, still to be taken and about to be given back, and says that who is
  in a read or write holds one, so the check after an add sees a reference, whatever
  happened in between. `WritesInv` makes the count of writes the number of goroutines
  inside one, and says that of two of them one has seen the other. Each of the
  nine actions is shown to keep each part.
- `Sampling`. A call is sampled when the counter is at zero modulo n, so `SamplerInv`
  bounds the calls since the last sample plus those until the next. `TimersInv` adds for
  a timer how often its counter has wrapped: each wrap completes a started n.
- `Debugger`. An entry is in one cycle or in the pool (`InOneCycle`, `NotPooled`), so
  reusing it changes no report; the ring is the last cycles (`HoldsLast`).
- `Logging`. The first cells of a logger's array are the fields it was made with (`Has`),
  and a new logger's array is one that no other logger has.
- `Iterators`. What Next has returned is the front of the slice up to the current index
  (`HasReturned`), also for a duplicate, which replays it. `Matches` is a recursive
  search; that it compares what is left is shown from the last element on. An iterator in the
  pool is as after a Reset, since `TagsIterator` does not reset it.
- `TimeRanges`. A list is `Tidy`: no range in it is empty, and of two the first ends
  before the second begins. The ranges merged by an add have a closed form (the least
  start, the greatest end); flattening and the loops of AddRanges and RemoveRanges are
  shown to have a solution, and what they compute up to a range follows by a least
  counterexample. `TidyListsAreSets` then needs no reachability: every tidy list has
  the property.
- `Durations`. The invariant is only that the variable is a duration; the work is in the
  operators. The sorted sequence of units exists, since a unit is at the place of its
  rank, and ends with the nanosecond, so nothing is left at the end. In the loop of
  `ToExtendedString`, what is written plus what is left is the magnitude, and whatever
  sums the parser forms over the written pairs, the last is what was written
  (`MagnitudeWritten`); no sum leaves the range, so none wraps. The least duration,
  whose negation is itself, is a case of its own throughout.

Hypotheses beyond the ASSUMEs are the switches of section 2, and each is needed: the
violation runs of section 5 show what happens with `Sampled`, `LateDepends`, `CollidingDeletes`,
`RacyClose` or two variables in `Live`, and `SharedBytes` and `PollsNumRef` are discussed
there. The ASSUMEs say what the code provides: goroutines, workers and users are finite
sets, there are at least as many worker names as permanent workers, bucket capacities
are sorted by `NewBucketizedObjectPool`, the ring of pauses divides the counter's range;
of the units that they are finitely many, have different positive values, that the parser
knows each printed unit with its value, and that `ns` is the unit of value one.
Those of `Retry`, `Sampling` and `Durations` include facts of arithmetic the provers lack, that powers
of natural numbers are natural numbers and that 2^w is twice 2^(w-1); TLC evaluates them
on the instance. One is about clients: the configured number of retries is not negative (the code then still calls
once, so "at most maxRetries + 1 calls" would not be true of it).

Type correctness, `ActiveAreOpen` and `ProbesReachEntries`, and the inductive
invariants of the proof modules, have no run of their own.

Only checked by TLC: all liveness (`NoFinalizerStranded`, `EventuallyProcessed`,
`GoroutinesEnd`, `ShutsDown`, `StopReturns`, `RefillReachesHigh`, `AllWorkDone`), since
the prover has no fairness or ENABLED here.

A proof has also corrected a definition: the arms of the CASE that `Subtract` had been
were not exclusive, so that its meaning, which TLC takes to be the first arm that holds,
was not determined. It is now the sequence of tests the code has.

## 5. Where code and documentation disagree

Six runs expect a violation and show it:

- `context_late_depends`: DependsOn on a context that has been closed adds to the
  wait group and registers nothing; the finalizers never run.
- `context_span_pool`: a pooled child context goes back into the pool with its
  parent link, because Reset delegates to the parent. The same Reset can lose
  finalizers: when a parent is closed and then its child, before the parent's
  finalizeables are captured, the child finds the parent closed and resets it
  (`FinalizedExactlyOnce` fails on this instance after eleven states), which is
  why its theorem excludes pooled children.
- `retry_backoff`: float64 has fewer digits than int64, so an exponential of nearly 2^63
  rounds to it, passes the test of `BackoffNanos` (as a float64 the largest integer is
  2^63 too) and may be converted to a negative number, for which a sleep returns at once; an initial
  backoff of the largest integer is enough. A test says no backoff is negative.
- `watchable_racy_close`: Watch sends after it has released the lock; a Close in
  between makes it panic.
- `hashmap_collision`: a Delete between colliding keys hides the keys behind it.
- `multi_error`: two values made by adding to one MultiError share an array, and the
  second Add overwrites an error of the first ("MultiError is an immutable error").

Smaller ones, in the models as the code has them and without a run:
BlockingClose of a context without finalizers does not wait for its dependencies
(`CaptureNone`; `context/types.go` says it does), and a pooled context goes back with its
wait group still counting. `FreshFromPool` says what is left of the promise: the count
is of calls that will come, so the next user waits too long and not for ever. A connection that `serve` has added
but not yet counted can be handled after `Close` has closed the handler (between
`addConnection` and `StartHandler`). `SetUnsafe` on a map without a finalize function
marks keys for finalization, and removing one panics (`removeMapKeys`). A Get of an
object pool right after the first step of Init calls a nil allocator without the
report that `OnPoolAccessErrorFn` promises (`Get`). A pool whose high watermark is
not above the low one still refills (`GetCheck`; `pool/types.go` says it does not).
Without GrowOnDemand, `Go` of a pooled worker pool does not wait for a worker but
for a place in the queue (`GoSend`).

In the newer modules: with `PollsNumRef` (and three lives) a store of
`getDebuggerRef` that comes late replaces the finalizer of the next life, though its
comment calls the race safe; `FinalizerKept` assumes owners that wait for DecRef to
return. With `SharedBytes`, finalizing one identifier takes the bytes of the other:
`bytesRef.Finalize` replaces the one of `RefCount` and checks no references, though
`checked/types.go` says that they must be zero (`FinalizeIDs`). `GetTagsIterator` is
documented to finalize its tags with the context, but only the iterator is closed
(`CloseIter`). `Tags` copied by value and finalized twice would put their array
twice. A configured zero of `retry` keeps the default (`ConfigOptions`).
The least duration prints as a sign without digits (`ToExtendedString`). A sampler of
rate r takes one in `1/r` rounded down, so the share can exceed the rate. A range
iterator that has ended and is asked again starts over (`Iter`). A level logger
answers Enabled without asking the one inside, so true does not mean a line is written
(not modelled). The host ID file is opened at every check and never closed
(`opened`). A build reporter with a non-positive interval panics in its goroutine,
where a base reporter returns an error. The goroutine of the mutex's `ReportEvery`
never ends: a stopped ticker does not close its channel. `SetTracebackCycles` with
objects alive may reslice a ring beyond its capacity.

## 6. Not modelled

Options and configuration records, interface declarations, tracing glue, system calls,
matchers and generated mocks hold no logic of the kind checked here. Metrics are left
out except where a property is about them (the server's gauge, the pooled worker
pool's number of routines, retry's and method counters, the collector's pauses).
`TrackObject` and the leak report of `checked` depend on when the garbage collector
runs. The resolvers of host IDs other than the file read one variable. The jump hash
works on 64-bit floats and integers, out of TLC's reach. The generated hash maps and
array pools are instances of the templates that are modelled. The internals of Go's
channels, wait groups and mutexes are taken as the language defines them.

## 7. Open

Every safety invariant and refinement the runs check is also a theorem, under the
hypotheses of section 4. Open is how a Reset that clears the child's own parent link would do: whether `FinalizedExactlyOnce`
and `OneHolder` then hold for pooled child contexts too has not been modelled.
