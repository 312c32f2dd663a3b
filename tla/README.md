# s3pgstore in TLA+

s3pgstore keeps parquet files in an S3 bucket and everything else about them in
PostgreSQL: which files exist, the version of each partition, idempotency tokens
and the order in which a change feed shows the files. There is no coordinator.
Writers, readers, the sequencer and the garbage collector are separate processes
that meet only in the catalog and in the bucket. This directory models those
meetings, checks them with TLC and proves what it can with TLAPS.

## 1. Inventory

| Part | Source | State it keeps | Operations |
|---|---|---|---|
| Catalog | `internal/catalog` | tables `files`, `partitions`, `pending_writes`, one table per materialized view | the SQL statements of `sql.go` |
| Write path | `write.go`, `idempotency.go`, `write_options.go` | locals of a call | `Write`, `WriteWithKey`, `LookupByToken` |
| Transactions | `executor.go` | the transaction in a context | `Run`, `RunInTx`, `WithTx`, `DetachTx` |
| S3 target | `target.go`, `s3client/` | none | `put`, `get` |
| Sequencer | `sequencer/` | none between passes | `RunOnce`, `Run`, the LISTEN loop |
| Garbage collector | `gc/` | the keys of a sweep | `RunOnce`, `Run` |
| Feed readers | `poll.go` | the caller's offset, pipeline stages | `Poll`, `PollRecords`, `PollIter`, `TailIter`, `OffsetAt` |
| Snapshot readers | `read.go`, `iter_pipeline_shared.go`, `dedup.go` | fetchers, decoders, byte budget, body slots | `Read`, `ReadIter`, `ReadPartitionIter` |
| Worker pool | `pool/` | slots, one group per call | `Submit`, `Wait`, `WithContext` |
| Partition lock | `lock.go` | PostgreSQL advisory locks | `LockPartition` |
| Materialized views | `materialized_view.go` | one table per view | rows inserted with a write, lookups |
| Rebuild | `cmd/s3pgstore-rebuild` | none | lists the bucket, inserts catalog rows |
| Metadata, filters, keys | `metadata*.go`, `filter.go`, `partition.go` | none | pure conversions |

How they interact. A writer inserts a `pending_writes` row in a transaction of its
own, then in one READ COMMITTED transaction bumps the partition's version (which
locks the partition's row), inserts the file row, PUTs the object, deletes the
pending row, notifies, and commits. The collector reads pending rows older than
a grace period and deletes object and row. The sequencer, under an advisory
lock, gives committed rows without `feed_seq` the next numbers. Readers select
rows and GET objects, with no lock at all.

What is hard, and what would make each part correct:

- *Write path.* Interleaved writers of one partition; token races; commits whose
  answer is lost; crashes between the pending row, the PUT and the commit. Correct
  if each write is one atomic append to its partition, answered the same way
  however often it is retried, never visible without its object, never orphaned
  out of sight.
- *Collector.* It never looks at `files`: time is its only protection against
  deleting a live object. Its clock is not PostgreSQL's. Correct if it deletes
  orphans only, and every orphan in the end.
- *Sequencer.* Writers commit out of the order in which they began and took
  their ids; replicas overlap; passes fail. Correct if readers see one log that
  only grows at its end, without gaps, and every committed row enters it.
- *Readers.* Bounded pipelines of fetchers and decoders, order, cancellation,
  early stops. Correct if each file is delivered once, in order, or an error is.
- *Pool, locks, views, caller transactions.* Slots, connections, row locks, unique
  tuples and advisory locks that actors wait for while they hold others. Correct
  if nobody waits for ever, and if what a caller is told is what was committed.
- *Rebuild.* It stops half-way, is repeated, and overlaps with itself. Correct if
  what it inserts is what the writers had committed.

## 2. Modules

| Module | What it is |
|---|---|
| `Catalog` | the shared state: tables as sets of rows, the bucket, PUTs in flight, the clock; the statements the other modules use |
| `WritePath` | `writePartition` in pool mode, one action per statement, with every way it can fail; extends `Catalog` |
| `VersionedLog` | abstract: one log per partition, a write is one atomic append |
| `OrphanGC` | collectors and time, beside the writers; extends `WritePath` |
| `Feed` | abstract: one append-only log of committed files |
| `Sequencer` | sequencer replicas beside an environment of writing transactions |
| `Store` | writers, collectors and sequencers together: `OrphanGC` extended, `Sequencer` instantiated |
| `CallerTx` | `Write` over several partitions, the caller's own transaction, partition locks, materialized views, the connection pool |
| `FeedReaders` | `PollIter` and `TailIter` and the consumer that resumes them; extends `Feed` |
| `RecordStream` | abstract: what a read promises its consumer |
| `IterPipeline` | fetcher, download tasks, decode workers and emit loop of `ReadIter` and `PollRecords` |
| `ReadQuery` | filters, grouping, sorting and deduplication, as operators |
| `LexOrder` | the order of strings, and sorting by rank |
| `Rebuild` | loss of the catalog and `s3pgstore-rebuild` |
| `RebuiltReads` | what readers are answered from a rebuilt catalog; extends `Rebuild` and `ReadQuery` |
| `MCStore`, `MCCallerTx`, `MCRebuild` | symmetry sets and instances for TLC |
| `SequencerProofs`, `WritePathProofs`, `StoreProofs`, `FeedReaderProofs`, `CallerTxProofs`, `RebuildProofs`, `ReadProofs`, `IterPipelineProofs` | theorems and proofs |

The abstract specifications and what implements them:

- `WritePath` implements `VersionedLog` (`WritesAreAtomic`; checked and proved), and so it
  does beside collectors and sequencers (proved of `OrphanGC` and of `Store`);
- `Sequencer` implements `Feed` (`FeedIsALog`; checked and proved), and `FeedReaders`
  reads `Feed`, not the sequencer;
- the writers of `Store` implement the environment that `Sequencer` assumes
  (`RunsSequencer`; checked and proved), so `Store` implements `Feed` as well (proved);
- `IterPipeline` implements `RecordStream` (`StreamsWhole`; checked, and proved for
  errors that do not look like cancellations).

Definitions marked *Faulty* in the modules are variants of the definition after
them, as a plausible mistake in the code would give it; substituting one makes
the property named for it in `PROJECT.json` fail.

### State and actions against the code

`Catalog`. A row is a record with the columns that something depends on.
Variables hold the committed state. What an open transaction has written is
kept in the locals of the process that runs it and appears at COMMIT in one step,
which is what READ COMMITTED shows to others. A partition without a row
is a row at version 0. S3 keys are numbers in the order they are generated (they
are UUIDv7). A PUT is put in `puts` when sent; S3 may apply it at any time, twice,
or never, also after the client gave up: this stands for the retries of the SDK.

`WritePath`. `pc[w]` names the statement that writer `w` runs next:
`lookup` (token lookup), `track` (pending row), `begin`, `upsert`, `insert`,
`put`, `putting` (PUT sent), `untrack` (DELETE of the pending row, MV rows,
pg_notify), `commit`. The upsert waits for the partition's row until
nobody holds it, and the lock lasts to the end of the transaction: `HoldsRow` is the
set of phases in which it is held. `WithExpectedVersion(N > 0)` is a plain UPDATE
that does not find, and does not wait for, a row at another version; a negative version
acts as 0 (`write.go:362`), so `Expected` has none. `failed`,
`conflict` and `raceLost` are the rolled-back states in which the pending row is
cleaned up when no PUT was attempted; `relookup` is the second half of
`translateWriteTxErr`. `FailAndLeave` covers the errors after the PUT, a
cancelled context and the end of the process. `CommitUnknown` commits without an
answer. `acked` is a history variable: the answers given without an error.

`OrphanGC`. A sweep is `Scan` (cutoff from a clock up to `MaxSkew` off, at most
`GcBatch` oldest rows), then per key `DeleteObject` and `DeleteRow`, each of which
may fail, or take effect and be reported as failed. `GcCrash` may come anywhere.
Nothing serializes collectors, so the run has two of them sweeping at once. `Timely`
holds the clock back while a write that still runs would outlast `WriteBound`
after its pending row, or `CommitBound` after its PUT; the code enforces neither, and
the proofs need only the first.

`Sequencer`. Of a writer only what a sequencer can notice is kept: the start of
its transaction (`written_at`), its file_id, commit or rollback. A pass is
`BeginTx`, `AcquireLock`, `Assign`, `Commit`; `now()` is taken at `BeginTx`, the
snapshot of the UPDATE at `Assign`, after the lock. A full batch starts another
pass, a short one waits for `Wake` (ticker or notification). An error in the
initial drain ends `Run`, later ones are logged.

`Store` maps the real writers of `WritePath` to the environment of `Sequencer`
(`WriterView`, `WriterStart`, `WriterId`, `CommittedIds`, `WrittenAt`).

`CallerTx` is about what transactions share, so a partition's write is coarser than
in `WritePath`: upsert and INSERT are one step, and tokens and expected versions are
absent. A task is a caller and a partition. Tasks are submitted in the order of their partitions,
each when it gets one of the worker pool's slots, which it holds to its end (`StartTask`,
`SlotFree`). In pool mode each task begins a transaction on a connection of its own. Under `WithTx` all tasks use the caller's
transaction, and the pending row and its cleanup still need a second connection
(`ConnFree`). Row locks, uncommitted view tuples and advisory locks are held to the
end of a transaction; `WaitsFor` and `InCycle` are PostgreSQL's deadlock detector.
An error of a statement aborts the transaction and releases what it holds
(`StatementFails`); one that is not PostgreSQL's ("conn busy", BuildS3Metadata, S3)
does not (`OtherwiseFails`). The first error cancels the group: tasks not yet submitted may
be skipped, running ones give up. The caller reads its partition as soon as it has
its lock, and commits only if `Write` returned no error; that is the documented
use, and `RowsObjectsTracked` depends on it.

`FeedReaders`. A query sees the feed at the moment it is answered
(`QueryAnswers`), while the page before it is still handed over; `TakePage` starts
the next one. A consumer passes one page size to all its calls, starts either iterator
at its checkpoint, may break off at any time, and resumes. `complete` remembers that a range ended as
ranges end when everything was read.

`IterPipeline` has both pipelines, `kind` choosing. Body slots, pool slots, a byte
budget for each worker and bounded queues are the resources. `cause` is the cancel cause of
`state.ctx`. The order of release, record, mark and return in a failing download is
kept as separate steps (`GetFails`, `MarkFailed`, `TaskEnds`), because a
decode worker can run between any two of them. `SubmitTask` may skip a task when
the group is cancelled, as `pool.Group.Submit` does. `CtxLikeErrors` says whether an
S3 or catalog error may look like a cancellation while the context is alive.
`ReleaseSlots` waits for a slot that is held: `release` is a receive from the channel,
without a `select` on the context. `markComplete` is one step: its counter and the
close of the partition's channel are `AllMarked`.

`ReadQuery` gives filters, `PreparePartitions`, sorting and deduplication as
operators. Values of partition columns are sequences compared as strings are
(`LexOrder`). `Filters` is the set of all filters with the filters they are built from, so
that translating and matching are functions on it. `Prefix` is `LIKE` with the wildcards
of its argument (`Like`; `filter.go:148`). A read deduplicates to the latest version, to each
version once, or not at all (`Modes`). `Sorted` puts each element at its
rank; the stable sort of `sortAndDedup` breaks ties by position (`Earlier`).

`Rebuild` is one life of a store: writes, orphans, the loss of all tables, any
number of runs of the tool that may overlap and stop anywhere, writes again. A run
is `List`, then for each group `InsertFileRow` per key and `UpsertPartitionRow`. Of a
row's columns those are kept that the tool recovers as they were. `RebuiltReads` puts every query of `ReadQuery` to the
catalog before the loss and after the rebuild. A record there is an entity, a version and the
key of its object, which tells the records of different files apart.

## 3. Runs

| Run | Properties | Question |
|---|---|---|
| `writes` | `TypeOK` `VersionsDense` `AnswersDurable` `RelookupHits` `ExpectedVersionWins` `CommittedNotTracked` `WritesAreAtomic` `CallsReturn` | Two writers, two partitions with the same token and expected version, all failures: is the catalog consistent, is every answer durable, does `WritePath` implement `VersionedLog`, do partitions interfere, does every call return? |
| `caller_tx` | `VersionsDense` `NoLostUpdate` `SlotsTellCommits` `ViewsFollowFiles` `RowsObjectsTracked` `EveryCallReturns` | Two `Write`s of two partitions, each in pool mode or in its caller's transaction with locks and a view: are updates lost, do the slots tell the truth, where does a call hang? |
| `collectors` | `SweepHarmless` `CommittedHasObject` `OrphansTracked` `OrphansReclaimed` | Two collectors beside a writer, with `Grace = WriteBound + MaxSkew`: is no live object deleted and every orphan reclaimed? |
| `sequencers` | `TypeOK` `GapFree` `NothingBehindReaders` `FeedIsALog` `EventuallySequenced` | Two replicas beside two writers: is the feed one log that every committed row enters? |
| `store_whole` | `FeedHasObjects` `RunsSequencer` | Writers, a collector and a sequencer together: is a file in the feed always readable? Are the assumptions of `Sequencer` met? |
| `feed_readers` | `ConsumedInOrder` `RangeComplete` `EventuallyConsumed` | A consumer that resumes beside a growing feed: does it get every offset once, in order, and in the end? |
| `pipelines` | `TypeOK` `BodiesBounded` `BudgetHolds` `StreamsWhole` `CallReturns` | Both pipelines with the smallest buffers, errors, breaks and cancellation: are streams whole, is memory bounded, does every call return? |
| `rebuild` | `CatalogRecovered` `OccContinues` `ReadsSurvive` `LatestWins` `HistoryKept` `RebuildEnds` | Is the catalog what it was, do reads and optimistic concurrency go on, do reads return the right record of each entity, does a repeated run end? |
| `token_before_version` | `RetryNeverConflicts` (violated) | A token is checked before the version. |
| `partial_read` | `NoPartialUnit` (violated) | No partition is emitted with some of its bodies missing. |
| `poll_hang` | `CallReturns` (violated) | A call of `PollRecords` that is cancelled returns, also after a download that failed with an error like a cancellation. |
| `rebuild_orphan` | `RebuildEnds` (violated) | A rebuild over the orphan of a failed attempt with a token ends. |

### Bounds, and why they are enough

- `MaxKeys` bounds write attempts (one key each) and file ids, `MaxFiles` the file ids
  of `Sequencer`, `MaxTime` the clock. They are guards, so a run stops when they are
  used up and deadlock is not checked.
- `writes`: two attempts by two writers are enough for a lost race, a conflict, a retry
  after an unknown commit, and each pairwise interference of partitions. Longer
  histories, and `WithExpectedVersion(0)`, are covered by the proofs of `WritePathProofs`;
  `token_before_version` has the latter.
- `caller_tx`: each caller writes once, and errors from outside strike one of the two
  `Write`s (`Struck`; they are alike, and cancellation and deadlocks strike both). Both
  write both partitions, which emit two tuples in opposite orders, on two connections
  and two worker slots: enough for both lock orders, deadlocks over rows and over
  tuples, a commit before, between and after the other's steps, and both resources
  used up. The lock keys of the two partitions differ here; `NoUpdateIsLost` is proved for
  any lock keys, those that collide too.
- `collectors`: the inequality is tight; `WriteBound` larger by one breaks
  `SweepHarmless`. A batch of one makes a failing key hold up another.
- `sequencers`: two rows and batches of one make passes overlap, and a row commit
  after a younger one was numbered. One tick makes `written_at` and `file_id` order differ.
- `store_whole`: two writers, one collector, one sequencer, two keys. More of each is
  covered by the proofs of `StoreProofs`.
- `feed_readers`: three files, pages of one and of two, so that a page is full, short or
  empty, and starts at 0 and 1.
- `pipelines`: three units, up to two files in each and four in all, two workers,
  queues of one, fewer body slots than the largest partition has files, a budget
  smaller than a partition. Unbuffered queues (`decodeAhead... = 0`) are left out.
- `rebuild`: two partitions, one a prefix of the other, three keys of which two can tie in
  one entity's version, prefixes with wildcards, two overlapping runs.

### Where a property names an exception

Two properties of passing runs hold but for a state that they name. In each case the
code does go wrong there: without the exception TLC finds the counterexample.

- `EveryCallReturns` excuses two exhausted resources, each wanted by a `Write` under
  `WithTx` whose transaction holds what the others wait for.
  `PoolStuck`: all connections are held, and a task needs a second one for its pending row
  (two callers in transactions of their own and two connections are enough).
  `SlotsStuck`: all slots of the worker pool are held, and a `Write` waits to submit its next
  partition (`pool.go:168-175`). Its first task is done, but the row is locked until the
  caller's transaction ends; the tasks of another `Write` hold the slots and wait for
  that row. PostgreSQL sees no cycle, since one of the waits is not in it, and without a
  deadline on the caller's context nobody moves. `write.go:139-142` rules such waits out
  only for writers outside a transaction.
- `RangeComplete` and `EventuallyConsumed` except `SeesOnlyZero`: `WithPollPageSize(1)`
  from `OffsetNone`. The first window is [0, 1) (`poll.go:254`), and no row has offset 0:
  `PollIter` takes the empty page for the tip and ends, without an error, before a feed of
  any length (`poll.go:276-280`), and `TailIter` asks for the same window for ever.
  `poll.go:225-229` says that an empty page means the tip has been reached; with pages of
  one offset it does not.

### What the violated runs show

- `token_before_version`: two calls with the same token and
  `WithExpectedVersion(0)`; both miss the token, one commits, the other's upsert
  finds version 1 and returns `ErrVersionConflict` for a write that is committed.
  The proposal v2.0 (line 687) and `write_options.go:58-60` say that tokens are
  deduplicated first.
- `partial_read`: `read.go:1208` takes any error that wraps `context.Canceled` or
  `DeadlineExceeded` for a cancellation of its own and records no cause. When the
  rate limiter's or a dial's deadline gives such an error while the context is
  alive, the file counts as complete without a body and its partition is emitted
  without it. The comment at `read.go:1038-1039` says that this cannot happen.
- `poll_hang`: such an error in `PollRecords`. The failed download has released its
  slot (`poll.go:1148-1149`); the worker takes the file for complete and waits for
  bytes of its budget. When the call is then cancelled, `poll.go:1236` releases a
  slot again. `release` (`iter_pipeline_shared.go:103-106`) receives from the channel of
  slots: if another file holds one, that file's slot is gone and more bodies are held than
  the bound allows; if none does, the worker blocks for ever, and `wg.Wait` with it.
  The comment at `poll.go:1202-1203` says that every blocking primitive must observe the
  context.
- `rebuild_orphan`: a failed attempt left its object, the retry with the same token
  left another. `insertFileRow` handles `ON CONFLICT (s3_key)` only
  (`rebuild.go:378`), so the second INSERT violates the token's UNIQUE index, in
  every run. `rebuild.go:87-90` promises that a run can be repeated.

### Divergences seen while modelling that no run checks

- Order of the feed. `poll.go:432-433` and the proposal (995-996) promise commit order.
  Rows are numbered by `written_at`, the start of the transaction: a writer that
  began first and got the row lock second commits later and is numbered first.
- `feed_seq_at`. `PollLagSQL` (`sql.go:222-227`) takes the row with the highest
  offset for the latest one; `now()` of a replica that waited for the advisory
  lock is older than that of the replica it waited for.
- Grace. `cmd/s3pgstore-gc/README.md:142-144` sizes it from PUT to COMMIT; it is
  measured from `intended_at`, before the transaction and its wait for the row.
  Lines 147-149 speak of an advisory lock that `gc.go` does not take.
- `write_integration_test.go:227-233` and proposal 737-739 let the pending INSERT
  take part in the caller's transaction; the code detaches it. So `write.go:139-142`,
  which rules out waiting for a second connection, holds only without `WithTx`.
- `SET LOCAL lock_timeout` lasts to the end of the caller's transaction, not of the
  statement (`lock.go:49-53`): later row waits of the `Write` can fail by it.
- `formatExtForS3` refuses Go types for NUMERIC that `validateMetadata` accepts;
  `metadata_s3.go:107-108` says the two mirror each other. The write fails before
  its PUT and nothing is lost.
- Extension columns are not rebuilt. `cmd/s3pgstore-rebuild/README.md:24` lists
  `ext_<name>` among the recovered columns and `README.md:634` calls the catalog fully
  recoverable, but only columns in `RebuildConfig.ExtensionColumns` are
  (`rebuild.go:328-330`, `363-370`), and `main.go:91-97`, its only caller outside the tests, sets
  none: the rebuilt rows have NULL there. `CatalogRecovered` does not speak of them.
- `written_at` becomes the object's `LastModified` (`rebuild.go:351-354`; documented), so a
  `ReadRangeIter` after a rebuild may return other files for the same range.
- `ReadRangeIter` speaks of commit time and filters by `written_at`; `PollRecordsIter`
  promises an error for an inverted range (`poll.go:497-498`) and yields nothing;
  `TailIter` is said to sleep after a partial page and sleeps after an empty one.
- A rebuild beside live writers can set a version back; it is documented as offline.

## 4. Fairness

Nothing a user decides to do is fair: no call has to be made, none has to be broken
off, no lock has to be asked for.

- `WritePath`: weak fairness of each statement of a live goroutine; strong fairness of
  the upsert, because PostgreSQL grants a row lock in the order it was asked for
  while other writers may take it in between; a PUT ends with an answer or an error,
  since the SDK bounds its attempts. The pending-row insert is left out because the
  bound on keys may disable it.
- `OrphanGC`: time passes, requests in flight are answered or lost, writers go on;
  `Scan` is weakly fair (`Run` sweeps every `Interval`); successful deletions are
  strongly fair (S3 and PostgreSQL do not refuse the same deletion for ever). A key
  that is refused for ever can occupy a batch for ever: see the hazards.
- `Sequencer`: `StartRun` and `Wake` are weakly fair (the process is restarted, the
  ticker ticks without any notification), the steps of a pass strongly, as passes
  may fail or the process end any number of times, but not always.
- `CallerTx`: of each caller and its tasks some step is taken while one can be.
  PostgreSQL grants a free lock and aborts a deadlock's victim; a cancelled context
  ends every wait of its tasks; a caller does not sit on an open transaction.
  A caller and its tasks take finitely many steps, so one weak fairness condition on all
  of them is enough. There are no timeouts in it: but for its two exceptions
  `EveryCallReturns` holds without any.
- `FeedReaders`: a query is answered or fails, the consumer takes what it is given,
  a tail that ended is called again, and not every one of them is broken off.
- `IterPipeline`: goroutines run, a GET ends with an answer or an error, the
  consumer asks for the next unit or breaks its loop.
- `Rebuild`: the operator repeats it, and it is stopped from outside only finitely
  often. A run starts again at its first key, so with a stop in every run it need
  not end.

## 5. Proofs

The theorems hold for every number of processes, partitions, tokens, keys and files,
and every batch and page size. They rest on the assumptions named in the modules:
bounds are naturals, batch and page sizes are positive, and, for the collector,
`GraceAssumption`: `WriteBound + MaxSkew <= Grace`.

*Sequencer* (`SequencerProofs`: `TypeCorrect`, `FeedIsGapFree`, `ReadersMissNothing`). The
invariant `IInv` says that the numbered rows carry 1 .. n, each once (`Numbered`), that at
most one replica is between lock and commit (`LockExclusive`), and that a plan numbers
rows without a number n+1 .. n+k, each once (`PlanFits`). The last part is what makes the
commit of a plan safe although it was computed in an earlier step: nobody without the lock
changes `feed_seq`, and rows that commit in between are only left out.
`SequencerImplementsFeed`: each step, seen through `committed` and `LogNow`, is a step of
`Feed` or changes nothing; the commit of a plan is `Extend` with the planned files in the
order of their numbers.

*Write path* (`WritePathProofs`: `TypeCorrect`, `VersionsAreDense`, `AnswersAreDurable`,
`LostRaceFindsItsRow`, `ExpectedVersionIsCas`, `CommittedKeysUntracked`). The invariant
has two halves. `KeyInv`: keys in use were generated, belong to one call, and are tracked
from the pending row to COMMIT. `RowInv`: one writer holds a partition's row
(`RowLocked`), its version is the committed one plus one (`VersionNext`), its token has no
row after its INSERT (`TokenFree`, `TokensUnique`), and fresh answers have versions of
their own (`FreshOnce`, `FreshVersion`). `WritePathImplementsLog` maps a partition's rows,
by version, to the log of `VersionedLog`: COMMIT is the append, with or without an answer,
a lookup that hits is the answer to an earlier append, and everything else stutters.

*Collector* (`StoreProofs`: `GcTypeCorrect`, `SweepIsHarmless`, `CommittedKeepsObject`,
`OrphansStayTracked`, `GcImplementsLog`, `AnsweredStaysReadable`). A key is alive while
its write runs or its PUT is in flight. `LiveIsYoung`: the pending row of a live key is no
older than `WriteBound`; so with `GraceAssumption` a scan finds dead keys only, and a dead
key stays dead (`NothingRevived`). Deleting it then disturbs nothing in `KeyInv`. Nor does
it touch a committed row, so each write beside collectors is still one append
(`GcImplementsLog`), and a `FileRef` that was answered names a committed row with its
object for ever (`AnsweredStaysReadable`: an acknowledged write stays readable).

*The whole* (`StoreProofs`: `StoreRunsSequencer`, `FeedKeepsObjects`, `StoreImplementsLog`,
`StoreImplementsFeed`, `StoreReadersMissNothing`). Every id the
sequence hands out is above all before it (`FreshIds`), so the row that a COMMIT adds
is the environment's commit of that id, and each statement of a writer is a step of
the environment or invisible; collectors are invisible. Hence what `SequencerProofs`
proves holds beside the real writers: its theorems are instantiated with the view that
`Store` has of them (`Proved`), and the feed of the whole is the log `Feed`
(`StoreImplementsFeed`), without gaps and never extended behind a reader
(`StoreReadersMissNothing`). No assumption about an environment is left in these two.
`FeedKeepsObjects` combines that numbered
rows are committed (`FeedCommitted`) with the collector's invariant.

*Feed readers* (`FeedReaderProofs`: `ReaderTypeCorrect`, `ConsumedIsTheFeed`,
`RangeMissesNothing`). The page in hand and the window in flight follow the cursor
without a hole (`Pos`, `Follows`, `IsWindow`), whatever was appended to the feed
after the query. A range that ends by an empty window has therefore seen all up to its
tip, unless that window was [0, 1) (`SeesOnlyZero`); `ReaderAssumption` asks of page sizes
only that they are positive, which `poll.go:236-239` sees to.

*Caller transactions* (`CallerTxProofs`: `TypeCorrect`, `VersionsAreDense`,
`RowsAndObjectsAreTracked`, `ViewsFollow`, `SlotsTell`, `NoUpdateIsLost`). A task's row
lock is held exactly while its rows are uncommitted in a live transaction (`LockedRows`,
`TasksHoldRows`, `Exclusive`), an aborted transaction has a failed `Write` (`AbortSeen`),
and what is visible belongs to ended tasks (`CommittedEnded`, `Counted`). `ObjectInv`
follows each key from its pending row to its file row. `ViewInv`: the view has the tuples
of the committed files, uncommitted tuples belong to the tasks that inserted them, and a
task of a transaction that can still commit is not done before all its tuples are in.
`SlotInv`: a slot has a version exactly when its task is done, a task that is done outside
`WithTx` has committed, and a caller's commit takes all its tasks. `LockInv`: a
transaction that is not aborted holds the locks it asked for (`HoldsAsked`), two
transactions never hold the same hash, also when two partitions collide in it
(`OneHolder`), and so what a holder has read stays the last version that a caller who
locks has written (`ReadCurrent`). Nothing follows for writers that take no lock, and
`NoLostUpdate` does not speak of them.

*Rebuild* (`RebuildProofs`: `RebuildRecovers`, `OccGoesOn`). Every run works on
objects only, and an object's metadata say what its row said (`RowOf`). The objects of a
partition have the versions 1 .. n, each once (`ObjectsNumbered`), and no two rows, now or
before the loss, have one key, so every run
computes the same row for it: runs that overlap or stop half-way write nothing that
another would write differently. What a run has taken off its lists is in the catalog
(`RunsKnow`), so the run that ends well leaves nothing out. Both theorems have
the hypothesis `OrphansAtLoss = FALSE`: with an orphan among the objects two of them can
have one version, and with a token the rebuild need not end at all (`rebuild_orphan`).

*Reads* (`ReadProofs`: `ReadsReturnLatest`, `ReadsReturnHistory`, `ReadsAreTheSame`), for any
filters, partitions and records. `Sorted` is defined by ranks, and in a strict order every
element has a rank of its own and every rank its element (`Ranks`), so a sorted sequence
has the elements of its set, each once and in order (`Ranked`). The files of a partition
come by key; hence so do their joined records (`JoinedInOrder`), and the stable sort leaves
equal versions of an entity in that order (`SortedRecords`). The last of an entity's
group then beats all the others (`LatestKept`), the first of a version's group is that of the
first key (`ReplicasKept`). The two theorems need only that keys tell rows apart
(`KeyInv`), and hold with orphans too. `ReadsAreTheSame`: `CatalogRecovered` gives rows with the
same keys and partitions before and after; a row's rank is the number of lower keys
(`RankOfKey`), whatever its file_id is now, and a filter looks at the partition
only, so the same objects are decoded in the same order (`SameBodies`). Like the theorems
on the rebuild it has the hypothesis `OrphansAtLoss = FALSE`.

*Read pipelines* (`IterPipelineProofs`: `PipelineTypes`, `BodiesAreBounded`,
`BudgetsHold`, `PipelineIsStream`, all from `PipelineInvariant`), for both pipelines and
any number of units, files, workers, slots, queue places and bytes. The invariant has
layers, each kept by every step that starts and ends in those before it:
a failed download has set the cause before anybody can see that it is over
(`CauseFirst`); workers take their own units in order (`InputsInOrder`); a worker that
finds the context alive behind its downloads therefore has all bodies, and frees
each once (`BodiesFollow`); so each slot is given back once (`SlotsCover`), queues
hold whole units in order and the head of the queue the emit loop looks at is the
unit it waits for (`QueuesInOrder`), and the reserved bytes are those of the units
decoded ahead (`BytesCounted`). The refinement follows from `QueuesInOrder`: an emit is the
next whole unit, a clean end comes after the last one, and an error is the cause.
These theorems have the hypothesis `CtxLikeErrors = FALSE`. It is not a convenience: the
code's order of release, record and mark is right, but `isCtxErr` drops the error that
`CauseFirst` needs, and without it a unit with missing bodies is emitted
(`partial_read`), a slot is released twice (`poll_hang`), and in a poll `BodiesBounded` fails.
In a read it does not: the decoder gives back the slots of the bodies it finds, so the
layers up to `SlotsCover` hold but for `CauseFirst` and whole units (`ReadInv`), and
`BodiesAreBounded` covers reads with any errors. What else is left with
`CtxLikeErrors = TRUE`, the types and the byte budget, is not proved: `QueuesInOrder` and
`BytesCounted` know a unit by its whole set of files.

Only model-checked: all liveness (`CallsReturn`, `EveryCallReturns`, `OrphansReclaimed`,
`EventuallySequenced`, `EventuallyConsumed`, `CallReturns`, `RebuildEnds`), since fairness
and ENABLED are beyond the prover. Every other property of a passing run has its theorem.
Which rows a filter matches, and that a filter translates, is a recursive function whose
values would need an induction over filters; the theorems do not depend on them.

## 6. Not modelled

- Parquet encoding, metrics, configuration, schema creation, environment parsing and
  the command wrappers have no behaviour a property depends on. The AWS SDK appears
  as late, repeated or lost PUTs and as failing GETs.
- `OffsetAt` (one query that looks up an offset by time), `Lookup` of a materialized
  view and `LookupByToken` as a call of its own are single reads of committed state.
- Range reads: `ReadRangeIter` resolves its files by `written_at` and then goes through the
  pipeline of `IterPipeline`. `ReadsSurvive` is about snapshot reads.
- Extension columns: what is accepted, written to the metadata and parsed back
  (`metadata.go`, `metadata_s3.go`). A value that cannot be written fails its write before the
  PUT, one of the failures that `WritePath` and `CallerTx` have at that point.
- Objects under the data prefix that the library did not write. The tool ends with an
  error at one (`rebuild.go:335-341`) until it is removed, as it documents; in `Rebuild` that
  is `Stops`, and the fairness of `RebuildEnds` excludes that it goes on for ever.
- The text of keys, names, SQL, headers and values; sizes other than the byte budget.
- Unbuffered queues of the pipelines, and retries inside the rate limiter.
- Materialized views are not rebuilt by the tool, and not in the model.
- Tokens and expected versions inside a caller's transaction: `WritePath` has them in pool
  mode, `CallerTx` has the transactions. A lost token race under `WithTx` is
  there an error of the statement, which aborts the caller's transaction.

## 7. What could follow

Tokens in `CallerTx`; the pool's nesting rule (a submission from inside a task panics) as
a checked property; `OffsetAt` over the clocks of `Sequencer`; types and byte budget of the
pipelines with `CtxLikeErrors = TRUE`, from an invariant that knows units by number.
