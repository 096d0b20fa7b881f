# TLA+ verification of `ev`

`ev` is an event store in Go. Applications keep *aggregates*, each the fold of one *stream* of events; drivers keep the
streams (on disk or in memory), and further drivers stack on them to notify subscribers, to derive link streams and to
resolve links. This directory models the parts that decide whether events are lost, duplicated or overwritten when
several goroutines use the store, logs are closed under them or the process crashes, checks them with TLC on small
instances and proves the core with TLAPS for all sizes.

Run a check with `tlc -config MCEventStore.cfg MCEventStore`, a proof with `tlapm EventStoreProofs.tla`.
`PROJECT.json` lists the runs, the source lines of every definition, a mutation for every property, the hazards and the
findings.

## 1. The system

| Component | State | Operations | Talks to |
|---|---|---|---|
| `ev.EventStore` (`src/ev.go`) | the top driver of the chain; global registry of drivers | `Register`, `Open`, `Option`; `Create`, `Update`, `Upsert`, `Load`, `Save`, `Append`, `Read`, `ReadN`, `FirstIndex`, `LastIndex`, `Truncate`, `EventStream` | calls `Driver.EventLog` and the event log it returns; calls back the application |
| aggregate root (`src/event/aggregate.go`) | `events`, `firstIndex`, `lastIndex` | `start`, `raise`, `append`, `Commit`, `Events`, `Version`, `StreamVersion`, guards `NotExists`, `ShouldExist` | owned by one caller; its events are shared with the batch a store appends |
| paging (`src/driver/driver.go`) | none | `GenerateStreamIDs` on top of the library's `PagerBox` | both stores' `Read`, gql `Events`, `Subscription.Events` |
| disk store (`src/driver/disk-store`) | LRU cache of open write-ahead logs, each behind a lock; the logs | `Open`, `EventLog`, `Append`, `Read`, `ReadN`, `FirstIndex`, `LastIndex`, `Truncate`, eviction | `tidwall/wal`, file system |
| memory store (`src/driver/mem-store`) | a locked slice of events per stream | the same, without files | - |
| streamer (`src/driver/streamer`) | subscriptions per stream; per subscription `idx`, `size`, `wait` | `Subscribe`, `Send`, `Recv`, `Events`, `Close`; `Append` forks a `Send` | the store below; subscribers |
| projecter (`src/driver/projecter`) | the projection functions | `Append` forks the append of links to `$all`, `$type-..`, `$pkg-..` | the store below, past the layers above |
| resolve-links (`src/driver/resolve-links`) | none | `Read`, `ReadN` replace links by the events they name | other streams of its own driver chain |
| event envelope and codec (`src/event/events.go`, `reflect.go`) | registry of types | ids, positions, marshalling | everything |
| GraphQL (`src/gql`) | one goroutine per subscription | `Events`, `EventAdded`, `TruncateStream`, `Linked` | event store, streamer |
| `internal/clean` | none | an unused sketch | - |

Interaction. Every operation on a stream runs under the lock of that stream's log, but `Load` takes it twice
(`FirstIndex`, then `Read`) and `Save` once, much later: between them any other client may write. `Append` passes down
the chain of drivers; on the way back the streamer and the projecter start goroutines nobody waits for. The streamer
holds its state lock for a whole `Send` and takes the lock of each subscription inside it; `Recv` waits on a channel
outside any lock.

What is hard here, and what makes each part correct:

- **event store and aggregate**: torn loads, stale versions, retries after failed or half-done writes, aggregates saved
  twice, unsigned arithmetic, truncation under a loaded aggregate. Correct means no lost update, creation once, no
  spurious conflict, no event stored twice, and "uncommitted" meaning just that.
- **paging**: unsigned counting at both ends of a window. Correct means each page is the run of positions its arguments
  describe, and pages of a growing stream join up.
- **streamer**: unordered `Send`s, a `Send` in the gap between two locked sections, a wake-up that must not be missed,
  appends that fail with events stored and send nothing, removal while others listen, a close that times out. Correct means an unbroken run of events for each subscriber,
  nobody asleep on events it lacks, and everything delivered in the end.
- **disk store cache**: eviction of a log in use, two open logs on one directory, a context that ends within an
  eviction, a failed migration, a crash within a write. Correct means that the cache cannot be told from logs that are
  always there.
- **memory store**: half-appended batches, positions after truncation, clones that are stamped instead of originals.
- **projecter**: links lost on a crash, out of order across appends, links to links, positions taken from unstamped
  events, links stored by an append that fails. Correct means one link for each event and projection, unless its own append
  failed, and subscribers told of what is stored.
- **resolve-links**: the resolved event must come back in the slot of its link, and a missing one must not do harm.
- **driver chain**: the order of the options decides which layer sees what the others append.

`PROJECT.json` ("hazards") has each of these at its line with the property that covers it, or why none does yet.

## 2. The modules

| Module | Models |
|---|---|
| `Words` | `uint64` and `int64` scaled down to `2*Half` values, with the wrap-around of the code |
| `Paging` | `GenerateStreamIDs`; `PagerBox` is an external operator |
| `PagedReader` | a client that pages through a growing stream (gql `Events`); also compares single pages with a reference |
| `StreamLog` | one stream of the disk store as a value: the retained events and the position of the first; one operator per operation of `eventLog` |
| `Aggregate` | `IsAggregate` as a value: events (id and position), `firstIndex`, `lastIndex` |
| `EventStore`, `MCEventStore` | clients running `Create`, `Update`, `Upsert`, further `Save`s, blind `Append`s and `Truncate` on one stream |
| `MemEventStore` | the same clients over the memory store |
| `Streamer`, `MCStreamer` | the streamer on one stream, with the loop of gql `EventAdded` as the subscriber |
| `AtomicLogs` | abstract: a store of streams that only grow at the end, with saves that need the stream as last seen |
| `DiskStore` | the disk store with its cache of open logs, on several streams; implements `AtomicLogs` |
| `Chain` | the driver chain as a sequence of layers: `Option.Apply`, `Unwrap`, `EventStream` |
| `Links`, `MCLinks` | projecter, streamer and resolve-links in such a chain, over streams of events and of links |
| `PagingProofs`, `PagedReaderProofs`, `EventStoreProofs`, `EventStoreSaveProofs`, `MemEventStoreProofs`, `StreamerProofs`, `DiskStoreProofs`, `LinksProofs` | theorems and proofs |

`EventStore` composes `Paging`, `Aggregate` and `StreamLog`; `MemEventStore` extends it with another store; `Streamer`
and `PagedReader` use `Paging`; `Links` uses `Chain`. `EventStore` and `DiskStore` meet at the operations of one log:
the former takes them for atomic, and the latter shows that the cache lets them be.

### EventStore

State: `log` (the stream), and for each client what it is about to do (`pc`), the operation (`op`), its aggregate
(`agg`), `Load`'s local `first` (`head`) and how its last operation ended (`err`). `raised` numbers the events (their
ULIDs). Two histories say whether the stream was cut back since the client loaded (`uncut`) and whether it is still what
the client loaded or last saved (`fresh`). `fresh` becomes false with every change of the stream but the client's own
successful save: another client's, and its own past the aggregate (what a failed write left behind, a blind append, a
truncation), but not with a call that leaves the stream as it was. A failed `Load` and a save on a stream that was
truncated at the front make it false too. `CreateOnce` is about saves that append: a `Create` whose callback raises nothing
appends nothing and is not refused when somebody writes the stream meanwhile. One action is what happens between two points
where other goroutines can interfere, i.e. one critical section of the log with the local code around it:

| Action | Code |
|---|---|
| `Begin`, `Resume` | the start of `Create`/`Update`/`Upsert`; the application going on with an aggregate it was returned |
| `LoadFirst`, `LoadRead`, `LoadFails` | the two halves of `Load`, with `event.Start`, `event.Append` and the operation's guard in the second; a driver error in either |
| `Raise`, `CallbackFails` | the callback |
| `Save` | `Save` up to the call of `Append`, `Upsert`'s guard, the panic of `Events(true)`, the empty save |
| `SaveAppends`, `SaveRefused`, `SaveMarshalFails`, `SaveWriteFails` | `eventLog.Append` under its lock, and `Commit` when it succeeded |
| `AppendBlindly`, `TruncateStream` | `EventStore.Append` and `EventStore.Truncate` |

The batch `Save` appends shares its events with the aggregate, so numbering them in `Append` (`Stamps`) changes the
aggregate too, also when the write then fails. A failed write leaves any prefix of the batch in the log: the
write-ahead log writes segment by segment and syncs at the end.

Streams are independent here (no operation touches two), so one stream is enough. Events carry no payload: no property
depends on it. `Create` and the others return an aggregate even when they fail, and the application may go on with it,
hence `Resume` after any result. What is not in it is a second `Load` of an aggregate that holds events already: `Load`
never empties `events`, so the aggregate then holds them twice; the three operations always load a new one.

`Truncate` reports "no driver" whenever it does not fail, truncation or not (`src/ev.go:305`), and `TruncateStream` ends
with that result.

### MemEventStore

The memory store under the same clients: the variables and most actions are those of `EventStore`, and only the appends
differ. `Append` clones each event, numbers the clone and stores it, one after the other, so the aggregate keeps the
positions its events were raised with, and an event that cannot be marshalled leaves the ones before it in the stream.
The version of a stream is the length of its slice, its first and last index are those of the events at the ends of it,
and `readStreamN` takes positions for indexes: the reads have actions of their own too. Without truncation, which the module assumes, the slice is a log that
starts at 1 and is read like one. With truncation it is not: `Truncate` slices by count while `readStreamN` indexes by
position, so the next read of the whole stream panics; a negative index panics at once.

### DiskStore

State: the directories (`old` and `new` layout) of each stream, the cache, the logs that are open with the last index
each believes in, the two kinds of locks, and per client the call it is in (`pc`, `op`, `at`), the log it was given
(`handle`), the log it has to evict (`victim`) and what it last saw of a stream (`view`). One action per critical
section: `EventLog` (`Hit`, `OpenLog`, `OpenFails`) with the migration of an old directory, `Evict` (the callback of the
cache, run under the lock of the store while it waits for the lock of the victim), the lock of a log (`LockLog`) and the
work under it (`ReadLog`, `SaveRefused`, `AppendNothing`, `AppendLog`, `FailsClosed`). A context may end at either lock
(`GiveUp`, `EvictGivesUp`), opening and renaming and writing may fail, and `Crash` leaves only the directories. A call may
hold its log across other calls, as `Load` and subscriptions do, and finds it closed then. Position arithmetic and
truncation are `StreamLog`'s; here events are numbers and streams start at 1.

Two mishaps put a stream in `broken`. When `Rename` fails on a directory that should move, its error is ignored and an
empty stream opened in the new place (`src/driver/disk-store/disk-store.go:159`). When the context ends while the eviction
waits for its victim (`:103`), that log is neither cached nor closed, and the next call opens a second one beside it, which
can overwrite its events. All properties are about the streams that are not broken, which are all streams unless one of
the two happened. `AtomicLogs` allows anything on a broken stream, and nothing on the others for it.

A `Save` of `DiskStore` appends to the log as its client has seen it (`view`), so `AtomicLogs` says of it what
`EventStore` relies on: the version names a history, not just a number.

### Chain and Links

`Chain` is functional: `Apply(chain, o)` is one option. `Links` opens a store with its options in any order, then appends
to the source streams. State: the layers, the streams' ends, the goroutines of the projecter with the links each still has
to append (`jobs`), the streams of links, the links whose `Send` goroutine has not run (`sends`), and one reader; the
histories `sent` and `unsent` have the links the streamer was told of, and those it never will be. `AppendEvents` starts a
goroutine for each projecter it passes. Its steps enter the chain below their projecter, and could start other goroutines
there: `AppendLink`, with the `Send` of the streamer in a goroutine of its own (`SendLink`); `LinkFails`, when the link is
not stored; and `StoredLinkFails`, when the append fails with the link stored (the final sync of
`src/driver/disk-store/disk-store.go:233`), so that no layer above the store goes on with it and nobody is told. Either
failure leaves the goroutine with its next link; it ends with the last one (`Running`). A link has the history `by`, which
of a projecter's outputs it is, for two projecters may link an event in the same stream. `AppendFails` stores events that
are never linked, `Crash` drops all goroutines, those of the streamer too.
`ReadLinks`, `Resolve`, `ResolveFails` and `ReturnPage` are `Read` and `ReadN` of resolve-links: `Resolve` reads the events
of one stream, whichever comes next in the map, and puts the k-th of them into the k-th slot of the page (`Ptrs` lists, in
order, the slots whose links point into that stream).
`TruncateFront` comes between any two of these.

What `Resolve` does is the code's behaviour, also where it is wrong: with links into two streams the events of both go to
the first slots (`src/driver/resolve-links/resolve-links.go:129`), and one truncated event leaves every link into its stream
unresolved, because the error of the read is dropped (`:119`). `OneStreamInPlace` has those two as its limits.

### Streamer

State: `last` (the stream), the batches whose `Send` goroutine has not got the state lock (`sends`, a set: goroutines
are not ordered), the `Send` that holds it and whom it still visits, the list of subscriptions, and per subscription
`idx`, `size`, `wait` and where its loop is. The histories are where a subscription began (`from`), the positions a
subscriber was given (`got`), the highest position sent (`sent`) and whether a `Send` reached it out of turn (`outOfTurn`): between `Events` and `Recv`, after a
`Send` of later events, or after `Events` returned later events. The unlocked read of `position.wait` in `Recv` is a data
race, and the action `Select` takes any outcome: the open channel, `nil`, or the channel that was closed meanwhile.
`Stamped` says whether the store below numbers the caller's events (disk store) or clones (memory store).

`AppendBatch` is an `Append` that succeeds. `AppendFails` is one the store below fails with some or all of its events stored:
the wrapper returns before the `Send` (`src/driver/streamer/streamer.go:181`), and on a stream that stays quiet then,
subscribers sleep without those events. That is the code's behaviour, so `SleepsCaughtUp` asks for the stream up to the
last event any `Send` has carried, and `Delivered` for every event that was announced: that lies at or before the end of a
batch whose `Send` ran or is to run, the events a failed append left before it included. `Delivered` asks for the event
itself. A subscriber from -1 is owed what comes behind the first event it is given, and that is not always the first event
that was appended while it listened: on an empty stream the `Send` of a first batch of two gives it a size of 3, and
`Events` reads from -1, which is the last event, so that the first of the two is never given to it (`:296`).

Not in it: `Append` of no events, which sends the position of `NilEvent`; truncation of the stream (the runs have
`first = 1`); the channel from the loop to the GraphQL client. `lg.Fork`, which makes the context of the `Send` goroutine, is
taken to give it one that does not end with the caller's, so that a `Send` always reaches its subscribers.

## 3. The runs

| Run | Result | What it shows |
|---|---|---|
| `paging` | holds | `ForwardPage`, `BackwardPage`, `PageFromTheEnd`: which page each cursor and count gives, pages that name a position outside the window included; `PagesJoinUp`: paging through a growing stream repeats and misses nothing |
| `store` | holds | `TracksOrBehind`, `NoLostUpdate`, `CreateOnce`, `RefusedOnlyOnChange`, `SavableIsNew`, `PanicsOnlyTruncated` for two clients, with every fault and truncation at either end |
| `memory` | holds | `NoLostUpdate`, `CreateOnce`, `NoDuplicates`, `SavableIsNew` over the memory store, with half-stored batches |
| `stream_file` | holds | `Registered`, `UnbrokenInTurn`, `SleepsCaughtUp` for two subscribers over the disk store, with appends that fail |
| `stream_delivery` | holds | `Delivered` under fairness, for a subscription from the start or the last event, with appends that fail |
| `disk` | holds | `LocksHeld`, `OneOpen`, `InStep` through evictions, cancelled contexts, failures and crashes; `ImplementsAtomicLogs` |
| `links` | holds | `EveryLinkOnce`, `PointsToEvents`, `InOrderOfAppend`, `LinksAreSent` for every order of options and goroutines, with failures and crashes; `NothingInvented`, `OneStreamInPlace` for pages read meanwhile |
| `commit_truncated` | violated | `Commit` ignores `firstIndex`: after a save on a front-truncated stream committed events count as uncommitted |
| `torn_load` | violated | `Update` reports "should exist" on an aggregate with an event when `Load` straddles the first append |
| `late_send` | violated | a `Send` out of turn makes a subscriber skip or repeat events |
| `late_select` | violated | `Recv` blocks on a nil channel after it was notified |
| `stream_memory` | violated | over the memory store subscribers sleep on events they were never given |

The violated runs each check a sentence of the repository's own comments, quoted in `PROJECT.json` ("findings"). The
provisos of the runs that hold (`uncut`, `outOfTurn`, "stuck") are those races, so the pairs say together what the code
guarantees and what it does not; the provisos of `disk` and `links` (`broken`, `lost`, links into one stream) are the
mishaps described with the modules, where no comment of the code promises anything to hold them against. A cut-back stream deserves a word: after
`TruncateBack` and new appends a version number names other events, and an aggregate loaded before can be saved although
it has not seen them; `NoLostUpdate` ends there. It is also how an aggregate that a torn `Load` started at 0 - 1 can be saved
and then make `Events(true)` slice out of bounds; `PanicsOnlyTruncated` says that without a truncation nothing does.

Pages may leave the window. A forward page from a cursor past the end, a backward page from the last event, and a page
counted from the end back out of the window hold a position the stream does not have. The disk store answers with "not
found"; the memory store indexes its slice with it and may panic (`src/driver/mem-store/mem-store.go:228`). The three page
properties say exactly which position that is, and when the page is empty instead.

Bounds and why they are enough:

- `Half` (2^63) is 8 or 16, so words have 16 or 32 values. Streams stay below `Half`, as real streams do, and the wraps
  the code meets (`first - 1` at 0, `lastIndex - firstIndex`, late sizes) happen as in 64 bits. In `paging` every
  window up to 5, every cursor and every count of the words is an initial state. The paging properties are stated in
  unbounded integers, as is the sum of last position and cursor in the external `PagerBox`, which in 64 bits overflows only
  for cursors next to -2^63 (there the words of the model do not wrap).
- `store` has 4 events and truncation indexes -2, 0, 2 and 3 (1.24 million states up to symmetry): every truncation of
  such streams in both directions and the call that does nothing. Three or four events and batches of up to two let a batch fail in the middle, a stream be truncated between two
  saves, and an aggregate be saved twice with a foreign write between. Two clients make every pairwise race.
- In `Streamer` three events in batches of up to two give two or three `Send`s in any order; two subscribers are what it
  takes to remove one while the other listens.
- In `disk` a cache of one log and two streams make every opening an eviction; two clients make one hold the log the
  other evicts. Three handles never run out: one is cached, the other client holds one at most, and one is opened. Batches of two with two events
  cover a batch torn in the middle and an append behind it (`MaxEvents` 2, 760 thousand states). The run does not go on
  from a broken stream (`Unbroken`); what holds after one is proved, and was also checked with one event and no
  constraint (4.8 million states).
- In `links` two appends of up to two events on two sources, three options (streamer and two projecters, which both link
  to `$type` and one to `$all` besides) in every order, one failure or crash, and pages of `$all` give two goroutines that interleave and a page with
  links into one or two streams, before and after a truncation (1.47 million states up to symmetry). At most one
  `Send` of a link waits at a time (`MaxSends`), which is enough for a crash to cut it off and for a page or another goroutine
  to come before it; the proofs hold for any number of them. Pages have up to two links (`PageSize`): one stream or two.
- Clients, subscribers and, in `links`, sources are symmetric where no liveness is checked.

Deadlock. The event store never stops (a client can always begin), and TLC checks that. The paged reader ends at the end
of the stream and the streamer ends with all events appended and every subscriber closed or asleep, so their runs
do not check deadlock. `disk` and `links` end when their bounds on events, appends and failures are used up: a call with
events left to append, or a store with nothing left to do, is then no deadlock of the code. In `disk` that nobody is
stuck on a lock is what `LocksHeld` is for: the holder of the store waits at most for the holder of a log, who waits for
nobody.

Fairness (`FairSpec`). Goroutines that can run do run: weak fairness of `Send`'s steps and of each subscriber's loop.
The lock is a channel served by the runtime, and a `Send` in progress always ends. Nobody need append, subscribe or
cancel, a Close need not time out, and `SendStarts` is fair as a whole, not for each batch: which `Send` comes first is
left open. `disk` and `links` assume no fairness and check no liveness: what must eventually happen there is that locks are
released and links appended, which `LocksHeld` and `EveryLinkOnce` have as safety properties.

## 4. The proofs

All theorems hold for every value of the constants allowed by the assumptions: `Half` above 1, no more events than
`AllEvents`, truncation indexes that are integers; any set of clients and streams, any size of the cache, any subset of
the faults. For `Links`: any set of source streams and of projecters, any bounds on appends, events and failures, options that
are a streamer or projecters (`OptionsAssumption`), and readers of streams of links (`ReadFromAssumption`).
Projecters link events in any streams, several of them in one stream too (`TargetsAssumption` only says that what a projecter
makes of an event is a sequence).

- `PageForward`: `GenerateStreamIDs` returns exactly the positions behind the cursor. The least stop of the loop is
  shown to be the last index of the box.
- `PageFromEnd`, `PageDown`, `PageBehind`: a page counted from the end is the run from there, up or down, when it starts in the
  window or one step before it (`PageBackward`), and one position or nothing from further out; one read down from a cursor
  starts behind it; one from a cursor past the end is the position behind the cursor. The loop goes either way; that the least
  stop exists and is the last index of the box comes from well-foundedness of the natural numbers (`LeastIs`).
- `PageFromTheEndCorrect`, `BackwardPageCorrect`, `TypeCorrect` follow for `PagedReader`.
- `ForwardPageCorrect`, `PagesJoinUpCorrect`: the inductive invariant adds to `PagesJoinUp` that the window is a window
  and that what was read lies inside it up to the cursor.
- `TypeCorrect`, `TracksOrBehindCorrect`, `NoLostUpdateCorrect`, `CreateOnceCorrect`: from one inductive invariant
  `IInv`, the types and, for each client, `ClientOK`:
  - its aggregate has at most `AllEvents + raised` events, so that no position overflows;
  - while it loads, its aggregate is new and the first index it read is not above the present one (truncation only
    raises it), so a load can be numbered too low but never too high;
  - about to append, it has something to append, and `Events(true)` did not panic;
  - between guard and append, a creator's version is 0 and an updater's stream is not empty, for a stream never
    becomes empty again;
  - unless the stream was cut back, its aggregate tracks the stream or is behind it (`Knows`).

  `TracksOrBehind` alone is not inductive: a load in progress would be unconstrained. The argument for a save: the
  version check admits only the last position (`AppendOnly` is out of reach of a version), which excludes "behind", so
  the saver tracks the whole stream. After the save it tracks it still, or, when the stream was truncated at the front,
  `Commit` leaves it behind: the wrong version is always too low, so the defect costs refused saves and never an
  overwritten update. Other clients' steps only append (`KnowsAfterAppend`) or truncate (`KnowsAfterTruncate`).
  There is one lemma per action. `IInv` was also checked by TLC with the constants of `store`.
- `SavableIsNewCorrect`: `NewInv` adds to `IInv` that ids are handed out in order and that the uncommitted events of an
  aggregate which can still be saved are in no other aggregate and not in the stream. What brings events into the stream
  while they look uncommitted, a write that fails after some of them or a commit on a front-truncated stream, leaves the
  aggregate behind the stream, and hence refused, and the events of the others apart. `NewInv` was also checked by TLC with
  the constants of `store` and three events.
- `RefusedOnlyOnChangeCorrect`: `FreshInv` adds to `IInv` that, while the stream does not change, a load under way has read
  the first index the stream still has, and that the aggregate of a client for whom it has not changed has its version. A
  save on a stream that was not truncated at the front keeps this, for `Commit` then sets the version to the last index; one
  on a truncated stream makes its aggregate stale (run `commit_truncated` shows why), as do a batch stored in part and what
  the client does past its aggregate, and `fresh` says so.
- `PanicsOnlyTruncatedCorrect`: `CalmInv` adds that, on a stream not truncated at the front and not cut back since the load,
  an aggregate starts at 0 and counts no more events as committed than it has (`Calm`); or a torn load started it at 0 - 1,
  and then it is behind the stream, and is never saved. `FreshInv` and `CalmInv` were checked by TLC with the constants of
  `store`.
- `MemEventStoreProofs`: `MemNoLostUpdateCorrect`, `MemCreateOnceCorrect`, `MemSavableIsNewCorrect`, `NoDuplicatesCorrect`,
  under `MemoryAssumption` (nobody truncates). `IInv` does not hold here, for the aggregate's events keep the positions they
  were raised with; `MemIInv` has `Same` for `Tracks`: the aggregate starts at 0 and agrees with the stream in the ids of its
  committed events. `NewInv` holds as it does for the disk store, by the same lemma about a step (`StepNewInv`): a batch of
  which a part was stored is longer than what its aggregate knows of, which is thereby behind. `OnceInv` adds that the
  uncommitted events of an aggregate are pairwise different, so that a batch stores none of its events twice. These
  invariants too were checked by TLC with the constants of `memory`.
- `StreamerProofs`: `TypeCorrect` and `RegisteredCorrect` for subscriptions from anywhere over either store, from `Base`: a
  batch that is sent lies inside the stream, a list of subscriptions holds nobody twice and everybody who listens (`delete`
  moves the last into the gap). `UnbrokenInTurnCorrect` and `SleepsCaughtUpCorrect` assume `Proviso`: the store stamps the
  events it is given, and subscriptions start at the beginning or at the last event. Over the memory store `SleepsCaughtUp` is
  false (run `stream_memory`), and a start behind the end of the stream makes `idx` and the events given disagree. Their
  invariant `Turn` says that what a `Send` has carried is in the stream (`Newest`), and of each subscription nothing has come
  to out of turn that its events are a run, that between `Events` and `Recv` mark and size lead to the last of them
  (`LoopOK`), and that from `Recv` to `Events` the mark is the last of them and the size reaches to the last event any `Send`
  has carried, unless the `Send` that carries it is yet to visit the subscription (`RecvOK`, `Pending`). So a `Send` in turn
  sets the right size, over what failed appends have left in between too, and a subscriber that goes to sleep while no `Send`
  is under way has everything that was sent. `IInv` was checked by TLC with two subscribers and starts 0 and -1 (8.8 million
  states).
- `DiskStoreProofs`: `TypeCorrect`, `LocksHeldCorrect`, `OneOpenCorrect`, `InStepCorrect`. The invariant adds to these that a
  cached log is an open log of its stream (`CacheOK`), that a victim is open and its stream not cached (`VictimOK`), that a
  call works on its own stream (`HandleOK`) and that no log, be it of a broken stream, ends behind its directory
  (`Bounded`). The step that matters is `OpenLog`: a stream that is not cached has no open log (`NotOpen`), for the only other
  one would be a victim, and whoever evicts it keeps the store locked, so that nobody opens anything.
- `AtomicLogsImplemented`: each step maps to one of `AtomicLogs` or a stutter: `AppendLog` to `Add` or `Save`, `ReadLog` to
  `Read`, `Call` and `Crash` to `Forget`, a failed rename or an eviction given up, and anything on a broken stream, to
  `Break`. A migration moves the contents and is a stutter. `ViewOK`, the client's memory of a stream is a beginning of
  it, makes the length of the memory, which is all `Save` compares, stand for the contents.

- `LinksProofs`: `EveryLinkOnceCorrect`, `PointsToEventsCorrect`, `InOrderOfAppendCorrect`, `LinksAreSentCorrect` from
  `LinksInv`, `NothingInventedCorrect` and `OneStreamInPlaceCorrect` from `ReaderInv`, which are shown inductive together
  (`LinksInductive`).
  - The chain is what its options make of it (`Made`): each kind of layer at most once, the projecter holding the functions of
    all projecters applied so far, above the streamer or below it as `StreamerFirst` says. One lemma for the first projecter or
    a streamer (`MadeWrapped`, `MadeFirst`) and one for a projecter that joins (`MadeExtended`). From it: an append passes one
    projecter, and a goroutine, which appends below it, passes none (`NoForks`), so that no link is linked.
  - Every link a function owes is in exactly one of three places: its stream, a goroutine, or `lost` (`PlacesOK`). No two
    goroutines and no two slots of a stream hold the same link (`JobsOK`, `StreamsOK`). `EveryLinkOnce` alone is not inductive,
    for it counts only the links of stored events and says nothing of who could add one that exists already. What an append
    starts is new (`NewApart`), because its positions are behind the end of the stream; everything else moves a link from one
    place to another (`PlacesMore`, `StillFine`).
  - Two links into one stream are in the order of their events, or belong to different appends (`InTurnOrApart`): within a
    stream of links, within a goroutine, and between a stream and what a goroutine has still to append (`AheadOK`).
  - A page of links into one stream is either as it was read or resolved in place, and the latter only when nothing is left
    to do (`OneStreamFine`); truncation keeps what is gone gone.
  - `LinksOf` flattens sequences of sequences. What `FlattenSeq` returns, all elements in their order and no others, is `FlattenFacts`: the
    fold is a recursive function on `1 .. n`, and that it has the value claimed follows from the least index where it had not
    (`UpTo`, from well-foundedness). `PtrsFacts` says that the ascending listing `Ptrs` chooses exists.
  - What a goroutine appends passes the streamer when subscribers hear of it (`SendIt`), so a stored link is sent, about to be
    sent or known to have met a failure, in one of the three only (`SentOK`).

What stays with TLC: the liveness properties `Delivered` and `Notified`, for fairness and `ENABLED` are outside the prover's
reach, and the properties of the runs that show a violation.

## 5. Not modelled

- Truncation of the memory store. `Truncate` slices by count while reads take positions for indexes
  (`src/driver/mem-store/mem-store.go:212`): afterwards positions repeat, a read of the whole stream panics or misses events,
  and a version number comes back with other events behind it. No property of the store is left to check.
- A second `Load` of one aggregate: `Load` does not empty it, so it then holds its events twice
  (`src/ev.go:176`).
- In `DiskStore`: a stream whose name is that of a hash directory, which is taken for a directory in the old layout and moved
  away with the streams in it (`src/driver/disk-store/disk-store.go:157`); what happens on a broken stream beyond that no other
  stream suffers from it.
- In `Links`: the memory store, over which the links of a blind append name the positions `NewEvents` gave, not those of the
  stream; links to links, which the projecter does not make.
- `Register` (a map filled at start), the GraphQL channel and page info, `Linked`: no other state depends on them.
- The event codec and reflection (data, no control), `internal/clean` (unused). The write-ahead log, the LRU cache and the lock
  library are external; the models say what they are taken to do.
