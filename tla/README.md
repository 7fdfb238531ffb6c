# A TLA+ model of dynamic-config-go

dynamic-config-go wraps a Viper engine in a `Config[T]`: typed, immutable
snapshots of a configuration, published one at a time, reloaded on request or
when the files change, announced to subscribers, and frozen by `Close`. Almost
all of the library is concurrency: goroutines that reload, one that delivers,
two that watch, any number that read without a lock, and one that closes them
all. These modules model that, TLC checks them on small instances, and TLAPS
proves their invariants for any number of goroutines, handlers, files and
changes, and that the composed models implement the separate ones.

Run a check with `tlc -config MCReload.cfg MCReload`, a proof with
`tlapm ReloadProofs.tla`.

## 1. The system

### Components, their state, their operations

| component | code | state | operations |
|---|---|---|---|
| lifecycle | `internal/lifecycle` | one atomic state word under a mutex, the channel `done` | `Ready`, `BeginWatch`, `EndWatch`, `BeginClose`, `FinishClose`, lock-free `Closed`, `Done` |
| reload transaction | `reload.go` | the Viper engine; `reloadSem` (a channel of one), `publishMu`; `current`, `generation`, `successfulReloads`, `failedReloads`, `configFiles`, `fileStamps` (all atomics) | `Reload`/`doReload`, `runTransaction`, `commit`, `initialLoad`, `reportFailure` |
| construction and shutdown | `constructor.go`, `config.go` | none of their own | `New`, `Wrap` and the sealed forms (`build`), `Close`, `beginClose` |
| dispatcher | `internal/dispatch` | `queue` (a bounded channel), `dropped`, `quit`, `finished`, `startOnce` | `Submit`, `Start`, `run`, `Stop` |
| subscriptions | `subscription.go`, `config.go` | two registries: ordered entries and a terminal `closed` flag | `Subscribe`, `SubscribeErrors`, `Unsubscribe`, `close`, `snapshot` |
| delivery | `reload.go` | closures over the handlers captured at submission | `dispatchChange`, `emitError`, the panic-isolating handler wrappers |
| debouncer | `internal/debounce` | `trigger` (a channel of one), a timer | `Trigger`, `Run` |
| watcher | `watch.go` | the watch set, the lost directories, a retry timer, `c.watching` | `Watch`, `watchLoop`, `cancelOnClose` |
| read stage | `reload.go` | the read result of the transaction under way; what the Viper engine holds and which file it found | `readIntoViper`, `readDiscovered`, `tolerateMissingFile`, `statStamp`, `filesChangedSinceLoad` |
| status | `status.go`, `config.go` | none: it loads the atomics one after the other | `Status`, `Generation`, `ReloadCount`, `Current` |
| options | `options.go`, `constructor.go` | the resolved options, never written after construction | ten options, each with its check, applied in order by `build`; then the Viper setups |

### How they interact

`New` runs the first transaction alone, starts the dispatcher's worker, and makes
the lifecycle ready. From then on any goroutine may call `Reload`: it looks at
the lifecycle, waits for `reloadSem` (or its context, or `done`), looks again,
reads, decodes, validates, and commits under `publishMu`, where it looks at the
lifecycle a third time. It gives `reloadSem` back *before* it submits a
notification, so that nothing is held while user code may run. The worker
takes notifications from the queue and calls the handlers each captured when it
was submitted; a handler may itself reload, close, subscribe or panic. `Watch`
claims its slot in the lifecycle, adds directories to an fsnotify watcher, and
runs a loop that turns events into triggers; a debouncer turns triggers into
reloads. `Close` takes `publishMu` for the transition to closing, closes `done`
(which ends waits and watches), stops the dispatcher with a time limit, and
empties the registries.

### What is hard in it, and what makes it correct

- *Transactions.* One engine that is not safe for concurrent use; waiting that
  can be cancelled; three lock-free stores per commit. Correct when a transaction
  decodes what it read itself, only accepted configurations become current,
  generations are gapless and counted, and the token is never lost.
- *Shutdown.* `Close` races everything, several callers race each other, and a
  handler may call it. Correct when nothing is published once closing has begun,
  and when `Close` returns all the same.
- *Delivery.* A bounded queue with many producers that never wait. Correct when
  reloads and closers never wait for a subscriber, losses are counted, order is
  kept, one bad handler costs nobody else a call, and a closed registry stays
  empty.
- *Loading.* Files layered or discovered, optional or required, that come, go
  and change between one system call and the next; an engine that keeps what a
  failed read left in it; options that may be wrong after others have been
  applied. Correct when a snapshot holds every required file, the recorded
  files and stamps belong to the snapshot and hide no change, a reload shows
  what was written before it was called, and a mistaken option leaves no trace.
- *Following files.* Files change at any moment: before the watch, between a
  stat and a read, during a reload, while a directory is away, faster than the
  operating system queues events. Correct when an idle watch has published what
  the files hold, at most one watch is ever active, and it ends when told to.

`PROJECT.json` lists the hazards line by line, with the properties aimed at each.

## 2. The modules

| module | models | built on |
|---|---|---|
| `Lifecycle` | the state machine: transitions only, no specification | |
| `Publication` | abstract: a register that takes acceptable configurations, numbers them without a gap, and is frozen by closing | |
| `Reload` | `doReload`, `initialLoad`, `Close` and the stores they make | extends `Lifecycle`, implements `Publication` |
| `ReloadProofs` | theorems about `Reload` | extends `Reload` |
| `Dispatcher` | `internal/dispatch` on its own | |
| `SequenceFacts` | lemmas about appending to sequences, taking the head and cutting an entry out | |
| `DispatcherProofs` | theorems about `Dispatcher` | extends `Dispatcher`, `SequenceFacts` |
| `Delivery` | reloads, registries, handlers and the dispatcher together | extends `Reload`, instantiates `Dispatcher` |
| `DeliveryProofs` | theorems about `Delivery`; that it implements `Reload` and `Dispatcher` | extends `Delivery`, `ReloadProofs`, instantiates `DispatcherProofs` |
| `Options` | the options: what each sets or adds, which values it refuses | |
| `Loading` | construction from options, the file system, the read stage, and the file list and stamps that a commit stores | extends `Reload` and `Options` |
| `LoadingProofs` | theorems about `Loading`, from lemmas about the steps that it and `Watch` have in common | extends `Loading`, `ReloadProofs`, `SequenceFacts` |
| `Watch` | directories and events, the debouncer and the watch loop, with everything in `Loading` and with closing | extends `Loading` |
| `WatchProofs` | theorems about `Watch` | extends `Watch`, `LoadingProofs` |
| `FollowingProofs` | that a watch of required files misses nothing | extends `WatchProofs` |
| `PublishingProofs` | what is published under `Loading` and `Watch`; that `Loading` implements `Reload`, and both the register | extends `WatchProofs` |
| `MC*` | small instances | |

### Correspondence

*Program points.* `pc[p]` is where a caller of `Reload` is (`entry`, `wait` for
the semaphore, `recheck`, `read`, `decode`, `validate`, `lock`, `check`,
`advance`, `store`, `count`, `release`, `report`, `emit`); the Builder, inside
`New`, uses the same points, for it runs the same transaction. `cpc[k]` is where
a caller of `Close` is. A step lies between two accesses to shared state; what
a goroutine does to its own data joins the step before or after. The three
stores of `commit` are separate steps, since readers take no lock, and so are the
loss of a task and its count in `Submit` (`received`, `refused` in between); the
lookups and stores of a mutex-protected body are one.

*Locks.* `reloadSem` is the number of tokens in the channel, `publishMu`
whether the gate is held. A select is one action per case, each enabled when
its case is ready: Go chooses among ready cases, and so does the model.

*Data.* In `Reload` a configuration is a member of `Contents`; `Decodable` and
`Valid` say which of them decode and pass the validator. A validator that
panics has refused. In `Loading` and `Watch` a configuration is a function from
files to the version merged, 0 for a file that was not read. Every write makes a fresh version, so
the stamp of a file *is* its version: two versions with equal size, mode and
modification time are taken not to occur.

*Composition.* In `Delivery`, `Emit`, `StopDispatcher` and `DropHandlers` are
spread over the steps taken inside the dispatcher and the registries, the last
of which is the step of `Reload`; in `Loading` the same is done to the read (one
step per `stat` and per file read, or per stage of the discovery) and to the
commit (the store of the file list comes before that of the stamps). `Watch`
joins each change of a file with the event it makes. The
dispatcher's worker is one of the callers of `Reload` and one of the closers,
because a handler on it may be either; a watch's debouncer is a caller.

*Options.* An option is a record: the field it concerns, whether it sets the
field or adds to it, the value, and whether its own check accepts the value. A
setup function is what it does to the engine: search paths it adds, a file it
names, whether it fails.

*Histories.* `entered`, `started`, `lost`, `early` in `Dispatcher`, `heard`,
`sent`, `settled`, `began` in `Delivery`, `floor` in `Loading` and the field
`unheard` of `notify` in `Watch` record the past for the properties; no action is
guarded by one, but that `Fresh` submits each task at most once.

*External behaviour.* The file system, fsnotify and projected volumes are
modelled from how `watch.go` and `reload.go` use them: a change in a watched
directory queues an event or, with the queue full, one overflow error; removing
a directory queues an event that names it and ends the watch on it; a
projected-volume swap changes every file of its directory under an event that
names none of them. Viper is modelled by what `ReadInConfig` does: the first
file that exists along the search paths is found and not looked for again, and
a file that does not parse leaves the engine as it was.

## 3. The runs

| run | instance | properties |
|---|---|---|
| `reload` | 2 callers, 2 closers, 3 calls, 4 contents of which one does not decode and one is refused | `TypeOK`, `EngineBelongsToTransaction`, `CounterAgreement`, `ChangesChain`, `OnlyAcceptedIsPublished`, `IInv`, `FrozenByClose`, `PublishesLikeRegister` |
| `dispatcher` | 2 submitters, 4 tasks of which one never returns, a queue of 2, 2 stoppers, fair | `TypeOK`, `FirstInFirstOut`, `DropsAreCounted`, `AtMostOneLateStart`, `FinishedIsFinal`, `SubmitReturns`, `QueuedIsSettled`, `StoppedWorkerExits` |
| `delivery` | 2 callers and a handler that reloads and panics, another handler, 2 closers (one is the worker), 2 calls, a queue of 1 | `DeliveryTypeOK`, `CallOrderIsKept`, `NobodyIsSkipped`, `ClosedRegistriesAreEmpty` |
| `delivery_live` | a caller and a handler that reloads, closes, panics or hangs, an error handler, fair | `EveryChangeIsSettled`, `ReloadNeverWaitsForHandlers`, `CloseNeverWaitsForEver` |
| `loading` | 2 callers, 2 files (base and overlay), 3 changes, a version that does not parse and one the validator refuses, 16 option lists, a fresh Viper instance, an adopted one, or nil | `LoadingTypeOK`, `MistakesTouchNothing`, `RequiredFilesAreRead`, `FilesBelongToSnapshot`, `StampsAreNotNewer`, `ReloadSeesEarlierWrites` |
| `watch` | 2 calls of `Watch`, a closer, 1 required file, 1 change, no delay, fair | `WatchTypeOK`, `OneWatchAtATime`, `ClosedWatchSaysSo`, `WatchReturns` |
| `watch_files` | 1 watch and 1 other caller of `Reload`, 2 required files, 2 changes, an event queue of 1, a delay, one version the validator refuses | `NothingIsMissed` |
| `watch_live` | 1 watch, 1 optional file, missing files allowed, 3 changes of which one may remove the directory, an event queue of 1, a version that does not parse, no delay, fair | `NothingIsMissed`, `FilesAreFollowed` |

What the less obvious properties say:

- `EngineBelongsToTransaction`: between its decoding and its publication a
  transaction has in front of it the engine it decoded. The semaphore alone
  ensures this, through cancelled waits and closing.
- `ChangesChain`: changes are built inside the gate and carried out of it; any
  two that are still held fit together by generation and by `Previous`.
- `PublishesLikeRegister`: `Reload` refines `Publication`. The abstract
  generation lags while a committer stands between advancing the generation
  and storing the snapshot; the abstract step is the store.
- `FirstInFirstOut`: what was started, followed by what waits, has the order in
  which it entered, and is all of it but what was dropped. The order is stated
  entry by entry, without a filter on the sequence, in a form the provers can
  handle.
- `DropsAreCounted`: `Dropped` may be read at any moment, also between the loss of
  a task and the `Add` that counts it. It then lags behind the tasks lost by
  exactly the submitters that stand between the two, one each; it is exact
  whenever nobody does. Nothing it counts is in the queue, has been started, or
  may still be submitted.
- `AtMostOneLateStart`: the reason `run` has two selects. With a single one a
  stopped worker could go on for as long as its choices fell that way.
- `FinishedIsFinal`: `Stop` claims `startOnce`, so its answer outlives a racing
  `Start`.
- `CallOrderIsKept`: a handler never hears the change of a call after that of a
  call that began when the first had returned. Overlapping calls are another
  matter (`delivery_order`).
- `NobodyIsSkipped`: each captured handler is called exactly once per event,
  whatever those before it did and whoever unsubscribed meanwhile.
- `NothingIsMissed`: a watch with no event, trigger, timer or reload pending has
  published what the files hold, provided they can be published (all required
  ones are there, all parse, decode and pass the validator). It speaks of the
  quiet states only, so it needs no fairness. A watch that is `Deaf` is
  excepted: when a directory goes while the event queue is full, the one event
  that names it is lost, the overflow makes the watch reload but not look for
  the directory, and what is written to the directory after it is back is
  missed. Three changes and a queue of one are enough for that, as in
  `watch_live`. `Deaf` is a history: it holds only after such an event was lost,
  so a loop that forgot a directory on any other path, or failed to add it again,
  is not excused.
- `MistakesTouchNothing`: `WithViperSetup` only records its function, so that no
  option that is refused later finds the caller's own Viper instance changed.
- `RequiredFilesAreRead`: it speaks of the options as given, and of whatever is
  current at any time, through files that vanish between stat and read.
- `FilesBelongToSnapshot`: what `Status` reports and `Watch` follows is what the
  current snapshot was read from, whichever files came and went since, and
  although a tolerated empty read leaves the old list in place.
- `ReloadSeesEarlierWrites`: `floor` keeps, for each file, its version when the
  call began (or 0 once it was deleted). A call that waited for another
  transaction must not publish what that one read. It speaks of the files the
  Config follows: with files named by option, one that a setup function gave to
  Viper is not read (reload.go reads the named files only), and so not among
  them.
- `FilesAreFollowed`: what `NothingIsMissed` says of quiet states, as liveness:
  once the files rest, they are published, through overflows and through a
  directory that goes and comes back, `Deaf` watches excepted as above.
- `WatchReturns`: cancellation reaches the loop, the debouncer, and a reload it
  may be waiting in.
- `StampsAreNotNewer`: the code takes the stamp before it reads. The reverse
  order would let a write in between hide for good.
- `ClosedWatchSaysSo`: the loop wakes through the channel and then looks at the
  state; it tells cancellation from closing because the state is stored first.

### Where documentation and code disagree

Each of these runs checks one sentence of the documentation, and TLC finds a
behaviour of the code that violates it.

| run | property | the sentence | what happens |
|---|---|---|---|
| `delivery_order` | `PublicationOrder` | "Delivered events arrive in publication order." (docs/concurrency.md:151) | the semaphore is released before the change is submitted, so overlapping reloads may submit in the other order |
| `delivery_retains` | `ClosedRetainsNoHandler` | "retaining no handler" (docs/production.md:198) | abandoned notifications stay in the queue with the handlers they captured |
| `leftover` | `NothingIsLeftOver` | "Tolerating that silently would mean publishing whatever Viper still held from the previous reload." (reload.go:305) | the tolerance of `WithAllowMissingFile` asks whether a file was ever published, and a *rejected* reload has filled Viper without publishing any |
| `watch_gap` | `NothingIsMissed` | "a change made in that window is detected on startup" (watch.go:70) | an optional file that was absent at the load and appears before `Watch` is neither noticed nor followed |

`watch_gap` differs from `watch_files` in one file being optional.

Four more sentences are looser than the code, and plain from it without a run.
`Status` takes no lock, so a reader between two stores of a commit sees a
generation that is two more than the successful reloads, where
docs/concurrency.md:125 says "`Generation == SuccessfulReloads + 1`, always.";
`CounterAgreement` holds whenever nobody is inside the gate. And when two
submitters race for the room one of them makes in a full queue, the loser drops
its own, newest task (dispatcher.go:94), not the oldest as dispatcher.go:67
says; `DropsAreCounted` covers that task too. Of the count itself
dispatcher.go:82-84 says that it "is approximate by at most one" when the worker
takes the oldest entry first. That race costs nothing: the receive then fails and
counts nothing. What does make the count approximate is that it follows the loss
in a step of its own, and then by one for each submitter between the two: with
two of them by two, and by none once they are past it. And watch.go:251 has the
reload that follows an overflow make up for the events lost. It does for what was
written until then; it does not if the lost event was that of a directory's
removal, as told under `NothingIsMissed`.

### Bounds

`MaxCalls` (calls of `Reload`), `MaxChanges`, `MaxRemovals`, `MaxRetries` (what
the environment does) and `EventQueue` are the only bounds; the rest is finite
by itself. `Submit` takes each task once. Why they are enough:

- Two callers and two closers give every pair of racers. A third call lets a
  caller start over while the other's change is still undelivered.
- Four tasks overflow a queue of two with both submitters inside `Submit` and
  the worker busy; a queue of one is what the composed model needs to drop.
- Two files give a transaction that is between layers when the first changes;
  two changes give one the watch has seen and one it has not; with an event
  queue of one the second overflows.
- In `loading` a third change makes a second version of a file that was
  deleted, or a version that is refused and one that does not parse; its callers
  call once each, so that one waits while the other reads. `leftover` needs a
  fourth: two files appear and go again.
- In `watch_live` three changes fill the event queue, remove the directory and
  bring it back, so that the event of the removal may be lost.
- In the `Watch` runs `MaxCalls` is so large that it is never reached.
- `MaxRetries` limits the retries that find a directory still gone: they change
  nothing but the trigger. One that finds it back is not limited.

Actions that need two watchers, two closers, several files or a directory that
goes away are spread over the runs, since all together exceed what TLC can
enumerate; between them every action is taken.

Deadlock is checked in every run. `Rest` (`LoadingRest`, `WatchRest`,
`DeliveryRest`) lets the system stop only where every call has returned, a
constructor has refused its arguments, or a worker or a watch waits
for work there is none of, or is stuck in a task. A handler in `Hanging` may
still return; it is only that nothing makes it.

### Fairness

Weak fairness of a goroutine's next step: Go's scheduler is preemptive, so a
runnable goroutine runs; each goroutine (the constructor's, a watch loop, its
debouncer with the reloads it makes, the one that links it to `Close`) has one
condition. Of a timer's expiry: `closeTimeout`, the debounce delay
and the retry interval elapse. The dispatcher by itself promises nothing to its
stoppers beyond safety: its run assumes no fairness of `Stop` or of its timer,
`delivery_live` does. Of a caller whose select has a ready case: taken
together, so that nothing is assumed about *which* case Go chooses. Weak
fairness suffices for the semaphore in these runs because the calls are finitely
many; a channel in Go is in fact first come, first served. Nothing is assumed of
callers: nobody has to reload, watch, cancel or close. Nothing makes a task in
`Stuck` or a handler in `Hanging` return; the liveness properties name that as
an exception where they depend on it, and `ReloadNeverWaitsForHandlers` and
`CloseNeverWaitsForEver` hold in spite of it.

## 4. What is proved

Every theorem holds for any sets of callers, closers, handlers, tasks, files and
directories, finite or not, and for any value of the bounds.

### The transaction: `ReloadProofs`

From `ReloadAssumption` alone (the Builder is not a caller, `None` is not a
configuration, `MaxCalls` is a natural number):

| theorem | states |
|---|---|
| `ReloadTypeOK` | `Spec => []TypeOK` |
| `ReloadInvariant` | `Spec => []IInv` |
| `EngineIsOwned` | `Spec => []EngineBelongsToTransaction` |
| `CountersAgree` | `Spec => []CounterAgreement` |
| `ChangesAreChained` | `Spec => []ChangesChain` |
| `OnlyAccepted` | `Spec => []OnlyAcceptedIsPublished` |
| `CloseFreezes` | `Spec => FrozenByClose` |
| `ReloadImplementsPublication` | `Spec => PublishesLikeRegister` |

None of the safety properties is inductive by itself. `IInv` is their
strengthening, in parts that each say one thing:

- `Construction`: until `New` returns, the Builder is alone. Without it the
  Builder's transaction, which takes no token, could meet another one.
- `Serialised`: the token is held by whoever is in a transaction, and that is
  one caller. This gives `EngineBelongsToTransaction`.
- `OneInGate`: the gate is held by one committer or one closer.
- `CommitsOnlyWhileOpen`: with the gate held, a commit that has passed its check
  is in an open Config. This gives `FrozenByClose`, and that a `Publish` of the
  register is only taken while it is open.
- `CandidatesPassed`: a candidate has passed every stage before its own. This
  gives `OnlyAcceptedIsPublished`.
- `Counted` and `ChangesAgree`: how the counters, the changes and the snapshot
  stand to each other at each step of a commit. They give `CounterAgreement`
  and `ChangesChain`.

The proofs show that `Init` implies it, that every action preserves it, one part
at a time, and derive the theorems; the refinement shows that each step is a
step of the register or leaves it alone.

### The queue: `DispatcherProofs`

From `DispatcherAssumption` (`Nil` is not a task, the tasks that get stuck are
tasks, the size of the queue is a natural number; the code's is at least 1):

| theorem | states |
|---|---|
| `DispatcherTypeOK` | `Spec => []TypeOK` |
| `DispatcherInvariant` | `Spec => [](TypeOK /\ DispatcherInv)` |
| `DispatcherIsFirstInFirstOut` | `Spec => []FirstInFirstOut` |
| `DispatcherCountsDrops` | `Spec => []DropsAreCounted` |
| `DispatcherStartsOneMore` | `Spec => []AtMostOneLateStart` |
| `DispatcherFinishedIsFinal` | `Spec => []FinishedIsFinal` |

`DispatcherInv` adds to these properties

- `HandsAreApart`: a task is brought by one submitter, until it enters the queue
  or is dropped. Without it an entry could be in the queue twice, or one task be
  counted as lost and still enter.
- `StopIsSeen`: after the stop the worker is at its second select only if it had
  passed the first before, and has started nothing since. This is what makes
  "one more" inductive.
- `WorkerIsClaimed`: a worker exists only if `Start` won `startOnce`, so a `Stop`
  that won it knows there is none.
- that the tasks lost and the submitters that have yet to count one are finitely
  many, so that counting one more adds one.

Each case of order comes down to three facts about sequences: an append puts
the same entry at the end of both histories, taking the head does not change
`started \o queue`, and dropping the oldest cuts one entry out of it
(`SequenceFacts`).

### Delivery: `DeliveryProofs`

From the assumptions above, `DeliveryAssumption` (the worker is a caller and a
closer, the two kinds of handlers differ) and `NoneIsNoNotification`:

| theorem | states |
|---|---|
| `DeliveryImplementsReload` | `DeliverySpec => Spec` |
| `DeliveryImplementsDispatcher` | `DeliverySpec => Queue!Spec` |
| `DeliveryInvariant` | `DeliverySpec => []WholeInv` |
| `DeliveryTypes` | `DeliverySpec => []DeliveryTypeOK` |
| `RegistriesStayEmpty` | `DeliverySpec => []ClosedRegistriesAreEmpty` |
| `EverybodyIsCalledOnce` | `DeliverySpec => []NobodyIsSkipped` |
| `CallsAreHeardInOrder` | `DeliverySpec => []CallOrderIsKept` |

The two refinements are shown step by step. With them, what was proved of the
transaction and of the queue holds of the composed system, with handlers that
reload, close and panic. That `Delivery` implements the queue is not immediate:
`Dispatcher` takes each task at most once, which here is so because
notifications are numbered and a caller that submits is at one program point
only (`NotificationsAreNumbered`, `SubmittersAreKnown`).

`WholeInv` is `IInv`, the dispatcher's invariant, types, and `DeliveryInv`.
The last two properties rest on its longer chains:

- `RunningIsLast` and `HeardAsStarted`: a handler has heard exactly the started
  notifications whose loop has come to it, in the order they were started. This
  gives `NobodyIsSkipped`.
- `HeldIsUnsettled`: a change that a caller holds, or is submitting, has not been
  settled; so a call that began after some change was settled makes a different
  one, even though generations are published in another order than changes are
  submitted.
- `SettledComesFirst`: a change enters the queue behind every change that was
  settled when its call began. With the queue's order (`FirstInFirstOut`) and
  `HeardAsStarted` this gives `CallOrderIsKept`.

### Loading: `LoadingProofs`

From `ReloadAssumption` and `LoadingAssumption` (a configuration is a function
from files to versions; the options given are ones the ten constructors of
options can make, with any value, mistaken ones included; the defaults pass
their own checks):

| theorem | states |
|---|---|
| `LoadingInvariant` | `LoadingSpec => []LoadingInv` |
| `LoadingTypes` | `LoadingSpec => []LoadingTypeOK` |
| `RequiredFilesAreAlwaysRead` | `LoadingSpec => []RequiredFilesAreRead` |
| `StoredFilesAreTheSnapshots` | `LoadingSpec => []FilesBelongToSnapshot` |
| `NoChangeHidesBehindAStamp` | `LoadingSpec => []StampsAreNotNewer` |
| `WritesBeforeACallAreSeen` | `LoadingSpec => []ReloadSeesEarlierWrites` |
| `MistakenOptionsTouchNothing` | `LoadingSpec => MistakesTouchNothing` |
| `LoadedChangesAreChained` | `LoadingSpec => []ChangesChain` |
| `CloseFreezesFiles` | `LoadingSpec => [][Closed => Freezes]_loadingVars`: snapshot, counters, files and stamps |

`LoadingInv` has these parts:

- `TransactionInv`: what `IInv` says without a validator. `Loading` takes a step
  `Reload` has not, the one that skips validation when no validator was given
  (`Unvalidated`). All steps of `Reload` and that one preserve this part;
  `PublishingProofs` deals with what depends on a validator.
- `BuildInv`: the options applied so far were right and have left their mark
  (`OptionsTaken`), and before they all are, nothing is read (`LoadComesLast`).
  This gives `MistakesTouchNothing`, and ties the options as given, of which
  `RequiredFilesAreRead` speaks, to the options in force, which the reading uses.
- `DiskGrows`: no file is older than a call saw it, and versions do not repeat.
- `ReadingInv`: `PartlyRead` and `ReadSince` for a transaction that is still
  reading, `AllRead` and `NotOlder` from then on until its change is gone. It
  says of each layer behind the current one that it was read if it was required,
  that what was read is no older than its stamp and no older than the call.
  This is needed because files change between any two of these steps.
- `StoredInv`: what the stored files and stamps say of the snapshot whenever no
  commit is between its stores.

The step lemmas are about `LoadingStep`, which has every step of `Loading`, with
changes of any set of files, calls that repeat, cancellation, and the claim of
the slot of `Watch` added.

### Watch: `WatchProofs`

From the above and `WatchAssumption` (every file has a directory; the callers
that are debouncers of watches are not those whose calls `floor` follows):

| theorem | states |
|---|---|
| `WatchInvariant` | `WatchSpec => []WatchInv` |
| `WatchIsTyped` | `WatchSpec => []WatchTypeOK` |
| `WatchIsAlone` | `WatchSpec => []OneWatchAtATime` |
| `CancelledByItsCaller` | `WatchSpec => []ClosedWatchSaysSo` |
| `SnapshotsUnderAWatch` | `RequiredFilesAreRead`, `FilesBelongToSnapshot`, `StampsAreNotNewer`, `ReloadSeesEarlierWrites` and `EngineBelongsToTransaction` under `WatchSpec` |
| `CloseFreezesUnderAWatch` | `WatchSpec => [][Closed => Freezes]_watchVars` |

`WatchNextIsLoadingStep` shows that every step of `Watch` is a `LoadingStep`;
with it everything proved of `Loading` carries over without a second proof, and `WatchInv` adds only what is new:
`SlotIsHeld` (who is between claiming and releasing holds the one slot, and the
state machine agrees), `DebouncerIsJoined` (a debouncer lives between its start
and its join, and reloads only while it acts; so a returned watch has no reload
under way) and `EndsForAReason` (`done` is closed only in a Config that is
closed, so a context ended by closing finds the state already changed).

### Publication: `PublishingProofs`

From the same assumptions:

| theorem | states |
|---|---|
| `PublishingInvariant` | `LoadingSpec => []PublishingInv` |
| `PublishingInvariantOfWatch` | `WatchSpec => []PublishingInv` |
| `LoadedCountersAgree`, `WatchedCountersAgree` | `[]CounterAgreement` under `LoadingSpec` and `WatchSpec` |
| `OnlyAcceptedIsEverLoaded`, `OnlyAcceptedIsWatched` | `[]OnlyAcceptedIsLoaded` under each |
| `LoadingImplementsPublication`, `WatchImplementsPublication` | `Decoded!Spec` under each |
| `LoadingImplementsReload` | `LoadingSpec => ([]Judges => Spec)` |
| `LoadingPublishesLikeRegister`, `WatchPublishesLikeRegister` | `[]Judges => PublishesLikeRegister` under each |

In `Reload` every candidate meets the one validator. Here the options decide:
`Accepted` is what decodes if no validator was given, and what is `Acceptable`
if one was; and the options are still being applied when the model starts.
`PublishingInv` adds to `LoadingInv` what `IInv` says of candidates and counters
in these terms: `PassedStages` (a candidate past validation is in `Accepted`, and
so is the snapshot) and `Counted`. That `PassedStages` is inductive rests on the
options being fixed once the Config reads (`OptionsAreFixed`), and on there being
no candidate before (`LoadComesLast`).

`Decoded` is the register of `Publication` taking any configuration that
decodes; `Loading` and `Watch` implement it with no hypothesis. The hypothesis
`[]Judges` of the last three is that `Valid` is chosen as what the validator in
force accepts: any set when one was given, and no less than what decodes when
none was. Under it the skipped validation is a validation that accepts,
reading files one by one is reading a configuration in one step, and `Loading`
implements `Reload`: all that is proved of `Reload` is true of it. `Watch` moves the
lifecycle between ready and watching, which `Reload` leaves out, so for `Watch`
the register is what is claimed.

### Following: `FollowingProofs`

From the same assumptions:

| theorem | states |
|---|---|
| `FilesAreFollowedClosely` | `WatchSpec => []FollowInv` |
| `RequiredFilesAreNeverMissed` | `WatchSpec => [](Required = Files => NothingIsMissed)` |

The hypothesis, that every file is named as required, cannot be dropped:
`watch_gap` is a behaviour in which an optional file is missed. Nothing is
assumed of the number of files or directories, of who else reloads, of the size
of the event queue, or of how the changes, the removals and the events are
interleaved with the watch and its reloads.

`NothingIsMissed` speaks of a watch at rest; `FollowInv` says how it gets there:

- `ChangesAreNoticed`: for every watch that has looked for the gap before it, and
  has no directory `Forsaken`, either it is `Alarmed` (a trigger, a running timer,
  a relevant event, an overflow, a lost directory or a call of `Reload` that has
  not begun to read: something will make it read all files anew), or what the transaction
  under way has read of each file is what the file still holds, and the disk is
  published, or being published by the watch itself, or cannot be published.
  Every write in a watched directory raises an alarm; every alarm is ended only
  by one that follows from it or by a reload that starts to read.
- `VersionsGrow`: for each file, the stamp, the published version, the version
  read and the version on the disk follow one another. This is why the check for
  the gap, which compares stamps, cannot be misled: a stamp that equals the disk
  belongs to a snapshot with this very version.
- `DirectoriesAreKnown`, whatever options were given: each directory of a watch
  is watched, still to be added, on the retry list, named by a queued event, or
  was removed under an event that did not fit. `Forsaken`, a predicate of the
  present state, therefore implies `Deaf`, the history: this is where it is
  proved that the loop loses sight of no directory by itself.
- `EveryFileIsRead` and `EveryFileIsWatched`: no transaction gets past its read
  without all files, so the list the watch takes its directories from is
  complete.
- `CallsAreWanted`: the reload of a watch is cancelled only with the watch.

The proof goes by who takes the step: the environment, the watch's own call
(which may end an alarm only as it starts to read), other callers (who may
publish, but only what they read while no change was unnoticed), the loop and
the debouncer. The first form of `NothingIsMissed` had no exception for `Deaf`.
The attempt to prove it showed where it fails, and TLC confirmed it with three
changes.

### How far the proofs go

TLC checked each inductive invariant on the instances of the runs before it was
proved: `IInv` is an invariant of the run `reload`, and `DispatcherInv`,
`WholeInv` and `LoadingInv` hold on those of `dispatcher`, `delivery` and
`loading`, `WatchInv` on those of `watch`, `watch_files` and `watch_live`,
`FollowInv` on that of `watch_files`, with and without a removal, and on one file
with two watchers, a closer and a removal, and the two parts `PublishingInv` adds
on those of `loading`, `watch_files` and `watch_gap`.

Every safety invariant and every action property that a passing run checks is
also proved, `NothingIsMissed` for required files. Only model-checked are

- the liveness properties, `SubmitReturns`, `QueuedIsSettled`,
  `StoppedWorkerExits`, `EveryChangeIsSettled`, `ReloadNeverWaitsForHandlers`,
  `CloseNeverWaitsForEver`, `WatchReturns` and `FilesAreFollowed`: the prover
  handles neither fairness nor ENABLED;
- `NothingIsMissed` with a file that is optional and was there when the watch began
  (`watch_live`).

There is no recursive definition in the project, and so no result by induction
over data that would be missing.

## 5. What is not modelled

- *Timestamps*: `LastSuccess`, `LastFailure` (stored after the semaphore is
  released, so of two overlapping rejections the older time may win),
  `ReloadedAt`. *Logging*, texts of errors, sealing, the `Source` of a change,
  what a decode option does.
- *Equal stamps*: every write makes a fresh version, so two versions with the
  same size, mode and modification time do not occur. `StampsAreNotNewer` speaks
  of named files; a discovered one is stamped after it was read, which
  reload.go:339 calls best effort and the model shows as it is.
- *The loads of `filesChangedSinceLoad`*: list, stamps and stats are one step in
  `CheckGap`. A reader that sees a new list with old stamps at worst triggers a
  reload more.
- *Viper beyond its files*: environment variables, defaults and keys set by the
  application are the same at every decode.
- *Panics and callbacks where the contract forbids them*: a validator that calls
  `Reload` (src/validation.go:21 excludes it: it would wait for the semaphore its
  own transaction holds); a handler that ends its goroutine (`runtime.Goexit`).
- *`emitWatchError`* submits an event like `emitError`; `Delivery` has that, and
  `Watch` does not repeat it.
- *Exits nobody can reach*: `watchLoop` returns when the event or the error
  stream is closed (watch.go:232, :247), which only its own deferred
  `watcher.Close` does; `readDiscovered` handles an empty `ConfigFileUsed` after a
  successful `ReadInConfig` (reload.go:329), which Viper does not leave.
- *Endless changes*: files that change faster than the debounce delay postpone
  the reload for as long as they do; the models make finitely many changes.
- Examples, benchmarks, integration tests, scripts.

## 6. Plan

In this order; all of it is done.

1. `Lifecycle`, `Publication`, `Reload`, `ReloadProofs`: publication and closing.
2. `Dispatcher`: the queue, by itself.
3. `Delivery`: reloads and the dispatcher together.
4. `Watch`: files, events, debouncing.
5. `Options` and `Loading`: construction, the read stage with discovery, what the
   engine may still hold when no file exists; the file list and the stamps as
   separate stores. `Watch` on top of it.
6. `DispatcherProofs`: type correctness, `FirstInFirstOut`, `DropsAreCounted`,
   `AtMostOneLateStart` and `FinishedIsFinal`.
7. `DeliveryProofs`, `LoadingProofs`, `WatchProofs`: that `Delivery` implements
   `Reload` and `Dispatcher`, that the steps of `Watch` are steps the lemmas about
   `Loading` cover, and the safety properties of the three.
8. `FollowingProofs`: `NothingIsMissed` for Configs whose files are all named as
   required, from an invariant that names what will notice each change.
9. `PublishingProofs`: counters, accepted snapshots and the register for `Loading`
   and `Watch`, with a validator and without; that `Loading` implements `Reload`.

What is left is liveness beyond the small instances, and a theorem for files that
are optional but were read at the load, which needs an invariant about what a
deleted file leaves in the snapshot.
