# A TLA+ development of VMI-Scope

VMI-Scope is a desktop explorer for WMI: a Rust library (`crates/vmiscope-core`)
that talks to COM on worker threads, and an egui window (`crates/vmiscope-gui`)
that sends requests and draws what comes back. Paths below are relative to
`src/crates/vmiscope-core/src/` (core) or `src/crates/vmiscope-gui/src/` (gui).

Contents: [1 inventory](#1-inventory), [2 the modules](#2-the-modules-and-the-code),
[3 the runs](#3-the-runs), [4 fairness](#4-fairness), [5 proofs](#5-what-is-proved),
[6 divergences](#6-where-code-and-comments-disagree), [7 limits](#7-what-is-not-covered),
[8 plan](#8-plan).

## 1 Inventory

| Component | State it keeps | Operations | Module |
|---|---|---|---|
| **WMI worker** (core `worker.rs`, control plane in `enumerate.rs`) | request and reply channels; one cancel flag per id and one stop flag, shared; thread-locals: target, credentials, connection cache, class-kind cache | `send`, `cancel`, `poll`, drop; one arm per request in `run()` | `WmiWorker`, `RequestService` |
| **Enumeration** (core `enumerate.rs`) | the rows so far, the reason for stopping | `drain`, `count`, `next_batch`, `settle` | `Drain`, `Enumeration` |
| **Namespace rollup** (core `worker.rs`) | stack of namespaces, `NamespaceStats`, budget | `namespace_stats` | `NamespaceStats` |
| **Associations, search index, class list** (core `worker.rs`, `reflect.rs`, gui `views/explorer/classlist.rs`) | a budget over several queries; chip, filter and setting | `class_associations`, `build_search_index`, `q_class_briefs`, drawing the list | `Associations`, `ClassList` |
| **Subscription scan** (core `worker.rs`, `events.rs`) | what each of three queries returned | `scan_subscriptions_in`, `assess` | `Subscriptions` |
| **Providers and connections** (core `worker.rs`, `providers.rs`) | what each query returned, what was unreadable | `list_providers`, `provider_hosts`, `list_connections` | `Snapshots` |
| **Explorer session** (gui `state/requests.rs`, `state/responses.rs`, `views/explorer/*`) | next id, pending kinds, selected namespace and class, caches, spinners | `request_*`, `select_*`, `run_query`, `handle_responses`, `reset_and_reseed` | `Session`, `ExplorerPanes` |
| **Machines** (gui `views/machines.rs`) | form, targets, probes, the slot of the target in flight | connect, test, forget, note the outcome | `Machines`, `Session` |
| **Live panels** (gui `views/network.rs`, `persistence.rs`, `providers.rs`) | last snapshot, fading rows, one request in flight | poll, load, refresh, reset | `LivePanels` |
| **Registry and Compare** (core `registry.rs`, gui `views/compare.rs`) | a worker per machine; two sides with ids; the table | open, send, poll, close; run, pick, apply, rebuild, export | `Registry`, `Compare`, `CompareTable` |
| **Diffs** (core `diff.rs`) | none | subscriptions, providers, tables | `Diffs` |
| **Process monitor** (core `procmon.rs`, `process.rs`) | two subscriptions, event number, backlog counter, stop flag | pump turns, details jobs, drop | `ProcessMonitor` |
| **Process log and table** (gui `state/processes.rs`, `views/process.rs`, `widgets/table.rs`) | rows, two indexes, number dropped; filters, tree, sort | start, stop, attach, evict, clear, reindex; draw | `ProcessLog`, `ProcessTable` |
| **Event monitor and log** (core `monitor.rs`, gui `views/events.rs`) | parked threads; a capped log, newest first; the rate | start, stop, drain, clear, select; edit the query | `EventMonitor`, `EventQuery`, `EventTexts` |
| **Configuration store** (gui `config.rs`, `io.rs`, `views/saved.rs`) | config, save clock; a queue of writes; the file | save, debounce, merge, load; the IO thread | `Library`, `SavedFile` |
| **Invoke and closing** (gui `overlays/invoke.rs`, `closing.rs`, core `method.rs`) | class, target, armed and invoking flags; consent to close | arrange, review, confirm, call, close | `Invoke` |
| **Overlays** (gui `overlays/*`, `app.rs`) | which are open, the palette's text and selection | the global keys, palette rows | `Overlays` |
| **Exports** (core `export.rs`) | none | CSV and JSON of a result | `Exports` |
| **Hosts, theme, widgets, scripts, values, bench** | none that lasts | | — |

What is hard, and what must hold:

* *The worker.* Two threads share flags beside a FIFO. A cancel can be behind its
  request, find it running, or come too late; a stop waits behind everything sent
  before it unless each turn looks at the flag; a provider may never yield. Every
  request must be answered once and in order; a cancel must reach its request and
  no other; what is stamped with a machine must come from it, although
  connections and class kinds are cached; drop must return.
* *Enumeration and what is built of it.* Batches, a probe row beyond the cap, flags,
  a deadline, and a provider that may be slow without being finished. The
  `Completion` must be true, and so must whatever a rollup, a list of associations,
  a scan or a snapshot says of several enumerations of which any may be refused,
  cut or late.
* *The session and the views.* The user clicks faster than the worker answers, over
  host and namespace switches. What is shown under a name must belong to it, no
  spinner may wait for an answer nobody owes, no request may pile up.
* *The monitors.* Two subscriptions without an order between them, threads nobody
  joins, pids that come back, duplicates, logs and queues that fill up. Details must
  land on their own process, and nothing may get lost unsaid.
* *Compare, store, invoke, closing.* Replies of an older run, writes lost at exit or
  cut in half, consent that outlives its question, a call that must happen once.
* *What a frame does.* A key seen by three handlers, a selection kept while its rows
  change, a setting read before the control that changes it is drawn.

`PROJECT.json` lists each of these as a hazard at its line, with the properties
that cover it or the reason none does.

## 2 The modules and the code

### `WmiWorker`, `RequestService`

The owner of the handle (`ui`) and the thread (`wpc`) interleave over `chan`,
`replies`, and the flags `shutdown`, `live`, `raised`. Handle actions follow the
atomic effects of `WmiWorker::send` and `drop`: the flag is raised
(`RaiseCancel`, `RaiseShutdown`) in a step before the message is queued
(`QueueCancel`, `QueueShutdown`). `Receive` is the top of the loop with its look
at the stop flag and the host stamp; after it comes one of `ForgetFlag` (a cancel
message), `BeginScan` .. `ReplyToScan` (the arms that hold a token: adopt the
flag, bind, then turns of `CheckFlags`, `CheckDeadline`, `FetchBatch`, then
`EndScan`), `RunCall` (arms with no token, in one step), or `SetHost`. `Bind`
models the two transports: a fresh connection under the caller's own identity, a
cached one under alternate credentials. What a request computes is abstracted to
how it ends and to the machine its data is from.

`job.overshoot`, which counts the batches fetched after the cancel was asked for, is
history; it stops counting at two, where the property is already broken.

`RequestService` is what callers rely on: a FIFO that answers each request once
and at most one more after it is closed. `WmiWorker!ServiceSpec` is that
specification under the mapping `Len(reqs)`, `Len(replies)` and a phase read off
the stop flag and the request in hand.

### `Drain`, `Enumeration`

`Drain` is one call of `drain()`: `Turn` is the top of the loop (cap, flags,
deadline in that order), `Fetch` one `Next()` with any number of rows the provider
may give and its verdict on whether that was the last, `Fail` an error, `Settle`
the conversion of what stopped the loop into a `Completion`. Flags and clock move
on their own. `Enumeration` says what an answer means, without batches.

### `NamespaceStats`

The walk, with one step per sub-query. Each of them is taken with what
`Enumeration` promises: all the rows, some of them and a real reason, or an error.
`visited`, `refused` and `missed` are history. The constants are a tree: a full name holds its
parent's, so a namespace is listed once, in one parent, and the root in none
(`TreeAssumption`). `Budget` has the token and the deadline that all the compound
reads share, `Fields` the one value they treat apart, the empty one.

### `Session`

The GUI's state over a worker that behaves as `WmiWorker` was shown to: FIFO, and
answered by the host the last SetHost selects. One action per user operation
(`ExpandTree`, `SelectNamespace`, `SelectClass`, `RunQuery`, `ShowSchemaTab`,
`Connect`) and one per arm of `handle_responses`. Every action sends the requests
the code sends, with their pending kinds. What a slot of the screen holds is
abstracted to its origin, a host and a namespace. `OnScreen` is every slot that
`reset_and_reseed` clears; `MofDrawn` is the one it does not, as
`MofIsOfConnectedHost` says. The chip, the probe rows and the
two slots of `machines.rs` are part of it; `Machines` has the form and the stored targets
as well.

### `ProcessLog`, `ProcessMonitor`

`ProcessLog` is the data structure as a value with its operations; `start` ends in
`evict`, and both `evict` and `clear_ended` in `reindex`, as in the code. `Retain` is
what `Vec::retain` leaves of a sequence, what `find` finds in it and what a sort makes
of it, for the log and for other lists, without recursion.
`ProcessMonitor` is the rest: processes start with a pid that is free and end; each
event is queued on its subscription, once or more often, while that subscription is open; the
pump takes all starts, then all stops (`TakeStarts`, `TakeStops`), numbers them and
queues a job for each; `Details` answers a job, with the command line of whoever
passes the identity check; `Poll` folds one message into the log; `StopMonitor` and
`Join` are the drop of the handle. `due`, `logged`, `pushed` and `monitors` are
history. The sends of one take are one step: the details of an event are matched
by its number, so nobody can tell a send from the next. An owner is taken to
resolve for each event; the model has no use for one that does not.

### `Associations`, `Subscriptions`, `Snapshots`

The compound reads of the worker, one step per sub-query, each of which is answered
with what it holds, answered in part, refused or cut. `Associations` walks a class and
its ancestors under one budget: `References` and `Associators` keep or drop the
completion as the code does, `Merge` appends the endpoints nobody explained.
`Subscriptions` runs over a repository that may change between its three queries
(`Change`): `held` is the history of what each namespace held while the scan ran, so
that "was there throughout" can be said. `Snapshots` is both joins of process names,
hosting models, quota and counters onto a list, with the notes of `unreadable`.

### `Compare`, `Registry`, `CompareTable`, `Diffs`

`Registry` is the map of workers; `Compare` drives two sides over it: `Run` allocates
ids for a connect and a query of each side, `Serve` is a worker, `Poll` routes replies
by id, `Pick` changes a target, `Rebuild` is the frame that draws. `CompareTable` is
what is made of two results that have arrived: resolving the key, disregarding columns,
the line of each row of B, the export. It extends `Diffs`, which has the algorithms of
`diff.rs` as operators: `Matching` is the difference so far after each row of B, a
recursive function of the rows.

### `Library`, `SavedFile`

The configuration and every edit of it, the debounced save (`SaveLater`, `EndFrame`,
`Tick`, `WakeUp`), the queue and the IO thread (`TakeJob`, `FinishWrite`, `FailWrite`,
`AnswerDialog`), the window that closes at any point (`Close`) and starts again over
whatever is on the disk, a torn file included (`Launch`). Cards are sorted by folder and
name with `Retain!Arranged`, an import is merged query by query.

`SavedFile` promises, without clock, frames or thread: a change is put in line or owed;
what is in line is saved in that order, whole, or leaves the file empty; the line goes
with the window; the next session shows what the file kept. In line are the job of the
IO thread and its queue, each write for what a start would make of it (`InLine`). When a
file that is cut short is read, the promise gives the default, as `load()` does.

### `Machines`, `LivePanels`, `EventMonitor`, `EventQuery`, `EventTexts`, `Invoke`

Views that keep state between a question and its answer. The worker is in each a FIFO
that stays on the last host it was given, which is what `WmiWorker` shows of it.
In `LivePanels` and `Machines` connects may overlap, and may go to the machine that is
connected already. A snapshot keeps when it was taken, so that fading can be said.
`EventMonitor` keeps every thread that was ever started, stopped or not, until its
next event; `asked`, `opened` and `sinceStart` are history. `EventQuery` is what the
view reads out of a query and writes into it, over tokens, and how it puts an event on
one line; `EventMonitor` uses it on a few queries, `EventTexts` on any, with the interval
field as its one action. `Invoke` is the whole way
of a method call: the links into the modal, the gate on the schema, review and
confirm, the second try on the class path, the outcome, and the close request. A frame
draws buttons from the state before it and acts on clicks after it: where the code
reads a value into a local first, the action uses the old value.

### `Overlays`, `ClassList`, `ExplorerPanes`, `ProcessTable`

What one frame does. In `Overlays` a frame has the keys of one chord and passes them
through the global bindings, the invoke modal and the palette in the order of `ui()`.
F5, which refreshes the current view, changes nothing there. The palette's filters are
`Retain`'s. `ClassList` reads the chip before the row of chips is drawn, as the code
does. `ExplorerPanes` has the schema, associations, MOF and result panes, with requests
answered in order and errors that name a kind of request and no class. `ProcessTable` is the log as drawn: filters, tree
depths over arrival order, and a sort by an order that need not be one, in which case
any permutation may come out.

### `Exports`

CSV fields, rows and tables, and the JSON objects, over texts of any characters, of which
comma, quote and newline matter. `After` is a reader of RFC 4180, which goes through
the file character by character and knows whether it is in a quoted field;
`CsvReadsBack` says that it ends up with every cell and with a mark behind each.

### `MC*`

The suites: each has the variables of several components, a variable `part` that names
the one a behaviour is about, and the others left where they begin. An action is a
component's own next-state relation; a property is a component's own, or a conjunction
of its parts. A suite extends the components with theorems, so that a run checks the
very definitions the theorems name, and instantiates the others.

## 3 The runs

| Run | Question | Instance |
|---|---|---|
| `worker_flags` | flags, cancels and stop against two requests; liveness; refinement of `RequestService` | scans with and without a deadline, 2 requests, 1 cancel |
| `worker_hosts` | stamps and connections over host switches | 3 requests of switches, lists, counts and calls; two machines, two namespaces, both transports |
| `session` | does the screen, the MOF aside, tell the truth, do spinners end? | two hosts, two namespaces, one class, 8 requests |
| `progress` | the drain loop and its refinement of `Enumeration`; the process monitor and its log; Compare; the configuration store and its refinement of `SavedFile`; what each must eventually do | 0..6 rows, batches of 2, caps from none to 5; 2 processes with one pid, a log of one row, no backlog; 3 targets, 2 runs, 1 pick; 3 edits, 4 files to start from, a history of one |
| `reads` | rollup, associations, subscription scan, snapshots, table diffs, event queries, exports | a tree of five namespaces; a class with an ancestor and four associations; 3 consumers of which two share a name, 1 change during the scan; 4 providers, 3 endpoints; tables of up to 3 rows; queries of up to 4 tokens; rows shorter and longer than their header |
| `answers` | machine list, event monitor, live panels, method calls | 3 targets and 3 connects; 2 starts, 3 events, a log of one; 2 hosts, a queue of 2, rows that fade over one snapshot; 2 classes with 2 methods |
| `screens` | overlays and palette, class list, panes, process table | 9 chords, 2 texts, 4 commands; 5 classes; 2 classes and 4 requests; 3 rows of 4 kinds |
| `process_details`, `scan_consumers`, `machines_bound`, `closed_call`, `table_order` | a sentence of the repository that the code does not keep; see [6](#6-where-code-and-comments-disagree) | as above; `process_details` with two monitors and two rows |

Some properties of the suites are conjunctions of a component's invariants:
`TraceIsTrue`, `LibraryIsKept`, `RollupIsTrue`, `TablesAreAccounted`,
`EventTextsAreTrue`, `EventLogIsTrue`, `PanelsAreCurrent`, `CallsAreAsConfirmed`. The
modules carry a mutant for nearly every conjunct (`Measured`/`MeasuredAnywhere` beside
`MergeOne`/`MergeAppending`, `LabelOf`/`LabelFromBox` beside `SeqOf`/`SeqAsIndex`,
`StillThere`/`StaysAlive`, `StillFading`/`FadingAtTheEnd` and `ShownAfterReset`/`ShownButProviders` beside
`SnapshotDue`/`SnapshotDueAnyway`, `AsksFirst`/`NeverAsks`, `SchemaReady`/`SchemaAtHand`
and `RetryOnClass`/`RetryNever` beside `ButtonsShown`/`ButtonsStay`, and so on), each
of which breaks the property when it replaces the operator it stands beside.

Why these bounds are enough to be of use:

* Two requests and a cancel give every place a cancel can meet a request (queued,
  running, answered) next to another request it must not hit; the proofs in
  [5](#5-what-is-proved) are for any number. Three requests are the least with
  something cached, a switch and a reuse.
* Six rows in batches of two, with caps below, at and above, give full, short and
  empty batches on each side of the probe row.
* Eight requests of the session are a start-up, a connect with its reseed, and three
  clicks in between.
* With two processes of one pid, a log of one row and no backlog, the first start
  already fills the log, the second evicts or overflows, and every second job is shed.
  `BacklogMax = 0` stands for 512 and `MaxRows = 1` for the log's cap.
* Two runs and a pick of Compare are the least with a superseded reply; three edits of
  the store are a change, one during its cooldown, and one after its write.
* The tree has a leaf, an inner namespace and an inner namespace below the root, so
  that a lost listing can lose a subtree. Two consumers of one name with at most one
  binding are the least in which a name stands for the wrong one.
* Tables of two and three rows over two values have duplicate keys on both sides in
  unequal numbers, which is where pairing by position matters.
* A queue of two over two hosts has a connect behind a connect, a request between two
  of them, and one to the machine the worker is on. Rows that fade in two ticks stay for
  one snapshot after they are gone and are dropped by the next.
* A log of one event and two starts have an event of a stopped monitor arrive beside
  one of the next, into a full log. A queue of two calls has one running and one
  waiting when the window goes.
* Three rows of which two share a pid, and parents that come later, give a cycle; a
  cell without a number between two with one gives an order that is none.

Deadlock is not checked where the system may rest: a closed handle, a returned
call, a window nobody clicks in.

## 4 Fairness

* `WmiWorker!Fairness`: the thread runs when it can, since each `Next()` has a
  200 ms timeout; a scan that goes on with a deadline sees it pass (strong, because
  each fetch disables the check); a `send` or drop that has begun is finished.
  Callers owe nothing. Calls without a token are taken to return.
* `MCProgress!FairSuite`, for each part its own:
  the drain loop runs and time passes; the pump and the details thread run, frames
  are drawn while the window is not joining, and a join whose thread has returned
  returns (connecting and subscribing are taken to return: the join waits for them
  too); Compare polls in each frame and the workers of the two reachable targets
  serve (the third never runs: its password is not kept); the store's frame ends, its
  timed wake-up comes and time passes. Nothing is assumed of the user or of the disk.

## 5 What is proved

With TLAPS, for all values of the constants. The theorems are of each component's own
specification; a property in brackets is one that a run checks as well.

| Module | Theorems | Assumptions |
|---|---|---|
| `WmiWorkerProofs` | `InvariantHolds` (`WorkerInv`), and from it `TypeCorrect`, `AnswersInOrder`, `StampsAreSelectedHosts`, `AnswersComeFromStampedHosts`, `CachesFollowTarget`, `CancelsTakeEffect`, `CancelsHitTheirRequest`, `FlagsDoNotLeak`; `ImplementsService`, the refinement of `RequestService` | `WorkerAssumption`; `MenuAssumption`, what callers may send |
| `ThreadsProofs`, the drain | `LoopInvariant` (`DrainInv`), `BatchesInBounds`, `CapComesFirst`; `ImplementsEnumeration`, the refinement of `Enumeration` | `DrainAssumption` |
| `ThreadsProofs`, the process trace | `MonitorInvariant`; `TraceTellsTheTruth` (`TraceIsTrue`), `NoLiveRowIsDropped` (`LiveRowsStay`) | `LogAssumption`, `MonitorAssumption` |
| `ReadsProofs`, rollup | `WalkInvariant`, `RollupsAreTrue` (`RollupIsTrue`) | `NamespaceAssumption`, `TreeAssumption` |
| `ReadsProofs`, associations | `AssocInvariant`, `CompleteReportsAreWhole` (`CompleteIsWhole`) | `AssocAssumption` |
| `ReadsProofs`, subscription scan | `ScanInvariant`, `WhatIsReadIsReported` (`ReadIsReported`) | `ScanAssumption` |
| `ReadsProofs`, snapshots | `SnapInvariant`, `NoJoinLosesRows` (`JoinsLoseNothing`) | `TargetAssumption` |
| `SessionProofs` | `SessionInvariant`; `ScreenTellsTheTruth` (`ScreenIsOfConnectedHost`), `ListTellsTheTruth` (`ListIsOfItsNamespace`), `NoSpinnerTurnsForEver` (`SpinnersHaveRequests`) | `SessionAssumption` |
| `AnswersProofs`, machines | `MachinesInvariant`; `ConnectsAreTold` (`SingleConnectsAreTold`), `WhatWasMeasuredStays` (`MeasurementsSurvive`) | `MachinesAssumption` |
| `AnswersProofs`, method calls | `CallsInvariant`, `CallsGoAsConfirmed` (`CallsAreAsConfirmed`) | `CallsAssumption` |
| `AnswersProofs`, live panels | `PanelsInvariant`, `LivePanelsAreCurrent` (`PanelsAreCurrent`) | `PanelsAssumption` |
| `AnswersProofs`, event log | `EventsInvariant`, `EventLogTellsTheTruth` (`EventLogIsTrue`) | `EventsAssumption` |
| `ViewsProofs`, Compare | `ComparisonsAreInOrder`; `ComparedIsWhatWasRun` (`ViewIsOfTheRun`), `NoTableWithoutReason` (`MissingTableIsExplained`) | `CompareAssumption` |
| `ViewsProofs`, the store | `FileInvariant`, `NoChangeIsForgotten` (what is settled is in the file); `ImplementsSavedFile` (`SavedFileSpec`), the refinement of `SavedFile`; `LibraryInvariant`, `LibraryStaysInOrder` (`LibraryIsKept`) | `LibraryAssumption` |
| `ReadsProofs`, compared tables | `TableInvariant`, `RowsStayAccounted` (`TablesAreAccounted`) | `TableAssumption` |
| `ScreensProofs`, event texts | `TextsInvariant`, `EventTextsTellTheTruth` (`EventTextsAreTrue`) | `EventAssumption`, `TextsAssumption` |
| `ScreensProofs`, exports | `FilesReadBack` (`FileReadsBack`) | `ExportsAssumption` |
| `ScreensProofs`, frames | `ClassListCounts` (`NoClassVanishes`), `PanesAreTrue` (`PanesAreOfTheClass`), `OneKeyOneDecision` (`KeysReachTheTop`), `TreeIsDrawnTrue` (`IndentsFollowParents`) | `ListAssumption`, `OverlayAssumption`, `TableAssumption` |

The assumptions say of what kind the constants are, and these facts of the world or
of the types in the code: a namespace is listed once, in one parent, the root in none,
and all of them are below the root (`TreeAssumption`: a full name holds its parent's);
a filter is known by its name within its namespace (`ScanAssumption`: the name is the
key of `__EventFilter`); a socket is TCP or UDP (`TargetAssumption`); a file that
parses has every field (`LibraryAssumption`: serde fills in defaults), was left in order
by an earlier session, and an import was exported by one; no qualifier
makes a class one of the system (`ListAssumption`: only the name does); the words of the
query language are neither numbers nor intrinsic classes (`EventAssumption`), and a
property of either half of an event is delivered once (`TextsAssumption`: the names of a
class's properties are unique); a quote is neither comma nor newline
(`ExportsAssumption`). The tables compared and the tables exported are any: rows and
cells may repeat, be missing or be too many. Bounds such as
`MaxSent` are any natural number: a theorem holds however far a behaviour goes.

`RetainProofs` has the lemmas that several of them need, over the positions of a
sequence: ranks in a finite set are a bijection onto 1, 2, ... (`RankIsBijective`),
`Max` is the maximum (`MaxIsTheLast`) and `First` the minimum (`FirstIs`), what
`Vec::retain()` leaves is the rest, each once, and so many fewer (`WithoutKeeps`), and
a total order's initial segments have one size each (`OrderIsCounted`), so that a sort is a
permutation in that order (`ArrangedIs`). `UpTo` is induction up to a bound with a set
for the statement, and `StepsExist` gives the function a recursion defines along
positions: the library's theorems on induction and recursion want an operator, which
none of the provers can be given.

The arguments, with what each invariant adds to the property:

* **Worker.** `ChannelInv`: the channel has every request once and in order, and a
  cancel only behind its request. `ProgressInv`: the requests received are those
  answered plus the one in hand, so the next reply has the next id. `HostInv`: the
  target is what the answered requests selected, and everything cached or in hand is of
  that target; so a stamp is the selection at its position, and data comes from the
  stamped machine. `FlagInv`: a flag is up exactly while its cancel can still matter,
  which gives both halves of cancellation, and an entry is either of the running request
  or of a cancel to come. For the refinement each action is a submit, an answer, a close
  or a stutter of the service (`ServiceStep`).
* **Drain.** Rows taken never exceed what the provider has nor the cap plus one (the
  probe row), and a reason to stop is recorded only when it is real; `Settle` then can
  only say what `Enumeration` allows (`SettleIsTruthful`).
* **Process trace.** `NothingLeftOver`: without a monitor no queue and no job is left
  over. `OneProcessPerNumber`: within the first monitor an event number is of one
  process, in jobs, messages and rows alike (the next one counts from one again, see
  [6](#6-where-code-and-comments-disagree)). `CommandsAreTheirOwn`: a command line in a
  message was read of the process it is about, or none was. The operations of the log
  are lemmas over values (`IsLog`), each preserving the indexes and the account of the
  history.
* **Rollup.** `WalkInv`: a namespace is on the stack, in hand or behind, and once
  (`EachOnce`); apart from the root it got there by the listing of its parent, which is
  behind (`Descent`; so, in a tree, it cannot come again); the counters are the sizes
  and sums of what was visited (`Tally`); with nothing refused, cut or missed, all the
  children of what was visited are known (`NothingLost`; at the end of the walk that is
  everything below the root).
* **Associations, scan, snapshots.** `AssocInv`: while the report is complete, every
  ancestor behind is fully shown. `ScanInv`: of each namespace behind, what it held
  throughout is in the report or the namespace is in `unread`; filters and consumers
  in hand are those held throughout, with one of each name. `SnapInv`: the rows are
  the rows of the parts answered, each joined with what is its own PID's.
* **Session.** `WorkerIsOnConnectedHost` is what is missing: while the title bar says
  connected the worker is on the host it names, even with the next connect already
  sent, so that whatever arrives before that connect is answered is of the host on
  screen; and its answer clears the screen, but for the MOF, of which nothing is
  claimed. A list is taken only under the namespace it was asked for, and a request
  leaves the channel in the step that clears its spinner.
* **Machines, calls, panels, events.** With one connect in flight the slot has its
  target (`MachinesInv`). One call at most is queued or running, and the flag is up
  exactly then, until the window goes (`CallsInv`). A host is named only while the
  worker is pointed at it, however many connects are still queued, and its answer clears
  the panels; each answer is of the host pointed at; a poll is sent only with none in
  flight, so that the rest were asked for by hand (`PanelsInv`). An event's monitor is one that was
  started, and the open row is one of the log (`EventsInv`).
* **Compare.** An id given to a side is on its own two requests and no other, a side's
  connect is answered before its query, and a view is built of the results in place
  (`CompareInv`). **Store.** `FileInv` says where the last write is: at the end of the
  queue, in the hands of the IO thread, or in the file; every operation saves, saves
  later, leaves the configuration alone, or moves a job along. For the refinement a job
  that is queued comes last in line (`LineGrows`), taking it leaves the line as it is
  (`LineStays`), and being done with it takes it off the front (`LineShrinks`); what is
  read back of a configuration is that configuration (`RereadIs`). For the library,
  `LibraryInv` adds that every configuration there is, shown, queued, being written or
  in the file, is in order (`IsKept`): a restart shows what was on the disk, so the one
  on screen alone would not be inductive. An import is merged query by query, each step
  keeping the names apart, before the sort.
* **Compared tables.** `TableInv`: the view on show is the one of the answers and of
  the keys and columns picked. The difference so far counts, after each row of B, what
  is matched, changed, equal and added; per key the rows left over are the surplus of
  one side (`RowsAreAccounted`). The labels of B's rows come from cursors into the
  lists of what was added and changed: with unique keys a cursor that has passed the rows
  before stands at the row of its own key (`RowsAreLabelled`).
* **Event texts.** A token put in, or written over, aside from a keyword leaves where
  the first of each keyword is, but for the shift (`InsertedKeeps`, `OverwrittenKeeps`);
  so the new interval is read back and the classes stay (`FieldWrites`). Places of
  fields on a line are distinct, and one that is named comes first (`PlacesDiffer`,
  `NamedLeads`).
* **Files.** A reader that has gone through one text goes on with the next from where it
  is (`AfterBoth`, `AfterConcat`); so from between two fields it takes a field and its
  mark, quoted or not (`FieldIsRead`), then a row (`RowIsRead`), then the rows; and no
  row is wider than the header (`WidthIs`).
* **Screens.** The palette and the invoke modal are up together only once the palette
  has had a frame (`OverlaysInv`), so that no Escape reaches both. A pane has the
  answer of the class it was last asked for or none (`PanesInv`). The depths are a
  recursive function; that it exists, and that a walk of one step less is cut at its
  bound and nowhere else, is by induction up to the bound (`ClimbIsStepwise`,
  `ClimbIsCut`).

Model-checked only:

* Liveness: `DropReturns`, `CancelIsAnswered`, `EveryRequestAnswered`, `DrainEnds`,
  `PendingEnds`, `JoinReturns`, `RunsEnd`, `ChangesAreSaved`. Fairness and `ENABLED` are
  beyond this proof system.
* The intermediate facts `TypeOK`, `OneReplyEachInOrder`, `CachesAreTheTargets`,
  `CancelledOnlyIfAsked`, `NoFlagLeak`, `BatchInBounds` and `CapBeatsCancel` have no run
  of their own: they follow by proof from `WorkerInv` and `DrainInv`, which the runs
  check. `QuietFileIsConfig` follows by proof from `FileInv`.

## 6 Where code and comments disagree

With a run that shows it:

* `process_details`: details are queued for stops too, and every monitor counts
  from one; details of a second monitor's stop overwrite an older row.
* `scan_consumers`: consumers are kept by name, so of two with one name and different
  classes only one has a row (`worker.rs:1917`).
* `machines_bound`: the machine that reads *Connected* is the one the form names, not
  the one the worker is bound to (`machines.rs:799`).
* `closed_call`: a call still queued when the window goes is dropped, although the
  dialog says it has been sent and still runs.
* `table_order`: the order the tables sort by is not transitive (`util.rs:248`).

Met while modelling; the definition named states the sentence, and a run with it
as its only property and the suite's other settings shows the disagreement:

* `Session!MofIsOfConnectedHost`: `reset_and_reseed` is there to "wipe host-scoped state"
  (`requests.rs:213`) and leaves the MOF, as does a namespace switch; it is known by its
  class name alone (`requests.rs:146`), so when a class of that name is selected on the
  new machine the Schema tab draws the old one's text (`schema.rs:155`). The way there
  takes 13 requests (`MaxSent = 13`): select, Schema tab, connect, select again.
* `Session!CountsAreOfActiveNamespace`: an instance count that is answered after a
  namespace switch is kept as the new namespace's (`responses.rs:209`), although counts
  "cannot survive a namespace switch" (`requests.rs:365`).
* `Session!FailedConnectLeavesLocal`: after a failed connect the title bar says local
  (`titlebar.rs:175`), and the worker is bound to the remote (`worker.rs:1017`).
* `Session!ProbesAreOfTheirRow`: two connects in a row share one slot; the first answer
  goes to the second row (`machines.rs:717`, against `machines.rs:85`).
* `NamespaceStats!NothingQuietlyOmitted`: a child listing that fails or is cut leaves a
  complete rollup without its subtree (`worker.rs:1373`, against `schema.rs:315`).
* `ProcessMonitor!StopClosesItsProcess`: starts are sent before stops in each turn, so
  the end of the old owner of a pid closes the new one's row (`procmon.rs:312`).
* `Compare!ResultIsOfItsTarget`: picking another target keeps the ids, so the answer of
  the machine picked before lands under the new name (`compare.rs:1297`).
* `CompareTable!SameIsNotReported`: with equal rows of B under one key the labels can
  call a changed row *Same* (`compare.rs:684`).
* `Library!ErrorsHaveNoMetrics`, `Library!ClosingLosesNoSave`: a failed query can carry
  the timings of an earlier run of the same text; a save that is queued when the window
  closes is lost with the thread (`io.rs:102`).
* `EventMonitor!NoteCountsSinceStart`: the counter of the stream goes on over a restart.
* `LivePanels!EmptyNoteIsTrue`: after a host switch "the snapshot came back empty"
  before there is a snapshot.
* `Invoke!AnyEditDisarms`: a change of class or target under an armed form does not
  always disarm it.
* `Associations!InheritedIncluded`: a class object that cannot be read leaves its
  ancestors out of a complete report (`worker.rs:1529`).
* `Snapshots!EveryPartAnswered`: process names that could not be read are not among what
  is unreadable (`worker.rs:2098`, against `providers.rs:246`).
* `ClassList!ClassNoteIsTrue`: with system classes hidden the note may say that no name
  matches when a hidden one does.
* `ExplorerPanes!UnavailableNeverComes`, `HeaderNamesAnInstance`: an error of an older
  request makes the header say *unavailable* while the newer one is in flight; a row of
  a query on another class gives the header a path that is no instance's.

Smaller ones, without a definition: the closing modal is not in the list of
`close_topmost_overlay()`; `is_system()` in `classlist.rs` and `classify()` in
`schema.rs` describe the same name test in different words; the exports of
subscriptions leave out the namespaces that could not be read; a refusal for
credentials in Compare cannot be reached, since the picker does not offer such targets.

## 7 What is not covered

* Of the worker: memory and COM errors inside a call, a broken cached connection, how long
  a call without a token takes.
* Of the session: the code tab, the tree as drawn, what the search index holds.
* Of the process monitor: the fallback to intrinsic events, a details thread that
  cannot be started, processes alike in parent, name and creation time within two
  seconds (which the code accepts as the same, `process.rs:51`), the owner
  lookup that has no such check, and the exports of the table.
* Of the machines: prompts for passwords, the durations a connect reports.
* Of the tables: selection and column widths; the order is modelled on the process
  table.
* Of the baselines: `DiffSnapshots` is stated as an operator, and no property is about
  it. Of the MOF after a switch nothing is claimed, see
  [6](#6-where-code-and-comments-disagree).
* Of Compare: `Compare` takes results as whole or cut, `CompareTable` takes them as
  rows; the two are not composed.
* Of the store: names and folders that differ in case only (the sort is by lower case),
  an old file that was edited by hand.
* Of the event texts: `tokens()`, which cuts the text into words and literals; a clause
  that would have to stand behind a class in quotes.
* Hosts and connections, drawing, theme, widgets, scripts, values, SIDs: formatting,
  or calls into COM with no state of their own. Bench and examples are not part of the
  program.

## 8 Plan

1. Done: all components that keep state are modelled and checked, every component with
   an invariant over its steps has it proved, and every invariant the passing runs check
   is stated by a theorem or part of one that is.
2. Next: an abstract specification of a comparison (two whole results of one query),
   with its refinement proved from `CompareInv`.
3. Then `Compare` and `CompareTable` composed, and the fallback of the process monitor
   to intrinsic events.
