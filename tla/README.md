# ScopeAnalyser in TLA+

ScopeAnalyser is a Qt desktop application with three tools on one in-memory
`SignalStore`: the **Recorder** (channels of a TwinCAT PLC over ADS, into memory
and an HDF5 file), the **Analyser** (formula channels and plots) and the
**Converter** (CSV, JSON, HDF5 and MDF4 files into signals). This directory holds
TLA+ models of the parts of it that are hard to test, the TLC runs that check
them, and proofs, checked by TLAPS, of what must hold for every size of the
system. `PROJECT.json` maps each definition to the lines it models.

## 1. Inventory

| Component | State | Operations | Meets | What is hard | What makes it correct |
|---|---|---|---|---|---|
| `NotifyChannel`, `RecordingSession` | per channel: lock-free queue, overrun count, ADS handle; the session's slots and HDF5 file | arm, disarm, ADS callback, drain tick (50 ms), start, stop | ADS threads call `onAdsSample`; the UI thread drains; `RecorderWidget` creates and destroys sessions | callbacks between any two steps of the UI thread, stop with a backlog, failing writes, failing start | no sample lost, repeated or reordered; no callback into a destroyed session; every overrun reported |
| `RouterAdsClient` | socket, reader thread, pending requests, notification handlers, two mutexes | connect, requests, addNotification, removeNotification, disconnect | UI thread against reader thread; the PLC answers late or never | two locks, a stack object shared between threads, timeout against reply, connection loss | no dangling pointer, a reply goes to its request, calls return |
| `UndoStack<Snap>` | snapshots, cursor, `applying_` | reset, commit, undo, redo | each tool arms a 0 ms commit timer on an edit | timer against queued input, nested event loops, depth limit | a bounded past/present/future history |
| `SignalStore` | name to `Signal` | add, remove, rename, signals to listeners | all three tools | each tool remembers names it put there; others remove, rename and undo | nobody removes or replaces another tool's channel |
| `FormulaEngine`, `AnalyserPlot` | formulas, their order, recompute flag, recompute timer, undo snapshots | evaluate, rename, remember, forget, recompute, layout load, undo | reacts to every change of the store, and changes it | a recompute changes what it listens to; order; cycles | results up to date, definitions never lost, comes to rest |
| `ConverterWidget` | open files, their mappings and imports, active file | open, apply, remove, workspaces, undo | store, worker thread | shared `Signal` objects, remembered names | re-applying replaces, removing a file removes only its channels |
| `Signal`, `BusyRunner` | sample buffers with a lock; a worker thread behind a modal dialog | append, read snapshot | recorder drains while a chart is saved | a read view outlives a reallocation | a view stays valid while it is used |
| `ScopePlot` | Y axes with an auto-fit flag each, the view, measurements, the measurement table | zoom, pan, region, wheel, axis menu, measure mode | the preview and the Analyser host it | pointers and indices to the same axes, gestures against refits | graphs, combos and measurements stay on their axis, a range set by hand stays |
| `LivePreviewPlot` | table rows, deferred assignments, loaded layout, time origin | layouts, record, tick, stop | recording store, plot | row, graph and layout hold the same assignment; channels are replaced under them | they agree; the newest sample is in view |
| `AnalyserPlot` views, `PlotLayout` | axes and placements per domain, sticky rows, X channel, layout files | views, axes, channels, renames, layouts, charts, undo | store, plot, chart files | three copies of a placement; a domain that changes without a view switch | looking changes nothing; undo, load and merge give back what was saved |
| `SignalIO`, `CsvWriter`, `Mdf4Session` | chart files | save, split, range, open | Analyser, Converter, Recorder | round trips, repeats, gaps, seconds as doubles, a file that cannot be written | what is saved is read back |
| tabular sources, `ConverterProfile`, `MappingPanel`, `ChannelEditDialog` | grid, mapping, stored profile | detect, edit, save, load, apply | Converter window | two readers for one format, profiles as words, cached grids | both readers agree; a mapping survives editing and storing |
| `FunctionRegistry` | none | signal functions | formula engine | window, cursor and index arithmetic over uneven samples | equal to their definitions |
| `AdsTypeTable`, `AdsTypeNames` | parsed tables | parse, expand | recorder | binary data | not modelled |
| HTML export, shell, style | widgets and text | - | - | - | presentation, not modelled |

The hazards these give rise to are listed, each at its line, in `PROJECT.json`.

## 2. The modules

### Recording

The UI thread runs loops over the channels in `start()`, `onDrainTick()` and
`stop()`. ADS threads deliver samples at any moment, so each iteration is one
action; `pc` names the loop and `cur` the slot. `OnAdsSample` and
`OnAdsSampleRefused` are the callback, `StartSlot`, `StartSlotFails`, `DrainSlot`
and `DisarmSlot` the loop bodies, `FileClosed` and `SessionDestroyed` the end of
`stop()` and of the destructor. A sample is its slot and its place in the slot's
stream, so order, loss and duplication are all visible. `DrainSlot` takes any
number of samples up to `MaxBatch` while the producer is live, because
`try_dequeue` need not see the latest ones. HDF5 writes can fail. `delivered`,
`writeFailed` and `backlog` are history variables. `DisarmSlot` relies on what
`MockAdsClient::removeNotification` does (it joins the worker); for
`RouterAdsClient` the same promise is examined in `RouterClient`
(`HandlerOutlivesDispatch`).

### RouterClient

One action per stretch between two lock operations. The UI thread is in
`request()` (`Register`, `LockAndWait`, `Completed`, `Timeout`,
`EraseAndReturn`), the reader thread in `readerLoop()` (`RecvFrame`, `TakeReply`,
`CompleteRequest`, `CopyHandler`, `RunHandler`, `ExitLock`, `ExitWake`,
`ExitDone`). `pendMtx` and `pm` (the mutex inside each `Pending`) are modelled as
owners; `subMtx` is never held across another operation and so is one step. The
invoke id stands for the request, its `Pending` record and, for AddNote, the
handle that the PLC assigns. The PLC and the router are external: they answer in
any order, late or never, may close the connection, and do not refuse DelNote.
Frames that are too short to be an AMS frame are skipped by the reader and left
out here.

### UndoStack and History

`UndoStack` is the template with the way the tools drive it: an edit arms the
0 ms timer, `TimerFires` is `commit()`, `Undo` and `Redo` are split before the
call of the tool's restore function (`Restored`), because a restore may show a
message box whose nested event loop lets the timer expire. `History` is the
specification it implements: past, present and future. The refinement mapping
cuts `snaps` at the cursor.

### FormulaEngine

`formulas` and `order` are the registry; `store` maps a channel to its samples, a
number. An expression is the set of channels it refers to, and evaluation fails
exactly when one of them is missing: parse and domain errors are abstracted away
(a formula that always fails is one whose operand never exists). `recomputeAll()`
is one action per formula (`EvaluateNext`) and one per pass (`EndPass`). The
handlers of `channelAdded` and `channelRemoved` are part of the action that emits
them. `Capture` and `Restore` are an undo snapshot of the Analyser; a restore
registers the formulas in any order, since the layout it reads lists channels in
the order of a hash table.

### SharedStore

All three tools on the one store. A `Signal` is an object on `heap` with a name of
its own, shared by whoever holds a pointer to it: that is what makes an in-place
rename (`ApplyH5`) visible to undo snapshots. `applied` is the Recorder's
`appliedMap_`, `imported` the Converter's `importedNames`, `checked` what the
channel selector of a recording ticks. Each capture and file has one channel.
Names are a base with suffixes. `foreign` counts the operations by which another
tool takes a channel away without telling its owner (a removal in the Analyser,
an undo): before the first, ownership is exact; what happens after it is in section 5. `AddChannel` is *Open chart*; formula channels are in
`FormulaEngine`. The user is assumed to leave the channel of a recording ticked.

### SignalFunctions

A behaviour is a nested formula built from the inside out. A signal is its
timestamps, domain, time origin and, for each sample, the set of source times it is
computed from (`dep`): a wrong index, window or neighbour gives a wrong set, while
the arithmetic of the values is left out. `lost` remembers which guarantees a
function used so far does not give (a spectrum has no time axis, `Shift` moves it),
so each property says under which functions it holds. A call the code refuses is
not enabled. `win` is the set of windows of the slices so far, a history variable.
`kNoSourceStart` (the smallest `int64` in the code) is a parameter, below every
recorded timestamp. Filters are one action with the preconditions of each design; their
coefficients are floating point. `kMaxOut`, the 50 million samples of `Repeat`, is
8 in the run.

### ScopePlot and LivePreview

`ScopePlot` is the plot widget as operators and actions over its own variables:
axes are records with an identity (the `QCPAxis*`) and a position (the index), what
an axis shows is "auto" or "user". `LivePreview` extends it with the table, the
recording store and the layouts, and is the specification that is run. A handler is
one action with everything it calls; *Record* replaces the channels, each with its
`channelRemoved` and `channelAdded`, and re-applies the layout. Measured numbers,
colours and painting are left out. The panel's height counts in units of the folded
header (`HeadPx`, `HugPx`).

### AnalyserViews

`w` is the widget with one field per member of `AnalyserPlot`; each private method is
an operator from widget to widget, and a handler composes them in the order of the
calls in the code. `on` is the domain whose axes are on screen, which the code does
not store but implies. `disk` holds one chart or layout file, of the current version
or of version 1 (flat lists). `snap` is any one entry of the undo history. An exported
page shows the channels that have samples; which ones they are is a parameter of
`htmlExportView`, and `ScreenAgrees` holds for every choice. The channels of a saved
chart are assumed to have samples (section 5 says what happens to one that has none).

### ChartFiles and TabularImport

`ChartFiles` has the writers and readers of charts: `saveChartFromStore` with its
filters, range, split and failing files, CSV in both layouts, JSON, HDF5, MDF4, the
TwinCAT export and foreign JSON tables. A cell is a number, `Blank` or `Text`; an X
value read back through a double may come back a nanosecond early (`slip`), MDF4
times are rounded to the spacing of a double at epoch time (`MdfGrain`; about 238 ns).
`TabularImport` extends it with the Converter's reader: grid, profile, detection,
stored profiles, the mapping panel and its channel dialog. `panel.profile` is the
profile stored with the file, `panel.shown` what the widgets show, `panel.grid` the
cells the source was cut into. The three are kept apart because the handlers compare
and store different ones. `due` is the running 0 ms commit timer: adding, editing or
removing a channel, cutting the file again and a successful Apply start it, and
`CommitFires` then stores what is shown in the file's profile (`saveActiveState`). The
delimiter and header-row boxes share one handler, which returns early, without a
commit, while the stored profile has the delimiter shown.

Simplifications: names that end in a bracketed unit, decimal commas, row delimiters,
the HTML format, requests with neither header nor metadata, X columns without a unit
and the detection of a file by the wrong detector are left out. A foreign table has
its time under the key `t`. Free names at import are `SharedStore`'s.

## 3. Runs

| Run | Shows | Bounds and why they are enough |
|---|---|---|
| `recording` | conservation, file equals signal, complete after stop up to a batch, overruns reported, no callback after stop, queued samples get recorded | 2 channels, batch 1, 2 samples each, 2 sessions: a backlog larger than a batch, a restart, and a failure in one channel of two all occur |
| `router` | no dangling `Pending`, replies matched, handlers outlive dispatch, no unaccounted notification, no forgotten request, disconnect returns | 4 requests, 2 samples, 2 connects: connect, AddNote, DelNote and one late request, or a reconnect |
| `undo` | refines `History`; the screen is the entry under the cursor; edits settle | 3 documents, depth 4: the limit is reached and entries are forgotten |
| `formulas` | up to date when ordered, none left out, undo gives back its snapshot, renames keep order, recompute keeps definitions, comes to rest | 3 names, expressions of at most 2 channels, 4 operations: chains of three, cycles, self-references, constants |
| `store` | ownership exact until a channel is taken away, renames included; no tool changes what is another's or a snapshot's | one capture, one CSV file and one recording of the same channel name, 4 signal objects, one removal or undo |
| `functions` | timestamps ascend, slices select what is shown, origins are handed on, filters look back only, windows, cursors, gates and transforms equal their definitions | recordings of 4 even, 5 uneven and 1 samples, three nested calls: slice of slice, gate of repeat, transform and back all occur |
| `preview` | graphs, rows, measurements and layouts agree on the axes; the tick keeps the newest sample in view; hand-set ranges stay | 2 channels, 3 axes, 2 measurements, 4 operations: an axis in the middle is removed, a layout comes before and after its channels, a recording is repeated |
| `views` | the chart shows the checked rows, exports match the screen, looking keeps the document, merge, undo, load and split files give back placements | 2 time channels (one the copy of the other; the store starts with the copy) and a spectrum, 2 axes, 5 operations: a save, a change and a load or undo, in each of the three views |
| `files` | every format gives back what was saved, both readers agree, rows stay aligned, ranges and splits partition, a second save is stable, collapsing keeps the curve, profiles reload, editing keeps the X column, a change of the delimiter cuts the grid again | 7 sessions (repeated instants, two grids, holes, a spectrum, a formula channel, a channel named like an axis, a TwinCAT export, a record table), 24 save requests, 2 delimiters, 2 saves and edits: a mapping changed and saved, or a delimiter changed and changed back |

Properties are conjunctions of parts where several claims are about one thing:
`AlgorithmsMatchDefinitions` has one part per algorithm of the registry,
`NothingOnARemovedAxis` one for graphs, rows and measurements, `ReadersAgree` one per
pair of readers. The type invariants of `Recording`, `RouterClient`, `UndoStack`,
`SharedStore`, `FormulaEngine`, `LivePreview`, `AnalyserViews` and, within its inductive
invariant, `SignalFunctions` are proved for every instance.

Deadlock is checked in `recording` and `undo`, where the user can always go on;
elsewhere the bounds end the behaviour, and the deadlock of `RouterClient` is
stated as a liveness property.

Runs that TLC must refute, because the code does not do what one of its comments
says (see `findings`):

| Run | The text | What happens |
|---|---|---|
| `router_exit_deadlock` | "Wake any waiters so they time out / unblock." | a timeout holds `Pending::m` and wants `pendMtx`, the reader the other way round |
| `views_lost_x` | "Each domain (Time / Frequency) remembers its own ..." | removing the X channel of an XY view over spectra leaves the Frequency axes on screen as the Time domain's |
| `files_undo` | "Undo the last change to the file list, mapping, or imported channels" | Auto-detect, *Load profile* and *Apply to all* change the mapping and start no commit, so it is no undo step |

### Conditions of the passing properties

Where a promise only holds under a condition, the property states the condition:

* two table rows of one name share a data set (`FileFollowsSignal` asks for a name
  of its own); only a backlog of one batch survives a stop (`StopKeepsABatch`);
* a self-referencing formula advances at every recompute, undo included
  (`UndoRestoresValues` asks for a consistent snapshot); a formula without data is
  not in a saved layout, and only such formulas lack data (`NoFormulaLeftOut`);
  formulas are recomputed in recording order (`OrderedIsFresh`);
* a spectrum remembers the origin of its source, so the way back restores the
  timestamps unless the signal starts at the timestamp that stands for "no origin"
  (`AlgorithmsMatchDefinitions`, its part `RoundTripRestoresGrid`);
* *Remove file* removes whatever has the remembered name, and undoing a rename in
  the Analyser makes the next send duplicate the channel (`OwnershipExact` asks that
  nothing was taken away); importing a recording may rename a Signal that an undo
  snapshot holds (`OthersKept` excepts recordings);
* a row that was edited or dealt since the commit timer last fired has no sticky place
  yet, and a table rebuild deals it again by its unit (`DocumentKept` and the first half
  of `MergeKeepsPlacement` ask that the timer has fired); the entry of the X combo wins over a layout's X channel
  (`UndoRestoresDocument`, `FileAxesHonoured`);
* blank cells are skipped by the Analyser and imported as 0 by the Converter
  (`ReadersAgree`), repeated instants are lost in a shared column, as the dialog
  warns (`SharedKeepsEveryInstant`), a header is needed to reopen a CSV
  (`ReopenIsFaithful`), a sample rate of 0 is not kept by the dialog
  (`MappingKept`), a second change of the delimiter before the commit timer compares
  with an older profile (`MappingKept`, its part `GridFollowsTheBox`), names like `t_x` confuse the header heuristics
  (`ReadersAgree`).

### Fairness

`Recording`: the UI thread runs on and its timer fires (weak fairness), and a
sample that stays queued becomes visible to the dequeue (strong fairness of a full
drain). `RouterClient`: both threads are scheduled and the 5 s timer of `wait_for`
expires. `UndoStack`, `FormulaEngine`: the event loop delivers an expired timer and
a running function returns. Nothing is ever assumed of the user, the PLC or the
network.

## 4. Proofs

Eight modules of proofs hold for every value of the constants (any channel table, batch,
depth, number of requests, names, formulas, axes, layouts and edits, recorded signals,
gates and nestings of functions), from the
assumptions named in the modules: sizes are naturals, the batch is positive, tables
map to the sets they are meant for, the expressions are finitely many and refer to
names, a layout that an earlier session left is one that `SaveLayout` can write, the
store lists each name once, no channel is called like the empty X channel, and the
timestamps of a recording ascend and come after `kNoSourceStart`. TLC
evaluates those assumptions on every run, and checked each inductive invariant as an
invariant of the run of its module before it was proved.

* `RecordingProofs`: `StopInv` is inductive. `Conservation` and `FileFollowsSignal` are
  nearly inductive by themselves; that a *stopped* recording is complete needs the
  phases of `stop()`: which slots are disarmed (`DisarmedBehindCur`), that a
  disarmed queue keeps its length until drained (`BacklogSettled`), that the file is
  open until the final drain has passed (`FileOpenWhileRecording`), and the same for
  overruns. From it follow the theorems of every safety property of the run.
* `RouterClientProofs`: `FrameInv` is inductive. That a pointer in the map belongs to a
  live stack frame rests on the lock protocol of `pendMtx` (`PendMtxInv`), on invoke
  ids being handed out once (`IdsInv`), and on a request leaving the map before it is
  completed, except in the exiting reader, which completes first (`CompletionInv`).
  `SessionInv` goes on from it and carries the four other safety properties: the reader
  leaves its loop only when the peer can no longer answer (`ConnectionInv`); a request
  the PLC has not answered is alone with its id, and the UI thread waits for it or gave
  it up (`QueueInv`); a reply on its way has left the PLC's queue, and an answered
  DelNote ended its notification (`ReplyInv`); a handler exists only for a completed
  AddNote and never for one whose removal began (`HandlerInv`).
* `UndoStackProofs`: type correctness gives the cursor bounds; `SettledInv` adds that an
  unrecorded edit has a commit due or a restore coming. The refinement of `History`
  is proved action by action: a commit is `Record`, undo and redo are theirs, the
  rest stutters.
* `SharedStoreProofs`: `OwnershipExact` is inductive on top of `TypeOK`. Each import, send
  and withdrawal is brought to one form (`Replaced`: the names N give way to one new
  channel of one origin, and everything else stays); the name of a new channel is free
  because the suffixes are counted up past every name in use. `ToolsKeepOthers` is an
  action property proved from type correctness alone.
* `FormulaEngineProofs`: `LoopInv` says where a pass of `recomputeAll()` stands: what is
  before the cursor in the registry shows its operands (`Shows`) as far as they are
  ordered, what is after it is still pending. `RecomputeInv` adds that at rest nothing
  is left out, and that the values of a consistent snapshot are a fixed point that a
  recompute after an undo leaves alone. Cycles and unordered registries are included:
  the theorems claim nothing of formulas that come before an operand of theirs.
* `LivePreviewProofs`: the invariant has one part per kind of reference. Graphs hold an
  axis by pointer, rows and measurements by index (`AxesInv`, `Placed`): a step that
  renumbers the axes either clears the measurements or has no graph on the axis that
  goes, and clamps the rows. `PanelInv` says where the height is while the table is
  folded. `DeferredInv` (what is deferred is what the loaded layout says of absent
  channels) gives `LayoutsAreHonoured`, `OriginInv` (a recording with an origin has a
  sample at or after it) gives `TheViewFollows`. Each helper of the widget has a lemma
  that says what it leaves alone (`Redrawn`: flags and ranges only), and one that every
  proof about axis lists cites.
* `AnalyserViewsProofs`: `ViewsInv` is inductive. Of the widget it says that the table
  lists what the view lists, on axes that exist, that the chart draws the checked rows,
  that in the XY view the X channel is what the X combo shows (`Sound`), and that no row
  lacks a sticky place once the commit timer has fired (`Settled`); of a snapshot, that
  it places every channel it holds (`SnapshotWhole`); of a file, that its flat lists
  repeat its maps and a chart places no channels but its own (`FileWhole`). Each private
  method of the widget has a lemma that says what it returns and what it leaves alone,
  and the handlers' lemmas compose them in the order of the calls. The loops over a set
  of channels (`StoreAddAll`, `StoreRemoveAll`) and over the axes of a file
  (`MergedAxes`) are recursive functions over a bounded range: the library's theorem
  needs an operator as parameter, so `Recursion` proves the one induction all three
  need, for a function that runs a sequence of maps. `ShownLabel` then says that after a
  layout was applied each channel has the label its domain keeps for it, from which
  undo, load and merge follow; `KeptLabels` and `SwapKeeps` do the same for looking.
* `SignalFunctionsProofs`: `IInv` is inductive. Besides what the properties say it keeps
  that the result is a well-formed signal with ascending timestamps (`IsSignal`), that
  no sample depends on a later one while only functions of that kind were used
  (`Causal`), that the time axis is kept until a spectrum, and that a spectrum whose
  bins were kept has one bin more than a power of two (`IsSpectrum`), which
  `revertFFT` needs. Each function of the registry has a lemma that says what it does to
  its argument: it keeps the grid (`OnGrid`), it also looks back only (`LooksBack`), or it
  selects, moves or replaces samples (`Respects`, the guarantees it gives); one lemma
  carries the invariant over any function so described. The cursors and rolling windows
  are recursive functions over the samples: `UpTo` is the induction up to a bound,
  `LoopExists` shows with it that a function defined pass by pass exists, and the
  loops' invariants follow (the windows are the samples at most a window old, the cursor is
  the last sample before the query, each run of a gate is maximal). `pow2` is treated the
  same way; that the butterflies of `revertFFT` stay in the buffer follows from it.
  `AlgorithmsAreCorrect` needs of the state only that the signal is well-formed.

Only model-checked:

* liveness (`QueuedIsRecorded`, `DisconnectReturns`, `EditSettles`, `ComesToRest`): under
  fairness it is out of the prover's reach;
* `ChartFiles` and `TabularImport`, `ReadersAgree` included: what their writers and
  readers compute over rows, columns and cells is built from sorting, flattening and
  folds of the community modules, whose results over sequences of any length take
  induction over that data.

## 5. Deviations met while modelling

What follows is in the models as the code does it. It is listed because a comment,
a tooltip or the application's README says otherwise, or because a maintainer may
not expect it.

Recorder and store
* The final drain of `stop()` takes one batch of 4096; a longer backlog misses the
  file ("One final drain so we don't lose what was in flight",
  RecordingSession.cpp:73).
* A commit timer armed before an undo records the restored state and drops the redo
  tail (UndoStack.h:24, :53).
* After another tool removed a sent channel, `appliedMap_` still holds its name and
  the next send replaces whatever has it now (RecorderWidget.cpp:47).
* Undo in the Converter re-adds channels over ones another tool added meanwhile
  (ConverterWidget.cpp:93, :666); re-applying a recording whose Signal was renamed
  in place imports nothing (ConverterWidget.cpp:935).
* `applyH5With` appends doubles to a Signal whose data type may be another one.

Formulas
* `recomputeAll()` is not in dependency order when a stale operand exists
  (FormulaEngine.h:83, FormulaEngine.cpp:716).
* `rewriteReferences()` (FormulaEngine.cpp:635) also rewrites a function whose name
  equals the renamed channel.
* `revertFFT` of a spectrum shortened by `Slice` or `Gate` has a length that is no
  power of two, for which the butterflies leave the buffer (`RevertStaysInBuffer`
  holds while the bins are kept).
* `FFTCut`, `FFTKeep` and `revertFFT` drop the source start, and resampling to a
  reference or operators over different grids are not anchored (Signal.h:51);
  `PeakHz(y)` as an operand is not treated as a constant.
* An operand that has one sample at time zero is taken for a constant even when it is a
  recording: the result then has the origin of the other operand, also where both are
  on the same grid (the attempt to prove that derived signals hand on their origin
  showed it).
* A spectrum of a signal that `Shift` moved to the timestamp that stands for "no origin"
  (the smallest `int64`) comes back without its origin (the proof of the round trip
  showed it; no recording starts there).

Plot and preview
* On a second *Record* a channel's graph goes to the axis of its unit while its row
  keeps the axis of the layout (RecorderWidget.cpp:448, LivePreviewPlot.cpp:398).
* A combo keeps its index when an axis before it is removed.
* The tick refits Y axes that were set by hand (ScopePlot.cpp:291-295 says it stops
  fighting them), and its own change of range while the left button is held marks
  axes as set by hand; assigning a channel to another axis refits over the ranges of
  a loaded layout.
* `removeYAxis()` looks only at graphs; default labels `Y2`, `Y3` may repeat.

Analyser views
* Removing or renaming the X channel, or changing its domain, changes the active
  domain without exchanging the axes (run `views_lost_x`).
* The X combo's own entry wins over the X channel of a layout or snapshot; a layout
  loaded before its data loses its X.
* A row without sticky state gets a default for the value that was not edited, if a
  rebuild comes before the commit timer. In particular *Open chart* may move a channel
  that was added and placed by its unit just before to an axis the user added for
  that unit in the meantime (the attempt to prove `MergeKeepsPlacement` showed it); a saved axis index beyond the axes attaches
  to an axis added later.

Files and import
* A CSV saved without its header loses its first row when reopened
  (SignalIO.cpp:218), although the tooltip of the metadata line
  (SaveChartDialog.cpp:178-183) calls the round trip lossless.
* Blank cells and JSON nulls become 0 in the Converter (JsonSource.cpp:22-24 says
  "no sample here"); it also keeps empty channels that the Analyser drops.
* A metadata line implies a comma, so a `;` file with metadata imports empty channels.
* The first X column precedes the profile's sample rate, ConverterProfile.h:19 says
  the reverse; `buildProfile()` drops that rate (MappingPanel.cpp:480-483 says old
  profiles keep it), so such a profile is refused.
* Relative seconds and Hz are truncated and may come back 1 ns early; MDF4 keeps
  epoch seconds as a double.
* `writeCsv` does not look at stream errors, `writeHdf5` not at those of add and
  append.
* In the Converter Auto-detect, *Load profile*, *Apply to all* and a change of the
  header row or decimal mark are no undo steps of their own (run `files_undo`); the
  next commit takes them along.
* A delimiter that is changed and changed back before the commit timer has fired (Qt
  handles queued input first, and cutting a large file blocks the window) leaves the
  file cut at the other one: ConverterWidget.cpp:1019 compares with the profile, not
  with the grid. `GridFollowsTheBox` asks for no commit pending.
* A channel without samples has a row in the Analyser's table and a place in a saved
  layout, but is not on an exported page (AnalyserPlot.cpp:1065) nor in a saved chart
  (SignalIO.cpp:930). Opening such a chart may then move a channel of that name that
  was already in the store.
* The channel dialog shows the default for a rate of 0, pins a channel whose X
  column is gone to the first X column, and turns an unknown X unit into s or Hz.

## 6. Not modelled

The Beckhoff client (its threads belong to a library), the decoding of ADS symbol and
type tables (sequential parsing), painting, colours, themes, message texts, the HTML
page, floating-point values, the byte formats of HDF5 and MDF4 (libraries). The raw
read pointers of `Signal::snapshotForRead` against the worker of `BusyRunner`: what
happens depends on the allocator and on what Qt lets run in a nested event loop. The
Converter's file list with its active index: it depends on when `QListWidget` emits
`currentRowChanged`. The lexer and parser of formulas: expressions are given as the
channels they refer to (`FormulaEngine`) or as the calls they make
(`SignalFunctions`).

## 7. Plan

Done: `Recording`, `RouterClient`, `UndoStack`/`History`, `SharedStore`, `FormulaEngine`,
`ScopePlot`/`LivePreview`, `AnalyserViews` and `SignalFunctions` with runs, and with
proofs of all their safety and action properties; `ChartFiles`/`TabularImport` with a
run.

Left: `ReadersAgree` of `TabularImport`, as far as it does not need induction over the
cells.
