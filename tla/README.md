# Verification of the QGIS core

TLA+ modules that model the concurrent and stateful core of this QGIS tree, TLC
configurations that check them on small instances, and proofs of their main
properties for every value of the constants.  Paths below are relative to
`src/src/core/` of the repository unless they say otherwise.

## 1. Inventory

QGIS is a desktop program: a main thread with an event loop, worker threads that
render map layers and read features, and data providers behind a common interface.
The tree holds about 500 000 lines of C++; most of them are widgets, drawing,
formats and numeric code.  The state that several actors share, or that must
survive failures and undo, lives in the following parts.  The files that the build copies over the tree from
`opt/overwrite` are none of those modelled here.

| Component | State | Operations | Interacts with |
|---|---|---|---|
| Connection pool (`qgsconnectionpool.h`) | a semaphore, idle and acquired connections, a timer | acquire, release, invalidate, expire | feature iterators of the OGR and PostgreSQL providers in all threads; the timer in the main thread |
| Maps of pools (`providers/ogr/qgsogrconnpool.h`, `providers/postgres/qgspostgresconnpool.h`) | groups by connection string, reference counts | ref, unref, acquire, release | providers and iterators |
| Edit buffer (`qgsvectorlayereditbuffer.cpp`) | added, deleted and changed features; added, deleted and renamed fields | the editing calls, commit, rollback | undo commands, provider, layer, feature iterators |
| Undo commands (`qgsvectorlayerundocommand.cpp`) | the old and new value of each edit | redo, undo, merge | the layer's `QUndoStack`, edit buffer, geometry cache |
| Geometry cache (`qgsgeometrycache.cpp`) | geometries by feature id, the extent they cover | cache, drop | undo commands, render jobs, snapping |
| Vector layer (`qgsvectorlayer.cpp`) | edit mode, selection, open edit command | start/commit/roll back, edit commands, select | everything |
| Transaction group (`qgstransactiongroup.cpp`, `qgstransaction.cpp`, `qgsvectorlayereditpassthrough.cpp`) | one database transaction, the layers that share it | start, commit, roll back | signals of its layers |
| Render jobs (`qgsmaprendererparalleljob.cpp`, ...), image cache, canvas | job status, layer images | start, cancel, finish, refresh | worker threads, layers, geometry cache |
| Offline editing (`qgsofflineediting.cpp`) | a log of committed edits, a table of ids | convert, listen, synchronise | signals of commits |
| Vector layer cache (`qgsvectorlayercache.cpp`) | cached features, indices, "complete" flag | read, evict, follow edits | signals of the edit buffer |
| WFS shared data (`providers/wfs/qgswfsshareddata.cpp`) | downloader, cached regions, generation counter | register a reader, serialise features | a downloader thread, readers |
| Layer registry, layer tree, bridge | layers, tree nodes | add, remove | signals both ways, queued removal |
| Layer styles (`qgsmaplayerstylemanager.cpp`) | styles, the current one, an override | switch, override, restore | layer, renderers |
| Joins (`qgsvectorlayerjoinbuffer.cpp`) | joins, caches of joined layers | add, remove | other layers' signals |
| Network access (`qgsnetworkaccessmanager.cpp`) | a timer per reply | create, abort | providers |

What is hard, and the properties that make each part right:

- **Pool** (threads, a lock that is not held while a connection is opened, calls
  queued across threads).  Permits are neither lost nor duplicated, no connection
  has two owners, at most the documented number is open, outdated connections are
  not reused, idle ones get closed, and callers do not wait for each other.
- **Edit buffer and undo** (long sequences of calls, partial failure, a cache that
  others replace).  Undo and redo restore exactly what was there; rollback leaves
  nothing; what is shown does not change while it is stored; a commit that fails
  half way leaves buffer, undo stack and provider in a state one can go on from.
- **Fields** (indices that shift in five maps).  Every map names the same field
  after any sequence of adding, deleting, renaming and undoing.
- **Transactions** (signals that re-enter, failures at each step).  Edits that go
  straight to the provider are in the open transaction, layers edit together, and
  edits are not discarded without a question.
- **Rendering** (cancel against finish, results that arrive late).  The image cache is
  as good as its extent says, the canvas ends up showing the map as it is, and every
  job ends.
- **Offline editing** (failure between commit and clearing the log).  Each offline
  edit reaches the remote layer exactly once.
- **WFS cache** (a downloader thread, readers that join and replace downloads).  A
  reader misses nothing, and waits for nothing that will not come; a region that counts
  as downloaded is.
- **Vector layer cache**.  A cache that calls itself complete is.
- **Tree bridge, styles, joins** (signals and queued calls).  Tree and registry
  agree when the queue is empty; the stored styles are those the user made; the
  graph of joins has no cycle.

## 2. Plan

Each module is parameterised by CONSTANTS with named assumptions, has one action per
operation, and uses no RECURSIVE operator.

Done: `ConnectionPool` with the abstract `ResourcePool`; `EditBuffer` for features and
`FieldEdits` for fields, the latter with the abstract `UndoHistory`; `TransactionGroup`;
`MapCanvas` with its jobs and image cache; `OfflineEditing`; `WfsSharedData`.

Next, in this order:

1. `VectorLayerCache` on an abstraction of the edit buffer's signals: a cache that calls
   itself complete is, whatever edits, evictions and reads go on.
2. `OgrConnectionPool` on top of `ConnectionPool`: reference counts of the groups and
   their deletion.
3. `LayerTreeBridge` (removal from either side, with a queued call in between),
   `StyleManager`, `JoinGraph`.

Every safety property that a run checks, action properties and the two refinements among them, is a
theorem (section 5).

## 3. Modules

### ConnectionPool, ResourcePool

`ConnectionPool` is one group of `QgsConnectionPool`: `QgsConnectionPoolGroup` of
`qgsconnectionpool.h`, with the handle functions of the OGR provider.  A step that
runs under `connMutex` is one action.

| TLA+ | Code |
|---|---|
| `sem`, `idle` with `lastUsed`, `acquired` | `sem`, `conns`, `acquiredConns` |
| `valid` | the handles whose `valid` flag is set |
| `timer`, `calls` | the timer, and the start/stop calls queued for its thread |
| `pc`, `local`, `held` | where each caller is, its variable `c`, what it was given |
| `stale`, `missed`, `age` | history variables, read by properties only |
| `Acquire` .. `AppendAcquired`, `OpenFails` | `acquire()`, lines 82-126 |
| `Release`, `ReturnPermit` | `release()`, lines 128-153 |
| `InvalidateConnections` | `invalidateConnections()`, lines 155-166 |
| `RunQueuedCall`, `ConnectionExpired` | the event loop and the slot of the timer, lines 181-207 |
| `Tick` | `QTime::currentTime()`, which wraps at midnight |

Left out: the map of groups and their deletion; the order of the idle list (the
code pops the last one, the model any); the content of a connection.

`ResourcePool` is what callers may rely on: ask, be granted a resource that nobody
has, be refused, give back.  `ConnectionPool` implements it by the refinement
mapping `out <- held`, `asking <-` the callers inside `acquire()`.

### EditBuffer

The features of one layer, with one attribute and fields that do not change.

| TLA+ | Code |
|---|---|
| `caps`, `prov`, `nextId` | capabilities, features and id counter of the provider |
| `buf.added/deleted/geoms/attrs` | `mAddedFeatures`, `mDeletedFeatureIds`, `mChangedGeometries`, `mChangedAttributeValues` |
| `cache`, `selected` | the geometry cache, `mSelectedFeatureIds` |
| `mark` | `addedIdLowWaterMark`, the source of temporary ids, never reset |
| `cmds`, `index`, `stops`, `macro` | the `QUndoStack`; a macro is a marker followed by its children, `stops` the positions one can undo or redo to |
| `target`, `phase` | what the layer is doing and where a walk along the stack goes |
| `ok`, `crashed` | `success` of `commitChanges()`; a null pointer was dereferenced |
| `job` | the geometries a running render job has collected |
| `hist`, `exact`, `commits` | history variables and the bound on commits |
| `AddFeature`, `DeleteFeature`, `ChangeGeometry`, `ChangeAttributeValue` | the methods of the edit buffer with the constructor and `redo()` of their commands |
| `Push`, `Merges` | `QUndoStack::push` with `mergeWith` of geometry changes |
| `StepBack`, `StepForward` | `undo()` and `redo()` of one command; `UndoCommand`, `RedoCommand`, `RollBack`, `DestroyEditCommand` start the walk |
| `CommitGeometries` .. `CommitAdds`, `FinishCommit` | the stages of `commitChanges()`, and the end of the layer's |
| `RenderStart`, `RenderFinish` | which geometries a render job collects, `updateLayerGeometryCaches()` |
| `Overlay`, `View` | how a feature iterator lays the buffer over the provider |

Assumptions: a provider call succeeds completely or changes nothing, and gives
new features ids it has not used; callers pass the true old attribute value, name
features they have seen, and neither commit nor roll back inside an open edit
command nor nest edit commands; `QUndoStack` behaves as Qt documents it.  A walk
along the stack and a commit run in the main thread; nothing else runs between
their steps, but each step is visible, because it emits signals.  The capabilities
that a commit looks at do not change while the layer is open.

### FieldEdits, UndoHistory

The fields of one layer, with the values of stored and added features.  Indices count
from 1.

| TLA+ | Code |
|---|---|
| `columns`, `rows` | fields and features of the provider |
| `ed.added/deleted/renamed/changed/features` | `mAddedAttributes`, `mDeletedAttributeIds`, `mRenamedAttributes`, `mChangedAttributeValues`, `mAddedFeatures` |
| `ed.fields` | `mUpdatedFields` of the layer, each with the origin that `QgsFields` keeps |
| `AddAttribute`, `DeleteAttribute`, `RenameAttribute`, `AddFeature`, `ChangeAttributeValue` | the methods of the edit buffer with the commands they push |
| `HandleAttributeAdded`, `HandleAttributeDeleted` | how the maps shift |
| `CommitDeletes` .. `CommitFeatures` | the stages of `commitChanges()`, each of which may fail |
| `CheckFields` | the comparison of the provider's fields with `oldFields` before values are stored |

`UndoHistory` is what a user may rely on: a sequence of tables with a position in it.
`FieldEdits` implements it with `shown <- Table(ed)`, as long as nothing was lost.
`exact` turns FALSE after a commit that failed in a stage, for an added field that hides
another (a name is free again only through a renaming that is pending), and when the
pending renamings shift to a wrong place (`NamesRestored`, section 6).

The provider is assumed to refuse two added fields of one name, and to add features with
their attributes cut or filled up to its fields; of several renamings it carries out
those it can.  Default values, joined and expression fields are left out.

### TransactionGroup

| TLA+ | Code |
|---|---|
| `layers`, `tx`, `members` | `mLayers` and `mTransaction` of the group, `mLayers` of the transaction |
| `readOnly` | layers with `mReadOnly`, or whose provider cannot edit |
| `inTx` | layers whose provider has the transaction set |
| `buffer`, `modified` | the kind of each layer's edit buffer, `isModified()` |
| `linked` | layers whose commit and rollback signals are connected to the group |
| `queued` | calls of `startEditing()` in the event queue |
| `draft` | layers with edits in the open transaction |
| `hidden`, `kept`, `turnedAway`, `discarded` | history: drafts that no buffer reports, buffers that a rollback kept, layers refused as read-only, how the last step discarded |
| `BeginTransaction`, `EndTransaction`, `Refused` | the slots of the group |
| `StartEditing`, `SetReadOnly`, `CommitChanges`, `RollBack` | the methods of the layer; `RollBack` with its argument `deleteBuffer` |
| `Discard`, `StopEditing` | the two ways in which `toggleEditing()` of the application rolls back, after a question and without one |
| `CancelEdits` | Cancel and Rollback for the selected layers, of which the latter leaves the layer editable |
| `StopEditingInForm` | `stopEditing()` of `app/qgsguivectorlayertools.cpp`, which the editor of related features calls |
| `AddLayer`, `RemoveLayer` | layers of the project that come and go |

`begin()`, commit and rollback of the database may fail.  When `begin()` fails the group
keeps a transaction that is never active, and from then on every commit and rollback of
its layers is refused (the header says "Only set while a transaction is active"): the
model has that state, and the properties hold in it.

`addLayer()` of the transaction takes layers that are read-only as members, and their
`startEditing()` then refuses.  Such a layer is a member that does not edit; once it is
writable again it can start alone in the open transaction, and may be made read-only before
its restart is due.  `turnedAway` is what `EditTogether` and `MemberComesBack` say of it.

`rollBack(false)` keeps the buffer of its layer.  In a group the transaction has ended by
then, and a passthrough buffer without a transaction stores each edit at once; the
`startEditing()` that `cancelEdits()` calls next finds a buffer and does nothing.  `kept`
records it, and section 6 says what follows (`PersistentByCommit`).

A command of the application that makes several calls (save and start again, cancel for
several layers, toggle before removal) is several steps here, one per call; the order
between them is left open.  Left out: SQL statements of the providers, edits that a provider
refuses, and transactions created by scripts.

### MapCanvas

| TLA+ | Code |
|---|---|
| `extent`, `scheduled`, `enabled` | `mSettings`, `mRefreshScheduled`, `mRenderFlag` of the canvas |
| `current`, `jobs` | `mJob` and all parallel jobs that exist: status, layers still to be drawn, connected slot, event of the watcher |
| `cache` | `QgsMapRendererCache`: an extent and images |
| `version`, `shown`, `missed`, `withheld` | how layers look, what the canvas shows, history |
| `RefreshMap`, `PrepareLayer`, `StartWorkers` | `refreshMap()` and `start()` of the job, layer by layer, because a provider may run an event loop in between |
| `DrawLayer` | a worker thread |
| `RenderLayersFinished`, `RenderLayersFinishedWhenJobCanceled`, `RenderingFinished`, `DeleteJob` | the slots of job and canvas |
| `MapUpdateTimeout`, `TriggerRepaint`, `SetExtent`, `StopRendering`, ... | the timer and the requests |

A repaint that arrives while the job prepares its layers is deliberately not accepted
(`qgsmapcanvas.cpp:741-745`); `missed` and `withheld` record it.  What a stopped worker draws
counts as unfinished, an unfinished image as none.  User input is excluded in nested event
loops, as the code asks.  `freeze()`, changes of the set of layers, the sequential and the
custom painter job, and a blocking `cancel()` of a job by its owner are left out.

### OfflineEditing

| TLA+ | Code |
|---|---|
| `table`, `fids`, `log`, `commitNo` | the SQLite file: offline tables, `log_fids`, the tables of the log, `commit_no` |
| `remote`, `nextId` | the server |
| `buffer` | the edit buffer that a failed commit leaves in the remote layer |
| `project`, `saved` | the open project and its file |
| `CommittedFeaturesAdded`, `CommittedFeaturesRemoved`, `CommittedChanges` | the slots that log a commit |
| `Synchronize` .. `ResetCommitNo` | `synchronize()`, one action for each statement that is durable or can fail |
| `CommitFails`, `SaveRemote`, `DiscardRemote` | a commit that stops at one of its stages; the user then saves or discards the rest |
| `Crash`, `SaveProject`, `OpenProject`, `OthersAddFeature` | what else happens |

`lost` names what the code does not cope with, per layer; each property says which of
these it holds in spite of: *unlogged* (edits of a layer that stayed offline after the
project's entry was removed, because another layer was synchronised), *reused* (SQLite
gives the rowid of a removed row to the next), *unmapped* (the lookup does not pair new
ids, because others added features meanwhile), *repeated* (a crash after the remote commit
replays the additions, and so does the next `synchronize()` after a failed commit whose
additions the user has saved meanwhile), *reset* (`commit_no` set to 0 with a skipped layer's updates in the
log).  Attribute and geometry updates are one kind.  Assumed: the server gives ascending ids
and never reuses one, features are added all or none, and the user saves the project after
the conversion.  Left out: added fields, styles, joins, edits that are uncommitted when
`synchronize()` is called, further edits of a remote layer before or after it is saved, and
changes by others to features that were copied.

When `commitChanges()` of the remote layer fails (line 311), the code warns and does not roll
back: that layer is in the project, in edit mode, with what was not stored.  The log still has
it all.  Values and removals may be saved later without harm, because replaying them changes
nothing; features added are then added once more.

### SortedSets

`Sorted` is a set of numbers in ascending order, as a `QMap` keeps its keys; `Kept` is what a
list keeps when entries are removed.  Field edits, offline editing and the transaction group use them.

### WfsSharedData

| TLA+ | Code |
|---|---|
| `rect`, `limited`, `finished`, `gen` | `mRect`, `mRequestLimit`, `mDownloadFinished`, `mGenCounter` |
| `regions`, `cached`, `count`, `exact` | `mRegions`, the SQLite cache, `mFeatureCount`, `mFeatureCountExact` |
| `down` | the downloader and where its thread is |
| `readers` | the feature iterators: counter, connection, buffer, what they returned |
| `Register`, `Replace`, `StopDownloader`, `StartDownloader` | `registerToCache()`, which releases `mMutex` in the middle |
| `Query`, `Fetch`, `Exhausted`, `Rewind`, `Close` | the iterator |
| `SendRequest` .. `SignalEndOfDownload` | `run()` of the downloader, `serializeFeatures()` and `endOfDownload()` |
| `Invalidate`, `ClearCache` | `invalidateCache()` |

What runs under `mMutex` is one action; `mMutexRegisterToCache` is `RegisterFree`.  `lost`
names how the cache comes to be wrong about itself: *mislabelled* (a new reader sets `mRect`
and `mRequestLimit` before the old downloader has ended, whose end then counts for the new
rectangle), *cut* (a stop between two pages leaves `success` TRUE, and a page with fewer features than
`mMaxFeatures` is taken for the last one, whatever the server still has), *unstored* (the cache
refuses features that count as downloaded all the same), *uncounted* (features of a request
for one feature are stored and not counted).  A reader whose download is replaced by that of
another rectangle ends with what it has; that is `told`.  Left out: transactional edits of
the cache, hits requests, the shortcut for a single feature id, the extra request when
the capabilities have a wrong extent, giving up paging, and a cache file that cannot be created.

## 4. Runs

| Run | Checks | Result |
|---|---|---|
| `pool_safety` | `TypeOK`, `PermitsAccounted`, `OneOwner`, `OpenLimit`, `InvalidatedNotReused`, refinement of `ResourcePool` | hold |
| `pool_liveness` | `PermitsComeBack` | holds |
| `edit_undo` | `TypeOK`, `UndoRestores` | hold |
| `edit_commit` | `AssertionsHold`, `RollbackEmpties`, `SuccessSavesAll`, `FeatureCountExact`, `CommitKeepsView` | hold |
| `field_edits` | `TypeOK`, `IndicesFit`, refinement of `UndoHistory`, `ValuesReachTheirField`, `FeaturesReachTheirFields` | hold |
| `field_values` | `ValuesOnlyInExpectedFields` | a field that cannot be deleted: values are stored one field off |
| `txn_group` | `TypeOK`, `PassthroughInTransaction`, `EditTogether`, `AskedUnlessHidden`, `MemberComesBack` | hold |
| `canvas` | `TypeOK`, `CacheSound`, `EndsWhileRendering`, `ShowsMap` | hold |
| `canvas_rest` | `ComesToRest` | holds |
| `offline` | `TypeOK`, `NothingLost`, `LogIsTheDifference`, `LookupSound`, `TheirsKept` | hold |
| `offline_lost` | `SynchronizedMeansStored` | updates of a skipped layer are out of the range of commits that is replayed, and then deleted |
| `wfs` | `TypeOK`, `NothingMissed`, `ServedCompletely`, `TwiceOnlyInRace`, `CountExact`, `NobodyWaitsInVain` | hold |

The two violated ones are disagreements between the code and a comment of the repository
that PROJECT.json quotes.  Section 6 has the others.

Bounds.  *Pool*: two workers and the main thread, two permits, three handle
addresses, up to two connections per caller and two queued calls: enough for one
caller to open while another releases, for both to race with the main thread, and
for a destroyed address to be used again.  `Expiry` is 1 and the day has two units, so
that the clock wraps.  The liveness run has a pool of three for two callers
that nest two deep, the smallest where nesting is safe; the safety run has a pool
of two, where it is not, because safety does not depend on it.
*Edit buffer*: one feature in the provider and one added by the user, two
geometries, one attribute value.  All commands act on one feature or on two, and
every disagreement found needs at most two.  Three commands in `edit_undo` give an
edit command with two children, two changes to merge, and a redo branch to cut off;
two commands and two commits in `edit_commit` let both commits fail at every stage
with edits, undo and rollback around them.  Features added by the user have both a
geometry and an attribute, or neither.  The two runs share the cost: render jobs
in the first, commits in the second.
*Fields*: two fields in the provider and a third name, so that a field can be before, at and
after the one that is added, deleted or renamed; a stored and an added feature; three commands
and one commit, which may fail at each of its stages.  No edit follows the last commit.
*Transactions*: three layers, the one that commits, one that fails and one that looks on, each
read-only or not; two queued restarts.
*Canvas*: two layers of which one changes once, two extents, two jobs: the canvas' own and one
that was cancelled.  A third job would only be another cancelled one.  `canvas_rest` has one
layer, because a temporal property costs more.
*Offline*: two layers (the shared `commit_no` and project entry need two) of at most one copied
feature and up to three rows, so that two added features are paired; three commits, two
synchronisations, and two events out of crash, failure of the server and addition by
others.  Two copied features with one such event, and one layer with four commits and three
synchronisations, were also run by hand; beyond that the proofs take over.
*WFS*: two readers, two features, a rectangle inside another, three generations, and one event out of failure,
truncated answer, refused write, abort, reload and rewind.  Readers are symmetric.  `PageSize` is 1
while a page may have none, one or both of the features: so a download has several pages, ends
with an empty one, and may end too early.
Deadlock checking is off where the system may stop: a crash (edit buffer, fields), an application
without requests (transactions, canvas), the bounds on requests (WFS).

Fairness.  In `pool_liveness` a thread that is inside `acquire()` or
`release()` keeps running (weak fairness of its steps; weak is enough for taking a
permit, since no action of the model takes a permit from a thread that waits except
by acquiring it, and the property asks for a permit and not for a certain
thread), the event loop serves its queue, and a caller releases what it holds, which
line 228 of `qgsconnectionpool.h` asks of every caller.  In `txn_group` the event loop serves
its queue (`RunQueuedStart`).  In `canvas_rest` the main thread's events and the workers go on
(`Work`); requests and the timer need not.  `ComesToRest` speaks of behaviours in which requests
cease, and holds without fairness of any single job because work is finite.
The other runs assume none: that no WFS reader waits for ever is the invariant `NobodyWaitsInVain`,
a running thread it is connected to.

## 5. Proofs

`ConnectionPoolProofs` proves, for any number of threads, handles and permits:
`TypeCorrect`, `PermitsAlwaysAccounted`, `HandlesHaveOneOwner`, `OpenHandlesLimited`,
`IdleAlwaysValid`, `InvalidatedAreNotReused` and `ImplementsContract`.  The inductive
invariant `IInv` is the conjunction of `TypeOK`, `OneOwner`, `IdleValid`,
`PermitsAccounted`, `OpenLimit` and `LocalWhileOpened`: a thread has a handle in
`local` exactly between opening it and appending it.  `OpenLimit` needs
`PermitsAccounted` where a thread decides to open: it owns a permit, it saw the idle
list empty, and what becomes idle later comes from callers that give a handle away
for it.  For `InvalidatedNotReused` the proof adds `StaleInv`: a stale handle is one
that a caller still holds and that has lost its flag.  The refinement uses `OneOwner` to show
that what is granted nobody has, and `PermitsAccounted` that it fits the limit.

`EditBufferProofs` proves `TypeCorrect`, `UndoIsExact` (`UndoRestores`) and
`FeaturesAreFound` (`AssertionsHold`).  The invariant has three parts on top of the types:

- `StackOK`: positions and history fit the commands;
- `AddedOK`: the history, restricted to the added features, is linked by the commands
  (position n+1 is `Redo` of command n+1 from position n, and `Undo` leads back), ids
  that were not given out occur nowhere, and `buf.added` is what history says, also after
  failed commits, because the stage that empties it is the last one;
- `ExactOK`: as long as nothing was lost, the same holds of the whole buffer, and
  every changed geometry is in the cache, which is where the old geometry of the next
  change comes from.

`UndoRestores` alone is not inductive: the step that undoes a command must know
that the command's old value is the one history has at the position below, and a
merge replaces `new` of a command without touching its `old`.  The invariant itself
was checked with TLC on the instances of both runs first.

It goes on with `RollbackIsComplete` (`RollbackEmpties`), `SuccessIsComplete`
(`SuccessSavesAll`), `FeatureCountIsExact` and `CommitsKeepTheView`.  After a commit that failed
half way history no longer tells what is in the buffer.  What still holds, and is enough for the
rollback, is that every entry has an applied command without an old value that takes it
out (`Covered`), and that a command with an old value is above such a one (`Rooted`).  `Stages`
says what each stage of a commit has handed over, `DeletesStored` and `IdsFresh` that deleted features
exist and ids to come do not.  `CommitKeepsView` compares cardinalities of sets of features across an
injective renaming of ids, which the proof gives as a bijection.

`FieldEditsProofs` proves, for any fields, features and bounds, `TypeCorrect`, `ValuesArePlaced`
(`ValuesReachTheirField`) and `FeaturesArePlaced` (`FeaturesReachTheirFields`).  That undo and redo
keep within the bound on fields is not seen from the buffer alone: the invariant `Sizes` says that
sums of what the commands on the stack add and take away lead to no more fields than may be,
wherever undo and redo go, and a stage of a commit, which may take fields from the buffer, does not
make it more.  `Fresh` says that outside a commit the fields are those that `updateFields()` would
make again, unless a renaming is pending; so `oldFields` is what the provider would have if nothing
were stored (`Snapshot`).  `Pending` says what the stages of a commit that has not failed leave to do:
nothing, when fields are compared, so that the comparison compares the provider's names, and what it
has accepted still holds when values and features are stored (`Matched`).

It goes on with `IndicesAlwaysFit` (`IndicesFit`) and `ImplementsHistory` (`History_Spec`), for which
`IInv` says too little: to know what an undo shows one must know the buffer at every position of the
stack, not only at the current one.  `Remembered` says that there is such a sequence of views (`View`:
the buffer without what `updateFields()` derives, and names in the place of pending renamings).  Each view
fits its own fields (`Fits`), the one of the current position is what the buffer holds, history shows
the table of each, and each command is `Proper` at the view before, its old values being those of that
view, and leads from it to the next (`Linked`).  The views are the witness of the proof and no state
of the code.  Two lemmas for each of the five commands carry it: its redo leads from any buffer with
the view before to one with the view after (`RedoThere`), and its undo back (`UndoBack`).  The second is
where `handleAttributeAdded()` and `handleAttributeDeleted()` must be inverse in five maps at once, and
it needs the hypothesis that no pending renaming shifts to a wrong place; without it, it is false
(`NamesRestored`, section 6).  During a commit the stack no longer tells what is shown; there `Handed`
says that what the buffer has left, laid over the columns and rows that are stored already, fits the
fields, and each stage shows the same before and after (`DeletesHand` .. `FeaturesHand`): deleting fields
in a row and then laying changes over it is the same as doing both when it is read (`MergedDropped`,
`MergedAdded`).

`TransactionGroupProofs` proves, for any number of layers, `EditsGoToTransaction`
(`PassthroughInTransaction`), `DiscardsAreHidden` (`AskedUnlessHidden`), `TypeCorrect` and
`LayersEditTogether` (`EditTogether`).  The inductive invariant adds to the first that the group
hears of every layer of the transaction (`MembersLinked`), without which a layer could end alone and
keep its provider in the transaction, and that the drafts of the group's layers belong to layers it
hears of and that, unless hidden, report them (`DraftsLinked`, `DraftsReported`).  `EditTogether`
speaks of an empty queue; its strengthening `Returning` says that a layer of the active transaction
that has not been turned away is being edited or in the queue, which lets go of it only when it
edits, is removed or is turned away.  A buffer that a rollback kept is the one exception of
`PassthroughInTransaction`, and the proof shows that there is no other: whatever else ends the
transaction closes every passthrough buffer of the group.

`MapCanvasProofs` proves, for any number of layers, extents and jobs, `TypeCorrect`,
`CacheAlwaysSound` (`CacheSound`), `EndsFindTheJobRendering` (`EndsWhileRendering`) and
`CanvasShowsMap` (`ShowsMap`).  An image passes from a worker through its job to the cache and the
canvas.  `JobPhases` says what each phase leaves behind, `CacheOwned` that only the canvas' own job
still writes to the cache and for the cache's extent, and `CurrentSound` how good the images of that
job are while a repaint may come in.

`OfflineEditingProofs` proves, for any number of layers, features, commits, synchronisations and
failures, `TypeCorrect`, `LookupPairsTheSame` (`LookupSound`), `ReplayLosesNothing` (`NothingLost`),
`LogSaysTheDifference` (`LogIsTheDifference`) and `OthersAreKept` (`TheirsKept`).  The invariant says
of each layer where its features are: every row is logged as added, or paired with a remote feature
that has its last logged value (`LogFits`, `Stored`, `PairedOnce`); and what a `synchronize()` that
was stopped has stored already (`Pending`, `Replayed`).  That copies are paired with the right remote
ids rests on `Sorted`, whose elements `SortedSetsProofs` counts: the k-th has k - 1 below it.  That a
replay gives each feature once is a bijection from the offline rows to the remote ones.
`BufferInv` says of the buffer that a failed commit left that the log still updates and removes each
feature it updates and removes, so that saving it makes no difference to what a replay gives, and
that no `synchronize()` of its layer goes on meanwhile.
The attempt to prove `TheirsKept` in its first form, for every layer, failed, and for a good reason: edits that
were not logged can leave a removed row in the log of added features, its id is paired with a feature that
another user added meanwhile, and the next row of that id overwrites it.  The run's bounds were too small to
show it (four commits, four synchronisations and two events are needed); the property now leaves out layers
with such edits.

`WfsSharedDataProofs` proves, for any number of readers, features and generations, every property of
the run: `TypeCorrect`, `ReadersMissNothing`, `ReadersServedCompletely`, `DuplicatesOnlyInRace`,
`ExactCount` and `NoVainWait`.  What a reader may not miss follows it from the cache, through a batch
that is handed over and its buffer, to what it returned (`MustCome`); what is on its way has a later
generation than the reader's (`NoneTwice`).  Both need that, except while a reader waits for
the old downloader to stop, the rectangle is the one the downloader was started for (`Registration`), and that
what it has completed is in the cache (`SentCached`).  `Served`, `RegionsCached` and `FinishedCached` say of a
reader, a region and a finished download that nothing of their rectangle is missing.

Each of these invariants was first checked with TLC on the instance of the run.  Assumptions used are
the named ones of the modules: finite sets of threads, handles, ids, features and jobs, null values
distinct from real ones, a pool of at least one connection, an offline table with room for the copied
features (`MaxRemote <= MaxFid`).

Only model-checked: liveness (`PermitsComeBack`, `MemberComesBack`, `ComesToRest`), which depends on
fairness and ENABLED and which the provers used here do not reach.

## 6. Disagreements between code and documentation

Two are runs (`field_values`, `offline_lost`).  The others are definitions of the modules that no run
checks; adding the one named to the instance of the run in the second column as its only property
shows the behaviour.

| Definition | Run to add it to | What happens |
|---|---|---|
| `IdleWatched` (`ConnectionPool`) | `pool_safety` | `release()` asks `isActive()` (`qgsconnectionpool.h:143`) while a stop queued by `acquire()` (line 104) has not run: the timer is not started, and then stopped, with a connection idle.  Line 231: "they will get closed automatically". |
| `SweepsAllOld` (`ConnectionPool`) | `pool_safety` | `lastUsedTime` is a `QTime` and `secsTo()` negative after midnight (line 192): a connection last used in the last minute of a day never expires.  Line 231 again. |
| `IdleUpToDate` (`ConnectionPool`) | `pool_safety` | a connection that is opened outside of the mutex (line 113) while `invalidateConnections()` runs (line 155) is neither destroyed nor flagged, and is reused.  Line 281: "all open handles need to be invalidated". |
| `FailureKeepsBuffer` (`EditBuffer`) | `edit_commit` | every stage that succeeds clears its map (`qgsvectorlayereditbuffer.cpp:347`, 493-496, 513, 553); `qgsvectorlayereditbuffer.h:84` says "If a commit fails, the in-memory changes are left alone." |
| `ChangedStayCached` (`EditBuffer`) | `edit_undo` | a render job assigns a geometry cache filled before an edit (`qgsmaprenderercustompainterjob.cpp:393`); `qgsgeometrycache.cpp:25` says "all changed geometries are also cached".  A second change then stores the wrong geometry to undo to (`qgsvectorlayerundocommand.cpp:128-130`). |
| `DeletedNotSelected` (`EditBuffer`) | `edit_undo`, with `Selectable` all stored ids | delete, undo, select, redo: the redo (`qgsvectorlayerundocommand.cpp:94`) leaves the feature selected; `qgsvectorlayer.h:2264` says a deleted feature "always needs to be removed from mSelectedFeatureIds as well". |
| `CountAlwaysExact` (`EditBuffer`) | `edit_commit` | after a commit that deleted a feature and failed later, undo and redo of the delete make `featureCount()` (`qgsvectorlayer.cpp:2615`) subtract it again; `qgsvectorlayer.h:1317` says "including changes which have not yet been committed". |
| `NeverCrashes` (`EditBuffer`) | `edit_undo` | undo of the first geometry of a feature added without one dereferences null (`qgsvectorlayerundocommand.cpp:172`); `qgsvectorlayer.h:1752` says of `destroyEditCommand()` "reverts all changes in it". |
| `NamesRestored` (`FieldEdits`) | `field_edits` | `handleAttributeAdded()` copies an entry of `mRenamedAttributes` up and leaves the old one, unless it was at the new index (`qgsvectorlayereditbuffer.cpp:708`); line 702 says it will "adapt". |
| `NothingDiscarded` (`TransactionGroup`) | `txn_group` | `changeAttributeValues()` (`qgsvectorlayereditpassthrough.cpp:120`), which attribute forms use, leaves `mModified` alone; `qgsvectorlayer.h:1228` says "Returns true if the provider has been modified since the last commit".  Toggling the layer off (`app/qgisapp.cpp:7998`) then rolls back without a question: the invariant is `discarded # "toggle"`. |
| `PersistentByCommit` (`TransactionGroup`) | `txn_group` | `rollBack(false)` (`qgsvectorlayer.cpp:2695`), by which the application leaves a layer editable, keeps a passthrough buffer whose transaction the group has just ended; every edit from then on is stored at once.  `qgsvectorlayer.h:1984`: "Changes made in this edit session will not be made persistent until commitChanges() is called". |
| `FormAsks` (`TransactionGroup`), a PROPERTY | `txn_group` | `stopEditing()` of `app/qgsguivectorlayertools.cpp:104` asks when the layer reports modifications, and else rolls back, with the transaction the edits of the other layers.  `gui/qgsvectorlayertools.h:68`: "Appropriate dialogs should be shown"; `app/qgisapp.cpp:7911` also looks at the group. |
| `NoOutdatedImage` (`MapCanvas`) | `canvas` | a repaint requested while a layer is drawn finds no image to drop, and the outdated one enters the cache afterwards (`qgsmaprenderercache.cpp:77`); `qgsmaplayer.h:635` says "caches automatically listen to repaintRequested() signal to invalidate the cached image". |
| `NeverTwice` (`WfsSharedData`) | `wfs` | a reader that registers after the downloader has read the counter (`qgswfsshareddata.cpp:816`) finds the batch in the cache and is handed it as well; a rewind keeps what was handed over.  `qgswfsshareddata.h:35` says "It avoids the iterator to return features in duplicates". |

Further behaviours that the models show and that no comment speaks about: in offline editing one
synchronised layer removes the project's entry for all; ids added by others, or a copy of selected
features, make the lookup never pair, so that later edits of added features fail at every
synchronisation; a crash after the remote commit adds features twice, and so does saving
what a failed commit left in the remote layer.  Cancel and Rollback for selected layers
(`app/qgisapp.cpp:8116`, 8142) roll back the whole transaction group, layers that were not selected
included; `AskedUnlessHidden` does not count what the user has asked for.  A WFS server that
returns a short page makes a layer end where that page does, as a success
(`providers/wfs/qgswfsfeatureiterator.cpp:701`).

## 7. Not modelled

See the components marked `not_modelled` in PROJECT.json, and under each module in section 3 what
it leaves out.  Those in the plan above come next.  Expressions, geometry, projections, symbology,
labelling, composer, raster and analysis are sequential computations, mostly with floating point
numbers.  Widgets, the application, Python bindings and plugins call the operations modelled here
and add no protocol of their own.  Providers are represented by what the core requires of
them.  Authentication is not part of this development.
