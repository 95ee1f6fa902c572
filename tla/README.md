# Directory sizes for Explorer: specifications

TLA+ specifications of the program in `src/` (C++, Windows): a background engine
that keeps the total size of every directory under a list of watched roots in an
SQLite database, and a shell extension that shows those sizes in Explorer.

Seven parts of it are specified and checked with TLC; theorems about each of
them are proved with TLAPS:

| module | what it is |
|---|---|
| `ScanEngine` | when a watched root is scanned: scheduler, watch threads, the debt bookkeeping |
| `OwedScan` | the abstract promise of the `pending_scan` flag, which `ScanEngine` implements |
| `RescanQueue` | incremental rescans of single directories: queue, cooldown, event, wait |
| `SizeCache` | the extension's cache and connection against the engine's generation counter |
| `TreeTotals` | the rows of one tree: listings, totals, differences, scans of the root, renames |
| `EngineProcess` | startup, the pipe and its clients, watchers started and stopped, shutdown |
| `Configuration` | the watched list in dialog, registry, engine and watchers; renamed roots |
| `SettingsDialog` | the Logging and Manual Scan tabs, the log ring and the manual scans behind them |
| `ScanEngineProofs`, `RescanQueueProofs`, `SizeCacheProofs`, `EngineProcessProofs`, `ConfigurationProofs`, `SettingsDialogProofs`, `TreeTotalsProofs`, `TreeSettleProofs` | theorems |
| `MC*.tla`, `MC*.cfg` | small instances for TLC |

## 1. Inventory

All paths are below `src/`.

**Engine process** (`tray/main.cpp`). One process holds the tray icon, the
scanner, the watchers and the IPC server. Operations: `StartEngine`,
`StopEngine`, `RestartWatchers`. State: the list of watchers (`g_watchersMutex`)
and the stop event that all threads poll. Hard: order of shutdown; a reload
while a scan or a reconnection is under way.

**Scan engine** (`service/scanner.{h,cpp}`). One scheduler thread. State:
`m_rootLastScanTick`, `m_realtimeRoots`, `m_reconcilePending`,
`m_fullScanRequested`, each under its own mutex or atomic, and in the database the
rows, a `pending_scan` flag per root and the `last_live` heartbeat. Operations:
the startup check (`FullScan`), the loop (`SchedulerThread`), `ScanRoot`, and the
calls of other threads: `RequestFullScan`, `RequestReconcileScan`,
`MarkRealtimeActive`, `ReloadConfig`. Hard: interval scans are *suspended* while a
watcher covers a root, so every change the watcher fails to report must be turned
into a scan by somebody; a crash or a stop in the middle of a scan; a request that
arrives during a scan. Right when: what is missed is owed, what is owed is scanned,
and no unfinished scan is mistaken for a finished one.

**Incremental rescans** (same files). State: `m_pendingRescans` (directory to the
time it may run), `m_lastRescanDone`, an auto-reset event. Operations:
`QueueRescan` (watch threads, IPC thread, the scheduler itself), the picking loop,
`RescanOne`. Hard: the lock is released while a directory is listed; the event is
set after the lock is released; a cooldown defers and merges; listings fail. Right
when: no change is forgotten, the cooldown holds, the wait is short enough, every
change is listed.

**Change watcher** (`service/dir_watcher.{h,cpp}`). One thread per root, which
posts reads, collects affected directories and hands them to the scanner. State:
handle, outstanding read, old name of a rename pair. Hard: the connection is lost
and comes back, the buffer overflows, the root is renamed (which is looked for after a
minute without a notification only), the thread is stopped.

**Database** (`common/src/db.cpp`). Rows keyed by canonical path, with parent,
depth, totals and scan time; the meta table. Every call holds the connection's
mutex; two processes share the file (WAL). Hard: prefix removal, depth, statements
that cannot be prepared before the tables exist.

**Rows and totals** (`scanner.cpp`: `ScanDirectory`, `RescanOne`,
`PropagateAncestorDeltas`, `HandleDirectoryRename`). A rescan corrects one row and
adds the difference to the rows above. Hard: deltas meeting scans and renames; rows
that do not exist; clamping at zero. Right when: a quiescent tree's totals are the
sums of its parts.

**Shell extension** (`shell-ext/`). `SizeCache` (a map under a mutex, entries with
a time to live and a generation), `GetReadOnlyDb` (a connection opened lazily, with
a rate limit), the property handler and the import hooks that ask them. Runs in
Explorer's threads. Hard: rows read before the engine writes and stored after;
several threads at the limit of the cache; Explorer started before the engine.

**Generation counter** (`common/src/generation.cpp`). A word of shared memory,
bumped by the engine after it wrote rows.

**IPC** (`common/src/ipc.cpp`, `service/ipc_server.cpp`,
`shell-ext/context_menu.cpp`). A named pipe, one client at a time, a timeout per
transfer on both sides. Requests: recalculate, scan now, reload, log, status. Hard:
a client that stalls before its request, or before it reads the answer; the exit in
the middle of a transfer; a reload that meets the startup or the exit, because it
starts and stops watchers on the listener's thread. Right when: the listener comes
free, an answered reload has been carried out, the exit ends everything that refers
to the scanner before it destroys it, and gets through.

**Configuration** (`common/src/config.cpp`, `tray/settings_dialog.cpp`). Registry
values; the engine reloads them on request and also writes them when a watched root
is renamed. The list of watched directories exists in four places (dialog, registry,
`m_config`, watchers) and no lock spans two. Right when: they agree at rest, rows and
real-time flags go with the names.

**Log buffer** (`service/log_buffer.cpp`) and the Logging tab. A ring of 500
numbered entries; a reader that polls with the last number it saw. Hard: entries
dropped before they were read; a display cleared, filtered, closed and reopened
while a static variable remembers the number. Right when: the display is an unbroken
run of the log and catches up.

**Manual scans** (`scanner.cpp`). An unbounded queue and a history of five records,
matched by path. Right when: a record that says queued or scanning is true, and all
come to an end.

**Path canonicalisation** (`common/src/path_utils.cpp`), **throttle**, **hooks and
registration**, **installer**. `service/main.cpp`, `service/service_control.cpp`
and `service/change_journal.cpp` are left from an earlier design and compiled by no
target.

How they interact: a change reaches a watch thread, which calls `QueueRescan`; the
scheduler lists the directory, writes its row, adds the difference to the rows
above, bumps the generation; Explorer's next lookup misses its cache and reads the
row. Where that chain breaks (outage, overflow, failed listing, stop), a scan of
the whole root is owed, and `ScanEngine` is about whether it is paid.

The hazards of this code, each at its line, are in `PROJECT.json` with the
properties that cover them, or the reason none does yet.

## 2. Plan

In this order, and for each the runs first, then the inductive invariant, then the
theorems: `ScanEngine` with `OwedScan`, `RescanQueue`, `SizeCache`, `TreeTotals`,
`EngineProcess`, `Configuration`, `SettingsDialog`. They meet in the following places.

* `RescanQueue` decides which directory is rescanned when; `TreeTotals` lets any
  queued directory be next, so it covers every schedule of `RescanQueue`.
* `ScanEngine` decides when a root is scanned; `TreeTotals` says what such a scan does
  to the rows and that it restores them.
* `EngineProcess` establishes what the others assume: one listener, one scheduler,
  watchers that are joined before the scanner goes.
* `Configuration` details the reload of which `ScanEngine` sees the list alone, and
  `EngineProcess` the locks and threads.
* `SettingsDialog` relies on `EngineProcess` for an answer to a poll coming some day.

Not done: exclusions and the counts of directories and files in `TreeTotals`, and a proof of
its `TotalsSettle` over renames; the composition of `RescanQueue` and `ScanEngine` over stop
and restart.

## 3. The modules and the code

### ScanEngine and OwedScan

One action per step of a thread between two points where another thread can see
the difference: the mutexes of the scanner each protect a single map, so an
operation under one lock is one action, and code that goes on after the unlock is
another. The variables `config`, `cached`, `partial`, `pendingScan` are on disk and
survive `Crash`; the rest is memory and is reset by `FreshMemory`.

* Startup: `StartupPrune` (`RemoveOutsideRoots`), `StartupSnapshot`, then per root
  `StartupScan` or `StartupBaseline`. The age of the heartbeat and of the root's
  row is not modelled: a root without a debt and with a row may be accepted or
  scanned.
* Loop: `LoopTop` writes the heartbeat, `Wake` ends the wait, `BeginScan` and
  `SkipRoot` decide on each root of the snapshot, `PassDone` closes the pass.
  The wait has a cap of 60 s, so it can always end.
* `ScanRoot`: `EnterScanRoot` (the flag is set first), `FlushChunk`,
  `ScanCommits` or `ScanFails`, `ClearPending`, `ScanReturned`. A root that is not
  there counts as completed and gets no row, as in the code.
* `RequestReconcileScan` is two actions, `EnterRequest` under the lock and
  `PersistRequest` after it, because the scheduler can run in between.
* Watch threads: `StartWatcher`, `Arm`, `LoseConnection`, `Reconnect`,
  `NoticeOverflow`, `StopWatcher`. `DirectoryWatcher::Stop` and `Start` are called
  by `RestartWatchers`, which follows every reload.

What the program cannot see is kept in history variables: `missed` (a change no
watcher reported), `passed` (one in a part of the tree the running scan has left)
and `aged` (one that was there when the heartbeat was written).

`RequestStop` may come at any time, in the midst of a reload too; the process ends
(`EngineOff`) when watchers, scheduler and IPC thread have been joined. `LoseConnection`
closes the handle and withdraws the coverage in one step: nobody reads the one without
the other in between. A watch thread that ends on an error of its wait
(`dir_watcher.cpp:224-226`) is left out.

Changes are missed only while a subscription is lost or its buffer overflows. The
short window between the reconciliation request and the new subscription, and the
one before the first subscription after startup, are not modelled (listed as a
hazard).

`OwedScan` knows only the flag, the unfinished rows and the running scan.

### RescanQueue

`QueueRescan` is the code under `m_queueMutex`; `Signal` is the `SetEvent` after
it. The scheduler goes top (deadline) - wait - rescans (pick) - listing - post
(record) - roots - top. `ComputeDeadline` takes any time not later than that of a
queued directory: roots that come due earlier shorten the wait.
`RescanOne` is `ListingDone`, `ListingFails` (a listing that breaks off, queued
again), `OpenFails` (gone, or any other error, in which case the notification is
lost) or `ListingAborted`; a directory without a row queues its parent. `RecordDone`
includes the clean-up of `m_lastRescanDone` with its unsigned subtraction
(modulo `Word`).

Times are relative and saturate: `due` counts down, `age` counts up to `Keep + 1`,
beyond which no comparison of the code tells them apart. Totals are not modelled. Three
history variables say what has become of a change instead: `stale` is every directory with a
change that no listing begun after it has been through (it ends in `ListingDone`, or when
the directory is found to be gone), `unopened` those among them that could not even be
opened since, and `again` that the directory being listed has changed meanwhile, so that
this listing does not count (`CaughtUp`). `result` is how the last listing ended.

### SizeCache

`Miss`, `TryOpen`, `Opened` or `OpenFails`, `Query`, `Store` are the steps of one lookup,
with the cache's mutex held only within `Miss` and `Store`. `Open` fails without the tables
and may fail with them, for any error of SQLite; a lookup that took the half-open connection
for an open one then finds it closed and stores 'no size' (`blind`). `Store` takes the generation
of its own moment, as `Put` does. Which entries a full cache loses is left open, as
it is by an `unordered_map`. `conn = "opening"` is the window in which `IsOpen` is
already true and the statements are not prepared. A row is a version number and
whether it is found; the engine writes (`Write`) and bumps (`Publish`), the latter also when
nothing was written, as at the end of a scan or of a reload. Reads that
fail with SQLITE_BUSY are not modelled: the database is in WAL mode, where readers
do not wait for the writer.

The hooks of `shell_hook.cpp` reach the same cache by the same calls.

### TreeTotals

The disk is a tree of directories with the size of their own files (`own`); the
table is `rows`. Both threads of the engine take one statement of the database at
a time: `Upsert`, `RemoveByPrefix`, `GetChildDirs`, `RenamePrefix` translate the SQL.

* `RescanOne`: `Begin` (takes the entry, reads the old row), `Open`, `Gone` or
  `OpenFails`, `AddKnown` and `AddUnknown` per subdirectory, `ReadChildren`, `Purge`,
  `WriteRow`; a listing that breaks off is `ListingFails` or `ChildScanFails`.
  `PropagateAncestorDeltas` is `ReadAbove` and `ApplyAbove` for each directory above.
* `ScanDirectory`: `Descend`, `Ascend` on an explicit stack of frames, `FlushChunk`
  between any two (the threshold of 4096 rows is left open). It is entered for a
  new subdirectory (`AddUnknown`, `ChildScanned`) and for the root (`BeginScanRoot`,
  `RootScanned`, `Sweep`, `RootScanFails`). `old` marks the rows whose scan time is
  before the running scan, which is all that `RemoveStaleUnder` compares.
* The watch thread: `HandleChange`, `HandleRename`, then `HandleDirectoryRename` as
  `RenameLookup`, `ParentLookup`, `RenameApply`, `RenameDone`; `EndBatch` and
  `QueueAffected` at the end of a batch.
* The disk: `Write`, `Make`, `MoveIn`, `Delete`, `MoveOut`, `Rename`, each with the
  notification of the directory that contains what changed, or a pair of names.

The one number of a row stands for its four. Which queued directory is next and when
is the subject of `RescanQueue`: here any may be. A directory's listing shows what
was there when it was opened. Excluded, denied and linked directories, and the stop
event, are left out; the root itself does not vanish.

`trust` is a history variable. Single rescans cannot repair everything: it becomes
"lost" where the code gives up exactness until the next scan of the root, and each
such place is an action's comment:

1. a directory without a row is rescanned: it is stored with depth 0 and what is new in
   it one level below that (`WriteRow`, `AddUnknown`);
2. a directory cannot be opened, and its rescan is dropped (`OpenFails`);
3. a difference is cut off at zero (`ApplyAbove`);
4. a scan of the root fails after it wrote some of its chunks (`RootScanFails`);
5. a directory appears under a name whose row still stands or is being written
   (`Make`, `MoveIn`), or goes without ever having had one (`Delete`, `MoveOut`);
6. a directory is renamed when it or one above it has no row, or while it or anything in
   it is being listed or awaits its rescan, or a difference is passing through its row,
   or a rescan is still pending below its new name, from a directory that was there before
   (`Rename`);
   or its rows are carried over during a scan of the root (`RenameApply`).

Each was found as a counterexample to `TotalsFollow`; 1 and 6 contradict comments and are
findings. Three needed four or five changes along a given order, more than the run has: rows
that a failed scan left one level too high, which no later listing drops (1), rows of
a new directory that two failing scans wrote at different times, which a rename then
carries over what a complete scan has put right (6, "one above it has no row"), and the
pending rescan below the new name (6), which a scan of the root that has already listed the
moved directory answers before the rename reaches the rows. `TotalsSettle` is the rest: with
none of these since the last complete scan, quiescence means exact totals. A scan
of the root, begun when the watch thread has nothing left to handle and
undisturbed, restores trust, and the same property checks that it deserves it.

### EngineProcess

Three kinds of threads and any number of clients. `main` goes start - restart - loop
(`StartEngine`, its own `RestartWatchers`, the message loop), then stop - clear - join -
signal - wait - free - exited, one for each line of `StopEngine` that can block or that
another thread can tell from the next. The listener goes create - connect - read -
handle - (restart) - write - finish - disconnect, as in `ListenerThread` and
`HandleClient`; a client idle - connected - sent - answered - ok, with `GiveUp` at any
point (its own timeout) and `Disconnect` from the other side.

`RestartWatchers` is one set of actions for both threads that run it: `Lock` reads the
list under `g_watchersMutex` and computes what to stop (`drop`) and to start (`add`);
`BeginStop` and `Join` are `DirectoryWatcher::Stop`; `Start`; `Unlock`. A watcher is its
root and the thread that started it, so that two for one root can be told apart.
Commands other than a reload are one step.

`late` records the one flaw: a reload that gets the lock after `StopEngine` has cleared
the watchers starts new ones, which nobody stops. `Scanner::Stop` closes the event that
a command may still signal at that time; this unsynchronised use is not modelled.

### Configuration

The IPC thread's steps are those between which the list can change under it: `ReadList`,
`AssignList`, `Prune` (`ReloadConfig`), `Diff`, `Keep`, `BeginStop`, `EndStop`, `StartOne`
(`RestartWatchers`, which reads the registry a second time). A rename of a watched root is
`NoticeRename` (under `m_configMutex`), `SaveRename` (which may fail: the list is then renamed
in memory only), `CarryOver` and `AssignRoot`. `EndStop` waits for a rename to end, because
`Stop` joins the thread. `Deliver` and `GiveUp` are the dialog's command with and without a
free listener.

`CheckRootRename` runs when the wait for a notification has timed out after 60 seconds.
`Work` lets a directory be `busy`, that is notified within every minute, and quiet again;
`NoticeRename` is for quiet ones. `LoseConnection` closes a handle at any time, and
`Reconnect` opens the name again, whatever directory has it by then. A name that was nowhere
when its watcher was to be started (`absent`) has none until the next reload.

`raced` names what the code loses and the properties leave out: a rename entered while
an edit is on its way to the engine (the rename saves the list without the edit), while
another rename is, or onto a name that is listed already, and one whose list could not be
saved. A lost command is counted
(`lost`): the lists agree again at the next reload.

### SettingsDialog

The UI thread blocks while it asks for the log, so a refresh is one step, `Refresh` or
`RefreshFails`; `Serialize` and `AppendLogText` translate the ring's reader and the edit
control with its limit. `logged` is every entry there ever was, those that the ring has lost
included: `LogIsARun` measures the text against it. `last` and `filter` are static variables
and survive `CloseDialog`; a window of its own starts empty. The scheduler's half is
`PopManual`, `StartManual`, `LogManual`, `RecordManual`; `Marked` finds a record by its path as
both loops of `ManualScanOne` do.

Two things show in the model and contradict no comment. The text is cleared when it is
longer than 256 KB, which the control's own limit never lets it be: a full view stays as
it is until somebody clears it. And of two requests for one folder, the newer record
is marked as started by the older request.

## 4. Runs

| run | instance | question |
|---|---|---|
| `engine_one_root` | 1 root; outage, overflow, failing scans, edits of the list | is what was missed owed (`MissedIsOwed`), coverage real (`SuspensionIsBacked`); are requests, new roots and uncovered roots scanned (`RequestIsServed`, `NewRootIsScanned`, `BackstopRuns`) |
| `engine_two_roots` | 2 roots, symmetric; crash, offline changes, failing scans, vanished roots, edits | refinement of `OwedScan` (`KeepsDebt`), `PartialIsOwed`, `NoHalfScannedBaseline` |
| `rescan_queue` | 3 directories (root, child, unwatched parent), 1 calling thread, cooldown 1 | `NothingForgotten`, `CooldownHolds`, `WakesInTime`, `ChangeIsListed` |
| `size_cache` | 3 paths, 2 threads, 2 entries, 1 write, 1 bump | `CacheBounded`, `StalenessBounded`, `PublishedIsRead` |
| `size_cache_liveness` | 1 path, 2 threads, 2 writes, 2 bumps | `Converges`, `ConnectionHeals` |
| `tree_totals` | root, two directories, a subdirectory of each; 2 changes of any kind, failing listings | `TotalsSettle` |
| `engine_process` | 2 roots, one that cannot be opened; 2 clients, 1 save | `ScannerOutlivesUsers`, `OneWatcherPerRoot`, `ReloadIsApplied`; `ListenerRecovers`, `StopEnds` |
| `configuration` | 3 names, 2 directories, one of which moves twice; 1 save of any list | `CoverageIsBacked`, `ListsAgree`, `RowsFollow`; `RenameIsFollowed`, `ReloadEnds` |
| `settings_dialog` | 1 folder, history of 2, ring and text of 2 entries, 2 severities, 3 requests or other entries | `LogIsARun`, `ClearedStaysAway`, `RecordsAreTrue`; `LogCatchesUp`, `ManualCatchesUp` |

Bounds, and why they are enough. Roots do not interact except through the one
scheduler and the shared snapshot: two roots show one waiting while the other is
scanned; all per-root logic shows with one. The fault sets are split between the
two engine runs because their product is large; each property is checked under the
faults that can hurt it. In the queue, a cooldown of one tick and listings of up to
one tick (`MaxWork`) let a cooldown end during a listing, in a wait and in between;
`MaxDone = 1` makes the clean-up happen; one calling thread suffices beside the
scheduler because callers share nothing but the queue and the event, and the
theorems hold for any number. The run starts after the cutoff of the clean-up has stopped
wrapping (`BootUptime` greater than `Keep`). In the cache, two entries for three paths force
evictions, and `Ttl = 2`, `NegativeTtl = 1` and `MaxHold = 1` let entries expire
before, at and after a bump. `MaxWrites` and `MaxBumps` bound what the engine does; the two
are independent, since it also bumps without a write.
In the tree, three levels let a difference pass a directory that is neither its
source nor the root, two directories let one be renamed into the other with its
subdirectory, and two changes can race any two of the engine's operations; each of the
losses listed in section 3 happens within them, but for the three that section 3 says were
found along a longer given order of changes. That those were
missed here is why TLC's word is not enough for every tree: without renames the property is
proved (section 5), with renames it holds as far as was looked. Sizes 0 and 1 suffice because
only sums and differences are formed. (Three changes without failing listings, 9.4
million states, were explored once and hold too.)

In the engine process, one root that opens and one that does not are the two kinds there are;
two clients let one hold the listener while the other waits, and one save lets a reload be out
of date; the theorems hold for any number. In the configuration, one save and two renames let
either rename meet every step of the reload and the second every step of the first, with lost
handles and busy spells anywhere; three names let the directory move to one that is listed, to
one that is not, and leave the default. In the dialog, a ring and a text of two entries
overflow at once, and three requests overflow a history of two. `MaxEvents` bounds requests and
other entries together. (Two folders with a history of one, 0.5 million states, were explored
once and hold too.)

Two configurations beside the runs check the safety properties alone on wider instances, in
less than a minute, and find no error: `MCRescanQueueWide.cfg` has a cooldown and a wait of
two ticks, `MCConfigurationWide.cfg` two saves, where a command can be lost behind another
(0.9 million states).

Runs that find a statement of a comment violated:

| run | what happens |
|---|---|
| `request_during_scan` | a reconciliation requested during a scan of its root is settled by that scan, which had already left the changed part |
| `failed_scan_retry` | a failed scan of a covered root is not retried in this session, although the log says so |
| `rename_with_pending_rescan` | a directory is renamed while its rescan waits: its row and all above it stay wrong with nothing pending |

The `findings` of `PROJECT.json` quote the comments. Four more configurations are kept
beside the runs; TLC finds each violated within seconds:

| configuration | what happens |
|---|---|
| `MCHeartbeat.cfg` (`MCScanEngine`) | the heartbeat is written while a watcher is down; the next start trusts it (`HeartbeatVouches`, scanner.cpp:702) |
| `MCBaseline.cfg` (`MCScanEngine`) | a root removed from the list and put back is suspended on a scan whose rows were purged (`SuspendedHasBaseline`, scanner.cpp:474) |
| `MCRescanQueueBoot.cfg` (`MCRescanQueue`) | within five minutes of boot the cutoff of the clean-up wraps, all cooldowns are dropped, and a directory is listed twice within its own (`CooldownHolds`, scanner.cpp:583 against scanner.h:180-181) |
| `MCTreeDepth.cfg` (`MCTreeTotals`) | of two new nested directories the inner is rescanned first, with depth 0; the next rescan of the root deletes a live row (`ChildrenFound`, db.h:107) |

### Fairness

* `ScanEngine`: the scheduler and the watch threads do what they can do (WF); clocks
  advance; a root scanned again and again is completely read some day
  (`SF_vars(ScanCommits)`: a share that fails in the middle of every scan for ever
  is excluded). No outage has to end, no user has to act.
* `RescanQueue`: WF of the scheduler and of signalling threads; time passes even if
  the scheduler is never long in one place (`SF_vars(Tick)`); a watch thread gets to
  each directory of the batch it has read (`SF_vars(Notified(d))`). No fairness is
  assumed for which due directory is picked: with few directories the cooldown sees
  to it. With more directories due than can be listed within a cooldown one might be passed
  over for ever; no instance TLC can check has so many, and nothing is claimed of them.
  Listings may break off for ever (`ChangeIsListed` excepts that).
* `SizeCache`: a lookup that began ends, time passes, and openings of a database that is there
  do not fail each time for ever (`SF_vars` of `Opened`). Nobody has to look
  anything up; the engine need not publish.
* `EngineProcess`: each thread of the engine goes on when it can: every wait of the
  code has a timeout or ends with an event. Neither the user nor a client has to do
  anything.
* `Configuration`: the dialog's thread, the IPC thread and each watch thread go on while they
  can (WF each); a rename is something a watch thread can notice only while its directory is
  quiet, so a root that is busy again and again need never be asked, and
  `RenameIsFollowed` excepts it. No handle has to be lost, none has to come back with the
  old directory. The user owes nothing.
* `SettingsDialog`: the scheduler ends its scans (WF), the timers of a tab in front
  fire, and a poll gets its answer some day.

## 5. Proofs

For all constants that satisfy the named assumptions (`NoRootAssumption`,
`FaultsAssumption`; `DirAssumption`, `UnderAssumption`, `TimeAssumption`;
`SizesAssumption`; `RootAssumption`, `ClientAssumption`, `BoundAssumption`;
`NameAssumption`, `DirAssumption`, `SlotAssumption`, `BoundAssumption`;
`FolderAssumption`, `SizeAssumption`; `PathAssumption`):

* **ScanEngine.** `IInv == TypeOK /\ ScanInv /\ SuspensionIsBacked /\ OweInv` is
  inductive (`Inductive`). `ScanInv` ties the scheduler's place to the flag on disk
  and to unfinished rows; from it follow `PartialOwed`, `NoHalfScan` and the
  refinement `DebtKept`. `MissedIsOwed` is not inductive: it speaks only of covered
  roots in the loop, and a reconnection or the end of startup makes a root covered.
  `OweInv` adds what holds for the others (the watcher is lost; startup has yet to
  look at it), and that a scan that is being settled has no missed change ahead.
* **RescanQueue.** `TypesHold`, `Remembered` (`NothingForgotten`) and `InTime` (`WakesInTime`)
  are inductive with the types. `Remembered` speaks of a change until a listing has been
  through it: the types say that only the directory being listed can have changed `again`, and
  that one that could not be opened is still `stale`. `CooldownKept` needs `CoolInv`: the map
  knows every directory rescanned within the cooldown, with its age. It holds if `BootUptime >=
  Keep`; within five minutes of boot the cutoff of the clean-up wraps below zero, and a
  clean-up drops every cooldown.
* **SizeCache.** `TypesHold`, which with the types proves that the connection seems half open
  exactly while one single thread is inside `Open` (`OpenIsAccurate`; the generation's bound is
  that of `MaxBumps` and claims nothing), `Bounded`, `Staleness` (by `StaleInv`: the lag of an
  entry is at most its age and the time of its lookup) and `ReadAfterPublication` (by
  `ReadInv`: what a lookup holds, or the cache holds under the present generation, differs from
  the database only if the path is still unpublished, the lookup began earlier or it met a
  connection that failed to open).
* **EngineProcess.** `IInv == TypeOK /\ Order /\ Exclusion /\ OneWatcherPerRoot /\ Work
  /\ Applied`. The types, the order of startup and stop and what the lock excludes are
  inductive by themselves (`Core`), and give `ScannerOutlives`. `WatchedOnce` needs that
  the holder of the lock has nothing to start that is watched (`Work`). `ReloadApplied`
  speaks of a client with an answer in its hand; `Work` says that what the listener has
  yet to stop and start comes to the list as long as nobody saved, and `Applied` that from
  the answer on, whoever runs `RestartWatchers` finds nothing to do.
* **Configuration.** `IInv == TypeOK /\ Phases /\ Backed /\ todo \subseteq Used`.
  `CoverageIsBacked` alone is not inductive: it lets a watcher that renames answer for
  both names, and the old one is given up in `AssignRoot`. `Backed` says which one it
  answers for: the old name until `CarryOver` has moved the flag, the new one from
  then on. `Coverage` needs no exception for `raced`. `ListsAgree` and `RowsFollow` speak of
  moments of rest; `Agree` says what holds in between, as long as `raced` is false: an edit
  on its way and a rename exclude each other, and so do two renames (`OneRename`); what
  the IPC thread read is what it will assign, unless the user has edited since
  (`Reloading`); with no edit pending the engine's list is what the user wants, the
  registry's is once the rename in progress has saved it, and the rows once it has carried
  them over (`Settled`, `KeptRows`). `Attended` is the other half of what the watchers are to
  be: a listed root has one, or was nowhere when it was to get one, or is among those
  `RestartWatchers` has yet to start. They give `ListsSettle` and `RowsFollowRoots`.
* **SettingsDialog.** `DialogInv == IInv /\ RingInv /\ TextInv /\ TypeRest`. `RecordsAreTrue`
  is inductive with the types of the queue, the history and the scan in progress
  (`TypeManual`). It counts requests against records, so the proof is about places in
  sequences: a history with a record in front, or a queue without its head, has at most one
  place more or less (`PrependPlaces`, `TailPlaces`, by an injection that shifts by one), and
  `Marked` moves one place from one state to another (`MarkedPlaces`). `RingInv` gives every
  place of the ring its number, from `head`, `count` and `next` alone, from which the reader
  sees them in order without a gap across the wrap (`BufferedRun`). `LogIsARun` is not
  inductive: a refresh appends behind the text, so nothing that is held may be missing there.
  `Run` adds that as long as the control has room, nothing up to `last` is; the numbers it
  compares are of all that was ever logged (`LoggedInv`), not of the ring. A refresh either is
  told that the ring has lost entries, and the text begins anew, or gets all that was logged
  since; `AppendedRun` is the step that matters, and `LogStaysARun` and `StaysCleared` follow.
* **TreeTotals.** `TypeCorrect`: `TypeInv` adds to `TypeOK` what each step of the scheduler
  and of the watch thread holds in its hand, and that a rename has room in the tree for
  all that it moves (`Movable`). Totals are natural numbers because `Clamped` cuts a
  difference off; depths are integers and no more, because a directory that was
  stored with depth 0 may be carried to a place higher up.

  `TotalsHold` (`TreeSettleProofs`) is `TotalsSettle` for every tree and any number of
  changes, as long as no directory is renamed (`"rename" \notin Ops`; moves into and out of
  the tree, and failing listings, are in). `TotalsSettle` speaks of moments of rest, and the
  true size of a directory is about all that is below it, so neither can be followed step by
  step. What can is that the books of each directory balance (`BookKept`): its total is its
  own size and the totals of its children's rows, unless its rescan is due or under way, and
  but for the difference that `PropagateAncestorDeltas` is about to add to it. A change on
  the disk upsets the books of one directory, which from then on is due; `WriteRow`
  balances them and upsets those above by the difference it carries. A vanished directory
  stays in the table until its parent is listed, so `Noticed` keeps that listing due, and
  `NoGap` sees to it that nothing below is left without it. The rest of `BookInv`
  is what work in progress has added up: `ListClaim` and `PurgeClaim` for a listing,
  `FrameClaim` for each level of a scan in depth, over the rows as the scan would leave them
  (`New`), `SweepClaim` for the end of a scan of the root. All of them
  speak of directories that are not due again meanwhile. What a scan has added up (`NewInv`)
  holds also for one that began when trust was lost, which is why a complete scan of the
  root wins it back. At rest all books balance; that the totals are then right is
  shown by taking a wrong one with the fewest directories below it (`BookSettles`, with
  `TrueSizeSum`: a true size is the own size and those of the children). TLC checked
  `TypeInv /\ BookInv` first, on the run's instance without renames and on random
  behaviours of deeper trees. Looking for the invariant showed the three losses of trust that
  the run's tree is too small for (section 3).

Only model-checked: all liveness properties, which are out of the prover's reach, and
`TotalsSettle` when directories are renamed. There the books would have to say which rows
a rename in progress is about to move, and that the pending rescans under the old names are
among those that `Rename` counts as a loss of trust.

## 6. Not modelled

* Excluded directories and patterns: `Watched` and `Dirs` stand for the directories that
  pass them, and a change of the exclusions during a scan is not seen.
* The window before the first read of a subscription, half a rename pair kept across
  batches, a watched root that vanishes as a whole (in `TreeTotals`), clocks set back,
  the rows that a scan in progress writes behind a purge: hazards without a property,
  each with its reason in `PROJECT.json`.
* Pending rescans lost at a stop: a composition of `RescanQueue` and `ScanEngine` would
  show it and is too large for TLC.
* The hooks of `shell_hook.cpp` (import patching, formatting, the status bar text),
  `register.cpp` and the installer: calls into Windows without state of their own that
  a property would be about. The hooks reach the cache by the calls `SizeCache` has.
* `service/main.cpp`, `service/service_control.cpp`, `service/change_journal.cpp`: no target
  builds them.
* String work, icons, layout, the throttle's priorities.

SQLite and the Windows API are trusted to do what the code relies on.
