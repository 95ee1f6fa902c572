----------------------------- MODULE ScanEngine -----------------------------
(***************************************************************************)
(* The scan engine: the scheduler thread of service/scanner.cpp, one       *)
(* change-watching thread per root (service/dir_watcher.cpp), the reload   *)
(* path of the IPC thread, and the start, stop and crash of the process    *)
(* (tray/main.cpp).  It decides WHEN each watched root is scanned, and the *)
(* subject of the module is the debt bookkeeping that goes with it: the    *)
(* m_reconcilePending map in memory, the pending_scan flag in the          *)
(* database, and the real-time suspension of interval scans.               *)
(*                                                                         *)
(* Rows are abstracted to "the root has a row" (cached) and "rows of an    *)
(* unfinished scan are in the table" (partial).  Time is abstracted to     *)
(* whether a deadline has passed.  Incremental rescans have a module of    *)
(* their own (RescanQueue); the loops that serve them and manual scans     *)
(* between two waits are not repeated here.                                *)
(*                                                                         *)
(* The tree itself is not modelled.  What matters is which changes the     *)
(* watcher could not report, so two history variables record them:         *)
(*   missed - roots with such a change that the running scan has not come  *)
(*            to yet, or that the next scan will find;                     *)
(*   passed - roots with such a change in a part of the tree the running   *)
(*            scan had already left when the change happened;              *)
(*   aged   - roots that had a missed change when the last heartbeat was     *)
(*            written.                                                     *)
(***************************************************************************)
EXTENDS Naturals

CONSTANTS
  Root,      \* the directories that may be watched
  NoRoot,    \* "no scan is running"
  Faults     \* which disturbances the environment may cause

AllFaults ==
  {"outage",     \* a subscription dies, and changes happen meanwhile
   "overflow",   \* notifications overflow the watcher's buffer
   "scanError",  \* an enumeration fails part-way
   "rootGone",   \* the root cannot be opened: access denied or not found
   "offline",    \* changes while the engine is not running
   "crash",      \* the process dies
   "reload"}     \* the user edits the list of watched directories

ASSUME NoRootAssumption == NoRoot \notin Root
ASSUME FaultsAssumption == Faults \subseteq AllFaults

VARIABLES
  \* registry and database: survive the process
  config,             \* watchedDirs
  cached,             \* roots with a row in dir_sizes
  partial,            \* roots with rows of an unfinished scan
  pendingScan,        \* roots whose pending_scan flag is set
  \* members of Scanner
  reconcilePending,   \* m_reconcilePending: absent, due, or to be retried later
  rootLastScan,       \* m_rootLastScanTick: absent, within the interval, or older
  realtimeRoots,      \* m_realtimeRoots
  fullScanRequested,  \* m_fullScanRequested
  \* scheduler thread
  pc, phase,          \* where it is, and whether FullScan or the loop called
  todo,               \* roots of the snapshot not yet looked at
  dueNow,             \* reconciliations due when the pass read the clock
  forceAll,
  target,             \* the root being scanned
  \* the other threads
  stopEvent,          \* g_engineStopEvent
  watcher,            \* per root, where its watch thread is
  overflow,           \* roots whose pending read holds an overflow
  reload,             \* where ReloadConfig / RestartWatchers is
  \* history
  missed, passed, aged

disk    == <<config, cached, partial, pendingScan>>
memory  == <<reconcilePending, rootLastScan, realtimeRoots, fullScanRequested>>
thread  == <<pc, phase, todo, dueNow, forceAll, target>>
watch   == <<watcher, overflow>>
history == <<missed, passed, aged>>
vars    == <<disk, memory, thread, stopEvent, watch, reload, history>>

PcValues ==
  {"off", "prune", "snapshot", "startup", "top", "wait", "roots",
   "scan", "clear", "completed", "failed", "done"}
WatcherValues == {"none", "opened", "armed", "persist", "lost"}

TypeOK ==
  /\ config \subseteq Root
  /\ cached \subseteq Root
  /\ partial \subseteq Root
  /\ pendingScan \subseteq Root
  /\ reconcilePending \in [Root -> {"none", "due", "deferred"}]
  /\ rootLastScan \in [Root -> {"none", "recent", "old"}]
  /\ realtimeRoots \subseteq Root
  /\ fullScanRequested \in BOOLEAN
  /\ pc \in PcValues
  /\ phase \in {"startup", "loop"}
  /\ todo \subseteq Root
  /\ dueNow \subseteq Root
  /\ forceAll \in BOOLEAN
  /\ target \in Root \cup {NoRoot}
  /\ stopEvent \in BOOLEAN
  /\ watcher \in [Root -> WatcherValues]
  /\ overflow \subseteq Root
  /\ reload \in {"idle", "prune", "diff"}
  /\ missed \subseteq Root
  /\ passed \subseteq Root
  /\ aged \subseteq Root

\* What a new process finds in its memory.
FreshMemory ==
  /\ reconcilePending' = [r \in Root |-> "none"]
  /\ rootLastScan' = [r \in Root |-> "none"]
  /\ realtimeRoots' = {}
  /\ fullScanRequested' = FALSE
  /\ phase' = "startup"
  /\ todo' = {}
  /\ dueNow' = {}
  /\ forceAll' = FALSE
  /\ target' = NoRoot
  /\ stopEvent' = FALSE
  /\ watcher' = [r \in Root |-> "none"]
  /\ overflow' = {}
  /\ reload' = "idle"

\* A fresh installation, not started yet, with any list of watched directories.
Init ==
  /\ config \in SUBSET Root
  /\ cached = {} /\ partial = {} /\ pendingScan = {}
  /\ reconcilePending = [r \in Root |-> "none"]
  /\ rootLastScan = [r \in Root |-> "none"]
  /\ realtimeRoots = {} /\ fullScanRequested = FALSE
  /\ pc = "off" /\ phase = "startup"
  /\ todo = {} /\ dueNow = {} /\ forceAll = FALSE /\ target = NoRoot
  /\ stopEvent = FALSE
  /\ watcher = [r \in Root |-> "none"] /\ overflow = {}
  /\ reload = "idle"
  /\ missed = {} /\ passed = {} /\ aged = {}

-----------------------------------------------------------------------------
(* The process.                                                            *)

\* StartEngine: the scheduler thread starts, then RestartWatchers runs.
StartEngine ==
  /\ pc = "off"
  /\ pc' = "prune"
  /\ reload' = "diff"
  /\ UNCHANGED <<disk, memory, phase, todo, dueNow, forceAll, target,
                 stopEvent, watch, history>>

\* StopEngine signals the event that every thread polls, also in the midst of
\* a reload.
RequestStop ==
  /\ pc # "off"
  /\ ~stopEvent
  /\ stopEvent' = TRUE
  /\ UNCHANGED <<disk, memory, thread, watch, reload, history>>

\* The watchers are stopped, the scheduler and the IPC thread have been joined.
EngineOff ==
  /\ pc = "done" /\ reload = "idle"
  /\ \A r \in Root : watcher[r] = "none"
  /\ pc' = "off"
  /\ FreshMemory
  /\ UNCHANGED <<disk, history>>

\* The process dies at any point.
Crash ==
  /\ "crash" \in Faults
  /\ pc # "off"
  /\ pc' = "off"
  /\ FreshMemory
  /\ UNCHANGED <<disk, history>>

\* A file changes while nobody is looking.
OfflineChange(r) ==
  /\ "offline" \in Faults
  /\ pc = "off"
  /\ r \in config
  /\ missed' = missed \cup {r}
  /\ UNCHANGED <<disk, memory, thread, stopEvent, watch, reload, passed,
                 aged>>

-----------------------------------------------------------------------------
(* Database::RemoveOutsideRoots: with an empty list it does nothing.       *)
RemoveOutsideRoots(roots) ==
  /\ cached' = IF roots = {} THEN cached ELSE cached \cap roots
  /\ partial' = IF roots = {} THEN partial ELSE partial \cap roots
  /\ UNCHANGED <<config, pendingScan>>

-----------------------------------------------------------------------------
(* The scheduler thread: startup.                                          *)

StartupPrune ==
  /\ pc = "prune"
  /\ RemoveOutsideRoots(config)
  /\ pc' = "snapshot"
  /\ UNCHANGED <<memory, phase, todo, dueNow, forceAll, target, stopEvent,
                 watch, reload, history>>

\* FullScan copies the configured roots under the lock.
StartupSnapshot ==
  /\ pc = "snapshot"
  /\ todo' = config
  /\ pc' = "startup"
  /\ UNCHANGED <<disk, memory, phase, dueNow, forceAll, target, stopEvent,
                 watch, reload, history>>

\* Mutant: the debt is not recorded when a scan begins.
EnterScanRootUnrecorded(r) ==
  /\ target' = r
  /\ pc' = "scan"
  /\ missed' = missed \cup (passed \cap {r})
  /\ passed' = passed \ {r}
  /\ todo' = todo \ {r}
  /\ UNCHANGED <<config, cached, partial, pendingScan, aged>>

\* The first thing ScanRoot does is to record the debt.  Changes that an
\* earlier scan had passed by lie ahead of this one.
EnterScanRoot(r) ==
  /\ pendingScan' = pendingScan \cup {r}
  /\ target' = r
  /\ pc' = "scan"
  /\ missed' = missed \cup (passed \cap {r})
  /\ passed' = passed \ {r}
  /\ todo' = todo \ {r}
  /\ UNCHANGED <<config, cached, partial, aged>>

\* FullScan scans a root that owes a scan, that has no row, or whose row and
\* heartbeat are older than its interval; how old they are is up to the clock.
StartupScan(r) ==
  /\ pc = "startup"
  /\ ~stopEvent
  /\ r \in todo
  /\ EnterScanRoot(r)
  /\ UNCHANGED <<memory, phase, dueNow, forceAll, stopEvent, watch, reload>>

\* Mutant: the heartbeat is trusted although the root owes a scan.
StartupBaselineUnchecked(r) ==
  /\ pc = "startup"
  /\ ~stopEvent
  /\ r \in todo
  /\ r \in cached
  /\ rootLastScan' = [rootLastScan EXCEPT ![r] = "recent"]
  /\ todo' = todo \ {r}
  /\ missed' = missed \ {r}
  /\ passed' = passed \ {r}
  /\ aged' = aged \ {r}
  /\ UNCHANGED <<disk, reconcilePending, realtimeRoots, fullScanRequested, pc,
                 phase, dueNow, forceAll, target, stopEvent, watch, reload>>

\* ... and otherwise trusts what the last session left behind.  From here on
\* the rows count as the baseline, whatever changed before.
StartupBaseline(r) ==
  /\ pc = "startup"
  /\ ~stopEvent
  /\ r \in todo
  /\ r \notin pendingScan
  /\ r \in cached
  /\ rootLastScan' = [rootLastScan EXCEPT ![r] = "recent"]
  /\ todo' = todo \ {r}
  /\ missed' = missed \ {r}
  /\ passed' = passed \ {r}
  /\ aged' = aged \ {r}
  /\ UNCHANGED <<disk, reconcilePending, realtimeRoots, fullScanRequested, pc,
                 phase, dueNow, forceAll, target, stopEvent, watch, reload>>

StartupDone ==
  /\ pc = "startup"
  /\ todo = {} \/ stopEvent
  /\ pc' = "top"
  /\ phase' = "loop"
  /\ todo' = {}
  /\ UNCHANGED <<disk, memory, dueNow, forceAll, target, stopEvent, watch,
                 reload, history>>

-----------------------------------------------------------------------------
(* The scheduler thread: the loop.                                         *)

\* last_live is set to the current time.
WriteHeartbeat == aged' = missed \cup passed

\* The heartbeat is written, the next deadline computed.
LoopTop ==
  /\ pc = "top"
  /\ WriteHeartbeat
  /\ pc' = "wait"
  /\ UNCHANGED <<disk, memory, phase, todo, dueNow, forceAll, target,
                 stopEvent, watch, reload, missed, passed>>

\* The wait ends by an event, a deadline, or the 60 s cap: it can always end.
\* The pass works on copies of the configuration, of the "Scan Now" request
\* and of the clock.
Wake ==
  /\ pc = "wait"
  /\ ~stopEvent
  /\ todo' = config
  /\ forceAll' = fullScanRequested
  /\ fullScanRequested' = FALSE
  /\ dueNow' = {r \in Root : reconcilePending[r] = "due"}
  /\ pc' = "roots"
  /\ UNCHANGED <<disk, reconcilePending, rootLastScan, realtimeRoots, phase,
                 target, stopEvent, watch, reload, history>>

\* WaitForMultipleObjects reports the stop event first; the heartbeat is
\* written once more.
WaitStopped ==
  /\ pc = "wait"
  /\ stopEvent
  /\ WriteHeartbeat
  /\ pc' = "done"
  /\ UNCHANGED <<disk, memory, phase, todo, dueNow, forceAll, target,
                 stopEvent, watch, reload, missed, passed>>

BaselineDone(r) == rootLastScan[r] # "none"

\* Mutant: coverage suspends the first scan too.
SuspendedWithoutBaseline(r) == r \in realtimeRoots

\* Interval scans of a root are suspended by real-time coverage.
Suspended(r) == BaselineDone(r) /\ r \in realtimeRoots

\* A request made after the pass read the clock is due in this pass only if
\* the tick has not advanced, so it may or may not count.
BeginScan(r) ==
  /\ pc = "roots"
  /\ ~stopEvent
  /\ r \in todo
  /\ \/ forceAll
     \/ reconcilePending[r] = "due"
     \/ ~BaselineDone(r)
     \/ rootLastScan[r] = "old" /\ ~Suspended(r)
  /\ EnterScanRoot(r)
  /\ UNCHANGED <<memory, phase, dueNow, forceAll, stopEvent, watch, reload>>

\* Mutant: a due reconciliation does not bypass the suspension.
SkipRootThoughDue(r) ==
  /\ pc = "roots"
  /\ ~stopEvent
  /\ r \in todo
  /\ ~forceAll
  /\ Suspended(r) \/ rootLastScan[r] = "recent"
  /\ todo' = todo \ {r}
  /\ UNCHANGED <<disk, memory, pc, phase, dueNow, forceAll, target, stopEvent,
                 watch, reload, history>>

\* Mutant: a baseline is enough to skip a root, covered or not.
SkipRootThoughOld(r) ==
  /\ pc = "roots"
  /\ ~stopEvent
  /\ r \in todo
  /\ ~forceAll
  /\ r \notin dueNow
  /\ BaselineDone(r)
  /\ todo' = todo \ {r}
  /\ UNCHANGED <<disk, memory, pc, phase, dueNow, forceAll, target, stopEvent,
                 watch, reload, history>>

SkipRoot(r) ==
  /\ pc = "roots"
  /\ ~stopEvent
  /\ r \in todo
  /\ ~forceAll
  /\ r \notin dueNow
  /\ Suspended(r) \/ rootLastScan[r] = "recent"
  /\ todo' = todo \ {r}
  /\ UNCHANGED <<disk, memory, pc, phase, dueNow, forceAll, target, stopEvent,
                 watch, reload, history>>

PassDone ==
  /\ pc = "roots"
  /\ todo = {} \/ stopEvent
  /\ pc' = "top"
  /\ todo' = {}
  /\ dueNow' = {}
  /\ forceAll' = FALSE
  /\ UNCHANGED <<disk, memory, phase, target, stopEvent, watch, reload,
                 history>>

-----------------------------------------------------------------------------
(* ScanRoot, called from FullScan or from the loop.                        *)

\* ScanDirectory writes its rows in chunks of 4096 while it enumerates.
FlushChunk ==
  /\ pc = "scan"
  /\ partial' = partial \cup {target}
  /\ UNCHANGED <<config, cached, pendingScan, memory, thread, stopEvent,
                 watch, reload, history>>

\* The enumeration ended: the rest is written and the stale rows purged.  A
\* root that is gone or may not be read counts as complete but gets no row.
ScanCommits ==
  /\ pc = "scan"
  /\ ~stopEvent
  /\ partial' = partial \ {target}
  /\ \/ cached' = cached \cup {target}
     \/ "rootGone" \in Faults /\ cached' = cached
  /\ missed' = missed \ {target}
  /\ aged' = aged \ {target}
  /\ pc' = "clear"
  /\ UNCHANGED <<config, pendingScan, memory, phase, todo, dueNow, forceAll,
                 target, stopEvent, watch, reload, passed>>

\* Mutant: the flag is cleared whatever the outcome.
ScanFailsSettles ==
  /\ pc = "scan"
  /\ "scanError" \in Faults \/ stopEvent
  /\ pc' = "clear"
  /\ UNCHANGED <<disk, memory, phase, todo, dueNow, forceAll, target,
                 stopEvent, watch, reload, history>>

\* Mutant: the scan forgets its root before the last chunk is flushed.
ScanFailsEarly ==
  /\ pc = "scan"
  /\ "scanError" \in Faults \/ stopEvent
  /\ target' = NoRoot
  /\ UNCHANGED <<disk, memory, pc, phase, todo, dueNow, forceAll, stopEvent,
                 watch, reload, history>>

\* The enumeration failed, or the stop event cut it short: nothing is purged.
ScanFails ==
  /\ pc = "scan"
  /\ "scanError" \in Faults \/ stopEvent
  /\ pc' = "failed"
  /\ UNCHANGED <<disk, memory, phase, todo, dueNow, forceAll, target,
                 stopEvent, watch, reload, history>>

\* SetPendingScan(root, false), and the shell is told.
ClearPending ==
  /\ pc = "clear"
  /\ pendingScan' = pendingScan \ {target}
  /\ pc' = "completed"
  /\ UNCHANGED <<config, cached, partial, memory, phase, todo, dueNow,
                 forceAll, target, stopEvent, watch, reload, history>>

\* What the caller does once ScanRoot has returned.  Only the loop looks at
\* the request map: a completed scan settles it, a failed one defers it.
ScanReturned ==
  /\ pc \in {"completed", "failed"}
  /\ rootLastScan' = [rootLastScan EXCEPT ![target] = "recent"]
  /\ reconcilePending' =
       IF phase = "startup" \/ reconcilePending[target] = "none"
       THEN reconcilePending
       ELSE [reconcilePending EXCEPT
               ![target] = IF pc = "completed" THEN "none" ELSE "deferred"]
  /\ target' = NoRoot
  /\ pc' = IF phase = "startup" THEN "startup" ELSE "roots"
  /\ UNCHANGED <<disk, realtimeRoots, fullScanRequested, phase, todo, dueNow,
                 forceAll, stopEvent, watch, reload, history>>

-----------------------------------------------------------------------------
(* The clock.                                                              *)

IntervalElapses(r) ==
  /\ pc # "off"
  /\ rootLastScan[r] = "recent"
  /\ rootLastScan' = [rootLastScan EXCEPT ![r] = "old"]
  /\ UNCHANGED <<disk, reconcilePending, realtimeRoots, fullScanRequested,
                 thread, stopEvent, watch, reload, history>>

RetryElapses(r) ==
  /\ reconcilePending[r] = "deferred"
  /\ reconcilePending' = [reconcilePending EXCEPT ![r] = "due"]
  /\ UNCHANGED <<disk, rootLastScan, realtimeRoots, fullScanRequested, thread,
                 stopEvent, watch, reload, history>>

-----------------------------------------------------------------------------
(* A watch thread.  It is subscribed from the first read posted on a       *)
(* handle until that handle is closed, which is also while the root counts *)
(* as covered in real time.                                                *)

\* A change of r that its watcher will not report: the running scan of r may
\* or may not have left that part of the tree.
MissChange(r) ==
  /\ r \in config
  /\ UNCHANGED aged
  /\ \/ /\ target = r => pc = "scan"
        /\ missed' = missed \cup {r}
        /\ UNCHANGED passed
     \/ /\ target = r
        /\ passed' = passed \cup {r}
        /\ UNCHANGED missed

\* Mutant: the watcher posts its next read and asks for nothing.
EnterRequestRearmsOnly(r) ==
  /\ watcher' = [watcher EXCEPT ![r] = "opened"]
  /\ UNCHANGED reconcilePending

\* RequestReconcileScan, up to the unlock: an outstanding request is kept as
\* it is, and then nothing is persisted either.
EnterRequest(r) ==
  IF reconcilePending[r] = "none"
  THEN /\ reconcilePending' = [reconcilePending EXCEPT ![r] = "due"]
       /\ watcher' = [watcher EXCEPT ![r] = "persist"]
  ELSE /\ watcher' = [watcher EXCEPT ![r] = "opened"]
       /\ UNCHANGED reconcilePending

\* ... and from the unlock on.
PersistRequest(r) ==
  /\ watcher[r] = "persist"
  /\ pendingScan' = pendingScan \cup {r}
  /\ watcher' = [watcher EXCEPT ![r] = "opened"]
  /\ UNCHANGED <<config, cached, partial, memory, thread, stopEvent, overflow,
                 reload, history>>

\* ReadDirectoryChangesW is accepted; the first time on this handle, interval
\* scans are suspended.
Arm(r) ==
  /\ watcher[r] = "opened"
  /\ watcher' = [watcher EXCEPT ![r] = "armed"]
  /\ realtimeRoots' = realtimeRoots \cup {r}
  /\ UNCHANGED <<disk, reconcilePending, rootLastScan, fullScanRequested,
                 thread, stopEvent, overflow, reload, history>>

\* Mutant: a lost connection leaves the root covered.
LoseConnectionSilently(r) ==
  /\ "outage" \in Faults
  /\ watcher[r] \in {"opened", "armed"}
  /\ watcher' = [watcher EXCEPT ![r] = "lost"]
  /\ overflow' = overflow \ {r}
  /\ UNCHANGED <<disk, memory, thread, stopEvent, reload, history>>

\* connectionLost: a read is refused or completes with an error.  The handle
\* is closed, interval scans resume.
LoseConnection(r) ==
  /\ "outage" \in Faults
  /\ watcher[r] \in {"opened", "armed"}
  /\ watcher' = [watcher EXCEPT ![r] = "lost"]
  /\ overflow' = overflow \ {r}
  /\ realtimeRoots' = realtimeRoots \ {r}
  /\ UNCHANGED <<disk, reconcilePending, rootLastScan, fullScanRequested,
                 thread, stopEvent, reload, history>>

ChangeDuringOutage(r) ==
  /\ watcher[r] = "lost"
  /\ MissChange(r)
  /\ UNCHANGED <<disk, memory, thread, stopEvent, watch, reload>>

\* The handle can be opened again: the blind window is reported before the
\* new subscription exists.
Reconnect(r) ==
  /\ watcher[r] = "lost"
  /\ ~stopEvent
  /\ EnterRequest(r)
  /\ UNCHANGED <<disk, rootLastScan, realtimeRoots, fullScanRequested, thread,
                 stopEvent, overflow, reload, history>>

\* More changes than the buffer holds; the kernel drops them.
Overflow(r) ==
  /\ "overflow" \in Faults
  /\ r \in realtimeRoots
  /\ overflow' = overflow \cup {r}
  /\ MissChange(r)
  /\ UNCHANGED <<disk, memory, thread, stopEvent, watcher, reload>>

\* The pending read completes with zero bytes, or with ERROR_NOTIFY_ENUM_DIR.
NoticeOverflow(r) ==
  /\ watcher[r] = "armed"
  /\ r \in overflow
  /\ overflow' = overflow \ {r}
  /\ EnterRequest(r)
  /\ UNCHANGED <<disk, rootLastScan, realtimeRoots, fullScanRequested, thread,
                 stopEvent, reload, history>>

\* DirectoryWatcher::Stop: the thread is joined, coverage withdrawn.
StopWatcher(r) ==
  /\ watcher[r] \notin {"none", "persist"}
  /\ stopEvent \/ (reload = "diff" /\ r \notin config)
  /\ watcher' = [watcher EXCEPT ![r] = "none"]
  /\ overflow' = overflow \ {r}
  /\ realtimeRoots' = realtimeRoots \ {r}
  /\ UNCHANGED <<disk, reconcilePending, rootLastScan, fullScanRequested,
                 thread, stopEvent, reload, history>>

\* DirectoryWatcher::Start: the handle is open.
StartWatcher(r) ==
  /\ reload = "diff"
  /\ r \in config
  /\ watcher[r] = "none"
  /\ watcher' = [watcher EXCEPT ![r] = "opened"]
  /\ UNCHANGED <<disk, memory, thread, stopEvent, overflow, reload, history>>

-----------------------------------------------------------------------------
(* The IPC thread: "Scan Now" and ReloadConfig followed by RestartWatchers.*)

RequestFullScan ==
  /\ pc \notin {"off", "done"}
  /\ fullScanRequested' = TRUE
  /\ UNCHANGED <<disk, reconcilePending, rootLastScan, realtimeRoots, thread,
                 stopEvent, watch, reload, history>>

\* The saved list of watched directories replaces the one in memory.  What a
\* directory that leaves the list missed is nobody's business any more.
ReloadConfig ==
  /\ "reload" \in Faults
  /\ pc # "off"
  /\ reload = "idle"
  /\ ~stopEvent
  /\ config' \in SUBSET Root
  /\ reload' = "prune"
  /\ missed' = missed \cap config'
  /\ passed' = passed \cap config'
  /\ aged' = aged \cap config'
  /\ UNCHANGED <<cached, partial, pendingScan, memory, thread, stopEvent, watch>>

ReloadPrune ==
  /\ reload = "prune"
  /\ RemoveOutsideRoots(config)
  /\ reload' = "diff"
  /\ UNCHANGED <<memory, thread, stopEvent, watch, history>>

\* RestartWatchers returns: unwanted watchers are gone, and a wanted one is
\* missing only if its root could not be opened or watching is disabled.
RestartWatchersDone ==
  /\ reload = "diff"
  /\ \A r \in Root \ config : watcher[r] = "none"
  /\ reload' = "idle"
  /\ UNCHANGED <<disk, memory, thread, stopEvent, watch, history>>

-----------------------------------------------------------------------------
Scheduler ==
  \/ StartupPrune \/ StartupSnapshot \/ StartupDone
  \/ LoopTop \/ Wake \/ WaitStopped \/ PassDone
  \/ FlushChunk \/ ScanCommits \/ ScanFails \/ ClearPending \/ ScanReturned
  \/ \E r \in Root :
       StartupScan(r) \/ StartupBaseline(r) \/ BeginScan(r) \/ SkipRoot(r)

Watcher(r) ==
  \/ PersistRequest(r) \/ Arm(r) \/ Reconnect(r) \/ NoticeOverflow(r)
  \/ StartWatcher(r) \/ StopWatcher(r)

Environment ==
  \/ StartEngine \/ RequestStop \/ EngineOff \/ Crash \/ RequestFullScan
  \/ ReloadConfig \/ ReloadPrune \/ RestartWatchersDone
  \/ \E r \in Root :
       \/ OfflineChange(r) \/ LoseConnection(r) \/ ChangeDuringOutage(r)
       \/ Overflow(r) \/ IntervalElapses(r) \/ RetryElapses(r)

Next == Scheduler \/ (\E r \in Root : Watcher(r)) \/ Environment

Spec == Init /\ [][Next]_vars

(***************************************************************************)
(* Threads that are not waiting keep running, and clocks advance.  The     *)
(* network and the user owe nothing: no outage has to end, and nobody has  *)
(* to stop or start the engine.  Enumerations may fail again and again,    *)
(* but a root that is scanned again and again is read completely some day. *)
(***************************************************************************)
Fairness ==
  /\ WF_vars(Scheduler)
  /\ SF_vars(ScanCommits)
  /\ WF_vars(ReloadPrune)
  /\ WF_vars(RestartWatchersDone)
  /\ \A r \in Root :
       /\ WF_vars(PersistRequest(r))
       /\ WF_vars(StopWatcher(r))
       /\ WF_vars(NoticeOverflow(r))
       /\ WF_vars(IntervalElapses(r))
       /\ WF_vars(RetryElapses(r))

FairSpec == Spec /\ Fairness

-----------------------------------------------------------------------------
(* Safety.                                                                 *)

\* The engine keeps the database's promise about the pending_scan flag.
Debt == INSTANCE OwedScan WITH
          owed <- pendingScan,
          running <- IF pc \in {"scan", "clear"} THEN target ELSE NoRoot

\* Every step of the engine, its crash included, is one the promise allows:
\* the flag is set before the first row of a scan is written and cleared only
\* by a scan whose last row is in place (scanner.cpp, ScanRoot; db.h, comment
\* on SetPendingScan).
KeepsDebt == Debt!Spec

\* Rows of a scan that did not complete are never left without the flag that
\* makes the next startup scan the root (scanner.cpp, ScanRoot).
PartialIsOwed == Debt!PartialIsOwed

\* A scan is owed to r, or about to be requested.
Owed(r) ==
  \/ r \in pendingScan
  \/ reconcilePending[r] # "none"
  \/ r \in overflow
  \/ watcher[r] = "persist"

\* While the loop runs, real-time coverage never suspends the interval scans
\* of a root whose watcher lost a change nobody is going to read: a scan is
\* owed on disk or in memory, or the watcher is about to ask for one
\* (dir_watcher.cpp, reconnect and overflow).  Changes in parts of the tree
\* that a running scan has already left are not included: see
\* RequestOutlivesScan.
MissedIsOwed ==
  phase = "loop" /\ ~stopEvent =>
    \A r \in missed \cap realtimeRoots : Owed(r)

\* Interval scans are suspended only while a subscription exists: an outage
\* or the end of a watcher never leaves a root with neither (dir_watcher.cpp,
\* connectionLost: "that silently killed this thread while interval scans
\* STAYED suspended, leaving the root permanently un-tracked").
SuspensionIsBacked ==
  \A r \in realtimeRoots : watcher[r] \in {"opened", "armed", "persist"}

\* A step in which startup accepts what the last session left for r.
AcceptsBaseline(r) ==
  /\ phase = "startup"
  /\ rootLastScan[r] = "none"
  /\ rootLastScan'[r] = "recent"
  /\ target = NoRoot

\* Startup never takes the rows of an unfinished scan for a baseline, however
\* the last session ended (scanner.cpp, ScanRoot: "the liveness heartbeat
\* alone must not make a half-scanned tree look fresh").
NoHalfScannedBaseline ==
  [][\A r \in Root : AcceptsBaseline(r) => r \notin partial]_vars

-----------------------------------------------------------------------------
(* The inductive invariant behind them.                                    *)

\* A scan is in progress exactly where the scheduler is inside ScanRoot; its
\* debt is on disk until the last row is.
ScanInv ==
  /\ target # NoRoot <=> pc \in {"scan", "clear", "completed", "failed"}
  /\ pc \in {"scan", "clear"} => target \in pendingScan
  /\ pc = "clear" => target \notin partial
  /\ partial \subseteq pendingScan

\* MissedIsOwed says nothing of a root whose watcher is down, or that startup
\* has not looked at; this does, and so survives the reconnection and the end
\* of startup.
OweInv ==
  /\ pc \in {"off", "prune", "snapshot", "startup"} => phase = "startup"
  /\ pc \in {"top", "wait", "roots", "done"} => phase = "loop"
  /\ missed \cup passed \subseteq config
  /\ pc \in {"clear", "completed"} => target \notin missed
  /\ pc \notin {"off", "prune", "snapshot"} /\ ~stopEvent =>
       \A r \in missed :
         \/ Owed(r)
         \/ watcher[r] = "lost"
         \/ phase = "startup" /\ r \in todo

IInv == TypeOK /\ ScanInv /\ SuspensionIsBacked /\ OweInv

-----------------------------------------------------------------------------
(* Liveness.                                                               *)

Stopping == stopEvent \/ pc = "off"

\* A requested reconciliation is carried to a completed scan, through retries
\* and in spite of the suspension of interval scans (scanner.h,
\* RequestReconcileScan: "bypassing the real-time suspension" and "retried on
\* failure").
RequestIsServed ==
  \A r \in Root :
    reconcilePending[r] # "none" ~>
      (reconcilePending[r] = "none" \/ r \notin config \/ Stopping)

\* A directory new to the engine is scanned even if its watcher suspends
\* interval scans before its first scan (scanner.cpp: "must still get that
\* scan - otherwise its sizes would never be populated at all").
NewRootIsScanned ==
  \A r \in Root :
    (r \in config /\ rootLastScan[r] = "none") ~>
      (rootLastScan[r] # "none" \/ r \notin config \/ Stopping)

\* Without coverage the interval scans are the backstop: once the interval is
\* over, the root is scanned or coverage is back (dir_watcher.cpp,
\* connectionLost: "interval scans resume as the backstop").
BackstopRuns ==
  \A r \in Root :
    (r \in config /\ rootLastScan[r] = "old") ~>
      (target = r \/ r \in realtimeRoots \/ r \notin config \/ Stopping)

-----------------------------------------------------------------------------
(* What comments of the code promise and the code does not keep.           *)

\* dir_watcher.cpp:258 "Interval scans stay suspended while the watch is
\* healthy, so a deep reconciliation scan is the only thing that actually
\* repairs what was missed": a change lost to an overflow is repaired or owed
\* even if a scan was already past it.
RequestOutlivesScan ==
  phase = "loop" /\ ~stopEvent /\ pc = "wait" =>
    \A r \in (missed \cup passed) \cap realtimeRoots : Owed(r)

\* scanner.cpp:821 "the scan will be retried": a root that owes a scan is in
\* line for one in this session.
FailedScanIsRetried ==
  phase = "loop" /\ ~stopEvent /\ pc = "wait" =>
    \A r \in pendingScan \cap config \cap realtimeRoots :
      reconcilePending[r] # "none"

\* scanner.cpp:702 "data can't be staler than the last heartbeat": when startup
\* accepts the rows on the heartbeat's word, they lack no change that was made
\* before it.
HeartbeatVouches ==
  [][\A r \in Root : AcceptsBaseline(r) => r \notin aged]_vars

\* scanner.cpp:475 "Real-time coverage only suspends interval scans for roots
\* that already have a completed baseline scan": a suspended root has rows.
SuspendedHasBaseline ==
  phase = "loop" /\ ~stopEvent /\ pc = "wait" /\ reload = "idle" =>
    \A r \in config :
      Suspended(r) => r \in cached \/ reconcilePending[r] # "none"
=============================================================================
