--------------------------- MODULE Configuration ---------------------------
(***************************************************************************)
(* The list of watched directories and everybody who writes it: the        *)
(* settings dialog on the UI thread (tray/settings_dialog.cpp), the reload *)
(* command it sends over the pipe, served by ReloadConfig and then         *)
(* RestartWatchers on the IPC thread (service/scanner.cpp, tray/main.cpp), *)
(* and the watch threads, which enter a renamed root into the list by      *)
(* themselves (dir_watcher.cpp, HandleWatchedRootRename).                  *)
(*                                                                         *)
(* The list exists four times: in the registry, in Scanner::m_config, as   *)
(* the roots of the running watchers and as the rows of an open dialog.    *)
(* No lock spans two of them.  Rows of the database are abstracted to the  *)
(* names of the roots that have some; the excluded directories and the     *)
(* other settings, which no rename touches, are left out, change watching  *)
(* and rename tracking are switched on.                                    *)
(*                                                                         *)
(* History variables:                                                      *)
(*   wanted  - the list the user saved last, with the renames that the     *)
(*             engine has noticed since applied to it;                     *)
(*   kept    - the roots that had rows at first and have been on the list  *)
(*             ever since, under their present names;                      *)
(*   renames, saves - how many there have been (MaxRenames, MaxSaves);     *)
(*   absent  - the names that were nowhere when their watcher was to be    *)
(*             started last;                                               *)
(*   raced   - a rename was entered while an edit was on its way to the    *)
(*             engine, while another rename was, or onto a name that is    *)
(*             listed already, or it could not be saved.                   *)
(***************************************************************************)
EXTENDS Naturals

CONSTANTS
  Name,        \* canonical paths
  Default,     \* "C:\", watched when the list is empty
  NoName,      \* no path
  Dir,         \* directories of the file system
  Home,        \* where each of them is at first
  Fixed,       \* those nobody can rename: the root of the drive
  Slot,        \* places in g_watchers
  Initial,     \* bound: the lists the registry may hold at first
  MaxRenames,  \* bound: renames of directories
  MaxSaves     \* bound: OK or Apply in the dialog

ASSUME NameAssumption == Default \in Name /\ NoName \notin Name
ASSUME DirAssumption ==
  /\ Fixed \subseteq Dir /\ Home \in [Dir -> Name]
  /\ \A d, e \in Dir : Home[d] = Home[e] => d = e
ASSUME SlotAssumption == Slot \subseteq Nat
ASSUME BoundAssumption ==
  Initial \subseteq SUBSET Name /\ MaxRenames \in Nat /\ MaxSaves \in Nat

VARIABLES
  at,        \* where each directory is
  busy,      \* those in which something is notified within every minute
  registry,  \* WatchedDirs under HKEY_CURRENT_USER
  memory,    \* Scanner::m_config.watchedDirs
  rows,      \* roots with rows in dir_sizes
  realtime,  \* m_realtimeRoots
  dialog,    \* the rows of the dialog's list view; open or not, they are old
  ui,        \* "idle", or "send": the reload command waits for the pipe
  server,    \* where the IPC thread is
  loaded,    \* the list the IPC thread has read
  todo,      \* watchers RestartWatchers has not compared yet
  watcher,   \* g_watchers
  lost,      \* the registry was edited and the engine was not told
  wanted, kept, absent, renames, saves, raced

lists   == <<registry, memory, rows, realtime>>
client  == <<dialog, ui, lost, saves>>
ipc     == <<server, loaded, todo>>
history == <<wanted, kept, absent, raced>>
files   == <<at, busy, renames>>
vars    == <<lists, client, ipc, history, files, watcher>>

Present == {at[d] : d \in Dir}

\* A watcher: m_root, the directory its handle is open on, where its thread is,
\* m_markedRealtime, whether Stop has cleared m_running, the name a rename in
\* progress leads to and the list it is about to save.  One that is "lost" has
\* no handle: dir is what it had been open on.
Watchers ==
  [root : Name, dir : Dir,
   pc : {"opened", "watching", "lost", "save", "carry", "assign"},
   marked : BOOLEAN, stop : BOOLEAN, to : Name \cup {NoName}, saved : SUBSET Name]

NoWatcher == [pc |-> "none"]
Used == {i \in Slot : watcher[i].pc # "none"}
Renaming(i) == watcher[i].pc \in {"save", "carry", "assign"}

TypeOK ==
  /\ at \in [Dir -> Name] /\ \A d, e \in Dir : at[d] = at[e] => d = e
  /\ busy \subseteq Dir
  /\ registry \subseteq Name /\ memory \subseteq Name
  /\ rows \subseteq Name /\ realtime \subseteq Name
  /\ dialog \subseteq Name
  /\ ui \in {"idle", "send"}
  /\ server \in {"idle", "load", "assign", "prune", "diff", "compare"}
  /\ loaded \subseteq Name /\ todo \subseteq Slot
  /\ watcher \in [Slot -> {NoWatcher} \cup Watchers]
  /\ lost \in BOOLEAN
  /\ wanted \subseteq Name /\ kept \subseteq Name /\ absent \subseteq Name
  /\ raced \in BOOLEAN
  /\ renames \in 0..MaxRenames /\ saves \in 0..MaxSaves

\* LoadConfig: an empty list is read back as the default one.
LoadConfig == IF registry = {} THEN {Default} ELSE registry

\* A reload is under way, or an edit has not reached the engine.
EditPending == ui = "send" \/ server # "idle" \/ lost

DirectoryAt(n) == CHOOSE d \in Dir : at[d] = n

Opened(n, d) ==
  [root |-> n, dir |-> d, pc |-> "opened", marked |-> FALSE, stop |-> FALSE,
   to |-> NoName, saved |-> {}]

\* StartEngine has ended: the list is loaded and every listed root that is
\* there has a watcher.
Init ==
  /\ at = Home /\ busy = {}
  /\ registry \in Initial /\ memory = LoadConfig
  /\ rows = memory /\ realtime = {}
  /\ dialog = memory /\ ui = "idle"
  /\ server = "idle" /\ loaded = {} /\ todo = {}
  /\ watcher \in [Slot -> {NoWatcher} \cup {Opened(at[d], d) : d \in Dir}]
  /\ {watcher[i].root : i \in Used} = memory \cap Present
  /\ \A i, j \in Used : watcher[i].root = watcher[j].root => i = j
  /\ \A j \in Used, i \in Slot : i < j => i \in Used
  /\ lost = FALSE /\ wanted = memory /\ kept = rows /\ absent = memory \ Present
  /\ raced = FALSE
  /\ renames = 0 /\ saves = 0

-----------------------------------------------------------------------------
(* The file system and the user.                                           *)

RenameDir(d, n) ==
  /\ d \notin Fixed /\ n \notin Present /\ renames < MaxRenames
  /\ at' = [at EXCEPT ![d] = n]
  /\ renames' = renames + 1
  /\ UNCHANGED <<busy, lists, client, ipc, history, watcher>>

\* Somebody begins or ends to change something below d more often than once a
\* minute.  In a directory that is Fixed it makes no difference.
Work(d) ==
  /\ d \notin Fixed
  /\ busy' = IF d \in busy THEN busy \ {d} ELSE busy \cup {d}
  /\ UNCHANGED <<at, renames, lists, client, ipc, history, watcher>>

\* WM_INITDIALOG, LoadSettingsToDialog: a new dialog fills its list view once.
OpenDialog ==
  /\ ui = "idle" /\ saves < MaxSaves
  /\ dialog' = LoadConfig
  /\ UNCHANGED <<lists, ui, lost, saves, ipc, history, files, watcher>>

\* What the user makes of the list before OK or Apply: the folder browser of
\* IDC_BTN_ADD_DIR offers what is there, IDC_BTN_REMOVE_DIR removes any row.
Edited(list) == {new \in SUBSET Name : new \ list \subseteq Present}

\* SaveSettingsFromDialog: the whole list is written from the list view.
Save ==
  /\ ui = "idle" /\ saves < MaxSaves
  /\ \E list \in Edited(dialog) :
       /\ registry' = list
       /\ wanted' = IF list = {} THEN {Default} ELSE list
       /\ kept' = kept \cap wanted'
       /\ dialog' = list
  /\ ui' = "send" /\ saves' = saves + 1
  /\ raced' = (raced \/ \E i \in Slot : Renaming(i))
  /\ UNCHANGED <<memory, rows, realtime, lost, absent, ipc, files, watcher>>

\* SendCommand(ReloadConfig) finds the listener waiting.  The dialog then waits
\* for the answer, for a time; whether it comes makes no difference to it.
Deliver ==
  /\ ui = "send" /\ server = "idle"
  /\ ui' = "idle" /\ server' = "load"
  /\ UNCHANGED <<lists, dialog, lost, saves, loaded, todo, history, files, watcher>>

\* The listener is busy with an earlier command or with another client until
\* WaitNamedPipe gives up: nobody looks at the result of SendCommand.
GiveUp ==
  /\ ui = "send"
  /\ ui' = "idle" /\ lost' = TRUE
  /\ UNCHANGED <<lists, dialog, saves, ipc, history, files, watcher>>

-----------------------------------------------------------------------------
(* The IPC thread.                                                         *)

\* ReloadConfig: the list is read without a lock ...
ReadList ==
  /\ server = "load"
  /\ loaded' = LoadConfig /\ server' = "assign" /\ lost' = FALSE
  /\ UNCHANGED <<lists, dialog, ui, saves, todo, history, files, watcher>>

\* ... and becomes m_config under m_configMutex.
AssignList ==
  /\ server = "assign"
  /\ memory' = loaded /\ server' = "prune"
  /\ UNCHANGED <<registry, rows, realtime, client, loaded, todo, history, files,
                 watcher>>

\* RemoveOutsideRoots with the roots m_config has by now.
Prune ==
  /\ server = "prune"
  /\ rows' = rows \cap memory /\ server' = "diff"
  /\ UNCHANGED <<registry, memory, realtime, client, loaded, todo, history, files, watcher>>

\* RestartWatchers reads the list again: the desired roots.
Diff ==
  /\ server = "diff"
  /\ loaded' = LoadConfig /\ todo' = Used /\ server' = "compare"
  /\ UNCHANGED <<lists, client, history, files, watcher>>

Stopping == \E i \in todo : watcher[i].stop

Keep(i) ==
  /\ server = "compare" /\ i \in todo /\ ~Stopping
  /\ watcher[i].root \in loaded
  /\ loaded' = loaded \ {watcher[i].root} /\ todo' = todo \ {i}
  /\ UNCHANGED <<lists, client, server, history, files, watcher>>

BeginStop(i) ==
  /\ server = "compare" /\ i \in todo /\ ~Stopping
  /\ watcher[i].root \notin loaded
  /\ watcher' = [watcher EXCEPT ![i].stop = TRUE]
  /\ UNCHANGED <<lists, client, ipc, history, files>>

\* Mutant: the stopped watcher leaves its root covered.
EndStopCovered(i) ==
  /\ server = "compare" /\ i \in todo /\ watcher[i].stop /\ ~Renaming(i)
  /\ watcher' = [watcher EXCEPT ![i] = NoWatcher] /\ todo' = todo \ {i}
  /\ UNCHANGED <<lists, client, server, loaded, history, files>>

\* Mutant: a thread that waits for notifications does not see m_running.
EndStopUnarmed(i) ==
  /\ server = "compare" /\ i \in todo /\ watcher[i].stop /\ watcher[i].pc = "opened"
  /\ watcher' = [watcher EXCEPT ![i] = NoWatcher] /\ todo' = todo \ {i}
  /\ UNCHANGED <<lists, client, server, loaded, history, files>>

\* DirectoryWatcher::Stop joins the thread, which ends a rename it has begun.
EndStop(i) ==
  /\ server = "compare" /\ i \in todo /\ watcher[i].stop /\ ~Renaming(i)
  /\ realtime' = IF watcher[i].marked THEN realtime \ {watcher[i].root} ELSE realtime
  /\ watcher' = [watcher EXCEPT ![i] = NoWatcher]
  /\ todo' = todo \ {i}
  /\ UNCHANGED <<registry, memory, rows, client, server, loaded, history, files>>

\* DirectoryWatcher::Start: the root is opened, or left to interval scans.
StartOne(n, i) ==
  /\ server = "compare" /\ todo = {} /\ n \in loaded
  /\ i \notin Used /\ \A j \in Slot \ Used : i <= j
  /\ loaded' = loaded \ {n}
  /\ IF n \in Present
       THEN /\ watcher' = [watcher EXCEPT ![i] = Opened(n, DirectoryAt(n))]
            /\ absent' = absent \ {n}
       ELSE watcher' = watcher /\ absent' = absent \cup {n}
  /\ UNCHANGED <<lists, client, server, todo, wanted, kept, raced, files>>

ReloadDone ==
  /\ server = "compare" /\ todo = {} /\ loaded = {}
  /\ server' = "idle"
  /\ UNCHANGED <<lists, client, loaded, todo, history, files, watcher>>

-----------------------------------------------------------------------------
(* The watch threads.                                                      *)

\* The first read is accepted: MarkRealtimeActive.
Arm(i) ==
  /\ i \in Used /\ watcher[i].pc = "opened"
  /\ watcher' = [watcher EXCEPT ![i].pc = "watching", ![i].marked = TRUE]
  /\ realtime' = realtime \cup {watcher[i].root}
  /\ UNCHANGED <<registry, memory, rows, client, ipc, history, files>>

\* The read is refused or fails, by a dead session or a file system without
\* notifications: connectionLost closes the handle and gives up the coverage.
LoseConnection(i) ==
  /\ i \in Used /\ watcher[i].pc \in {"opened", "watching"}
  /\ watcher' = [watcher EXCEPT ![i].pc = "lost", ![i].marked = FALSE]
  /\ realtime' = IF watcher[i].marked THEN realtime \ {watcher[i].root} ELSE realtime
  /\ UNCHANGED <<registry, memory, rows, client, ipc, history, files>>

\* Every minute the name is opened again, whatever directory has it by now.
Reconnect(i) ==
  /\ i \in Used /\ watcher[i].pc = "lost" /\ watcher[i].root \in Present
  /\ watcher' = [watcher EXCEPT ![i].pc = "opened",
                                ![i].dir = DirectoryAt(watcher[i].root)]
  /\ UNCHANGED <<lists, client, ipc, history, files>>

Replaced(list, old, new) == IF old \in list THEN (list \ {old}) \cup {new} ELSE list

\* Mutant: the new name is saved and not entered in m_config.
NoticeRenameOnDisk(i) ==
  /\ i \in Used /\ watcher[i].pc = "watching" /\ watcher[i].dir \notin busy
  /\ LET old == watcher[i].root
         new == at[watcher[i].dir]
     IN /\ old # new
        /\ wanted' = Replaced(wanted, old, new)
        /\ watcher' = [watcher EXCEPT ![i].pc = "save", ![i].to = new,
                                      ![i].saved = Replaced(memory, old, new)]
        /\ kept' = Replaced(kept, old, new)
        /\ raced' = \/ raced \/ EditPending \/ new \in memory
                    \/ \E j \in Slot : Renaming(j)
  /\ UNCHANGED <<registry, memory, rows, realtime, absent, client, ipc, files>>

\* CheckRootRename, when a minute has passed without a notification
\* (WAIT_TIMEOUT): the handle tells the new name, and HandleWatchedRootRename
\* replaces the old one in m_config.
NoticeRename(i) ==
  /\ i \in Used /\ watcher[i].pc = "watching" /\ watcher[i].dir \notin busy
  /\ LET old == watcher[i].root
         new == at[watcher[i].dir]
     IN /\ old # new
        /\ memory' = Replaced(memory, old, new)
        /\ wanted' = Replaced(wanted, old, new)
        /\ watcher' = [watcher EXCEPT ![i].pc = "save", ![i].to = new,
                                      ![i].saved = Replaced(memory, old, new)]
        /\ kept' = Replaced(kept, old, new)
        /\ raced' = \/ raced \/ EditPending \/ new \in memory
                    \/ \E j \in Slot : Renaming(j)
  /\ UNCHANGED <<registry, rows, realtime, absent, client, ipc, files>>

\* SaveConfig writes the copy taken under the lock, or fails, which is logged.
SaveRename(i) ==
  /\ i \in Used /\ watcher[i].pc = "save"
  /\ \/ registry' = watcher[i].saved /\ raced' = raced
     \/ registry' = registry /\ raced' = TRUE
  /\ watcher' = [watcher EXCEPT ![i].pc = "carry"]
  /\ UNCHANGED <<memory, rows, realtime, wanted, kept, absent, client, ipc, files>>

\* Mutant: the rows stay under the old name.
CarryOverFlag(i) ==
  /\ i \in Used /\ watcher[i].pc = "carry"
  /\ realtime' = Replaced(realtime, watcher[i].root, watcher[i].to)
  /\ watcher' = [watcher EXCEPT ![i].pc = "assign"]
  /\ UNCHANGED <<registry, memory, rows, client, ipc, history, files>>

\* Mutant: the watcher keeps its name for the directory.
CarryOverOnly(i) ==
  /\ i \in Used /\ watcher[i].pc = "carry"
  /\ rows' = Replaced(rows, watcher[i].root, watcher[i].to)
  /\ realtime' = Replaced(realtime, watcher[i].root, watcher[i].to)
  /\ watcher' = [watcher EXCEPT ![i].pc = "watching"]
  /\ UNCHANGED <<registry, memory, client, ipc, history, files>>

\* RenamePrefix, then the real-time flag.
CarryOver(i) ==
  /\ i \in Used /\ watcher[i].pc = "carry"
  /\ rows' = Replaced(rows, watcher[i].root, watcher[i].to)
  /\ realtime' = Replaced(realtime, watcher[i].root, watcher[i].to)
  /\ watcher' = [watcher EXCEPT ![i].pc = "assign"]
  /\ UNCHANGED <<registry, memory, client, ipc, history, files>>

\* Mutant: the new name is moved from before it is assigned.
AssignNothing(i) ==
  /\ i \in Used /\ watcher[i].pc = "assign"
  /\ watcher' = [watcher EXCEPT ![i].pc = "watching", ![i].root = NoName,
                                ![i].to = NoName, ![i].saved = {}]
  /\ UNCHANGED <<lists, client, ipc, history, files>>

AssignRoot(i) ==
  /\ i \in Used /\ watcher[i].pc = "assign"
  /\ watcher' = [watcher EXCEPT ![i].pc = "watching", ![i].root = watcher[i].to,
                                ![i].to = NoName, ![i].saved = {}]
  /\ UNCHANGED <<lists, client, ipc, history, files>>

-----------------------------------------------------------------------------

User ==
  \/ \E d \in Dir, n \in Name : RenameDir(d, n)
  \/ \E d \in Dir : Work(d)
  \/ OpenDialog \/ Save

Ui == Deliver \/ GiveUp

Server ==
  \/ ReadList \/ AssignList \/ Prune \/ Diff \/ ReloadDone
  \/ \E i \in Slot : Keep(i) \/ BeginStop(i) \/ EndStop(i)
  \/ \E n \in Name, i \in Slot : StartOne(n, i)

WatchThread(i) ==
  \/ Arm(i) \/ Reconnect(i)
  \/ NoticeRename(i) \/ SaveRename(i) \/ CarryOver(i) \/ AssignRoot(i)

Next ==
  \/ User \/ Ui \/ Server
  \/ \E i \in Slot : WatchThread(i) \/ LoseConnection(i)

Spec == Init /\ [][Next]_vars

\* Each thread goes on as long as it has something to do; a rename it has to
\* do only while its directory is quiet.  The user owes nothing, and nothing
\* says that a session ever breaks.
Fairness ==
  /\ WF_vars(Ui) /\ WF_vars(Server)
  /\ \A i \in Slot : WF_vars(WatchThread(i))

FairSpec == Spec /\ Fairness

-----------------------------------------------------------------------------
(* Properties.                                                             *)

Quiet ==
  /\ ~EditPending /\ \A i \in Slot : ~Renaming(i)

\* Real-time coverage, which suspends interval scans, is only claimed under the
\* name of a watcher that runs, whatever is renamed, reloaded and stopped at the
\* same time (scanner.cpp, HandleWatchedRootRename: "Carry the real-time
\* coverage flag over as well"; dir_watcher.cpp, Stop: "Interval scans must
\* resume for this root once we're not watching it").
CoverageIsBacked ==
  \A n \in realtime :
    \E i \in Used : watcher[i].marked /\ n \in {watcher[i].root, watcher[i].to}

\* Unless a rename met an edit or another rename or could not be saved, the
\* registry, the engine and the watchers agree once everything has come to
\* rest, on what the user saved and where it has been renamed to, stale dialogs
\* and lost commands included: one watcher for every root on the list that was
\* there when it was to be started, and none for another (tray/main.cpp,
\* RestartWatchers: "edits to the watched-dir list apply immediately").
ListsAgree ==
  Quiet /\ ~raced =>
    /\ memory = LoadConfig /\ memory = wanted
    /\ {watcher[i].root : i \in Used} \subseteq memory
    /\ memory \ absent \subseteq {watcher[i].root : i \in Used}
    /\ \A i, j \in Used : watcher[i].root = watcher[j].root => i = j

\* With the same exception, rows follow the renames of their root, and go when
\* it leaves the list and only then (README.md:63, scanner.cpp:221).
RowsFollow == Quiet /\ ~raced => kept \subseteq rows /\ rows \subseteq memory

\* A rename of a watched directory is followed by its watcher, or the watcher
\* is stopped or loses its handle, after which it opens the old name again.
\* Excepted is a directory that is busy again and again: CheckRootRename waits
\* for a minute without a notification (dir_watcher.cpp:219-223, 122-160).
RenameIsFollowed ==
  \A i \in Slot :
    \/ []<>(i \in Used /\ watcher[i].dir \in busy)
    \/ (i \in Used /\ watcher[i].root # at[watcher[i].dir]) ~>
         (i \in Used => \/ watcher[i].root = at[watcher[i].dir]
                        \/ watcher[i].pc = "lost")

\* The IPC thread, which joins watch threads that may be in the middle of a
\* rename, always gets back to its clients.
ReloadEnds == server # "idle" ~> server = "idle"

=============================================================================
