---------------------------- MODULE RescanQueue -----------------------------
(***************************************************************************)
(* Incremental rescans (service/scanner.cpp): watch threads and the IPC    *)
(* thread queue single directories with QueueRescan, and the scheduler     *)
(* thread wakes for them, picks one under the lock, lists it with the lock *)
(* released (RescanOne) and records when it was done.  A directory is      *)
(* queued at most once and listed at most once per cooldown.               *)
(*                                                                         *)
(* Times are kept relative to the present and saturate once they no longer *)
(* matter.  Totals are not modelled; that a directory changed and no       *)
(* listing begun after that has been completed is the history stale.       *)
(***************************************************************************)
EXTENDS Integers, FiniteSets

CONSTANTS
  Dir,         \* directories
  NoDir,       \* not a directory
  Watched,     \* those under a watched directory and not excluded
  ParentOf,    \* the directory above each, or NoDir
  IsUnder,     \* pairs <<d, e>> where d is e or lies below it
  Thread,      \* threads that call QueueRescan: watchers, the IPC thread
  Cooldown,    \* kRescanCooldownMs
  Keep,        \* 10 * kRescanCooldownMs, the age at which an entry is cold
  MaxDone,     \* size beyond which m_lastRescanDone is cleaned (4096)
  WaitCap,     \* the longest wait of the scheduler (60 s)
  MaxWork,     \* bound: how long listing one directory takes
  Word,        \* 2^64, in ticks
  BootUptime,  \* GetTickCount64 when the engine starts
  Faults       \* \subseteq {"openError", "listError", "gone"}

ASSUME DirAssumption ==
  /\ NoDir \notin Dir
  /\ Watched \subseteq Dir
  /\ ParentOf \in [Dir -> Dir \cup {NoDir}]
ASSUME UnderAssumption == IsUnder \subseteq Dir \X Dir
ASSUME TimeAssumption ==
  /\ Cooldown \in Nat \ {0} /\ Keep \in Nat /\ WaitCap \in Nat
  /\ MaxWork \in Nat /\ MaxDone \in Nat /\ BootUptime \in Nat
  /\ Word \in Nat
  /\ Cooldown <= Keep
  /\ BootUptime <= Keep + 1
  /\ 2 * (Keep + 1) < Word

VARIABLES
  queued,     \* keys of m_pendingRescans
  due,        \* for a key, how long until it may run
  done,       \* keys of m_lastRescanDone
  age,        \* for a key, how long ago that was (up to Keep + 1)
  event,      \* m_rescanEvent, auto-reset
  stop,       \* m_stopEvent
  known,      \* directories with a row
  pc,         \* where the scheduler thread is
  target,     \* the directory being rescanned
  deadline,   \* how long the present wait may still last
  work,       \* how long the present listing has taken
  signalling, \* threads about to set the event
  uptime,     \* GetTickCount64 (up to Keep + 1)
  buffer,     \* directories named in notifications not yet read
  stale,      \* history: directories with a change that no listing begun
              \* after it has been through
  unopened,   \* history: those among them that could not even be opened since
  again,      \* history: the target has changed since it was picked
  result,     \* history: how the listing of the target ended, at "post"
  since       \* history: time since a directory was last rescanned (up to Cooldown)

queue   == <<queued, due, done, age>>
thread  == <<pc, target, work>>
clock   == <<uptime, since>>
rows    == <<known, stale, unopened, again, result>>
vars    == <<queue, event, stop, thread, deadline, signalling, clock, buffer,
             rows>>

TypeOK ==
  /\ queued \subseteq Dir
  /\ due \in [Dir -> 0..Cooldown]
  /\ done \subseteq Dir
  /\ age \in [Dir -> 0..(Keep + 1)]
  /\ event \in BOOLEAN
  /\ stop \in BOOLEAN
  /\ known \subseteq Dir
  /\ pc \in {"top", "wait", "rescans", "listing", "post", "roots", "off"}
  /\ target \in Dir \cup {NoDir}
  /\ deadline \in 0..WaitCap
  /\ work \in 0..MaxWork
  /\ signalling \subseteq Thread
  /\ uptime \in 0..(Keep + 1)
  /\ buffer \subseteq Dir
  /\ stale \subseteq Dir
  /\ unopened \subseteq stale
  /\ again \in BOOLEAN
  /\ result \in {"none", "listed", "gone", "failed", "unopened"}
  /\ since \in [Dir -> 0..Cooldown]

\* The engine has just started; some of the watched directories have rows.
Init ==
  /\ queued = {} /\ due = [d \in Dir |-> 0]
  /\ done = {} /\ age = [d \in Dir |-> 0]
  /\ event = FALSE /\ stop = FALSE
  /\ known \in SUBSET Watched
  /\ pc = "top" /\ target = NoDir /\ deadline = 0 /\ work = 0
  /\ signalling = {}
  /\ uptime = BootUptime
  /\ buffer = {} /\ stale = {} /\ unopened = {}
  /\ again = FALSE /\ result = "none"
  /\ since = [d \in Dir |-> Cooldown]

-----------------------------------------------------------------------------
(* QueueRescan.                                                            *)

\* d was rescanned less than a cooldown ago, as far as the map knows.
Cooling(d) == d \in done /\ age[d] < Cooldown

\* Mutant: the time left is computed whether or not the cooldown is over.
RemainingUnchecked(d) == IF d \in done THEN Cooldown - age[d] ELSE 0

Remaining(d) == IF Cooling(d) THEN Cooldown - age[d] ELSE 0

\* Mutant: every notification puts the rescan off again.
EnqueuePostpones(d) ==
  /\ queued' = queued \cup {d}
  /\ due' = [due EXCEPT ![d] = Cooldown]

\* try_emplace: a directory that is queued keeps its time.
Enqueue(d) ==
  /\ queued' = queued \cup {d}
  /\ due' = IF d \in queued THEN due ELSE [due EXCEPT ![d] = Remaining(d)]

\* Mutant: the event is not set.
QueueRescanSilently(t, d) ==
  /\ t \notin signalling
  /\ d \in Watched
  /\ Enqueue(d)
  /\ UNCHANGED <<done, age, event, stop, thread, deadline, signalling, clock,
                 rows>>

\* Under m_queueMutex: t queues d; who finds it queued is finished.
QueueRescan(t, d) ==
  /\ t \notin signalling
  /\ d \in Watched
  /\ Enqueue(d)
  /\ signalling' = IF d \in queued THEN signalling ELSE signalling \cup {t}
  /\ UNCHANGED <<done, age, event, stop, thread, deadline, clock, rows>>

\* A watch thread queues the directories named in the notifications it reads.
Notified(d) ==
  /\ d \in buffer
  /\ buffer' = buffer \ {d}
  /\ \E t \in Thread : QueueRescan(t, d)

\* Somebody asks for a recalculation in Explorer.
Requested(d) ==
  /\ \E t \in Thread : QueueRescan(t, d)
  /\ UNCHANGED buffer

\* SetEvent, after the mutex has been released.
Signal(t) ==
  /\ t \in signalling
  /\ event' = TRUE
  /\ signalling' = signalling \ {t}
  /\ UNCHANGED <<queue, stop, thread, deadline, clock, buffer, rows>>

-----------------------------------------------------------------------------
(* The scheduler thread.                                                   *)

\* The wait is short enough for everything queued so far; roots whose time
\* comes earlier shorten it further.
ComputeDeadline ==
  /\ pc = "top"
  /\ pc' = "wait"
  /\ deadline' \in 0..WaitCap
  /\ \A d \in queued : deadline' <= due[d]
  /\ UNCHANGED <<queue, event, stop, target, work, signalling, clock, buffer,
                 rows>>

\* The wait is over; the event resets itself.
Wake ==
  /\ pc = "wait"
  /\ ~stop
  /\ event \/ deadline = 0
  /\ event' = FALSE
  /\ deadline' = 0
  /\ pc' = "rescans"
  /\ UNCHANGED <<queue, stop, target, work, signalling, clock, buffer, rows>>

Stopped ==
  /\ pc = "wait"
  /\ stop
  /\ pc' = "off"
  /\ UNCHANGED <<queue, event, stop, target, work, deadline, signalling, clock,
                 buffer, rows>>

Due == {d \in queued : due[d] = 0}

\* Entries that are due but cooling are put off when the loop comes by.
PutOff(S) == due' = [d \in Dir |-> IF d \in S THEN Remaining(d) ELSE due[d]]

\* Mutant: the cooldown is not looked at again when an entry is picked.
PickUnchecked(d) ==
  /\ pc = "rescans"
  /\ ~stop
  /\ d \in Due
  /\ queued' = queued \ {d}
  /\ target' = d
  /\ pc' = "listing"
  /\ UNCHANGED <<due, done, age, event, stop, work, deadline, signalling, clock,
                 buffer, rows>>

\* The map has no order: any entry that is due and cool may be found first.
Pick(d) ==
  /\ pc = "rescans"
  /\ ~stop
  /\ d \in Due
  /\ ~Cooling(d)
  /\ \E S \in SUBSET {e \in Due : Cooling(e)} : PutOff(S)
  /\ queued' = queued \ {d}
  /\ target' = d
  /\ pc' = "listing"
  /\ UNCHANGED <<done, age, event, stop, work, deadline, signalling, clock,
                 buffer, rows>>

NothingDue ==
  /\ pc = "rescans"
  /\ stop \/ \A d \in Due : Cooling(d)
  /\ IF stop THEN UNCHANGED due ELSE PutOff(Due)
  /\ pc' = "roots"
  /\ UNCHANGED <<queued, done, age, event, stop, target, work, deadline,
                 signalling, clock, buffer, rows>>

\* The row agrees with the directory as it was when it was picked: what has
\* changed since may be missing in the listing.
CaughtUp == stale \ (IF again THEN {} ELSE {target})

\* RescanOne lists the whole directory and writes its row.  A directory that
\* had none cannot pass a difference on to its ancestors, so the row above is
\* out of date and that directory is queued.
ListingDone ==
  /\ pc = "listing"
  /\ ~stop
  /\ LET parent == ParentOf[target]
         rollUp == target \notin known /\ parent \in Watched
     IN  IF rollUp
         THEN /\ Enqueue(parent)
              /\ event' = (event \/ parent \notin queued)
              /\ stale' = CaughtUp \cup {parent}
              /\ unopened' = unopened \ {target, parent}
         ELSE /\ stale' = CaughtUp
              /\ unopened' = unopened \ {target}
              /\ UNCHANGED <<queued, due, event>>
  /\ known' = known \cup {target}
  /\ again' = FALSE
  /\ result' = "listed"
  /\ pc' = "post"
  /\ work' = 0
  /\ UNCHANGED <<done, age, stop, target, deadline, signalling, clock, buffer>>

\* Mutant: a listing that broke off is not tried again.
ListingFailsForGood ==
  /\ "listError" \in Faults
  /\ pc = "listing"
  /\ ~stop
  /\ stale' = stale \cup {target}
  /\ unopened' = unopened \ {target}
  /\ again' = FALSE
  /\ result' = "failed"
  /\ pc' = "post"
  /\ work' = 0
  /\ UNCHANGED <<queue, event, stop, known, target, deadline, signalling, clock,
                 buffer>>

\* The listing, or that of a new subdirectory, broke off: the row is kept and
\* the directory is queued again.
ListingFails ==
  /\ "listError" \in Faults
  /\ pc = "listing"
  /\ ~stop
  /\ Enqueue(target)
  /\ event' = (event \/ target \notin queued)
  /\ stale' = stale \cup {target}
  /\ unopened' = unopened \ {target}
  /\ again' = FALSE
  /\ result' = "failed"
  /\ pc' = "post"
  /\ work' = 0
  /\ UNCHANGED <<done, age, stop, known, target, deadline, signalling,
                 clock, buffer>>

\* The directory cannot be opened.  If that is because it is gone, its rows go;
\* after any other error the rescan is given up, and the row stays wrong until
\* the directory changes again or its root is scanned.
OpenFails ==
  /\ pc = "listing"
  /\ \/ /\ "gone" \in Faults
        /\ known' = {d \in known : <<d, target>> \notin IsUnder}
        /\ stale' = CaughtUp
        /\ unopened' = unopened \ {target}
        /\ result' = "gone"
     \/ /\ "openError" \in Faults
        /\ unopened' = IF again THEN unopened
                       ELSE unopened \cup (stale \cap {target})
        /\ result' = "unopened"
        /\ UNCHANGED <<known, stale>>
  /\ again' = FALSE
  /\ pc' = "post"
  /\ work' = 0
  /\ UNCHANGED <<queue, event, stop, target, deadline, signalling, clock, buffer>>

\* The stop event ends the listing: nothing is written.
ListingAborted ==
  /\ pc = "listing"
  /\ stop
  /\ pc' = "post"
  /\ work' = 0
  /\ UNCHANGED <<queue, event, stop, target, deadline, signalling, clock,
                 buffer, rows>>

\* When d was done, and the time before which an entry is cold, as the code
\* computes them in unsigned arithmetic.
DoneAt(ages, d) == uptime - ages[d]
Cutoff == (uptime - Keep) % Word

\* RescanOne has returned: the time is recorded, and cold entries are dropped
\* once there are too many.
RecordDone ==
  /\ pc = "post"
  /\ LET keys == done \cup {target}
         ages == [age EXCEPT ![target] = 0]
         cold == IF Cardinality(keys) > MaxDone
                 THEN {d \in keys : DoneAt(ages, d) < Cutoff}
                 ELSE {}
     IN  /\ done' = keys \ cold
         /\ age' = [d \in Dir |-> IF d \in cold THEN 0 ELSE ages[d]]
  /\ since' = [since EXCEPT ![target] = 0]
  /\ target' = NoDir
  /\ result' = "none"
  /\ pc' = "rescans"
  /\ UNCHANGED <<queued, due, event, stop, work, deadline, signalling, uptime,
                 buffer, known, stale, unopened, again>>

\* The rest of the pass: interval and reconciliation scans, see ScanEngine.
RootsDone ==
  /\ pc = "roots"
  /\ pc' = "top"
  /\ UNCHANGED <<queue, event, stop, target, work, deadline, signalling, clock,
                 buffer, rows>>

-----------------------------------------------------------------------------
(* The world.                                                              *)

\* Something in a watched directory changes, perhaps while it is listed.
Change(d) ==
  /\ d \in Watched
  /\ ~stop
  /\ stale' = stale \cup {d}
  /\ unopened' = unopened \ {d}
  /\ again' = (again \/ (pc = "listing" /\ target = d))
  /\ buffer' = buffer \cup {d}
  /\ UNCHANGED <<queue, event, stop, known, thread, deadline, signalling,
                 clock, result>>

\* What is not listed by now is lost: the queue is not saved (see ScanEngine
\* for what the next start does about it).
StopEngine ==
  /\ ~stop
  /\ stop' = TRUE
  /\ stale' = {}
  /\ unopened' = {}
  /\ again' = FALSE
  /\ UNCHANGED <<queue, event, known, thread, deadline, signalling, clock,
                 buffer, result>>

AtMost(n, bound) == IF n > bound THEN bound ELSE n
Before(n) == IF n = 0 THEN 0 ELSE n - 1

\* Time passes while the scheduler waits or works on a directory or a root.
Tick ==
  /\ \/ pc = "wait" /\ ~(event \/ deadline = 0) /\ work' = work
     \/ pc = "listing" /\ work < MaxWork /\ work' = work + 1
     \/ pc = "roots" /\ work' = work
  /\ ~stop
  /\ uptime' = AtMost(uptime + 1, Keep + 1)
  /\ age' = [d \in Dir |-> IF d \in done THEN AtMost(age[d] + 1, Keep + 1) ELSE age[d]]
  /\ since' = [d \in Dir |-> AtMost(since[d] + 1, Cooldown)]
  /\ due' = [d \in Dir |-> Before(due[d])]
  /\ deadline' = Before(deadline)
  /\ UNCHANGED <<queued, done, event, stop, pc, target, signalling, buffer,
                 rows>>

Scheduler ==
  \/ ComputeDeadline \/ Wake \/ Stopped \/ NothingDue
  \/ ListingDone \/ ListingFails \/ OpenFails \/ ListingAborted
  \/ RecordDone \/ RootsDone
  \/ \E d \in Dir : Pick(d)

Next ==
  \/ Scheduler
  \/ \E t \in Thread : Signal(t)
  \/ \E d \in Dir : Notified(d) \/ Requested(d) \/ Change(d)
  \/ StopEngine
  \/ Tick

Spec == Init /\ [][Next]_vars

\* Threads run, and time passes however busy the scheduler is; directories
\* need not change, users need not ask.  A batch of notifications is queued to
\* its last directory before the next one is read.
Fairness ==
  /\ WF_vars(Scheduler)
  /\ \A t \in Thread : WF_vars(Signal(t))
  /\ \A d \in Watched : SF_vars(Notified(d))
  /\ SF_vars(Tick)

FairSpec == Spec /\ Fairness

-----------------------------------------------------------------------------
(* Properties.                                                             *)

\* While the engine runs, a row that no longer agrees with its directory is on
\* its way to being rescanned: notified, queued, or being listed by a rescan
\* that was begun after the change.  That includes a directory that changed
\* while it was listed, one whose listing broke off, and the directory above
\* one that had no row (scanner.cpp, RescanOne: "without this, the new
\* directory's total silently never rolled up into its parents").  The one
\* exception is a directory that could not even be opened since it last
\* changed: see OpenFails.
NothingForgotten ==
  ~stop => \A d \in stale :
             \/ d \in buffer
             \/ d \in queued
             \/ pc = "listing" /\ target = d /\ ~again
             \/ d \in unopened

\* A directory is listed at most once per cooldown, however often and from
\* whichever thread it is queued (scanner.h, m_pendingRescans: "repeats within
\* the cooldown are deferred and merged into one scan").
CooldownHolds ==
  [][\A d \in Dir : target' = d /\ target # d => since[d] >= Cooldown]_vars

\* The scheduler never sleeps past the time of a queued directory: the wait
\* ends by then, or the event is set, or somebody is about to set it
\* (scanner.cpp, SchedulerThread: "Also wake in time for cooldown-deferred
\* rescans").
WakesInTime ==
  pc = "wait" =>
    \A d \in queued : deadline <= due[d] \/ event \/ signalling # {}

\* The rescan of d has just ended in one of these ways.
Ended(d, results) == pc = "post" /\ target = d /\ result \in results

\* Every change of a directory is followed by a listing of it from beginning to
\* end, or by finding that it is gone; a change in the midst of a listing by
\* another listing.  A listing that breaks off is tried again until one does
\* not (scanner.cpp, RescanOne: "Abandon this rescan and retry after the
\* cooldown"): only if they break off for ever is there none.  The exceptions
\* are the end of the engine and a directory that cannot be opened.
ChangeIsListed ==
  \A d \in Watched :
    \/ []<>Ended(d, {"failed"})
    \/ d \in stale \ unopened /\ target # d
         ~> Ended(d, {"listed", "gone", "unopened"}) \/ stop
=============================================================================
