----------------------------- MODULE TreeTotals -----------------------------
(***************************************************************************)
(* The totals of the directories below one watched root: how the rows of   *)
(* the database follow the disk.  The scheduler thread lists single        *)
(* directories (Scanner::RescanOne, one level, the totals of known         *)
(* subdirectories taken from their rows), adds the difference to the rows  *)
(* above (PropagateAncestorDeltas), and scans the whole tree now and then  *)
(* (ScanRoot); the watch thread reads change notifications and carries     *)
(* rows over when a directory is renamed (HandleDirectoryRename).  Both    *)
(* threads use the table one statement at a time.                          *)
(*                                                                         *)
(* When directories are rescanned is the subject of RescanQueue; here any  *)
(* queued one may be next.  A path is a sequence of names relative to the  *)
(* root.  A row is its total, which stands for all four of its numbers,    *)
(* its depth, and whether it was written before the running scan of the    *)
(* root began.  A listing shows what was there when it was opened.         *)
(***************************************************************************)
EXTENDS Integers, SequencesExt, FiniteSets

CONSTANTS
  Path,        \* paths below the root that may exist; <<>> is the root itself
  Initial,     \* directories that exist, and are known, at the beginning
  MaxSize,     \* bound: the size of the files in one directory
  MaxChanges,  \* bound: how often the disk changes
  Ops          \* \subseteq {"write", "make", "remove", "moveOut", "moveIn",
               \*   "rename", "listError"}: what happens to the disk

Name == UNION {Range(p) : p \in Path}

ASSUME PathAssumption ==
  /\ IsFiniteSet(Path) /\ Path \subseteq Seq(Name)
  /\ <<>> \in Initial
  /\ Initial \subseteq Path
  /\ \A p \in Path \ {<<>>} : Front(p) \in Path
  /\ \A p \in Initial \ {<<>>} : Front(p) \in Initial
ASSUME BoundAssumption == MaxSize \in Nat /\ MaxChanges \in Nat

VARIABLES
  own,       \* per existing directory, the size of the files directly in it
  changes,   \* how often the disk has changed
  events,    \* notifications the watch thread has not handled
  affected,  \* affectedDirs of the batch it is handling
  watch,     \* where it is
  rows,      \* dir_sizes
  queue,     \* m_pendingRescans
  job,       \* where the scheduler is
  stack,     \* ScanDirectory's frames, innermost first
  out,       \* rows it has not written yet
  trust      \* history: "full", "lost", or "healing"

disk    == <<own, changes>>
watcher == <<events, affected, watch>>
scan    == <<stack, out>>
vars    == <<disk, watcher, rows, queue, job, scan, trust>>

IsUnder(p, d) == IsPrefix(d, p)
Dirs == DOMAIN own
Known == DOMAIN rows
Without(f, S) == [p \in DOMAIN f \ S |-> f[p]]
Children(d) == {p \in Dirs : p # <<>> /\ Front(p) = d}

\* The size of everything below d, counted unit by unit.
TrueSize(d) ==
  Cardinality({u \in Dirs \X (1..MaxSize) : IsUnder(u[1], d) /\ u[2] <= own[u[1]]})

\* (The rows below a directory without a row begin at depth 0, and a rename of
\* what is above may take it below that.)
Row == [total : Nat, depth : Int, old : BOOLEAN]
NewRow(total, depth) == [total |-> total, depth |-> depth, old |-> FALSE]
NoRow == [total |-> -1, depth |-> 0, old |-> FALSE]
Find(p) == IF p \in Known THEN rows[p] ELSE NoRow

Idle == [at |-> "idle"]
Reading == [at |-> "read"]

\* A scan of the root has just been completed.
Init ==
  /\ own \in [Initial -> 0..MaxSize]
  /\ changes = 0
  /\ events = <<>> /\ affected = {} /\ watch = Reading
  /\ rows = [p \in Initial |-> NewRow(TrueSize(p), Len(p))]
  /\ queue = {}
  /\ job = Idle /\ stack = <<>> /\ out = <<>>
  /\ trust = "full"

-----------------------------------------------------------------------------
(* The table.                                                              *)

\* UpsertEntries, and UpsertEntry for one.
Upsert(new) ==
  rows' = [p \in Known \cup DOMAIN new |->
             IF p \in DOMAIN new THEN new[p] ELSE rows[p]]
UpsertEntry(d, row) == Upsert([p \in {d} |-> row])

RemoveByPrefix(d) == rows' = Without(rows, {p \in Known : IsUnder(p, d)})

\* GetChildDirs: the rows below d of the depth that its children have.
GetChildDirs(d, depth) ==
  {p \in Known : IsUnder(p, d) /\ p # d /\ rows[p].depth = depth + 1}

Relocated(p, from, to) == to \o SubSeq(p, Len(from) + 1, Len(p))

\* UPDATE OR REPLACE: a row already under the new name gives way.
RenamePrefix(from, to, depthDelta) ==
  LET moved == {p \in Known : IsUnder(p, from)}
      Target(p) == Relocated(p, from, to)
      targets == {Target(p) : p \in moved}
  IN  rows' = [q \in (Known \ moved) \cup targets |->
                 IF q \in targets
                 THEN LET p == CHOOSE p \in moved : Target(p) = q
                      IN  [rows[p] EXCEPT !.depth = @ + depthDelta]
                 ELSE rows[q]]

-----------------------------------------------------------------------------
(* RescanOne.                                                              *)

\* An entry is taken from the queue, and its row is read.
Begin(d) ==
  /\ job = Idle
  /\ d \in queue
  /\ queue' = queue \ {d}
  /\ job' = [at |-> "open", dir |-> d, old |-> Find(d),
             depth |-> Find(d).depth]
  /\ UNCHANGED <<disk, watcher, rows, scan, trust>>

\* What comes after the row of d has been written or removed: with a row from
\* before, the difference goes to the rows above.
Raise(d, old, total) ==
  IF old # NoRow /\ total # old.total /\ d # <<>>
  THEN job' = [at |-> "raise", dir |-> Front(d), delta |-> total - old.total]
  ELSE job' = Idle

\* The directory does not exist: it and everything below it is dropped.
Gone ==
  /\ job.at = "open"
  /\ job.dir \notin Dirs
  /\ RemoveByPrefix(job.dir)
  /\ Raise(job.dir, job.old, 0)
  /\ UNCHANGED <<disk, watcher, queue, scan, trust>>

Open ==
  /\ job.at = "open"
  /\ job.dir \in Dirs
  /\ job' = [at |-> "list", dir |-> job.dir, old |-> job.old,
             depth |-> job.depth, sum |-> own[job.dir],
             todo |-> Children(job.dir), live |-> Children(job.dir)]
  /\ UNCHANGED <<disk, watcher, rows, queue, scan, trust>>

\* It is there but cannot be opened, which also ends the rescan: nothing is
\* written, and nothing queued.  (The change it was for is lost.)
OpenFails ==
  /\ "listError" \in Ops
  /\ job.at = "open"
  /\ job' = Idle
  /\ trust' = "lost"
  /\ UNCHANGED <<disk, watcher, rows, queue, scan>>

\* A subdirectory that has a row contributes it: "deeper changes notify
\* separately".
AddKnown(c) ==
  /\ job.at = "list" /\ stack = <<>>
  /\ c \in job.todo
  /\ c \in Known
  /\ job' = [job EXCEPT !.sum = @ + rows[c].total, !.todo = @ \ {c}]
  /\ UNCHANGED <<disk, watcher, rows, queue, scan, trust>>

\* ScanDirectory opens c: one that is gone contributes nothing and gets no
\* row, one that cannot be read for any other reason spoils the result.
Frame(c, depth) ==
  {IF c \in Dirs
   THEN [dir |-> c, depth |-> depth, sum |-> own[c], todo |-> Children(c),
         found |-> TRUE, complete |-> TRUE]
   ELSE [dir |-> c, depth |-> depth, sum |-> 0, todo |-> {},
         found |-> FALSE, complete |-> TRUE]}
  \cup IF "listError" \in Ops
       THEN {[dir |-> c, depth |-> depth, sum |-> 0, todo |-> {},
              found |-> FALSE, complete |-> FALSE]}
       ELSE {}

\* ... one that has none is scanned deeply, once.  (Trust is lost if the depth
\* is not the directory's: 0 was taken for want of a row.)
AddUnknown(c) ==
  /\ job.at = "list" /\ stack = <<>>
  /\ c \in job.todo
  /\ c \notin Known
  /\ job' = [job EXCEPT !.todo = @ \ {c}]
  /\ \E frame \in Frame(c, job.depth + 1) : stack' = <<frame>>
  /\ trust' = IF job.depth = Len(job.dir) THEN trust ELSE "lost"
  /\ UNCHANGED <<disk, watcher, rows, queue, out>>

\* Mutant of GiveUp: the directory is not queued again.
Abandon ==
  /\ job' = Idle
  /\ stack' = <<>> /\ out' = <<>>
  /\ UNCHANGED <<disk, watcher, rows, queue, trust>>

\* The listing, or the scan of a new subdirectory, broke off: nothing more is
\* written, and the directory is queued again.
GiveUp ==
  /\ job' = Idle
  /\ queue' = queue \cup {job.dir}
  /\ stack' = <<>> /\ out' = <<>>
  /\ UNCHANGED <<disk, watcher, rows, trust>>

ListingFails ==
  /\ "listError" \in Ops
  /\ job.at = "list" /\ stack = <<>>
  /\ GiveUp

\* The children in the table are read, and those that the listing did not show
\* are dropped one by one.
ReadChildren ==
  /\ job.at = "list" /\ stack = <<>>
  /\ job.todo = {}
  /\ job' = [at |-> "purge", dir |-> job.dir, old |-> job.old,
             depth |-> job.depth, sum |-> job.sum,
             doomed |-> GetChildDirs(job.dir, job.depth) \ job.live]
  /\ UNCHANGED <<disk, watcher, rows, queue, scan, trust>>

Purge(c) ==
  /\ job.at = "purge"
  /\ c \in job.doomed
  /\ RemoveByPrefix(c)
  /\ job' = [job EXCEPT !.doomed = @ \ {c}]
  /\ UNCHANGED <<disk, watcher, queue, scan, trust>>

\* (Trust is lost over the depth as in AddUnknown.)  Without a row from before,
\* the parent is queued to add itself up again.
WriteRow ==
  /\ job.at = "purge" /\ job.doomed = {}
  /\ UpsertEntry(job.dir, NewRow(job.sum, job.depth))
  /\ Raise(job.dir, job.old, job.sum)
  /\ queue' = IF job.old = NoRow /\ job.dir # <<>>
              THEN queue \cup {Front(job.dir)} ELSE queue
  /\ trust' = IF job.depth = Len(job.dir) THEN trust ELSE "lost"
  /\ UNCHANGED <<disk, watcher, scan>>

\* PropagateAncestorDeltas reads the row of one directory above ...
ReadAbove ==
  /\ job.at = "raise"
  /\ job' = [at |-> "apply", dir |-> job.dir, delta |-> job.delta,
             row |-> Find(job.dir)]
  /\ UNCHANGED <<disk, watcher, rows, queue, scan, trust>>

\* Mutant of Clamped: a difference wraps below zero.
Unclamped(n) == n

Clamped(n) == IF n > 0 THEN n ELSE 0

\* Mutant of ApplyAbove: the difference stops at the parent.
ApplyToParent ==
  /\ job.at = "apply"
  /\ IF job.row = NoRow
     THEN UNCHANGED rows
     ELSE UpsertEntry(job.dir, [job.row EXCEPT
                                  !.total = Clamped(@ + job.delta)])
  /\ job' = Idle
  /\ UNCHANGED <<disk, watcher, queue, scan, trust>>

\* ... writes it back with the difference, if there is one, and goes on to
\* the next, up to the root.  (Trust is lost where the difference is cut off:
\* the rows further up take all of it.)
ApplyAbove ==
  /\ job.at = "apply"
  /\ IF job.row = NoRow
     THEN UNCHANGED rows
     ELSE UpsertEntry(job.dir, [job.row EXCEPT
                                  !.total = Clamped(@ + job.delta)])
  /\ job' = IF job.dir = <<>> THEN Idle
            ELSE [at |-> "raise", dir |-> Front(job.dir), delta |-> job.delta]
  /\ trust' = IF job.row # NoRow /\ job.row.total + job.delta < 0
              THEN "lost" ELSE trust
  /\ UNCHANGED <<disk, watcher, queue, scan>>

-----------------------------------------------------------------------------
(* ScanDirectory.                                                          *)

Top == Head(stack)

Descend(c) ==
  /\ stack # <<>>
  /\ c \in Top.todo
  /\ \E frame \in Frame(c, Top.depth + 1) :
       stack' = <<frame, [Top EXCEPT !.todo = @ \ {c}]>> \o Tail(stack)
  /\ UNCHANGED <<disk, watcher, rows, queue, job, out, trust>>

\* Rows are written in chunks.
FlushChunk ==
  /\ stack # <<>> /\ out # <<>>
  /\ Upsert(out)
  /\ out' = <<>>
  /\ UNCHANGED <<disk, watcher, queue, job, stack, trust>>

\* The outcome of the innermost directory: its listing may have been cut short.
Outcome == IF Top.found /\ "listError" \in Ops
           THEN {Top.complete, FALSE} ELSE {Top.complete}

\* Its row, unless it is incomplete or was not there, joins the others.
Measured(complete) ==
  IF complete /\ Top.found
  THEN [p \in DOMAIN out \cup {Top.dir} |->
          IF p = Top.dir THEN NewRow(Top.sum, Top.depth) ELSE out[p]]
  ELSE out

\* It is counted in the directory above, and an incomplete one makes that
\* incomplete too.
Ascend ==
  /\ Len(stack) > 1
  /\ Top.todo = {}
  /\ \E complete \in Outcome :
       LET above == stack[2]
       IN  /\ stack' = <<[above EXCEPT !.sum = @ + Top.sum,
                                       !.complete = @ /\ complete]>>
                         \o Tail(Tail(stack))
           /\ out' = Measured(complete)
  /\ UNCHANGED <<disk, watcher, rows, queue, job, trust>>

\* The scan of a new subdirectory ends.
ChildScanned ==
  /\ job.at = "list"
  /\ Len(stack) = 1
  /\ Top.todo = {}
  /\ TRUE \in Outcome
  /\ Upsert(Measured(TRUE))
  /\ job' = [job EXCEPT !.sum = @ + Top.sum]
  /\ stack' = <<>> /\ out' = <<>>
  /\ UNCHANGED <<disk, watcher, queue, trust>>

ChildScanFails ==
  /\ job.at = "list"
  /\ Len(stack) = 1
  /\ Top.todo = {}
  /\ FALSE \in Outcome
  /\ GiveUp

-----------------------------------------------------------------------------
(* ScanRoot.                                                               *)

Young(f) == [p \in DOMAIN f |-> [f[p] EXCEPT !.old = FALSE]]

\* Trust that was lost can be won back by a scan, if the watch thread is done
\* with what happened before.
BeginScanRoot ==
  /\ job = Idle
  /\ job' = [at |-> "root"]
  /\ \E frame \in Frame(<<>>, 0) : stack' = <<frame>>
  /\ rows' = [p \in Known |-> [rows[p] EXCEPT !.old = TRUE]]
  /\ trust' = IF trust = "lost" /\ events = <<>> /\ affected = {}
                   /\ watch = Reading
              THEN "healing" ELSE trust
  /\ UNCHANGED <<disk, watcher, queue, out>>

RootScanned ==
  /\ job.at = "root"
  /\ Len(stack) = 1
  /\ Top.todo = {}
  /\ TRUE \in Outcome
  /\ Upsert(Measured(TRUE))
  /\ job' = [at |-> "sweep"]
  /\ stack' = <<>> /\ out' = <<>>
  /\ UNCHANGED <<disk, watcher, queue, trust>>

\* RemoveStaleUnder: what this scan has not written is gone from the disk.
Sweep ==
  /\ job.at = "sweep"
  /\ rows' = Young(Without(rows, {p \in Known : p # <<>> /\ rows[p].old}))
  /\ job' = Idle
  /\ trust' = IF trust = "healing" THEN "full" ELSE trust
  /\ UNCHANGED <<disk, watcher, queue, scan>>

\* The rows below a directory that could not be read stay, and so do those of
\* chunks already written.  (Trust is lost then: they differ from what the rows
\* above have counted.)
RootScanFails ==
  /\ job.at = "root"
  /\ Len(stack) = 1
  /\ Top.todo = {}
  /\ FALSE \in Outcome
  /\ rows' = Young(rows)
  /\ job' = Idle
  /\ stack' = <<>> /\ out' = <<>>
  /\ trust' = IF trust = "healing" \/ (\E p \in Known : ~rows[p].old)
              THEN "lost" ELSE trust
  /\ UNCHANGED <<disk, watcher, queue>>

-----------------------------------------------------------------------------
(* The watch thread.                                                       *)

\* The directory that contains what changed.
HandleChange ==
  /\ watch = Reading
  /\ events # <<>> /\ Head(events).kind = "changed"
  /\ affected' = affected \cup {Head(events).dir}
  /\ events' = Tail(events)
  /\ UNCHANGED <<disk, watch, rows, queue, job, scan, trust>>

\* A pair of names.  If the new one is not a directory any more, it is treated
\* like that of a file.
HandleRename ==
  /\ watch = Reading
  /\ events # <<>> /\ Head(events).kind = "renamed"
  /\ LET from == Head(events).from
         to == Head(events).to
     IN  IF to \in Dirs
         THEN /\ watch' = [at |-> "lookup", from |-> from, to |-> to]
              /\ UNCHANGED affected
         ELSE /\ affected' = affected \cup {Front(from), Front(to)}
              /\ UNCHANGED watch
  /\ events' = Tail(events)
  /\ UNCHANGED <<disk, rows, queue, job, scan, trust>>

\* HandleDirectoryRename reads the row under the old name ...
RenameLookup ==
  /\ watch.at = "lookup"
  /\ watch' = [from |-> watch.from, to |-> watch.to,
               at |-> IF watch.from \in Known THEN "parent" ELSE "queue",
               depth |-> Find(watch.from).depth]
  /\ UNCHANGED <<disk, events, affected, rows, queue, job, scan, trust>>

\* ... and that of the new parent, without which the rows are dropped.
ParentLookup ==
  /\ watch.at = "parent"
  /\ LET parent == Find(Front(watch.to))
     IN  watch' = [from |-> watch.from, to |-> watch.to,
                   at |-> IF parent = NoRow THEN "drop" ELSE "carry",
                   delta |-> parent.depth + 1 - watch.depth]
  /\ UNCHANGED <<disk, events, affected, rows, queue, job, scan, trust>>

\* (Trust is lost during a scan of the root, which may have written the rows of
\* either name.)
RenameApply ==
  /\ watch.at \in {"carry", "drop"}
  /\ IF watch.at = "carry" THEN RenamePrefix(watch.from, watch.to, watch.delta)
     ELSE RemoveByPrefix(watch.from)
  /\ watch' = [watch EXCEPT !.at = "queue"]
  /\ trust' = IF job.at \in {"root", "sweep"} THEN "lost" ELSE trust
  /\ UNCHANGED <<disk, events, affected, queue, job, scan>>

RenameDone ==
  /\ watch.at = "queue"
  /\ queue' = queue \cup {Front(watch.from), Front(watch.to)}
  /\ watch' = Reading
  /\ UNCHANGED <<disk, events, affected, rows, job, scan, trust>>

\* At the end of a batch its directories are queued, one by one.
EndBatch ==
  /\ watch = Reading
  /\ affected # {}
  /\ watch' = [at |-> "batch"]
  /\ UNCHANGED <<disk, events, affected, rows, queue, job, scan, trust>>

QueueAffected(d) ==
  /\ watch.at = "batch"
  /\ d \in affected
  /\ queue' = queue \cup {d}
  /\ affected' = affected \ {d}
  /\ watch' = IF affected = {d} THEN Reading ELSE watch
  /\ UNCHANGED <<disk, events, rows, job, scan, trust>>

-----------------------------------------------------------------------------
(* The disk, and what is recorded of it.                                   *)

Changed(d) == [kind |-> "changed", dir |-> d]
Renamed(from, to) == [kind |-> "renamed", from |-> from, to |-> to]

\* Directories the scheduler has taken in hand.
InHand ==
  (IF job.at \in {"open", "list", "purge", "raise", "apply"}
   THEN {job.dir} ELSE {})
    \cup {stack[i].dir : i \in 1..Len(stack)} \cup DOMAIN out

\* Directories whose rescan is on its way.
OnItsWay ==
  queue \cup affected
    \cup {e.dir : e \in {e \in Range(events) : e.kind = "changed"}}

\* Directories whose rename the watch thread has not finished with.
Renaming ==
  UNION {{e.from, e.to} : e \in {e \in Range(events) : e.kind = "renamed"}}
    \cup (IF watch.at \in {"lookup", "parent", "carry", "drop", "queue"}
          THEN {watch.from, watch.to} ELSE {})

Forgotten(d) == \A p \in Known \cup InHand \cup Renaming : ~IsUnder(p, d)
AtRest(d) == \A p \in OnItsWay \cup InHand \cup Renaming : ~IsUnder(p, d)

\* One change of the disk, with its notification.  Rescans of single
\* directories follow it if followed; else only a scan of the root helps: a
\* directory takes a name whose row still stands, one without a row goes, or
\* one is renamed while it is listed or a rescan of its old or of its new name
\* is on its way.
DiskChanges(op, event, followed) ==
  /\ op \in Ops
  /\ changes < MaxChanges
  /\ changes' = changes + 1
  /\ events' = Append(events, event)
  /\ trust' = IF followed /\ trust = "full" THEN "full" ELSE "lost"
  /\ UNCHANGED <<affected, watch, rows, queue, job, scan>>

Write(d) ==
  /\ d \in Dirs
  /\ \E n \in 0..MaxSize \ {own[d]} : own' = [own EXCEPT ![d] = n]
  /\ DiskChanges("write", Changed(d), TRUE)

Appear(p, n) ==
  /\ p \in Path \ Dirs
  /\ p # <<>> /\ Front(p) \in Dirs
  /\ own' = [d \in Dirs \cup {p} |-> IF d = p THEN n ELSE own[d]]

Make(p) ==
  /\ Appear(p, 0)
  /\ DiskChanges("make", Changed(Front(p)), Forgotten(p))

MoveIn(p) ==
  /\ \E n \in 0..MaxSize : Appear(p, n)
  /\ DiskChanges("moveIn", Changed(Front(p)), Forgotten(p))

Delete(p) ==
  /\ p \in Dirs \ {<<>>} /\ Children(p) = {} /\ own[p] = 0
  /\ own' = Without(own, {p})
  /\ DiskChanges("remove", Changed(Front(p)), p \in Known)

MoveOut(p) ==
  /\ p \in Dirs \ {<<>>}
  /\ own' = Without(own, {q \in Dirs : IsUnder(q, p)})
  /\ DiskChanges("moveOut", Changed(Front(p)), p \in Known)

Rename(from, to) ==
  /\ from \in Dirs \ {<<>>} /\ to \in Path \ Dirs
  /\ Front(to) \in Dirs /\ ~IsUnder(to, from)
  /\ \A p \in Path : IsUnder(p, from) => Relocated(p, from, to) \in Path
  /\ LET moved == {p \in Dirs : IsUnder(p, from)}
         arrived == {Relocated(p, from, to) : p \in moved}
     IN  own' = [q \in (Dirs \ moved) \cup arrived |->
                   IF q \in Dirs THEN own[q] ELSE own[Relocated(q, to, from)]]
  /\ DiskChanges("rename", Renamed(from, to),
                 /\ \A p \in Path : IsUnder(from, p) => p \in Known
                 /\ AtRest(from) /\ AtRest(to) /\ Forgotten(to))

Scheduler ==
  \/ Gone \/ Open \/ OpenFails \/ ListingFails \/ ReadChildren \/ WriteRow
  \/ ReadAbove \/ ApplyAbove \/ FlushChunk \/ Ascend \/ ChildScanned \/ ChildScanFails
  \/ BeginScanRoot \/ RootScanned \/ Sweep \/ RootScanFails
  \/ \E p \in Path : Begin(p) \/ AddKnown(p) \/ AddUnknown(p) \/ Descend(p)
                    \/ Purge(p)

Watcher ==
  \/ HandleChange \/ HandleRename \/ RenameLookup \/ ParentLookup
  \/ RenameApply \/ RenameDone \/ EndBatch \/ \E d \in Path : QueueAffected(d)

Disk ==
  \E p \in Path : \/ Write(p) \/ Make(p) \/ MoveIn(p) \/ Delete(p) \/ MoveOut(p)
                  \/ \E q \in Path : Rename(p, q)

Next == Scheduler \/ Watcher \/ Disk

Spec == Init /\ [][Next]_vars

-----------------------------------------------------------------------------
(* Properties.                                                             *)

\* Every variable keeps its type: rows and frames belong to paths of the tree,
\* no total is negative (the code's are unsigned), and the writer of a row has
\* the depth it read.
TypeOK ==
  /\ Dirs \subseteq Path /\ <<>> \in Dirs
  /\ own \in [Dirs -> 0..MaxSize]
  /\ changes \in 0..MaxChanges
  /\ \A i \in 1..Len(events) :
       \/ events[i] \in [kind : {"changed"}, dir : Path]
       \/ events[i] \in [kind : {"renamed"}, from : Path, to : Path]
  /\ affected \subseteq Path
  /\ watch.at \in {"read", "lookup", "parent", "carry", "drop", "queue", "batch"}
  /\ Known \subseteq Path
  /\ rows \in [Known -> Row]
  /\ queue \subseteq Path
  /\ job.at \in {"idle", "open", "list", "purge", "raise", "apply", "root", "sweep"}
  /\ job.at = "list" => job.todo \subseteq job.live /\ job.live \subseteq Path
  /\ \A i \in 1..Len(stack) :
       stack[i] \in [dir : Path, depth : Int, sum : Nat, todo : SUBSET Path,
                     found : BOOLEAN, complete : BOOLEAN]
  /\ DOMAIN out \subseteq Path
  /\ \A q \in DOMAIN out : out[q] \in Row
  /\ trust \in {"full", "lost", "healing"}

\* Both threads have done what the changes so far gave them to do.
Quiet ==
  /\ events = <<>> /\ affected = {} /\ watch = Reading
  /\ queue = {} /\ job = Idle

\* Every directory has a row, with the size of what is below it.
Exact == \A p \in Dirs : p \in Known /\ rows[p].total = TrueSize(p)

\* When all notifications have been worked off, every row is the sum of its
\* subtree: single listings, differences added to the rows above, purges, deep
\* scans of new directories, carried-over rows and scans of the root, in any
\* order and interrupted anywhere, add up.  What trust leaves out is named
\* where it is lost; a scan of the root wins it back.
TotalsSettle == Quiet /\ trust = "full" => Exact

\* The same of any changes: "parent folders stay accurate without waiting for
\* the next full scan" (RescanOne's comment).  A rescan pending under the old
\* name of a renamed directory breaks it.
TotalsFollow == Quiet => Exact

\* "The immediate child directories that exist in the database: children have
\* depth = parentDepth + 1" (GetChildDirs).  The depth that RescanOne gives to a
\* directory without a row breaks it.
ChildrenFound ==
  Quiet => \A d \in Known : GetChildDirs(d, rows[d].depth)
                             = {p \in Known : p # <<>> /\ Front(p) = d}
=============================================================================
