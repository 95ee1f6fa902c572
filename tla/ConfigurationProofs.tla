------------------------ MODULE ConfigurationProofs ------------------------
(***************************************************************************)
(* Proofs about Configuration, for any names, directories, watchers, saves *)
(* and renames.                                                            *)
(*                                                                         *)
(* CoverageIsBacked is not inductive: it lets a watcher answer for its old *)
(* and its new name at once.  Backed says for which of the two it does:    *)
(* the old one until the flag has been carried over, the new one from then *)
(* on.  That the lists agree in the end (ListsAgree, RowsFollow) speaks of *)
(* moments of rest; Agree says what holds in between.                      *)
(***************************************************************************)
EXTENDS Configuration, TLAPS

\* The name a watcher answers for.
Covered(i) == IF watcher[i].pc = "assign" THEN watcher[i].to ELSE watcher[i].root

\* A thread that notifies has marked its root; a rename has a new name.
Phases ==
  \A i \in Used :
    /\ watcher[i].pc \notin {"opened", "lost"} => watcher[i].marked
    /\ Renaming(i) => watcher[i].to \in Name /\ watcher[i].to # watcher[i].root

Backed == \A n \in realtime : \E i \in Used : watcher[i].marked /\ n = Covered(i)

\* What RestartWatchers compares are watchers.
IInv == TypeOK /\ Phases /\ Backed /\ todo \subseteq Used

USE DEF lists, client, ipc, history, files

-----------------------------------------------------------------------------

\* A used slot holds a watcher.
LEMMA UsedType ==
  ASSUME TypeOK, NEW i \in Used
  PROVE  i \in Slot /\ watcher[i] \in Watchers
BY DEF TypeOK, Used, NoWatcher

\* What replacing one name in a list leaves.
LEMMA ReplacedType ==
  ASSUME NEW S, NEW list \in SUBSET S, NEW old, NEW new \in S
  PROVE  Replaced(list, old, new) \in SUBSET S
BY DEF Replaced

LEMMA LoadType == TypeOK => LoadConfig \subseteq Name
BY NameAssumption DEF TypeOK, LoadConfig

LEMMA OpenedType ==
  ASSUME NEW n \in Name, NEW d \in Dir
  PROVE  Opened(n, d) \in Watchers /\ Opened(n, d).pc = "opened"
BY DEF Opened, Watchers

LEMMA DirectoryType ==
  ASSUME NEW n \in Present
  PROVE  DirectoryAt(n) \in Dir
BY DEF Present, DirectoryAt

LEMMA InitInvariant == Init => IInv
<1> SUFFICES ASSUME Init PROVE IInv
  OBVIOUS
<1>1. /\ at \in [Dir -> Name] /\ \A d, e \in Dir : at[d] = at[e] => d = e
      /\ busy \subseteq Dir
  BY DirAssumption DEF Init
<1>2. registry \subseteq Name
  BY BoundAssumption DEF Init
<1>3. memory \subseteq Name
  BY <1>2, NameAssumption DEF Init, LoadConfig
<1>4. watcher \in [Slot -> {NoWatcher} \cup Watchers]
  BY <1>1, OpenedType DEF Init
<1>5. TypeOK
  <2>1. renames \in 0..MaxRenames /\ saves \in 0..MaxSaves
    BY BoundAssumption DEF Init
  <2>2. /\ rows \subseteq Name /\ realtime \subseteq Name /\ dialog \subseteq Name
        /\ wanted \subseteq Name /\ kept \subseteq Name /\ absent \subseteq Name
        /\ loaded \subseteq Name /\ todo \subseteq Slot
    BY <1>3 DEF Init
  <2>3. ui = "idle" /\ server = "idle" /\ lost \in BOOLEAN /\ raced \in BOOLEAN
    BY DEF Init
  <2>4. QED
    BY <1>1, <1>2, <1>3, <1>4, <2>1, <2>2, <2>3 DEF TypeOK
<1>6. \A i \in Slot : watcher[i] = NoWatcher \/ watcher[i].pc = "opened"
  BY <1>1, OpenedType DEF Init
<1>7. Phases
  BY <1>6 DEF Phases, Used, Renaming, NoWatcher
<1>8. Backed
  BY DEF Init, Backed
<1>9. QED
  BY <1>5, <1>7, <1>8 DEF Init, IInv

\* Steps that leave the watchers alone and cover nothing more.
LEMMA Untouched ==
  ASSUME Phases, Backed, watcher' = watcher, realtime' \subseteq realtime
  PROVE  Phases' /\ Backed' /\ Used' = Used
BY DEF Phases, Backed, Used, Renaming, Covered

\* A step of one watcher does nothing to the others.
LEMMA OneWatcher ==
  ASSUME TypeOK, Phases, Backed, TypeOK', NEW i \in Slot,
         \A j \in Slot : j # i => watcher'[j] = watcher[j],
         i \in Used' =>
           /\ watcher'[i].pc \notin {"opened", "lost"} => watcher'[i].marked
           /\ Renaming(i)' => watcher'[i].to \in Name /\ watcher'[i].to # watcher'[i].root,
         \A n \in realtime' :
           \/ i \in Used' /\ watcher'[i].marked /\ n = Covered(i)'
           \/ n \in realtime /\ (i \in Used /\ watcher[i].marked => n # Covered(i))
  PROVE  Phases' /\ Backed' /\ Used \ {i} \subseteq Used'
<1>1. \A j \in Slot \ {i} : j \in Used' <=> j \in Used
  BY DEF Used
<1>2. Used \subseteq Slot /\ Used' \subseteq Slot
  BY DEF Used
<1>3. Phases'
  BY <1>1, <1>2 DEF Phases, Renaming
<1>4. ASSUME NEW n \in realtime'
      PROVE  \E j \in Used' : watcher'[j].marked /\ n = Covered(j)'
  <2>1. CASE i \in Used' /\ watcher'[i].marked /\ n = Covered(i)'
    BY <2>1
  <2>2. CASE n \in realtime /\ (i \in Used /\ watcher[i].marked => n # Covered(i))
    <3>1. PICK j \in Used : watcher[j].marked /\ n = Covered(j)
      BY <2>2 DEF Backed
    <3>2. j # i /\ j \in Slot
      BY <2>2, <3>1, <1>2
    <3>3. j \in Used' /\ watcher'[j] = watcher[j]
      BY <1>1, <3>1, <3>2
    <3>4. QED
      BY <3>1, <3>3 DEF Covered
  <2>3. QED
    BY <1>4, <2>1, <2>2
<1>5. QED
  BY <1>1, <1>2, <1>3, <1>4 DEF Backed

-----------------------------------------------------------------------------
(* The steps.                                                              *)

LEMMA UserStep == IInv /\ User => IInv'
<1> SUFFICES ASSUME IInv, User PROVE IInv'
  OBVIOUS
<1> USE DEF IInv
<1>1. ASSUME NEW d \in Dir, NEW n \in Name, RenameDir(d, n)
      PROVE  IInv'
  <2>1. at' \in [Dir -> Name] /\ renames' \in 0..MaxRenames
    BY <1>1, BoundAssumption DEF RenameDir, TypeOK
  <2>2. \A e, f \in Dir : at'[e] = at'[f] => e = f
    BY <1>1 DEF RenameDir, TypeOK, Present
  <2>3. TypeOK'
    BY <1>1, <2>1, <2>2 DEF RenameDir, TypeOK
  <2>4. QED
    BY <1>1, <2>3, Untouched DEF RenameDir
<1>2. CASE OpenDialog
  <2>1. TypeOK'
    BY <1>2, LoadType DEF OpenDialog, TypeOK
  <2>2. QED
    BY <1>2, <2>1, Untouched DEF OpenDialog
<1>3. CASE Save
  <2>1. PICK list \in SUBSET Name :
          /\ registry' = list /\ dialog' = list
          /\ wanted' = IF list = {} THEN {Default} ELSE list
          /\ kept' = kept \cap wanted'
    BY <1>3 DEF Save, Edited
  <2>2. wanted' \subseteq Name /\ kept' \subseteq Name
    BY <2>1, NameAssumption DEF TypeOK
  <2>3. saves' \in 0..MaxSaves /\ raced' \in BOOLEAN /\ ui' = "send"
        /\ UNCHANGED <<memory, rows, realtime, lost, absent, ipc, files, watcher>>
    BY <1>3, BoundAssumption DEF Save, TypeOK
  <2>4. TypeOK'
    BY <2>1, <2>2, <2>3 DEF TypeOK
  <2>5. QED
    BY <2>3, <2>4, Untouched
<1>4. ASSUME NEW d \in Dir, Work(d)
      PROVE  IInv'
  <2>1. TypeOK'
    BY <1>4 DEF Work, TypeOK
  <2>2. QED
    BY <1>4, <2>1, Untouched DEF Work
<1>5. QED
  BY <1>1, <1>2, <1>3, <1>4 DEF User

LEMMA CommandStep ==
  /\ IInv
  /\ Ui \/ ReadList \/ AssignList \/ Prune \/ Diff \/ ReloadDone \/ \E i \in Slot : Keep(i)
  => IInv'
<1> SUFFICES ASSUME IInv, Ui \/ ReadList \/ AssignList \/ Prune \/ Diff \/ ReloadDone
                                \/ \E i \in Slot : Keep(i)
             PROVE  IInv'
  OBVIOUS
<1> USE DEF IInv
<1>1. CASE Ui
  BY <1>1, Untouched DEF Ui, Deliver, GiveUp, TypeOK
<1>2. CASE ReadList \/ Diff
  <2>1. loaded' \subseteq Name
    BY <1>2, LoadType DEF ReadList, Diff
  <2>2. todo' \subseteq Slot
    BY <1>2 DEF ReadList, Diff, TypeOK, Used
  <2>3. TypeOK'
    BY <1>2, <2>1, <2>2 DEF ReadList, Diff, TypeOK
  <2>4. QED
    BY <1>2, <2>3, Untouched DEF ReadList, Diff
<1>3. CASE AssignList \/ Prune \/ ReloadDone
  <2>1. TypeOK'
    BY <1>3 DEF AssignList, Prune, ReloadDone, TypeOK
  <2>2. QED
    BY <1>3, <2>1, Untouched DEF AssignList, Prune, ReloadDone
<1>4. ASSUME NEW i \in Slot, Keep(i)
      PROVE  IInv'
  <2>1. TypeOK'
    BY <1>4 DEF Keep, TypeOK
  <2>2. QED
    BY <1>4, <2>1, Untouched DEF Keep
<1>5. QED
  BY <1>1, <1>2, <1>3, <1>4

\* The new watchers are well-typed if the one that changed is.
LEMMA WatcherType ==
  ASSUME TypeOK, NEW i \in Slot, NEW w \in {NoWatcher} \cup Watchers,
         watcher' = [watcher EXCEPT ![i] = w]
  PROVE  /\ watcher' \in [Slot -> {NoWatcher} \cup Watchers]
         /\ watcher'[i] = w
         /\ \A j \in Slot : j # i => watcher'[j] = watcher[j]
BY DEF TypeOK

LEMMA RestartStep ==
  ASSUME IInv, NEW i \in Slot,
         BeginStop(i) \/ EndStop(i) \/ \E n \in Name : StartOne(n, i)
  PROVE  IInv'
<1> USE DEF IInv
<1>1. CASE BeginStop(i)
  <2> DEFINE w == [watcher[i] EXCEPT !.stop = TRUE]
  <2>1. i \in Used /\ watcher[i] \in Watchers
    BY <1>1, UsedType DEF BeginStop
  <2>2. w \in Watchers /\ watcher' = [watcher EXCEPT ![i] = w]
    BY <1>1, <2>1 DEF BeginStop, Watchers
  <2>3. TypeOK'
    BY <1>1, <2>2, WatcherType DEF BeginStop, TypeOK
  <2>4. watcher'[i] = w /\ (\A j \in Slot : j # i => watcher'[j] = watcher[j])
        /\ w.pc = watcher[i].pc /\ w.marked = watcher[i].marked
        /\ w.to = watcher[i].to /\ w.root = watcher[i].root
    BY <2>1, <2>2, WatcherType DEF Watchers
  <2>5. i \in Used' /\ Covered(i)' = Covered(i) /\ (Renaming(i)' <=> Renaming(i))
    BY <2>1, <2>4 DEF Used, Covered, Renaming
  <2>6. Phases' /\ Backed' /\ Used \ {i} \subseteq Used'
    BY <1>1, <2>1, <2>3, <2>4, <2>5, OneWatcher DEF BeginStop, Phases
  <2>7. QED
    BY <1>1, <2>3, <2>5, <2>6 DEF BeginStop
<1>2. CASE EndStop(i)
  <2>1. i \in Used /\ watcher[i] \in Watchers
    BY <1>2, UsedType DEF EndStop
  <2>2. watcher'[i] = NoWatcher /\ (\A j \in Slot : j # i => watcher'[j] = watcher[j])
        /\ watcher' \in [Slot -> {NoWatcher} \cup Watchers]
    BY <1>2, WatcherType DEF EndStop
  <2>3. TypeOK'
    BY <1>2, <2>2 DEF EndStop, TypeOK
  <2>4. i \notin Used' /\ Covered(i) = watcher[i].root
    BY <1>2, <2>2 DEF EndStop, Used, NoWatcher, Covered, Renaming
  <2>5. \A n \in realtime' : n \in realtime /\ (watcher[i].marked => n # Covered(i))
    BY <1>2, <2>4 DEF EndStop
  <2>6. Phases' /\ Backed' /\ Used \ {i} \subseteq Used'
    BY <2>2, <2>3, <2>4, <2>5, OneWatcher
  <2>7. QED
    BY <1>2, <2>3, <2>6 DEF EndStop
<1>3. ASSUME NEW n \in Name, StartOne(n, i)
      PROVE  IInv'
  <2>1. CASE n \in Present
    <3> DEFINE w == Opened(n, DirectoryAt(n))
    <3>1. w \in Watchers /\ w.pc = "opened"
      BY <2>1, DirectoryType, OpenedType
    <3>2. watcher' = [watcher EXCEPT ![i] = w]
      BY <1>3, <2>1 DEF StartOne
    <3>3. watcher'[i] = w /\ (\A j \in Slot : j # i => watcher'[j] = watcher[j])
          /\ watcher' \in [Slot -> {NoWatcher} \cup Watchers]
      BY <3>1, <3>2, WatcherType
    <3>4. TypeOK'
      BY <1>3, <2>1, <3>3 DEF StartOne, TypeOK
    <3>5. i \notin Used /\ ~Renaming(i)'
      BY <1>3, <3>1, <3>3 DEF StartOne, Renaming
    <3>6. Phases' /\ Backed' /\ Used \ {i} \subseteq Used'
      BY <1>3, <3>1, <3>3, <3>4, <3>5, OneWatcher DEF StartOne
    <3>7. QED
      BY <1>3, <3>4, <3>5, <3>6 DEF StartOne
  <2>2. CASE n \notin Present
    <3>1. TypeOK'
      BY <1>3, <2>2 DEF StartOne, TypeOK
    <3>2. QED
      BY <1>3, <2>2, <3>1, Untouched DEF StartOne
  <2>3. QED
    BY <2>1, <2>2
<1>4. QED
  BY <1>1, <1>2, <1>3

\* The old name of a root is covered until the flag is carried over, the new
\* one from then on.
LEMMA WatchStep ==
  ASSUME IInv, NEW i \in Slot, WatchThread(i) \/ LoseConnection(i)
  PROVE  IInv'
<1> USE DEF IInv
<1>1. i \in Used /\ watcher[i] \in Watchers
  BY UsedType
  DEF WatchThread, Arm, LoseConnection, Reconnect, NoticeRename, SaveRename, CarryOver,
      AssignRoot
<1>2. CASE Arm(i)
  <2> DEFINE w == [watcher[i] EXCEPT !.pc = "watching", !.marked = TRUE]
  <2>1. w \in Watchers /\ watcher' = [watcher EXCEPT ![i] = w]
    BY <1>1, <1>2 DEF Arm, Watchers
  <2>2. watcher'[i] = w /\ (\A j \in Slot : j # i => watcher'[j] = watcher[j])
        /\ watcher' \in [Slot -> {NoWatcher} \cup Watchers]
    BY <2>1, WatcherType
  <2>3. w.pc = "watching" /\ w.marked = TRUE /\ w.root = watcher[i].root /\ w.root \in Name
    BY <1>1 DEF Watchers
  <2>4. TypeOK'
    BY <1>2, <2>2, <2>3 DEF Arm, TypeOK
  <2>5. i \in Used' /\ Covered(i)' = watcher[i].root /\ Covered(i) = watcher[i].root /\ ~Renaming(i)'
    BY <1>2, <2>2, <2>3 DEF Arm, Used, Covered, Renaming
  <2>6. Phases' /\ Backed' /\ Used \ {i} \subseteq Used'
    BY <1>2, <2>2, <2>3, <2>4, <2>5, OneWatcher DEF Arm
  <2>7. QED
    BY <1>2, <2>4, <2>5, <2>6 DEF Arm
<1>3. CASE NoticeRename(i)
  <2> DEFINE new == at[watcher[i].dir]
             w == [watcher[i] EXCEPT !.pc = "save", !.to = new,
                                     !.saved = Replaced(memory, watcher[i].root, new)]
  <2>1. new \in Name /\ watcher[i].root \in Name
    BY <1>1 DEF TypeOK, Watchers
  <2>2. Replaced(memory, watcher[i].root, new) \subseteq Name
        /\ Replaced(wanted, watcher[i].root, new) \subseteq Name
        /\ Replaced(kept, watcher[i].root, new) \subseteq Name
    BY <2>1 DEF TypeOK, Replaced
  <2>3. w \in Watchers /\ watcher' = [watcher EXCEPT ![i] = w]
    BY <1>1, <1>3, <2>1, <2>2 DEF NoticeRename, Watchers
  <2>4. watcher'[i] = w /\ (\A j \in Slot : j # i => watcher'[j] = watcher[j])
        /\ watcher' \in [Slot -> {NoWatcher} \cup Watchers]
    BY <2>3, WatcherType
  <2>5. w.pc = "save" /\ w.marked = watcher[i].marked /\ w.root = watcher[i].root /\ w.to = new
    BY <1>1 DEF Watchers
  <2>6. memory' \subseteq Name /\ wanted' \subseteq Name /\ kept' \subseteq Name
        /\ raced' \in BOOLEAN
    BY <1>3, <2>2 DEF NoticeRename, TypeOK
  <2>7. TypeOK'
    BY <1>3, <2>4, <2>6 DEF NoticeRename, TypeOK
  <2>8. i \in Used' /\ Covered(i)' = watcher[i].root /\ Covered(i) = watcher[i].root
        /\ watcher[i].root # new /\ watcher[i].pc = "watching"
    BY <1>3, <2>4, <2>5 DEF NoticeRename, Used, Covered
  <2>9. Phases' /\ Backed' /\ Used \ {i} \subseteq Used'
    <3>1. watcher[i].marked /\ realtime' = realtime
      BY <1>1, <1>3, <2>8 DEF NoticeRename, Phases
    <3>2. watcher'[i].marked /\ watcher'[i].to = new /\ watcher'[i].root = watcher[i].root
      BY <2>4, <2>5, <3>1
    <3>3. QED
      BY <2>1, <2>4, <2>7, <2>8, <3>1, <3>2, OneWatcher
  <2>10. QED
    BY <1>3, <2>7, <2>8, <2>9 DEF NoticeRename
<1>4. CASE SaveRename(i)
  <2> DEFINE w == [watcher[i] EXCEPT !.pc = "carry"]
  <2>1. w \in Watchers /\ watcher' = [watcher EXCEPT ![i] = w]
    BY <1>1, <1>4 DEF SaveRename, Watchers
  <2>2. watcher'[i] = w /\ (\A j \in Slot : j # i => watcher'[j] = watcher[j])
        /\ watcher' \in [Slot -> {NoWatcher} \cup Watchers]
    BY <2>1, WatcherType
  <2>3. w.pc = "carry" /\ w.marked = watcher[i].marked /\ w.root = watcher[i].root
        /\ w.to = watcher[i].to /\ watcher[i].saved \subseteq Name
    BY <1>1 DEF Watchers
  <2>4. TypeOK'
    BY <1>4, <2>2, <2>3 DEF SaveRename, TypeOK
  <2>5. i \in Used' /\ Covered(i)' = Covered(i) /\ Renaming(i) /\ watcher[i].marked
    BY <1>1, <1>4, <2>2, <2>3 DEF SaveRename, Used, Covered, Renaming, Phases
  <2>6. Phases' /\ Backed' /\ Used \ {i} \subseteq Used'
    BY <1>1, <1>4, <2>2, <2>3, <2>4, <2>5, OneWatcher DEF SaveRename, Phases
  <2>7. QED
    BY <1>4, <2>4, <2>5, <2>6 DEF SaveRename
<1>5. CASE CarryOver(i)
  <2> DEFINE w == [watcher[i] EXCEPT !.pc = "assign"]
  <2>1. w \in Watchers /\ watcher' = [watcher EXCEPT ![i] = w]
    BY <1>1, <1>5 DEF CarryOver, Watchers
  <2>2. watcher'[i] = w /\ (\A j \in Slot : j # i => watcher'[j] = watcher[j])
        /\ watcher' \in [Slot -> {NoWatcher} \cup Watchers]
    BY <2>1, WatcherType
  <2>3. w.pc = "assign" /\ w.marked = watcher[i].marked /\ w.root = watcher[i].root
        /\ w.to = watcher[i].to
    BY <1>1 DEF Watchers
  <2>4. Renaming(i) /\ watcher[i].marked /\ watcher[i].to \in Name
        /\ watcher[i].to # watcher[i].root /\ Covered(i) = watcher[i].root
    BY <1>1, <1>5 DEF CarryOver, Renaming, Phases, Covered
  <2>5. rows' \subseteq Name /\ realtime' \subseteq Name
    BY <1>5, <2>4 DEF CarryOver, TypeOK, Replaced
  <2>6. TypeOK'
    BY <1>5, <2>2, <2>5 DEF CarryOver, TypeOK
  <2>7. i \in Used' /\ Covered(i)' = watcher[i].to
    BY <2>2, <2>3 DEF Used, Covered
  <2>8. \A n \in realtime' : n = watcher[i].to \/ (n \in realtime /\ n # watcher[i].root)
    BY <1>5 DEF CarryOver, Replaced
  <2>9. Phases' /\ Backed' /\ Used \ {i} \subseteq Used'
    BY <1>1, <2>2, <2>3, <2>4, <2>6, <2>7, <2>8, OneWatcher
  <2>10. QED
    BY <1>5, <2>6, <2>7, <2>9 DEF CarryOver
<1>6. CASE AssignRoot(i)
  <2> DEFINE w == [watcher[i] EXCEPT !.pc = "watching", !.root = watcher[i].to,
                                     !.to = NoName, !.saved = {}]
  <2>1. watcher[i].to \in Name /\ watcher[i].marked /\ Covered(i) = watcher[i].to
    BY <1>1, <1>6 DEF AssignRoot, Renaming, Phases, Covered
  <2>2. w \in Watchers /\ watcher' = [watcher EXCEPT ![i] = w]
    BY <1>1, <1>6, <2>1 DEF AssignRoot, Watchers
  <2>3. watcher'[i] = w /\ (\A j \in Slot : j # i => watcher'[j] = watcher[j])
        /\ watcher' \in [Slot -> {NoWatcher} \cup Watchers]
    BY <2>2, WatcherType
  <2>4. w.pc = "watching" /\ w.marked = watcher[i].marked /\ w.root = watcher[i].to
    BY <1>1 DEF Watchers
  <2>5. TypeOK'
    BY <1>6, <2>3 DEF AssignRoot, TypeOK
  <2>6. i \in Used' /\ Covered(i)' = Covered(i) /\ ~Renaming(i)'
    BY <2>1, <2>3, <2>4 DEF Used, Covered, Renaming
  <2>7. Phases' /\ Backed' /\ Used \ {i} \subseteq Used'
    BY <1>1, <1>6, <2>1, <2>3, <2>4, <2>5, <2>6, OneWatcher DEF AssignRoot
  <2>8. QED
    BY <1>6, <2>5, <2>6, <2>7 DEF AssignRoot
<1>7. CASE LoseConnection(i)
  <2> DEFINE w == [watcher[i] EXCEPT !.pc = "lost", !.marked = FALSE]
  <2>1. w \in Watchers /\ watcher' = [watcher EXCEPT ![i] = w]
    BY <1>1, <1>7 DEF LoseConnection, Watchers
  <2>2. watcher'[i] = w /\ (\A j \in Slot : j # i => watcher'[j] = watcher[j])
        /\ watcher' \in [Slot -> {NoWatcher} \cup Watchers]
    BY <2>1, WatcherType
  <2>3. w.pc = "lost" /\ Covered(i) = watcher[i].root
    BY <1>1, <1>7 DEF LoseConnection, Watchers, Covered
  <2>4. TypeOK'
    BY <1>7, <2>2 DEF LoseConnection, TypeOK
  <2>5. i \in Used' /\ ~Renaming(i)'
    BY <2>2, <2>3 DEF Used, Renaming
  <2>6. \A n \in realtime' : n \in realtime /\ (watcher[i].marked => n # Covered(i))
    BY <1>7, <2>3 DEF LoseConnection
  <2>7. Phases' /\ Backed' /\ Used \ {i} \subseteq Used'
    BY <2>2, <2>3, <2>4, <2>5, <2>6, OneWatcher
  <2>8. QED
    BY <1>7, <2>4, <2>5, <2>7 DEF LoseConnection
<1>8. CASE Reconnect(i)
  <2> DEFINE w == [watcher[i] EXCEPT !.pc = "opened",
                                     !.dir = DirectoryAt(watcher[i].root)]
  <2>1. w \in Watchers /\ watcher' = [watcher EXCEPT ![i] = w]
    BY <1>1, <1>8, DirectoryType DEF Reconnect, Watchers
  <2>2. watcher'[i] = w /\ (\A j \in Slot : j # i => watcher'[j] = watcher[j])
        /\ watcher' \in [Slot -> {NoWatcher} \cup Watchers]
    BY <2>1, WatcherType
  <2>3. w.pc = "opened" /\ w.marked = watcher[i].marked /\ w.root = watcher[i].root
    BY <1>1 DEF Watchers
  <2>4. TypeOK'
    BY <1>8, <2>2 DEF Reconnect, TypeOK
  <2>5. i \in Used' /\ ~Renaming(i)' /\ Covered(i)' = Covered(i)
    BY <1>8, <2>2, <2>3 DEF Reconnect, Used, Renaming, Covered
  <2>6. Phases' /\ Backed' /\ Used \ {i} \subseteq Used'
    BY <1>1, <1>8, <2>2, <2>3, <2>4, <2>5, OneWatcher DEF Reconnect
  <2>7. QED
    BY <1>8, <2>4, <2>5, <2>6 DEF Reconnect
<1>9. QED
  BY <1>2, <1>3, <1>4, <1>5, <1>6, <1>7, <1>8 DEF WatchThread

-----------------------------------------------------------------------------
(* The theorems.                                                           *)

\* The types, the phases of a watcher and what stands behind each flag are kept
\* by every step (scanner.cpp, SetWatcherActive; dir_watcher.cpp, Stop).
THEOREM Inductive == Spec => []IInv
<1>1. IInv /\ UNCHANGED vars => IInv'
  <2> SUFFICES ASSUME IInv, UNCHANGED vars PROVE IInv'
    OBVIOUS
  <2>1. TypeOK'
    BY DEF vars, IInv, TypeOK
  <2>2. QED
    BY <2>1, Untouched DEF vars, IInv
<1>2. IInv /\ Next => IInv'
  BY UserStep, CommandStep, RestartStep, WatchStep DEF Next, Server, Ui
<1>3. QED
  BY InitInvariant, <1>1, <1>2, PTL DEF Spec

\* The types of the variables: a watcher in the middle of a rename included.
THEOREM TypeCorrect == Spec => []TypeOK
BY Inductive, PTL DEF IInv

\* Real-time coverage, which suspends interval scans, is claimed for no name
\* without a watcher behind it, however reloads, stops and renames interleave,
\* those that lose an edit (raced) included.
THEOREM Coverage == Spec => []CoverageIsBacked
<1>1. IInv => CoverageIsBacked
  BY DEF IInv, Backed, Covered, CoverageIsBacked
<1>2. QED
  BY Inductive, <1>1, PTL

-----------------------------------------------------------------------------
(* The lists agree.  As long as no rename raced with an edit, a rename and *)
(* a reload exclude each other, so the list that is on its way, or that a  *)
(* rename is about to save, is what the user wants.                        *)

\* Nothing has been edited since the IPC thread read the list.
Fresh == ui = "idle" /\ ~lost

\* The name a watcher has when its rename is done.
Target(i) == IF Renaming(i) THEN watcher[i].to ELSE watcher[i].root

\* The engine knows the new name and the rows do not.
Carrying(i) == watcher[i].pc \in {"save", "carry"}

OneRename ==
  /\ EditPending => \A i \in Used : ~Renaming(i)
  /\ \A i, j \in Used : Renaming(i) /\ Renaming(j) => i = j

Distinct == \A i, j \in Used : Target(i) = Target(j) => i = j

Reloading ==
  /\ EditPending => LoadConfig = wanted
  /\ server = "assign" => kept \subseteq loaded /\ (Fresh => loaded = LoadConfig)
  /\ server = "prune" => kept \subseteq memory
  /\ Fresh /\ server \in {"prune", "diff", "compare"} => memory = LoadConfig
  /\ Fresh /\ server \in {"diff", "compare"} => rows \subseteq memory
  /\ server = "compare" => \A i \in Used \ todo : watcher[i].root \notin loaded
  /\ Fresh /\ server = "compare" =>
       loaded \subseteq memory /\ \A i \in Used \ todo : watcher[i].root \in memory

Settled ==
  ~EditPending =>
    /\ memory = wanted /\ memory # {}
    /\ \A i \in Used : Target(i) \in memory
    /\ \A i \in Used : watcher[i].pc = "save" => watcher[i].saved = memory
    /\ (\A i \in Used : watcher[i].pc # "save") => LoadConfig = memory
    /\ (\A i \in Used : ~Carrying(i)) => rows \subseteq memory

KeptRows ==
  /\ kept \subseteq wanted
  /\ (\A i \in Used : ~Carrying(i)) => kept \subseteq rows
  /\ \A i \in Used : Carrying(i) =>
       /\ kept \subseteq Replaced(rows, watcher[i].root, watcher[i].to)
       /\ Replaced(rows, watcher[i].root, watcher[i].to) \subseteq memory

Agree == ~raced => OneRename /\ Distinct /\ Reloading /\ Settled /\ KeptRows

LEMMA LoadNonempty == LoadConfig # {}
BY DEF LoadConfig

LEMMA InitAgree == Init => Agree
<1> SUFFICES ASSUME Init PROVE Agree
  OBVIOUS
<1>1. \A i \in Used : watcher[i].pc = "opened"
  BY OpenedType DEF Init, Used, NoWatcher, Opened
<1>2. \A i \in Used : ~Renaming(i) /\ ~Carrying(i) /\ Target(i) = watcher[i].root
  BY <1>1 DEF Renaming, Carrying, Target
<1>3. /\ memory = LoadConfig /\ wanted = memory /\ rows = memory /\ kept = rows
      /\ server = "idle" /\ ui = "idle" /\ ~lost
      /\ \A i, j \in Used : watcher[i].root = watcher[j].root => i = j
      /\ \A i \in Used : watcher[i].root \in memory
  BY DEF Init
<1>4. OneRename /\ Distinct /\ Reloading
  BY <1>2, <1>3 DEF OneRename, Distinct, Reloading, EditPending
<1>5. Settled /\ KeptRows
  BY <1>1, <1>2, <1>3, LoadNonempty DEF Settled, KeptRows
<1> QED
  BY <1>4, <1>5 DEF Agree

\* Steps that leave the watchers alone.
LEMMA AgreeListSteps ==
  ASSUME TypeOK, Agree,
         \/ \E d \in Dir, n \in Name : RenameDir(d, n)
         \/ \E d \in Dir : Work(d)
         \/ OpenDialog \/ Save \/ Ui
         \/ ReadList \/ AssignList \/ Prune \/ Diff \/ ReloadDone
         \/ \E i \in Slot : Keep(i)
         \/ UNCHANGED vars
  PROVE  Agree'
<1> SUFFICES ASSUME ~raced'
             PROVE  (OneRename /\ Distinct /\ Reloading /\ Settled /\ KeptRows)'
  BY DEF Agree
<1>1. /\ watcher' = watcher /\ ~raced
  <2>1. CASE Save
    BY <2>1 DEF Save
  <2>2. \/ OpenDialog \/ Ui \/ UNCHANGED vars
        \/ \E d \in Dir : Work(d) \/ \E n \in Name : RenameDir(d, n)
        => watcher' = watcher /\ ~raced
    BY DEF RenameDir, Work, OpenDialog, Ui, Deliver, GiveUp, vars
  <2>3. CASE ReadList \/ AssignList \/ Prune \/ Diff \/ ReloadDone \/ \E i \in Slot : Keep(i)
    BY <2>3 DEF ReadList, AssignList, Prune, Diff, ReloadDone, Keep
  <2> QED
    BY <2>1, <2>2, <2>3
<1>2. OneRename /\ Distinct /\ Reloading /\ Settled /\ KeptRows
  BY <1>1 DEF Agree
<1>3. /\ Used' = Used
      /\ \A i : /\ Renaming(i)' = Renaming(i) /\ Target(i)' = Target(i)
                /\ Carrying(i)' = Carrying(i) /\ watcher'[i] = watcher[i]
  BY <1>1 DEF Used, Renaming, Target, Carrying
<1>4. Distinct'
  BY <1>2, <1>3 DEF Distinct
<1>5. \A i \in Used : Carrying(i) => Renaming(i)
  BY DEF Carrying, Renaming
<1>6. CASE \/ UNCHANGED vars \/ OpenDialog
           \/ \E d \in Dir : Work(d) \/ \E n \in Name : RenameDir(d, n)
  <2>1. UNCHANGED <<lists, ui, lost, ipc, history>>
    BY <1>6 DEF vars, OpenDialog, Work, RenameDir
  <2>2. EditPending' = EditPending /\ Fresh' = Fresh /\ LoadConfig' = LoadConfig
    BY <2>1 DEF EditPending, Fresh, LoadConfig
  <2>3. OneRename'
    BY <1>2, <1>3, <2>2 DEF OneRename
  <2>4. Reloading'
    BY <1>2, <1>3, <2>1, <2>2 DEF Reloading
  <2>5. Settled' /\ KeptRows'
    BY <1>2, <1>3, <2>1, <2>2 DEF Settled, KeptRows, Replaced
  <2> QED
    BY <1>4, <2>3, <2>4, <2>5
<1>7. CASE Save
  <2>1. /\ ui = "idle" /\ ui' = "send" /\ EditPending' /\ ~Fresh'
        /\ \A i \in Slot : ~Renaming(i)
        /\ wanted' = LoadConfig' /\ kept' = kept \cap wanted'
        /\ UNCHANGED <<memory, rows, server, loaded, todo>>
    BY <1>7 DEF Save, EditPending, Fresh, LoadConfig
  <2>2. \A i \in Used : ~Renaming(i) /\ ~Carrying(i)
    BY <1>5, <2>1 DEF Used
  <2>3. OneRename' /\ Settled'
    BY <1>3, <2>1, <2>2 DEF OneRename, Settled
  <2>4. Reloading'
    BY <1>2, <1>3, <2>1 DEF Reloading
  <2>5. KeptRows'
    BY <1>2, <1>3, <2>1, <2>2 DEF KeptRows
  <2> QED
    BY <1>4, <2>3, <2>4, <2>5
<1>8. CASE Ui
  <2>1. /\ EditPending /\ EditPending' /\ (~Fresh' \/ server' = "load")
        /\ LoadConfig' = LoadConfig
        /\ UNCHANGED <<memory, rows, wanted, kept, loaded, todo>>
        /\ server' = server \/ server' = "load"
    BY <1>8 DEF Ui, Deliver, GiveUp, EditPending, Fresh, LoadConfig
  <2>2. OneRename' /\ Settled'
    BY <1>2, <1>3, <2>1 DEF OneRename, Settled
  <2>3. Reloading'
    BY <1>2, <1>3, <2>1 DEF Reloading
  <2>4. KeptRows'
    BY <1>2, <1>3, <2>1 DEF KeptRows, Replaced
  <2> QED
    BY <1>4, <2>2, <2>3, <2>4
<1>9. CASE ReadList \/ AssignList \/ Prune \/ Diff \/ \E i \in Slot : Keep(i)
  <2>1. /\ EditPending /\ EditPending' /\ LoadConfig' = LoadConfig
        /\ UNCHANGED <<wanted, kept>> /\ \A i \in Used : ~Renaming(i) /\ ~Carrying(i)
    BY <1>2, <1>5, <1>9
    DEF ReadList, AssignList, Prune, Diff, Keep, EditPending, LoadConfig, OneRename
  <2>2. OneRename' /\ Settled'
    BY <1>3, <2>1 DEF OneRename, Settled
  <2>3. kept \subseteq wanted /\ wanted = LoadConfig /\ kept \subseteq rows
    BY <1>2, <2>1 DEF KeptRows, Reloading
  <2>4. CASE ReadList
    <3>1. Reloading'
      BY <1>3, <2>1, <2>3, <2>4 DEF ReadList, Reloading, Fresh
    <3>2. KeptRows'
      BY <1>3, <2>1, <2>3, <2>4 DEF ReadList, KeptRows
    <3> QED
      BY <1>4, <2>2, <3>1, <3>2
  <2>5. CASE AssignList
    <3>1. Reloading'
      BY <1>2, <1>3, <2>1, <2>3, <2>5 DEF AssignList, Reloading, Fresh
    <3>2. KeptRows'
      BY <1>3, <2>1, <2>3, <2>5 DEF AssignList, KeptRows
    <3> QED
      BY <1>4, <2>2, <3>1, <3>2
  <2>6. CASE Prune
    <3>1. Reloading'
      BY <1>2, <1>3, <2>1, <2>3, <2>6 DEF Prune, Reloading, Fresh
    <3>2. kept \subseteq memory
      BY <1>2, <2>6 DEF Prune, Reloading
    <3>3. KeptRows'
      BY <1>3, <2>1, <2>3, <2>6, <3>2 DEF Prune, KeptRows
    <3> QED
      BY <1>4, <2>2, <3>1, <3>3
  <2>7. CASE Diff
    <3>1. Reloading'
      BY <1>2, <1>3, <2>1, <2>3, <2>7 DEF Diff, Reloading, Fresh
    <3>2. KeptRows'
      BY <1>3, <2>1, <2>3, <2>7 DEF Diff, KeptRows
    <3> QED
      BY <1>4, <2>2, <3>1, <3>2
  <2>8. ASSUME NEW i \in Slot, Keep(i) PROVE Reloading' /\ KeptRows'
    <3>1. Reloading'
      BY <1>2, <1>3, <2>1, <2>3, <2>8 DEF Keep, Reloading, Fresh
    <3>2. KeptRows'
      BY <1>3, <2>1, <2>3, <2>8 DEF Keep, KeptRows
    <3> QED
      BY <3>1, <3>2
  <2> QED
    BY <1>4, <1>9, <2>2, <2>4, <2>5, <2>6, <2>7, <2>8
<1>10. CASE ReloadDone
  <2>1. /\ EditPending /\ LoadConfig' = LoadConfig
        /\ (EditPending' <=> ~Fresh') /\ (Fresh' <=> Fresh)
        /\ UNCHANGED <<memory, rows, loaded, todo, wanted, kept>>
        /\ server = "compare" /\ server' = "idle" /\ todo = {}
        /\ \A i \in Used : ~Renaming(i) /\ ~Carrying(i)
    <3>1. /\ UNCHANGED <<memory, rows, loaded, todo, wanted, kept, registry, ui, lost>>
          /\ server = "compare" /\ server' = "idle" /\ todo = {}
          /\ ui \in {"idle", "send"}
      BY <1>10 DEF ReloadDone, TypeOK
    <3>2. EditPending /\ LoadConfig' = LoadConfig
      BY <3>1 DEF EditPending, LoadConfig
    <3>3. (EditPending' <=> ~Fresh') /\ (Fresh' <=> Fresh)
      BY <3>1 DEF EditPending, Fresh
    <3>4. \A i \in Used : ~Renaming(i) /\ ~Carrying(i)
      BY <1>2, <1>5, <3>2 DEF OneRename
    <3> QED
      BY <3>1, <3>2, <3>3, <3>4
  <2>2. OneRename'
    BY <1>3, <2>1 DEF OneRename
  <2>3. Reloading'
    BY <1>2, <1>3, <2>1 DEF Reloading
  <2>4. KeptRows'
    BY <1>2, <1>3, <2>1 DEF KeptRows
  <2>5. ASSUME Fresh
        PROVE  /\ memory = wanted /\ memory # {} /\ LoadConfig = memory /\ rows \subseteq memory
               /\ \A i \in Used : watcher[i].root \in memory
    BY <1>2, <2>1, <2>5, LoadNonempty DEF Reloading
  <2>6. Settled'
    BY <1>3, <2>1, <2>5 DEF Settled, Target, Renaming
  <2> QED
    BY <1>4, <2>2, <2>3, <2>4, <2>6
<1> QED
  BY <1>6, <1>7, <1>8, <1>9, <1>10

\* What a step of one watcher leaves as it was.
LEMMA OtherWatchers ==
  ASSUME TypeOK, TypeOK', NEW i \in Slot,
         \A j \in Slot : j # i => watcher'[j] = watcher[j]
  PROVE  \A j \in Slot : j # i =>
           /\ j \in Used' <=> j \in Used
           /\ Renaming(j)' <=> Renaming(j)
           /\ Carrying(j)' <=> Carrying(j)
           /\ Target(j)' = Target(j)
           /\ watcher'[j] = watcher[j]
BY DEF Used, Renaming, Carrying, Target

LEMMA AgreeRestart ==
  ASSUME IInv, IInv', Agree, NEW i \in Slot,
         BeginStop(i) \/ EndStop(i) \/ \E n \in Name : StartOne(n, i)
  PROVE  Agree'
<1> SUFFICES ASSUME ~raced'
             PROVE  (OneRename /\ Distinct /\ Reloading /\ Settled /\ KeptRows)'
  BY DEF Agree
<1>1. /\ ~raced /\ EditPending /\ EditPending' /\ server = "compare" /\ server' = "compare"
      /\ LoadConfig' = LoadConfig /\ (Fresh' <=> Fresh)
      /\ UNCHANGED <<memory, rows, wanted, kept>>
  BY DEF BeginStop, EndStop, StartOne, EditPending, LoadConfig, Fresh
<1>2. OneRename /\ Distinct /\ Reloading /\ Settled /\ KeptRows
  BY <1>1 DEF Agree
<1>3. \A j \in Used : ~Renaming(j) /\ ~Carrying(j) /\ Target(j) = watcher[j].root
  BY <1>1, <1>2 DEF OneRename, Target, Renaming, Carrying
<1>4. TypeOK /\ TypeOK' /\ Used \subseteq Slot /\ Used' \subseteq Slot
  BY DEF IInv, Used
<1>5. Settled'
  BY <1>1 DEF Settled
  \* It is enough that nothing is renamed afterwards and that the roots agree.
<1>6. ASSUME \A j \in Used' : ~Renaming(j)' /\ Target(j)' = watcher'[j].root,
             \A j, k \in Used' : watcher'[j].root = watcher'[k].root => j = k,
             \A j \in Used' \ todo' : watcher'[j].root \notin loaded',
             Fresh => /\ loaded' \subseteq memory
                      /\ \A j \in Used' \ todo' : watcher'[j].root \in memory
      PROVE  (OneRename /\ Distinct /\ Reloading /\ Settled /\ KeptRows)'
  <2>1. \A j \in Used' : ~Carrying(j)'
    BY <1>6 DEF Renaming, Carrying
  <2>2. OneRename' /\ Distinct'
    BY <1>6 DEF OneRename, Distinct
  <2>3. Reloading'
    BY <1>1, <1>2, <1>6 DEF Reloading
  <2>4. KeptRows'
    BY <1>1, <1>2, <1>3, <2>1 DEF KeptRows
  <2> QED
    BY <1>5, <2>2, <2>3, <2>4
<1>7. CASE BeginStop(i)
  <2>1. UNCHANGED <<loaded, todo>> /\ i \in Used /\ watcher[i] \in Watchers
        /\ watcher' = [watcher EXCEPT ![i].stop = TRUE]
    BY <1>4, <1>7, UsedType DEF BeginStop, IInv
  <2>2. \A j \in Slot : watcher'[j].pc = watcher[j].pc
    BY <1>4, <2>1 DEF TypeOK, Watchers
  <2>3. \A j \in Slot : watcher'[j].root = watcher[j].root
    BY <1>4, <2>1 DEF TypeOK, Watchers
  <2>4. Used' = Used /\ \A j \in Used : ~Renaming(j)'
    BY <1>3, <1>4, <2>2 DEF Used, Renaming
  <2>5. \A j \in Used' : Target(j)' = watcher'[j].root
    BY <2>4 DEF Target
  <2>6. \A j, k \in Used' : watcher'[j].root = watcher'[k].root => j = k
    BY <1>2, <1>3, <1>4, <2>3, <2>4 DEF Distinct
  <2>7. \A j \in Used' \ todo' : watcher'[j].root \notin loaded'
    BY <1>1, <1>2, <1>4, <2>1, <2>3, <2>4 DEF Reloading
  <2>8. Fresh => /\ loaded' \subseteq memory
                 /\ \A j \in Used' \ todo' : watcher'[j].root \in memory
    BY <1>1, <1>2, <1>4, <2>1, <2>3, <2>4 DEF Reloading
  <2> QED
    BY <1>6, <2>4, <2>5, <2>6, <2>7, <2>8
<1>8. CASE EndStop(i)
  <2>1. loaded' = loaded /\ todo' = todo \ {i} /\ i \in todo
        /\ watcher' = [watcher EXCEPT ![i] = NoWatcher]
    BY <1>8 DEF EndStop
  <2>2. watcher'[i] = NoWatcher /\ \A j \in Slot : j # i => watcher'[j] = watcher[j]
    BY <1>4, <2>1 DEF TypeOK
  <2>3. Used' = Used \ {i}
    BY <1>4, <2>2, OtherWatchers DEF Used, NoWatcher
  <2>4. \A j \in Used' : ~Renaming(j)' /\ Target(j)' = watcher'[j].root
                         /\ watcher'[j].root = watcher[j].root /\ j \in Used
    BY <1>3, <1>4, <2>2, <2>3, OtherWatchers
  <2>5. \A j, k \in Used' : watcher'[j].root = watcher'[k].root => j = k
    BY <1>2, <1>3, <2>4 DEF Distinct
  <2>6. \A j \in Used' \ todo' : watcher'[j].root \notin loaded'
    BY <1>1, <1>2, <2>1, <2>3, <2>4 DEF Reloading
  <2>7. Fresh => /\ loaded' \subseteq memory
                 /\ \A j \in Used' \ todo' : watcher'[j].root \in memory
    BY <1>1, <1>2, <2>1, <2>3, <2>4 DEF Reloading
  <2> QED
    BY <1>6, <2>4, <2>5, <2>6, <2>7
<1>9. ASSUME NEW n \in Name, StartOne(n, i)
      PROVE  (OneRename /\ Distinct /\ Reloading /\ Settled /\ KeptRows)'
  <2>1. loaded' = loaded \ {n} /\ n \in loaded /\ todo = {} /\ todo' = {} /\ i \notin Used
    BY <1>9 DEF StartOne
  <2>2. /\ \A j \in Used : watcher[j].root \notin loaded
        /\ Fresh => loaded \subseteq memory /\ \A j \in Used : watcher[j].root \in memory
        /\ \A j, k \in Used : watcher[j].root = watcher[k].root => j = k
    BY <1>1, <1>2, <1>3, <2>1 DEF Reloading, Distinct
  <2>3. CASE n \in Present
    <3>1. PICK d \in Dir : watcher' = [watcher EXCEPT ![i] = Opened(n, d)]
      BY <1>9, <2>3, DirectoryType DEF StartOne
    <3>2. watcher'[i] = Opened(n, d) /\ \A j \in Slot : j # i => watcher'[j] = watcher[j]
      BY <1>4, <3>1 DEF TypeOK
    <3>3. /\ Used' = Used \cup {i} /\ watcher'[i].root = n
          /\ ~Renaming(i)' /\ Target(i)' = n
      BY <1>4, <3>2, OtherWatchers DEF Used, Opened, Renaming, Target
    <3>4. \A j \in Used : ~Renaming(j)' /\ Target(j)' = watcher'[j].root
                          /\ watcher'[j].root = watcher[j].root
      BY <1>3, <1>4, <2>1, <3>2, OtherWatchers
    <3>5. \A j, k \in Used' : watcher'[j].root = watcher'[k].root => j = k
      BY <2>1, <2>2, <3>3, <3>4
    <3>6. \A j \in Used' \ todo' : watcher'[j].root \notin loaded'
      BY <2>1, <2>2, <3>3, <3>4
    <3>7. Fresh => /\ loaded' \subseteq memory
                   /\ \A j \in Used' \ todo' : watcher'[j].root \in memory
      BY <2>1, <2>2, <3>3, <3>4
    <3> QED
      BY <1>6, <3>3, <3>4, <3>5, <3>6, <3>7
  <2>4. CASE n \notin Present
    <3>1. watcher' = watcher
      BY <1>9, <2>4 DEF StartOne
    <3>2. Used' = Used /\ \A j \in Used : ~Renaming(j)' /\ Target(j)' = watcher'[j].root
      BY <1>3, <3>1 DEF Used, Renaming, Target
    <3> QED
      BY <1>6, <2>1, <2>2, <3>1, <3>2
  <2> QED
    BY <2>3, <2>4
<1> QED
  BY <1>7, <1>8, <1>9

LEMMA AgreeWatch ==
  ASSUME IInv, IInv', Agree, NEW i \in Slot, WatchThread(i) \/ LoseConnection(i)
  PROVE  Agree'
<1> SUFFICES ASSUME ~raced'
             PROVE  (OneRename /\ Distinct /\ Reloading /\ Settled /\ KeptRows)'
  BY DEF Agree
<1>1. /\ ~raced
      /\ UNCHANGED <<ui, lost, server, loaded, todo>>
      /\ (Fresh' <=> Fresh) /\ (EditPending' <=> EditPending)
  <2>1. (raced => raced') /\ UNCHANGED <<ui, lost, server, loaded, todo>>
    <3>1. CASE NoticeRename(i)
      BY <3>1 DEF NoticeRename
    <3>2. CASE \/ Arm(i) \/ LoseConnection(i) \/ Reconnect(i)
               \/ SaveRename(i) \/ CarryOver(i) \/ AssignRoot(i)
      BY <3>2 DEF Arm, LoseConnection, Reconnect, SaveRename, CarryOver, AssignRoot
    <3> QED
      BY <3>1, <3>2 DEF WatchThread
  <2> QED
    BY <2>1 DEF Fresh, EditPending
<1>2. OneRename /\ Distinct /\ Reloading /\ Settled /\ KeptRows
  BY <1>1 DEF Agree
<1>3. TypeOK /\ TypeOK' /\ Used \subseteq Slot /\ Used' \subseteq Slot
  BY DEF IInv, Used
<1>4. i \in Used /\ watcher[i] \in Watchers
  BY <1>3, UsedType
  DEF WatchThread, Arm, LoseConnection, Reconnect, NoticeRename, SaveRename, CarryOver,
      AssignRoot
<1>5. ASSUME NEW w, watcher' = [watcher EXCEPT ![i] = w]
      PROVE  /\ watcher'[i] = w
             /\ \A j \in Slot : j # i =>
                  /\ j \in Used' <=> j \in Used
                  /\ Renaming(j)' <=> Renaming(j)
                  /\ Carrying(j)' <=> Carrying(j)
                  /\ Target(j)' = Target(j)
                  /\ watcher'[j] = watcher[j]
  <2>1. watcher'[i] = w /\ \A j \in Slot : j # i => watcher'[j] = watcher[j]
    BY <1>3, <1>5 DEF TypeOK
  <2> QED
    BY <1>3, <2>1, OtherWatchers
  \* A watcher that is not in the middle of a rename, before and after.
<1>6. CASE Arm(i) \/ LoseConnection(i) \/ Reconnect(i)
  <2>1. PICK w : /\ watcher' = [watcher EXCEPT ![i] = w]
                 /\ {watcher[i].pc, w.pc} \subseteq {"opened", "watching", "lost"}
                 /\ w.root = watcher[i].root
                 /\ UNCHANGED <<registry, memory, rows, wanted, kept>>
    <3>1. CASE Arm(i)
      BY <1>4, <3>1 DEF Arm, Watchers
    <3>2. CASE LoseConnection(i)
      <4> DEFINE v == [watcher[i] EXCEPT !.pc = "lost", !.marked = FALSE]
      <4>1. v.pc = "lost" /\ v.root = watcher[i].root
        BY <1>4 DEF Watchers
      <4>2. watcher' = [watcher EXCEPT ![i] = v] /\ watcher[i].pc \in {"opened", "watching"}
            /\ UNCHANGED <<registry, memory, rows, wanted, kept>>
        BY <3>2 DEF LoseConnection
      <4> QED
        BY <4>1, <4>2
    <3>3. CASE Reconnect(i)
      BY <1>4, <3>3 DEF Reconnect, Watchers
    <3> QED
      BY <1>6, <3>1, <3>2, <3>3
  <2>2. Used' = Used
    BY <1>3, <1>4, <1>5, <2>1 DEF Used
  <2>3. \A j \in Used : /\ Renaming(j)' <=> Renaming(j)
                        /\ Carrying(j)' <=> Carrying(j)
                        /\ Target(j)' = Target(j) /\ watcher'[j].root = watcher[j].root
                        /\ watcher'[j].pc = "save" <=> watcher[j].pc = "save"
                        /\ Renaming(j) => watcher'[j] = watcher[j]
    BY <1>3, <1>5, <2>1 DEF Renaming, Carrying, Target
  <2>4. OneRename' /\ Distinct'
    BY <1>1, <1>2, <2>2, <2>3 DEF OneRename, Distinct
  <2>5. LoadConfig' = LoadConfig
    BY <2>1 DEF LoadConfig
  <2>6. Reloading'
    BY <1>1, <1>2, <2>1, <2>2, <2>3, <2>5 DEF Reloading
  <2>7. \A j \in Used : Carrying(j) \/ watcher[j].pc = "save" => watcher'[j] = watcher[j]
    BY <2>3 DEF Carrying, Renaming
  <2>8. Settled'
    BY <1>1, <1>2, <2>1, <2>2, <2>3, <2>5, <2>7 DEF Settled
  <2>9. KeptRows'
    BY <1>2, <2>1, <2>2, <2>3, <2>7 DEF KeptRows, Replaced
  <2> QED
    BY <2>4, <2>6, <2>8, <2>9
<1>7. CASE NoticeRename(i)
  <2> DEFINE old == watcher[i].root
             new == at[watcher[i].dir]
             w == [watcher[i] EXCEPT !.pc = "save", !.to = new,
                                     !.saved = Replaced(memory, old, new)]
  <2>1. /\ watcher' = [watcher EXCEPT ![i] = w]
        /\ ~EditPending /\ new \notin memory /\ \A j \in Slot : ~Renaming(j)
        /\ memory' = Replaced(memory, old, new) /\ wanted' = Replaced(wanted, old, new)
        /\ kept' = Replaced(kept, old, new) /\ rows' = rows /\ registry' = registry
    BY <1>7 DEF NoticeRename
  <2>2. w.pc = "save" /\ w.root = old /\ w.to = new /\ w.saved = memory'
    BY <1>4, <2>1 DEF Watchers
  <2> HIDE DEF w
  <2>3. Used' = Used /\ watcher'[i] = w
    <3>1. watcher'[i] = w
      BY <1>5, <2>1
    <3>2. \A j \in Slot : j # i => (j \in Used' <=> j \in Used)
      BY <1>5, <2>1
    <3>3. i \in Used'
      BY <1>4, <2>2, <3>1 DEF Used
    <3> QED
      BY <1>3, <1>4, <3>1, <3>2, <3>3
  <2>4. Renaming(i)' /\ Carrying(i)' /\ Target(i)' = new /\ Target(i) = old
    BY <2>1, <2>2, <2>3 DEF Renaming, Carrying, Target
  <2>5. \A j \in Used : j # i => ~Renaming(j)' /\ ~Carrying(j)' /\ Target(j)' = Target(j)
                                 /\ watcher'[j].pc # "save"
    <3>1. ASSUME NEW j \in Used, j # i
          PROVE  ~Renaming(j)' /\ Target(j)' = Target(j)
      BY <1>3, <1>5, <2>1, <3>1
    <3> QED
      BY <3>1 DEF Renaming, Carrying
  <2>6. /\ memory = wanted /\ \A j \in Used : Target(j) \in memory
        /\ kept \subseteq wanted /\ kept \subseteq rows /\ rows \subseteq memory
    <3>1. \A j \in Used : ~Carrying(j)
      BY <1>3, <2>1 DEF Renaming, Carrying
    <3> QED
      BY <1>2, <2>1, <3>1 DEF Settled, KeptRows
  <2>7. memory' = (memory \ {old}) \cup {new} /\ wanted' = memory'
    BY <1>4, <2>1, <2>4, <2>6 DEF Replaced
  <2>8. OneRename'
    BY <1>1, <2>1, <2>3, <2>5 DEF OneRename
  <2>9. \A j \in Used : j # i => Target(j)' \in memory' /\ Target(j)' # new
    BY <1>2, <1>4, <2>1, <2>4, <2>5, <2>6, <2>7 DEF Distinct
  <2>10. Distinct'
    BY <1>2, <2>3, <2>4, <2>5, <2>9 DEF Distinct
  <2>11. server \notin {"assign", "prune", "diff", "compare"}
    BY <2>1 DEF EditPending
  <2>12. Reloading'
    BY <1>1, <2>1, <2>11 DEF Reloading
  <2>13. Settled'
    BY <1>4, <2>2, <2>3, <2>4, <2>5, <2>7, <2>9 DEF Settled
  <2>14. kept' \subseteq Replaced(rows', old, new) /\ Replaced(rows', old, new) \subseteq memory'
         /\ kept' \subseteq wanted'
    BY <2>1, <2>6, <2>7 DEF Replaced
  <2>15. KeptRows'
    BY <1>4, <2>2, <2>3, <2>4, <2>5, <2>14 DEF KeptRows
  <2> QED
    BY <2>8, <2>10, <2>12, <2>13, <2>15
  \* In the other steps the rename in progress is the only one, and no edit is
  \* on its way.
<1>8. ASSUME Renaming(i)
      PROVE  /\ ~EditPending /\ server \notin {"assign", "prune", "diff", "compare"}
             /\ \A j \in Used : j # i => ~Renaming(j) /\ ~Carrying(j) /\ watcher[j].pc # "save"
  <2>1. ~EditPending /\ \A j \in Used : j # i => ~Renaming(j)
    BY <1>2, <1>4, <1>8 DEF OneRename
  <2> QED
    BY <2>1 DEF EditPending, Renaming, Carrying
<1>9. CASE SaveRename(i)
  <2> DEFINE w == [watcher[i] EXCEPT !.pc = "carry"]
  <2>1. watcher' = [watcher EXCEPT ![i] = w] /\ watcher[i].pc = "save"
        /\ registry' = watcher[i].saved
        /\ UNCHANGED <<memory, rows, wanted, kept>>
    BY <1>9 DEF SaveRename
  <2>2. w.pc = "carry" /\ w.root = watcher[i].root /\ w.to = watcher[i].to
    BY <1>4 DEF Watchers
  <2> HIDE DEF w
  <2>3. Used' = Used /\ watcher'[i] = w
    BY <1>3, <1>4, <1>5, <2>1, <2>2 DEF Used
  <2>4. /\ Renaming(i) /\ Renaming(i)' /\ Carrying(i) /\ Carrying(i)'
        /\ Target(i)' = Target(i)
    BY <2>1, <2>2, <2>3 DEF Renaming, Carrying, Target
  <2>5. \A j \in Used : j # i => ~Renaming(j)' /\ ~Carrying(j)' /\ Target(j)' = Target(j)
                                 /\ watcher'[j].pc # "save"
    <3>1. ASSUME NEW j \in Used, j # i
          PROVE  ~Renaming(j)' /\ Target(j)' = Target(j)
      BY <1>3, <1>5, <1>8, <2>1, <2>4, <3>1
    <3> QED
      BY <3>1 DEF Renaming, Carrying
  <2>6. ~EditPending /\ server \notin {"assign", "prune", "diff", "compare"}
    BY <1>8, <2>4
  <2>7. memory # {} /\ registry' = memory
    BY <1>2, <1>4, <2>1, <2>6 DEF Settled
  <2>8. LoadConfig' = memory'
    BY <2>1, <2>7 DEF LoadConfig
  <2>9. OneRename' /\ Reloading'
    BY <1>1, <2>3, <2>5, <2>6 DEF OneRename, Reloading
  <2>10. \A j \in Used : Target(j)' = Target(j)
    BY <2>4, <2>5
  <2>11. Distinct'
    BY <1>2, <2>3, <2>10 DEF Distinct
  <2>12. Settled'
    BY <1>2, <1>4, <2>1, <2>2, <2>3, <2>4, <2>5, <2>6, <2>8, <2>10 DEF Settled
  <2>13. KeptRows'
    BY <1>2, <1>4, <2>1, <2>2, <2>3, <2>4, <2>5 DEF KeptRows, Replaced
  <2> QED
    BY <2>9, <2>11, <2>12, <2>13
<1>10. CASE CarryOver(i)
  <2> DEFINE w == [watcher[i] EXCEPT !.pc = "assign"]
  <2>1. watcher' = [watcher EXCEPT ![i] = w] /\ watcher[i].pc = "carry"
        /\ rows' = Replaced(rows, watcher[i].root, watcher[i].to)
        /\ UNCHANGED <<registry, memory, wanted, kept>>
    BY <1>10 DEF CarryOver
  <2>2. w.pc = "assign" /\ w.root = watcher[i].root /\ w.to = watcher[i].to
    BY <1>4 DEF Watchers
  <2> HIDE DEF w
  <2>3. Used' = Used /\ watcher'[i] = w
    BY <1>3, <1>4, <1>5, <2>1, <2>2 DEF Used
  <2>4. /\ Renaming(i) /\ Renaming(i)' /\ Carrying(i) /\ ~Carrying(i)'
        /\ Target(i)' = Target(i)
    BY <2>1, <2>2, <2>3 DEF Renaming, Carrying, Target
  <2>5. \A j \in Used : j # i => ~Renaming(j)' /\ ~Carrying(j)' /\ Target(j)' = Target(j)
                                 /\ watcher'[j].pc # "save"
    <3>1. ASSUME NEW j \in Used, j # i
          PROVE  ~Renaming(j)' /\ Target(j)' = Target(j)
      BY <1>3, <1>5, <1>8, <2>1, <2>4, <3>1
    <3> QED
      BY <3>1 DEF Renaming, Carrying
  <2>6. ~EditPending /\ server \notin {"assign", "prune", "diff", "compare"}
        /\ \A j \in Used : watcher[j].pc # "save"
    BY <1>8, <2>1, <2>4
  <2>7. LoadConfig' = memory'
    <3>1. LoadConfig = memory
      BY <1>2, <2>6 DEF Settled
    <3> QED
      BY <2>1, <3>1 DEF LoadConfig
  <2>8. OneRename' /\ Reloading'
    BY <1>1, <2>3, <2>5, <2>6 DEF OneRename, Reloading
  <2>9. \A j \in Used : Target(j)' = Target(j)
    BY <2>4, <2>5
  <2>10. Distinct'
    BY <1>2, <2>3, <2>9 DEF Distinct
  <2>11. kept \subseteq wanted /\ kept \subseteq rows' /\ rows' \subseteq memory
    BY <1>2, <1>4, <2>1, <2>4 DEF KeptRows
  <2>12. \A j \in Used' : ~Carrying(j)' /\ watcher'[j].pc # "save"
    BY <2>2, <2>3, <2>4, <2>5
  <2>13. Settled'
    BY <1>1, <1>2, <2>1, <2>3, <2>6, <2>7, <2>9, <2>11, <2>12 DEF Settled
  <2>14. KeptRows'
    BY <2>1, <2>11, <2>12 DEF KeptRows
  <2> QED
    BY <2>8, <2>10, <2>13, <2>14
<1>11. CASE AssignRoot(i)
  <2> DEFINE w == [watcher[i] EXCEPT !.pc = "watching", !.root = watcher[i].to,
                                     !.to = NoName, !.saved = {}]
  <2>1. watcher' = [watcher EXCEPT ![i] = w] /\ watcher[i].pc = "assign"
        /\ UNCHANGED <<registry, memory, rows, wanted, kept>>
    BY <1>11 DEF AssignRoot
  <2>2. w.pc = "watching" /\ w.root = watcher[i].to
    BY <1>4 DEF Watchers
  <2> HIDE DEF w
  <2>3. Used' = Used /\ watcher'[i] = w
    BY <1>3, <1>4, <1>5, <2>1, <2>2 DEF Used
  <2>4. /\ Renaming(i) /\ ~Renaming(i)' /\ ~Carrying(i) /\ ~Carrying(i)'
        /\ Target(i)' = Target(i)
    BY <2>1, <2>2, <2>3 DEF Renaming, Carrying, Target
  <2>5. \A j \in Used : j # i => ~Renaming(j)' /\ ~Carrying(j)' /\ Target(j)' = Target(j)
                                 /\ watcher'[j].pc # "save"
    <3>1. ASSUME NEW j \in Used, j # i
          PROVE  ~Renaming(j)' /\ Target(j)' = Target(j)
      BY <1>3, <1>5, <1>8, <2>1, <2>4, <3>1
    <3> QED
      BY <3>1 DEF Renaming, Carrying
  <2>6. ~EditPending /\ server \notin {"assign", "prune", "diff", "compare"}
        /\ \A j \in Used : watcher[j].pc # "save" /\ ~Carrying(j)
    BY <1>8, <2>1, <2>4
  <2>7. LoadConfig' = memory'
    <3>1. LoadConfig = memory
      BY <1>2, <2>6 DEF Settled
    <3> QED
      BY <2>1, <3>1 DEF LoadConfig
  <2>8. OneRename' /\ Reloading'
    BY <1>1, <2>3, <2>4, <2>5, <2>6 DEF OneRename, Reloading
  <2>9. \A j \in Used : Target(j)' = Target(j)
    BY <2>4, <2>5
  <2>10. Distinct'
    BY <1>2, <2>3, <2>9 DEF Distinct
  <2>11. \A j \in Used' : ~Carrying(j)' /\ watcher'[j].pc # "save"
    BY <2>2, <2>3, <2>4, <2>5
  <2>12. Settled'
    BY <1>1, <1>2, <2>1, <2>3, <2>6, <2>7, <2>9, <2>11 DEF Settled
  <2>13. KeptRows'
    BY <1>2, <2>1, <2>6, <2>11 DEF KeptRows
  <2> QED
    BY <2>8, <2>10, <2>12, <2>13
<1> QED
  BY <1>6, <1>7, <1>9, <1>10, <1>11 DEF WatchThread

\* Every listed root that was there has a watcher, or is about to get one.
Attended ==
  ~raced =>
    /\ Fresh /\ server = "compare" =>
         \A n \in memory \ absent :
           n \in loaded \/ \E i \in Used \ todo : watcher[i].root = n
    /\ ~EditPending => \A n \in memory \ absent : \E i \in Used : Target(i) = n

LEMMA InitAttended == Init => Attended
<1> SUFFICES ASSUME Init PROVE Attended
  OBVIOUS
<1>1. server = "idle" /\ absent = memory \ Present
      /\ {watcher[i].root : i \in Used} = memory \cap Present
  BY DEF Init
<1>2. \A i \in Used : Target(i) = watcher[i].root
  BY OpenedType DEF Init, Used, NoWatcher, Opened, Renaming, Target
<1> QED
  BY <1>1, <1>2 DEF Attended

LEMMA AttendedStep ==
  ASSUME IInv, IInv', Agree, Agree', Attended, [Next]_vars
  PROVE  Attended'
<1> SUFFICES ASSUME ~raced' PROVE Attended'
  BY DEF Attended
<1>1. TypeOK /\ TypeOK' /\ Used \subseteq Slot /\ Used' \subseteq Slot
  BY DEF IInv, Used
  \* Steps that leave lists, command and watchers alone, or have no claim after.
<1>2. CASE \/ UNCHANGED vars \/ OpenDialog \/ Save \/ Ui
           \/ ReadList \/ AssignList \/ Prune
           \/ \E d \in Dir : Work(d) \/ \E n \in Name : RenameDir(d, n)
  <2>1. \/ /\ UNCHANGED <<memory, ui, lost, server, loaded, todo, absent, raced, watcher>>
        \/ EditPending' /\ (server' # "compare" \/ ~Fresh')
        \/ /\ UNCHANGED <<memory, lost, server, loaded, todo, absent, raced, watcher>>
           /\ EditPending' /\ ui' = "send"
    BY <1>1, <1>2
    DEF vars, OpenDialog, Save, Ui, Deliver, GiveUp, ReadList, AssignList, Prune, Work,
        RenameDir, EditPending, Fresh, TypeOK
  <2> QED
    BY <2>1 DEF Attended, EditPending, Fresh, Used, Target, Renaming
<1>3. CASE Diff
  <2>1. /\ server = "diff" /\ EditPending' /\ ~raced /\ (Fresh' <=> Fresh)
        /\ loaded' = LoadConfig /\ memory' = memory
    BY <1>3 DEF Diff, EditPending, Fresh
  <2>2. Fresh => memory = LoadConfig
    BY <2>1 DEF Agree, Reloading
  <2> QED
    BY <2>1, <2>2 DEF Attended
<1>4. CASE ReloadDone
  <2>1. /\ server = "compare" /\ todo = {} /\ loaded = {} /\ ~raced /\ server' = "idle"
        /\ UNCHANGED <<memory, absent, watcher, ui, lost>>
    BY <1>4 DEF ReloadDone
  <2>2. Fresh => \A n \in memory \ absent : \E i \in Used : watcher[i].root = n
    BY <2>1 DEF Attended
  <2>3. \A i \in Used : Target(i) = watcher[i].root
    BY <2>1 DEF Agree, OneRename, EditPending, Target
  <2>4. ~EditPending' => Fresh /\ Used' = Used /\ \A i \in Used : Target(i)' = Target(i)
    BY <1>1, <2>1 DEF EditPending, Fresh, Used, Target, Renaming, TypeOK
  <2> QED
    BY <2>1, <2>2, <2>3, <2>4 DEF Attended
<1>5. ASSUME NEW i \in Slot, Keep(i) PROVE Attended'
  <2>1. /\ server = "compare" /\ EditPending' /\ ~raced /\ (Fresh' <=> Fresh) /\ i \in todo
        /\ loaded' = loaded \ {watcher[i].root} /\ todo' = todo \ {i}
        /\ UNCHANGED <<memory, absent, watcher>> /\ Used' = Used
    BY <1>5 DEF Keep, EditPending, Fresh, Used
  <2>2. i \in Used
    BY <2>1 DEF IInv
  <2> QED
    BY <2>1, <2>2 DEF Attended
<1>6. ASSUME NEW i \in Slot, BeginStop(i) \/ EndStop(i) PROVE Attended'
  <2>1. /\ server = "compare" /\ EditPending' /\ ~raced /\ (Fresh' <=> Fresh) /\ i \in todo
        /\ UNCHANGED <<memory, absent, loaded>> /\ todo \ {i} \subseteq todo'
        /\ todo' \subseteq todo
        /\ server' = "compare"
    BY <1>6 DEF BeginStop, EndStop, EditPending, Fresh
  <2>2. ASSUME NEW j \in Used \ todo
        PROVE  j \in Used' \ todo' /\ watcher'[j].root = watcher[j].root
    BY <1>1, <1>6, <2>1, <2>2 DEF BeginStop, EndStop, Used, TypeOK
  <2> QED
    BY <2>1, <2>2 DEF Attended
<1>7. ASSUME NEW n \in Name, NEW i \in Slot, StartOne(n, i) PROVE Attended'
  <2>1. /\ server = "compare" /\ EditPending' /\ ~raced /\ (Fresh' <=> Fresh)
        /\ loaded' = loaded \ {n} /\ todo = {} /\ todo' = {} /\ memory' = memory
        /\ i \notin Used
    BY <1>7 DEF StartOne, EditPending, Fresh
  <2>2. CASE n \in Present
    <3>1. absent' = absent \ {n} /\ watcher' = [watcher EXCEPT ![i] = Opened(n, DirectoryAt(n))]
      BY <1>7, <2>2 DEF StartOne
    <3>2. i \in Used' /\ watcher'[i].root = n
          /\ \A j \in Slot : j # i => watcher'[j] = watcher[j]
      BY <1>1, <3>1 DEF TypeOK, Opened, Used
    <3>3. \A j \in Used : j \in Used' /\ watcher'[j].root = watcher[j].root
      BY <1>1, <2>1, <3>2 DEF Used
    <3> QED
      BY <2>1, <3>1, <3>2, <3>3 DEF Attended
  <2>3. CASE n \notin Present
    <3>1. absent' = absent \cup {n} /\ watcher' = watcher /\ Used' = Used
      BY <1>7, <2>3 DEF StartOne, Used
    <3> QED
      BY <2>1, <3>1 DEF Attended
  <2> QED
    BY <2>2, <2>3
  \* A rename moves the name on the list and what its watcher is to be called.
<1>8. ASSUME NEW i \in Slot, WatchThread(i) \/ LoseConnection(i) PROVE Attended'
  <2>1. /\ UNCHANGED <<ui, lost, server, loaded, todo, absent>> /\ ~raced
        /\ (EditPending' <=> EditPending) /\ (Fresh' <=> Fresh)
    <3>1. (raced => raced') /\ UNCHANGED <<ui, lost, server, loaded, todo, absent>>
      <4>1. CASE NoticeRename(i)
        BY <4>1 DEF NoticeRename
      <4>2. CASE SaveRename(i)
        BY <4>2 DEF SaveRename
      <4>3. CASE Arm(i) \/ LoseConnection(i) \/ Reconnect(i) \/ CarryOver(i) \/ AssignRoot(i)
        BY <4>3 DEF Arm, LoseConnection, Reconnect, CarryOver, AssignRoot
      <4> QED
        BY <1>8, <4>1, <4>2, <4>3 DEF WatchThread
    <3> QED
      BY <3>1 DEF EditPending, Fresh
  <2>2. i \in Used /\ watcher[i] \in Watchers
    BY <1>1, <1>8, UsedType
    DEF WatchThread, Arm, LoseConnection, Reconnect, NoticeRename, SaveRename, CarryOver,
        AssignRoot
  <2>3. CASE NoticeRename(i)
    <3> DEFINE old == watcher[i].root
               new == at[watcher[i].dir]
    <3>1. /\ watcher[i].pc = "watching" /\ ~EditPending /\ memory' = Replaced(memory, old, new)
          /\ watcher' = [watcher EXCEPT ![i].pc = "save", ![i].to = new,
                                        ![i].saved = Replaced(memory, old, new)]
      BY <2>3 DEF NoticeRename
    <3>2. Target(i) = old /\ i \in Used' /\ Target(i)' = new
          /\ \A j \in Slot : j # i => watcher'[j] = watcher[j]
      BY <1>1, <2>2, <3>1 DEF TypeOK, Used, Target, Renaming, Watchers
    <3>3. \A j \in Used : j # i => j \in Used' /\ Target(j)' = Target(j)
      BY <1>1, <3>2 DEF Used, Target, Renaming
    <3>4. memory' \subseteq (memory \ {old}) \cup {new}
      BY <2>2, <3>1, <3>2 DEF Replaced, Agree, Settled
    <3> QED
      BY <2>1, <2>2, <3>1, <3>2, <3>3, <3>4 DEF Attended, EditPending
  <2>4. CASE ~NoticeRename(i)
    <3>1. memory' = memory /\ i \in Used' /\ Target(i)' = Target(i)
          /\ (EditPending => watcher'[i].root = watcher[i].root)
          /\ \A j \in Slot : j # i => watcher'[j] = watcher[j]
      <4>1. CASE Arm(i) \/ LoseConnection(i) \/ Reconnect(i) \/ SaveRename(i) \/ CarryOver(i)
        BY <1>1, <2>2, <4>1
        DEF Arm, LoseConnection, Reconnect, SaveRename, CarryOver, TypeOK, Used, Target,
            Renaming, Watchers
      <4>2. CASE AssignRoot(i)
        <5> DEFINE w == [watcher[i] EXCEPT !.pc = "watching", !.root = watcher[i].to,
                                           !.to = NoName, !.saved = {}]
        <5>1. w.pc = "watching" /\ w.root = watcher[i].to
          BY <2>2 DEF Watchers
        <5>2. watcher' = [watcher EXCEPT ![i] = w] /\ memory' = memory
              /\ watcher[i].pc = "assign"
          BY <4>2 DEF AssignRoot
        <5> HIDE DEF w
        <5>3. watcher'[i] = w /\ \A j \in Slot : j # i => watcher'[j] = watcher[j]
          BY <1>1, <5>2 DEF TypeOK
        <5>4. i \in Used' /\ Target(i)' = Target(i) /\ Renaming(i)
          BY <5>1, <5>2, <5>3 DEF Used, Target, Renaming
        <5>5. ~EditPending
          BY <2>1, <2>2, <5>4 DEF Agree, OneRename
        <5> QED
          BY <5>2, <5>3, <5>4, <5>5
      <4> QED
        BY <1>8, <2>4, <4>1, <4>2 DEF WatchThread
    <3>2. \A j \in Used : /\ j \in Used' /\ Target(j)' = Target(j)
                          /\ EditPending => watcher'[j].root = watcher[j].root
      BY <1>1, <3>1 DEF Used, Target, Renaming
    <3>3. server = "compare" => EditPending
      BY DEF EditPending
    <3> QED
      BY <2>1, <3>1, <3>2, <3>3 DEF Attended
  <2> QED
    BY <2>3, <2>4
<1> QED
  BY <1>2, <1>3, <1>4, <1>5, <1>6, <1>7, <1>8 DEF Next, User, Server

\* What the lists, the command on its way and the rename in progress have to do
\* with each other, as long as no rename raced, and that each listed root that
\* was there has a watcher (scanner.cpp, ReloadConfig, HandleWatchedRootRename;
\* tray/main.cpp, RestartWatchers).
THEOREM AgreeHolds == Spec => [](Agree /\ Attended)
<1>1. IInv /\ IInv' /\ Agree /\ [Next]_vars => Agree'
  <2> SUFFICES ASSUME IInv, IInv', Agree, [Next]_vars PROVE Agree'
    OBVIOUS
  <2>1. TypeOK
    BY DEF IInv
  <2> QED
    BY <2>1, AgreeListSteps, AgreeRestart, AgreeWatch DEF Next, User, Server
<1>2. IInv /\ IInv' /\ Agree /\ Agree' /\ Attended /\ [Next]_vars => Attended'
  BY AttendedStep
<1>3. QED
  BY InitAgree, InitAttended, Inductive, <1>1, <1>2, PTL DEF Spec

\* Unless a rename met an edit or another rename or could not be saved, the
\* registry, the engine and the watchers agree on what the user wants once
\* everything has come to rest, with one watcher for each root that was there
\* (tray/main.cpp, RestartWatchers; dir_watcher.cpp, HandleWatchedRootRename).
THEOREM ListsSettle == Spec => []ListsAgree
<1>1. TypeOK /\ Agree /\ Attended => ListsAgree
  <2> SUFFICES ASSUME TypeOK, Agree, Attended, Quiet, ~raced
               PROVE  /\ memory = LoadConfig /\ memory = wanted
                      /\ {watcher[i].root : i \in Used} \subseteq memory
                      /\ memory \ absent \subseteq {watcher[i].root : i \in Used}
                      /\ \A i, j \in Used : watcher[i].root = watcher[j].root => i = j
    BY DEF ListsAgree
  <2>1. \A i \in Used : /\ ~Renaming(i) /\ watcher[i].pc # "save"
                        /\ Target(i) = watcher[i].root
    BY DEF Quiet, Used, Renaming, Target
  <2>2. ~EditPending /\ Settled /\ Distinct
    BY DEF Quiet, Agree
  <2>3. memory \ absent \subseteq {watcher[i].root : i \in Used}
    BY <2>1, <2>2 DEF Attended
  <2> QED
    BY <2>1, <2>2, <2>3 DEF Settled, Distinct
<1>2. QED
  BY TypeCorrect, AgreeHolds, <1>1, PTL

\* With the same exception, the rows below a root follow its renames, go when
\* it leaves the list, and only then (scanner.cpp, ReloadConfig).
THEOREM RowsFollowRoots == Spec => []RowsFollow
<1>1. Agree => RowsFollow
  <2> SUFFICES ASSUME Agree, Quiet, ~raced
               PROVE  kept \subseteq rows /\ rows \subseteq memory
    BY DEF RowsFollow
  <2>1. \A i \in Used : ~Carrying(i)
    BY DEF Quiet, Used, Renaming, Carrying
  <2>2. ~EditPending /\ Settled /\ KeptRows
    BY DEF Quiet, Agree
  <2> QED
    BY <2>1, <2>2 DEF Settled, KeptRows
<1>2. QED
  BY AgreeHolds, <1>1, PTL

=============================================================================
