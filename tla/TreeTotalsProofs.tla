-------------------------- MODULE TreeTotalsProofs --------------------------
(***************************************************************************)
(* Proofs about TreeTotals, for any finite tree of names, any sizes and    *)
(* any changes of the disk.                                                *)
(***************************************************************************)
EXTENDS TreeTotals, FiniteSetTheorems, SequenceTheorems, TLAPS

\* A directory named from may get the name to: the tree has a path for all that
\* is below it.
Movable(from, to) ==
  /\ from \in Path \ {<<>>} /\ to \in Path \ {<<>>}
  /\ \A p \in Path : IsUnder(p, from) => Relocated(p, from, to) \in Path

Event ==
  [kind : {"changed"}, dir : Path]
    \cup {e \in [kind : {"renamed"}, from : Path, to : Path] : Movable(e.from, e.to)}

FrameType == [dir : Path, depth : Int, sum : Nat, todo : SUBSET Path,
              found : BOOLEAN, complete : BOOLEAN]

MaybeRow == Row \cup {NoRow}

Moving ==
  [at : {"lookup"}, from : Path, to : Path]
    \cup [at : {"parent", "queue"}, from : Path, to : Path, depth : Int]
    \cup [at : {"carry", "drop", "queue"}, from : Path, to : Path, delta : Int]

Listing == [at : {"list"}, dir : Path, old : MaybeRow, depth : Int, sum : Nat,
            todo : SUBSET Path, live : SUBSET Path]

Job ==
  {Idle, [at |-> "root"], [at |-> "sweep"]}
    \cup [at : {"open"}, dir : Path, old : MaybeRow, depth : Int]
    \cup Listing
    \cup [at : {"purge"}, dir : Path, old : MaybeRow, depth : Int, sum : Nat,
          doomed : SUBSET Path]
    \cup [at : {"raise"}, dir : Path, delta : Int]
    \cup [at : {"apply"}, dir : Path, delta : Int, row : MaybeRow]

TypeDisk ==
  /\ Dirs \subseteq Path /\ <<>> \in Dirs
  /\ own \in [Dirs -> 0..MaxSize]
  /\ changes \in 0..MaxChanges
  /\ trust \in {"full", "lost", "healing"}

TypeWatch ==
  /\ events \in Seq(Event)
  /\ affected \subseteq Path
  /\ watch \in {Reading, [at |-> "batch"]}
        \cup {w \in Moving : Movable(w.from, w.to)}

TypeRows == Known \subseteq Path /\ rows \in [Known -> Row]

TypeJob ==
  /\ queue \subseteq Path
  /\ job \in Job
  /\ job.at = "list" => job.todo \subseteq job.live

TypeScan ==
  /\ stack \in Seq(FrameType)
  /\ DOMAIN out \subseteq Path
  /\ \A q \in DOMAIN out : out[q] \in Row

TypeInv == TypeDisk /\ TypeWatch /\ TypeRows /\ TypeJob /\ TypeScan

-----------------------------------------------------------------------------
(* Paths.                                                                  *)

LEMMA Sequences ==
  /\ \A p \in Path : p \in Seq(Name) /\ Len(p) \in Nat
  /\ <<>> \in Path /\ Len(<<>>) = 0
  /\ \A p \in Path : p # <<>> => Front(p) \in Path
BY PathAssumption, LenProperties

\* Only the root is above itself.
LEMMA RootAlone ==
  ASSUME NEW d \in Path, d # <<>>
  PROVE  ~IsUnder(<<>>, d)
<1>1. d \in Seq(Name) /\ Len(d) \in Nat /\ Len(<<>>) = 0
  BY Sequences
<1>2. Len(d) # 0
  BY <1>1, EmptySeq
<1> QED
  BY <1>1, <1>2 DEF IsUnder, IsPrefix

LEMMA RelocatedAt ==
  ASSUME NEW p \in Seq(Name), NEW from \in Seq(Name), NEW to \in Seq(Name),
         IsUnder(p, from)
  PROVE  LET q == Relocated(p, from, to)
         IN /\ q \in Seq(Name)
            /\ Len(q) = Len(to) + Len(p) - Len(from)
            /\ \A i \in 1..Len(q) :
                 q[i] = IF i <= Len(to) THEN to[i] ELSE p[i - Len(to) + Len(from)]
            /\ IsUnder(q, to)
<1> DEFINE rest == SubSeq(p, Len(from) + 1, Len(p))
           q == to \o rest
<1>1. /\ Len(p) \in Nat /\ Len(from) \in Nat /\ Len(to) \in Nat
      /\ Len(from) <= Len(p)
  BY LenProperties DEF IsUnder, IsPrefix
<1>2. \A i \in (Len(from) + 1)..Len(p) : p[i] \in Name
  BY <1>1, ElementOfSeq
<1>3. /\ rest \in Seq(Name)
      /\ Len(rest) = IF Len(from) + 1 <= Len(p) THEN Len(p) - (Len(from) + 1) + 1 ELSE 0
      /\ \A i \in 1..(Len(p) - (Len(from) + 1) + 1) : rest[i] = p[(Len(from) + 1) + i - 1]
  BY <1>1, <1>2, SubSeqProperties
<1>4. Len(rest) = Len(p) - Len(from) /\ \A i \in 1..Len(rest) : rest[i] = p[Len(from) + i]
  BY <1>1, <1>3
<1> HIDE DEF rest
<1>5. /\ q \in Seq(Name) /\ Len(q) = Len(to) + Len(rest)
      /\ \A i \in 1..(Len(to) + Len(rest)) :
           q[i] = IF i <= Len(to) THEN to[i] ELSE rest[i - Len(to)]
  BY <1>3, ConcatProperties
<1>6. Relocated(p, from, to) = q
  BY DEF Relocated, rest
<1> HIDE DEF q
<1>7. Len(q) = Len(to) + Len(p) - Len(from)
  BY <1>1, <1>4, <1>5
<1>8. ASSUME NEW i \in 1..Len(q)
      PROVE  q[i] = IF i <= Len(to) THEN to[i] ELSE p[i - Len(to) + Len(from)]
  <2>1. CASE i <= Len(to)
    BY <1>1, <1>4, <1>5, <2>1
  <2>2. CASE ~(i <= Len(to))
    <3>1. (i - Len(to)) \in 1..Len(rest) /\ Len(from) + (i - Len(to)) = i - Len(to) + Len(from)
      BY <1>1, <1>4, <1>7, <2>2
    <3>2. rest[i - Len(to)] = p[Len(from) + (i - Len(to))]
      BY <1>4, <3>1
    <3>3. q[i] = rest[i - Len(to)]
      BY <1>1, <1>4, <1>5, <2>2
    <3> QED
      BY <2>2, <3>1, <3>2, <3>3
  <2> QED
    BY <2>1, <2>2
<1>9. IsUnder(q, to)
  <2>1. Len(to) <= Len(q)
    BY <1>1, <1>7
  <2>2. \A i \in 1..Len(to) : q[i] = to[i] /\ q[i] \in Name /\ to[i] \in Name
    BY <1>1, <1>8, <2>1, ElementOfSeq
  <2>3. /\ SubSeq(to, 1, Len(to)) \in Seq(Name) /\ SubSeq(q, 1, Len(to)) \in Seq(Name)
        /\ Len(SubSeq(to, 1, Len(to))) = Len(to) /\ Len(SubSeq(q, 1, Len(to))) = Len(to)
        /\ \A i \in 1..Len(to) : /\ SubSeq(to, 1, Len(to))[i] = to[i]
                                 /\ SubSeq(q, 1, Len(to))[i] = q[i]
    <3>1. /\ SubSeq(to, 1, Len(to)) \in Seq(Name)
          /\ Len(SubSeq(to, 1, Len(to))) = IF 1 <= Len(to) THEN Len(to) - 1 + 1 ELSE 0
          /\ \A i \in 1..(Len(to) - 1 + 1) : SubSeq(to, 1, Len(to))[i] = to[1 + i - 1]
      BY <1>1, <2>2, SubSeqProperties
    <3>2. /\ SubSeq(q, 1, Len(to)) \in Seq(Name)
          /\ Len(SubSeq(q, 1, Len(to))) = IF 1 <= Len(to) THEN Len(to) - 1 + 1 ELSE 0
          /\ \A i \in 1..(Len(to) - 1 + 1) : SubSeq(q, 1, Len(to))[i] = q[1 + i - 1]
      BY <1>1, <2>2, SubSeqProperties
    <3> QED
      BY <1>1, <3>1, <3>2
  <2>4. SubSeq(to, 1, Len(to)) = SubSeq(q, 1, Len(to))
    BY <2>2, <2>3, SeqEqual
  <2> QED
    BY <2>1, <2>4 DEF IsUnder, IsPrefix
<1> QED
  BY <1>5, <1>6, <1>7, <1>8, <1>9

LEMMA UnderAt ==
  ASSUME NEW p \in Seq(Name), NEW from \in Seq(Name), IsUnder(p, from)
  PROVE  Len(from) <= Len(p) /\ \A i \in 1..Len(from) : p[i] = from[i]
<1>1. /\ Len(p) \in Nat /\ Len(from) \in Nat /\ Len(from) <= Len(p)
      /\ SubSeq(from, 1, Len(from)) = SubSeq(p, 1, Len(from))
  BY LenProperties DEF IsUnder, IsPrefix
<1>2. \A i \in 1..Len(from) : p[i] \in Name /\ from[i] \in Name
  BY <1>1, ElementOfSeq
<1>3. \A i \in 1..(Len(from) - 1 + 1) : SubSeq(from, 1, Len(from))[i] = from[1 + i - 1]
  BY <1>1, <1>2, SubSeqProperties
<1>4. \A i \in 1..(Len(from) - 1 + 1) : SubSeq(p, 1, Len(from))[i] = p[1 + i - 1]
  BY <1>1, <1>2, SubSeqProperties
<1> QED
  BY <1>1, <1>3, <1>4

LEMMA RelocatedBack ==
  ASSUME NEW p \in Seq(Name), NEW from \in Seq(Name), NEW to \in Seq(Name),
         IsUnder(p, from)
  PROVE  Relocated(Relocated(p, from, to), to, from) = p
<1> DEFINE q == Relocated(p, from, to)
           r == Relocated(q, to, from)
<1>1. /\ Len(p) \in Nat /\ Len(from) \in Nat /\ Len(to) \in Nat
      /\ Len(from) <= Len(p) /\ \A i \in 1..Len(from) : p[i] = from[i]
  BY UnderAt, LenProperties
<1>2. /\ q \in Seq(Name) /\ Len(q) = Len(to) + Len(p) - Len(from)
      /\ \A i \in 1..Len(q) :
           q[i] = IF i <= Len(to) THEN to[i] ELSE p[i - Len(to) + Len(from)]
      /\ IsUnder(q, to)
  BY RelocatedAt
<1> HIDE DEF q
<1>3. /\ r \in Seq(Name) /\ Len(r) = Len(from) + Len(q) - Len(to)
      /\ \A i \in 1..Len(r) :
           r[i] = IF i <= Len(from) THEN from[i] ELSE q[i - Len(from) + Len(to)]
  BY <1>2, RelocatedAt
<1> HIDE DEF r
<1>4. Len(r) = Len(p)
  BY <1>1, <1>2, <1>3
<1>5. ASSUME NEW i \in 1..Len(r) PROVE r[i] = p[i]
  <2>1. CASE i <= Len(from)
    BY <1>1, <1>3, <1>4, <2>1
  <2>2. CASE ~(i <= Len(from))
    <3> DEFINE j == i - Len(from) + Len(to)
    <3>1. j \in 1..Len(q) /\ ~(j <= Len(to)) /\ j - Len(to) + Len(from) = i
      BY <1>1, <1>2, <1>4, <2>2
    <3>2. r[i] = q[j]
      BY <1>3, <2>2
    <3> HIDE DEF j
    <3> QED
      BY <1>2, <3>1, <3>2
  <2> QED
    BY <2>1, <2>2
<1> QED
  BY <1>3, <1>4, <1>5, SeqEqual DEF q, r

-----------------------------------------------------------------------------
(* The table.                                                              *)

LEMMA FindType ==
  ASSUME TypeRows, NEW p
  PROVE  /\ Find(p) \in MaybeRow /\ Find(p).depth \in Int
         /\ Find(p) # NoRow => Find(p) \in Row /\ Find(p).total \in Nat
BY DEF TypeRows, Find, MaybeRow, NoRow, Row

LEMMA UpsertType ==
  ASSUME TypeRows, NEW new, DOMAIN new \subseteq Path,
         \A p \in DOMAIN new : new[p] \in Row, Upsert(new)
  PROVE  TypeRows'
<1>1. rows' \in [Known \cup DOMAIN new -> Row] /\ DOMAIN rows' = Known \cup DOMAIN new
  BY DEF TypeRows, Upsert, Known
<1> QED
  BY <1>1 DEF TypeRows, Known

LEMMA UpsertEntryType ==
  ASSUME TypeRows, NEW d \in Path, NEW row \in Row, UpsertEntry(d, row)
  PROVE  TypeRows'
<1> DEFINE new == [p \in {d} |-> row]
<1>1. DOMAIN new \subseteq Path /\ \A p \in DOMAIN new : new[p] \in Row
  OBVIOUS
<1>2. Upsert(new)
  BY DEF UpsertEntry
<1> QED
  BY <1>1, <1>2, UpsertType

LEMMA WithoutType ==
  ASSUME TypeRows, NEW S
  PROVE  /\ Without(rows, S) \in [Known \ S -> Row]
         /\ DOMAIN Without(rows, S) = Known \ S /\ Known \ S \subseteq Path
BY DEF TypeRows, Without, Known

LEMMA RemoveType ==
  ASSUME TypeRows, NEW d, RemoveByPrefix(d)
  PROVE  TypeRows'
BY WithoutType DEF RemoveByPrefix, TypeRows, Known

LEMMA RenamePrefixType ==
  ASSUME TypeRows, NEW from, NEW to, Movable(from, to), NEW n \in Int,
         RenamePrefix(from, to, n)
  PROVE  TypeRows'
<1> DEFINE moved == {p \in Known : IsUnder(p, from)}
           Target(p) == Relocated(p, from, to)
           targets == {Target(p) : p \in moved}
<1>1. targets \subseteq Path
  BY DEF TypeRows, Movable
<1>2. rows' = [q \in (Known \ moved) \cup targets |->
                 IF q \in targets
                 THEN LET p == CHOOSE p \in moved : Target(p) = q
                      IN  [rows[p] EXCEPT !.depth = @ + n]
                 ELSE rows[q]]
  BY DEF RenamePrefix
<1>3. \A p \in moved : [rows[p] EXCEPT !.depth = @ + n] \in Row
  BY DEF TypeRows, Row
<1>4. \A q \in targets : (CHOOSE p \in moved : Target(p) = q) \in moved
  OBVIOUS
<1>5. \A q \in Known : rows[q] \in Row
  BY DEF TypeRows
<1> HIDE DEF moved, Target, targets
<1>6. DOMAIN rows' = (Known \ moved) \cup targets
  BY <1>2
<1>7. \A q \in DOMAIN rows' : rows'[q] \in Row
  BY <1>2, <1>3, <1>4, <1>5, <1>6
<1>8. rows' \in [DOMAIN rows' -> Row]
  BY <1>2, <1>6, <1>7
<1> QED
  BY <1>1, <1>6, <1>8 DEF TypeRows, Known

-----------------------------------------------------------------------------
(* Types.                                                                  *)

LEMMA NewRowType ==
  ASSUME NEW n \in Nat, NEW d \in Int
  PROVE  NewRow(n, d) \in Row
BY DEF NewRow, Row

LEMMA TrueSizeType ==
  ASSUME TypeDisk, NEW d
  PROVE  TrueSize(d) \in Nat
<1> DEFINE all == Dirs \X (1..MaxSize)
           units == {u \in all : IsUnder(u[1], d) /\ u[2] <= own[u[1]]}
<1>1. IsFiniteSet(Dirs) /\ IsFiniteSet(1..MaxSize)
  BY PathAssumption, BoundAssumption, FS_Subset, FS_Interval DEF TypeDisk
<1>2. IsFiniteSet(all)
  BY <1>1, FS_Product
<1>3. IsFiniteSet(units)
  BY <1>2, FS_Subset
<1> QED
  BY <1>3, FS_CardinalityType DEF TrueSize

LEMMA InitType == Init => TypeInv
<1> SUFFICES ASSUME Init PROVE TypeInv
  OBVIOUS
<1>1. TypeDisk
  <2>1. own \in [Initial -> 0..MaxSize]
    BY DEF Init
  <2>2. Dirs = Initial
    BY <2>1 DEF Dirs
  <2> QED
    BY <2>1, <2>2, PathAssumption, BoundAssumption DEF Init, TypeDisk
<1>2. TypeWatch
  BY DEF Init, TypeWatch
<1>3. TypeRows
  <2>1. ASSUME NEW p \in Initial PROVE NewRow(TrueSize(p), Len(p)) \in Row
    <3>1. Len(p) \in Int
      BY Sequences, PathAssumption
    <3> QED
      BY <1>1, <3>1, TrueSizeType, NewRowType
  <2>2. rows = [p \in Initial |-> NewRow(TrueSize(p), Len(p))]
    BY DEF Init
  <2>3. rows \in [Initial -> Row] /\ Known = Initial
    BY <2>1, <2>2 DEF Known
  <2> QED
    BY <2>3, PathAssumption DEF TypeRows
<1>4. TypeJob
  BY DEF Init, TypeJob, Job, Idle
<1>5. TypeScan
  BY DEF Init, TypeScan
<1> QED
  BY <1>1, <1>2, <1>3, <1>4, <1>5 DEF TypeInv

LEMMA FrameIsTyped ==
  ASSUME TypeDisk, NEW c \in Path, NEW depth \in Int, NEW frame \in Frame(c, depth)
  PROVE  frame \in FrameType
<1>1. Children(c) \in SUBSET Path
  BY DEF TypeDisk, Children
<1>2. c \in Dirs => own[c] \in Nat
  BY BoundAssumption DEF TypeDisk
<1> DEFINE there == [dir |-> c, depth |-> depth, sum |-> own[c], todo |-> Children(c),
                     found |-> TRUE, complete |-> TRUE]
           gone == [dir |-> c, depth |-> depth, sum |-> 0, todo |-> {},
                    found |-> FALSE, complete |-> TRUE]
           broken == [dir |-> c, depth |-> depth, sum |-> 0, todo |-> {},
                      found |-> FALSE, complete |-> FALSE]
<1>3. frame \in {there, gone, broken} /\ (frame = there => c \in Dirs \/ frame \in {gone, broken})
  BY DEF Frame
<1>4. gone \in FrameType /\ broken \in FrameType /\ (c \in Dirs => there \in FrameType)
  BY <1>1, <1>2 DEF FrameType
<1> QED
  BY <1>3, <1>4

LEMMA TopType ==
  ASSUME TypeScan, stack # <<>>
  PROVE  Top \in FrameType /\ Tail(stack) \in Seq(FrameType)
BY HeadTailProperties DEF TypeScan, Top

LEMMA MeasuredType ==
  ASSUME TypeScan, stack # <<>>, NEW complete
  PROVE  /\ DOMAIN Measured(complete) \subseteq Path
         /\ \A p \in DOMAIN Measured(complete) : Measured(complete)[p] \in Row
<1>1. Top \in FrameType
  BY TopType
<1>2. Top.dir \in Path /\ NewRow(Top.sum, Top.depth) \in Row
  BY <1>1, NewRowType DEF FrameType
<1> QED
  BY <1>2 DEF TypeScan, Measured

\* After the row of d was written or removed.
LEMMA RaiseType ==
  ASSUME NEW d \in Path, NEW old \in MaybeRow, NEW total \in Nat, Raise(d, old, total)
  PROVE  job' \in Job /\ job'.at # "list"
<1>1. CASE old # NoRow /\ total # old.total /\ d # <<>>
  <2>1. job' = [at |-> "raise", dir |-> Front(d), delta |-> total - old.total]
    BY <1>1 DEF Raise
  <2>2. old.total \in Nat
    BY <1>1 DEF MaybeRow, Row
  <2>3. Front(d) \in Path /\ total - old.total \in Int
    BY <1>1, <2>2, Sequences
  <2> QED
    BY <2>1, <2>3 DEF Job
<1>2. CASE ~(old # NoRow /\ total # old.total /\ d # <<>>)
  <2>1. job' = Idle
    BY <1>2 DEF Raise
  <2> QED
    BY <2>1 DEF Job, Idle
<1> QED
  BY <1>1, <1>2

-----------------------------------------------------------------------------
(* The scheduler.                                                          *)

LEMMA RescanType ==
  ASSUME TypeInv,
         \/ \E p \in Path : Begin(p) \/ AddKnown(p) \/ AddUnknown(p) \/ Purge(p)
         \/ Gone \/ Open \/ OpenFails \/ ListingFails \/ ReadChildren \/ WriteRow
  PROVE  TypeInv'
<1>1. TypeDisk /\ TypeWatch /\ TypeRows /\ TypeJob /\ TypeScan
  BY DEF TypeInv
<1>2. queue \subseteq Path /\ job \in Job
  BY <1>1 DEF TypeJob
<1>3. ASSUME NEW p \in Path, Begin(p) PROVE TypeInv'
  <2>1. job' \in Job /\ job'.at # "list"
    BY <1>1, <1>3, FindType DEF Begin, Job
  <2> QED
    BY <1>1, <1>3, <2>1
    DEF Begin, TypeInv, TypeDisk, TypeWatch, TypeRows, TypeJob, TypeScan, Dirs, Known,
        disk, watcher, scan
<1>4. CASE Gone
  <2>1. job \in [at : {"open"}, dir : Path, old : MaybeRow, depth : Int]
    BY <1>2, <1>4 DEF Gone, Job, Idle, Listing
  <2>2. job' \in Job /\ job'.at # "list"
    BY <1>4, <2>1, RaiseType DEF Gone
  <2>3. TypeRows'
    BY <1>1, <1>4, RemoveType DEF Gone
  <2> QED
    BY <1>1, <1>4, <2>2, <2>3
    DEF Gone, TypeInv, TypeDisk, TypeWatch, TypeJob, TypeScan, Dirs, disk, watcher, scan
<1>5. CASE Open
  <2>1. job \in [at : {"open"}, dir : Path, old : MaybeRow, depth : Int]
    BY <1>2, <1>5 DEF Open, Job, Idle, Listing
  <2>2. own[job.dir] \in Nat /\ Children(job.dir) \in SUBSET Path
    BY <1>1, <1>5, BoundAssumption DEF Open, TypeDisk, Children
  <2>3. job' \in Listing /\ job'.todo \subseteq job'.live
    BY <1>5, <2>1, <2>2 DEF Open, Listing
  <2> QED
    BY <1>1, <1>5, <2>3
    DEF Open, Job, TypeInv, TypeDisk, TypeWatch, TypeRows, TypeJob, TypeScan, Dirs, Known,
        disk, watcher, scan
<1>6. CASE OpenFails
  BY <1>1, <1>6
  DEF OpenFails, Job, Idle, TypeInv, TypeDisk, TypeWatch, TypeRows, TypeJob, TypeScan, Dirs,
      Known, disk, watcher, scan
<1>7. job.at = "list" => job \in Listing
  BY <1>2 DEF Job, Idle
<1>8. ASSUME NEW p \in Path, AddKnown(p) PROVE TypeInv'
  <2>1. job \in Listing /\ job.todo \subseteq job.live
    BY <1>1, <1>7, <1>8 DEF AddKnown, TypeJob
  <2>2. rows[p].total \in Nat
    BY <1>1, <1>8 DEF AddKnown, TypeRows, Row
  <2>3. job' = [job EXCEPT !.sum = @ + rows[p].total, !.todo = @ \ {p}]
    BY <1>8 DEF AddKnown
  <2>4. job.sum \in Nat /\ job.sum + rows[p].total \in Nat
        /\ job.todo \ {p} \in SUBSET Path /\ job.todo \ {p} \subseteq job.live
    BY <2>1, <2>2 DEF Listing
  <2>5. job' \in Listing /\ job'.todo \subseteq job'.live
    BY <2>1, <2>3, <2>4 DEF Listing
  <2> QED
    BY <1>1, <1>8, <2>5
    DEF AddKnown, Job, TypeInv, TypeDisk, TypeWatch, TypeRows, TypeJob, TypeScan, Dirs,
        Known, disk, watcher, scan
<1>9. ASSUME NEW p \in Path, AddUnknown(p) PROVE TypeInv'
  <2>1. job \in Listing /\ job.todo \subseteq job.live
    BY <1>1, <1>7, <1>9 DEF AddUnknown, TypeJob
  <2>2. job' = [job EXCEPT !.todo = @ \ {p}]
    BY <1>9 DEF AddUnknown
  <2>3. job' \in Listing /\ job'.todo \subseteq job'.live
    BY <2>1, <2>2 DEF Listing
  <2>4. PICK frame \in Frame(p, job.depth + 1) : stack' = <<frame>>
    BY <1>9 DEF AddUnknown
  <2>5. job.depth + 1 \in Int
    BY <2>1 DEF Listing
  <2>6. stack' \in Seq(FrameType)
    BY <1>1, <2>4, <2>5, FrameIsTyped
  <2> QED
    BY <1>1, <1>9, <2>3, <2>6
    DEF AddUnknown, Job, TypeInv, TypeDisk, TypeWatch, TypeRows, TypeJob, TypeScan, Dirs,
        Known, disk, watcher
<1>10. CASE ListingFails
  <2>1. job \in Listing
    BY <1>7, <1>10 DEF ListingFails
  <2> QED
    BY <1>1, <1>10, <2>1
    DEF ListingFails, GiveUp, Listing, Job, Idle, TypeInv, TypeDisk, TypeWatch, TypeRows,
        TypeJob, TypeScan, Dirs, Known, disk, watcher
<1>11. CASE ReadChildren
  <2>1. job \in Listing
    BY <1>7, <1>11 DEF ReadChildren
  <2>2. GetChildDirs(job.dir, job.depth) \ job.live \in SUBSET Path
    BY <1>1 DEF GetChildDirs, TypeRows
  <2>3. job' \in Job /\ job'.at # "list"
    BY <1>11, <2>1, <2>2 DEF ReadChildren, Listing, Job
  <2> QED
    BY <1>1, <1>11, <2>3
    DEF ReadChildren, TypeInv, TypeDisk, TypeWatch, TypeRows, TypeJob, TypeScan, Dirs,
        Known, disk, watcher, scan
<1>12. job.at = "purge" => job \in [at : {"purge"}, dir : Path, old : MaybeRow,
                                    depth : Int, sum : Nat, doomed : SUBSET Path]
  BY <1>2 DEF Job, Idle, Listing
<1>13. ASSUME NEW p \in Path, Purge(p) PROVE TypeInv'
  <2>1. job' \in Job /\ job'.at # "list"
    BY <1>12, <1>13 DEF Purge, Job
  <2>2. TypeRows'
    BY <1>1, <1>13, RemoveType DEF Purge
  <2> QED
    BY <1>1, <1>13, <2>1, <2>2
    DEF Purge, TypeInv, TypeDisk, TypeWatch, TypeJob, TypeScan, Dirs, disk, watcher, scan
<1>14. CASE WriteRow
  <2>1. job \in [at : {"purge"}, dir : Path, old : MaybeRow, depth : Int, sum : Nat,
                 doomed : SUBSET Path]
    BY <1>12, <1>14 DEF WriteRow
  <2>2. TypeRows'
    BY <1>1, <1>14, <2>1, NewRowType, UpsertEntryType DEF WriteRow
  <2>3. job' \in Job /\ job'.at # "list"
    BY <1>14, <2>1, RaiseType DEF WriteRow
  <2>4. queue' \subseteq Path
    BY <1>2, <1>14, <2>1, Sequences DEF WriteRow
  <2>5. trust' \in {"full", "lost", "healing"}
    BY <1>1, <1>14 DEF WriteRow, TypeDisk
  <2> QED
    BY <1>1, <1>14, <2>2, <2>3, <2>4, <2>5
    DEF WriteRow, TypeInv, TypeDisk, TypeWatch, TypeJob, TypeScan, Dirs, disk, watcher, scan
<1> QED
  BY <1>3, <1>4, <1>5, <1>6, <1>8, <1>9, <1>10, <1>11, <1>13, <1>14

LEMMA RaisingType ==
  ASSUME TypeInv, ReadAbove \/ ApplyAbove
  PROVE  TypeInv'
<1>1. TypeDisk /\ TypeWatch /\ TypeRows /\ TypeJob /\ TypeScan
  BY DEF TypeInv
<1>2. queue \subseteq Path /\ job \in Job
  BY <1>1 DEF TypeJob
<1>3. CASE ReadAbove
  <2>1. job \in [at : {"raise"}, dir : Path, delta : Int]
    BY <1>2, <1>3 DEF ReadAbove, Job, Idle, Listing
  <2>2. Find(job.dir) \in MaybeRow
    BY <1>1, FindType
  <2>3. job' \in Job /\ job'.at # "list"
    BY <1>3, <2>1, <2>2 DEF ReadAbove, Job
  <2> QED
    BY <1>1, <1>3, <2>3
    DEF ReadAbove, TypeInv, TypeDisk, TypeWatch, TypeRows, TypeJob, TypeScan, Dirs, Known,
        disk, watcher, scan
<1>4. CASE ApplyAbove
  <2>1. job \in [at : {"apply"}, dir : Path, delta : Int, row : MaybeRow]
    BY <1>2, <1>4 DEF ApplyAbove, Job, Idle, Listing
  <2>2. TypeRows'
    <3>1. CASE job.row = NoRow
      BY <1>1, <1>4, <3>1 DEF ApplyAbove, TypeRows, Known
    <3>2. CASE job.row # NoRow
      <4>1. job.row \in Row /\ job.row.total + job.delta \in Int
        BY <2>1, <3>2 DEF MaybeRow, Row
      <4>2. Clamped(job.row.total + job.delta) \in Nat
        BY <4>1 DEF Clamped
      <4>3. [job.row EXCEPT !.total = Clamped(@ + job.delta)] \in Row
        BY <4>1, <4>2 DEF Row
      <4> QED
        BY <1>1, <1>4, <2>1, <3>2, <4>3, UpsertEntryType DEF ApplyAbove
    <3> QED
      BY <3>1, <3>2
  <2>3. job' \in Job /\ job'.at # "list"
    <3>1. CASE job.dir = <<>>
      BY <1>4, <3>1 DEF ApplyAbove, Job, Idle
    <3>2. CASE job.dir # <<>>
      BY <1>4, <2>1, <3>2, Sequences DEF ApplyAbove, Job
    <3> QED
      BY <3>1, <3>2
  <2>4. trust' \in {"full", "lost", "healing"}
    BY <1>1, <1>4 DEF ApplyAbove, TypeDisk
  <2> QED
    BY <1>1, <1>4, <2>2, <2>3, <2>4
    DEF ApplyAbove, TypeInv, TypeDisk, TypeWatch, TypeJob, TypeScan, Dirs, disk, watcher, scan
<1> QED
  BY <1>3, <1>4

LEMMA ScanType ==
  ASSUME TypeInv,
         \/ \E p \in Path : Descend(p)
         \/ FlushChunk \/ Ascend \/ ChildScanned \/ ChildScanFails
         \/ BeginScanRoot \/ RootScanned \/ Sweep \/ RootScanFails
  PROVE  TypeInv'
<1>1. TypeDisk /\ TypeWatch /\ TypeRows /\ TypeJob /\ TypeScan
  BY DEF TypeInv
<1>2. queue \subseteq Path /\ job \in Job /\ stack \in Seq(FrameType)
  BY <1>1 DEF TypeJob, TypeScan
<1>3. ASSUME NEW p \in Path, Descend(p) PROVE TypeInv'
  <2>1. Top \in FrameType /\ Tail(stack) \in Seq(FrameType)
    BY <1>1, <1>3, TopType DEF Descend
  <2>2. PICK frame \in Frame(p, Top.depth + 1) :
          stack' = <<frame, [Top EXCEPT !.todo = @ \ {p}]>> \o Tail(stack)
    BY <1>3 DEF Descend
  <2>3. Top.depth + 1 \in Int /\ [Top EXCEPT !.todo = @ \ {p}] \in FrameType
    <3>1. Top.todo \ {p} \in SUBSET Path /\ Top.depth + 1 \in Int
      BY <2>1 DEF FrameType
    <3> QED
      BY <2>1, <3>1 DEF FrameType
  <2>4. frame \in FrameType
    BY <1>1, <2>3, FrameIsTyped
  <2>5. stack' \in Seq(FrameType)
    <3>1. <<frame, [Top EXCEPT !.todo = @ \ {p}]>> \in Seq(FrameType)
      BY <2>3, <2>4
    <3> QED
      BY <2>1, <2>2, <3>1, ConcatProperties
  <2> QED
    BY <1>1, <1>3, <2>5
    DEF Descend, TypeInv, TypeDisk, TypeWatch, TypeRows, TypeJob, TypeScan, Dirs, Known,
        disk, watcher
<1>4. CASE FlushChunk
  <2>1. TypeRows'
    BY <1>1, <1>4, UpsertType DEF FlushChunk, TypeScan
  <2>2. TypeScan'
    BY <1>1, <1>4 DEF FlushChunk, TypeScan
  <2> QED
    BY <1>1, <1>4, <2>1, <2>2
    DEF FlushChunk, TypeInv, TypeDisk, TypeWatch, TypeJob, Dirs, disk, watcher
<1>5. CASE Ascend
  <2>1. stack # <<>> /\ Len(stack) > 1
    <3>1. Len(stack) > 1 /\ Len(<<>>) = 0
      BY <1>5 DEF Ascend
    <3> QED
      BY <3>1
  <2>2. Top \in FrameType /\ Tail(stack) \in Seq(FrameType)
    BY <1>1, <2>1, TopType
  <2>3. stack[2] \in FrameType /\ Tail(Tail(stack)) \in Seq(FrameType)
    <3>1. Len(Tail(stack)) = Len(stack) - 1 /\ Len(stack) \in Nat
      BY <1>2, <2>1, HeadTailProperties, LenProperties
    <3>2. Tail(stack) # <<>>
      <4>1. Len(Tail(stack)) # 0 /\ Len(<<>>) = 0
        BY <2>1, <3>1
      <4> QED
        BY <4>1
    <3>3. stack[2] \in FrameType
      BY <1>2, <2>1, <3>1, ElementOfSeq
    <3> QED
      BY <2>2, <3>2, <3>3, HeadTailProperties
  <2>4. PICK complete \in Outcome :
          /\ stack' = <<[stack[2] EXCEPT !.sum = @ + Top.sum, !.complete = @ /\ complete]>>
                        \o Tail(Tail(stack))
          /\ out' = Measured(complete)
    BY <1>5 DEF Ascend
  <2>5. [stack[2] EXCEPT !.sum = @ + Top.sum, !.complete = @ /\ complete] \in FrameType
    <3>1. complete \in BOOLEAN /\ Top.sum \in Nat
      BY <2>2 DEF Outcome, FrameType
    <3>2. stack[2].sum + Top.sum \in Nat /\ (stack[2].complete /\ complete) \in BOOLEAN
      BY <2>3, <3>1, SMTT(20) DEF FrameType
    <3> QED
      BY <2>3, <3>2 DEF FrameType
  <2>6. stack' \in Seq(FrameType)
    BY <2>3, <2>4, <2>5, ConcatProperties
  <2>7. TypeScan'
    BY <1>1, <2>1, <2>4, <2>6, MeasuredType DEF TypeScan
  <2> QED
    BY <1>1, <1>5, <2>7
    DEF Ascend, TypeInv, TypeDisk, TypeWatch, TypeRows, TypeJob, Dirs, Known, disk, watcher
<1>6. Len(stack) = 1 => stack # <<>>
  OBVIOUS
<1>7. CASE ChildScanned
  <2>1. Top \in FrameType
    BY <1>1, <1>6, <1>7, TopType DEF ChildScanned
  <2>2. job \in Listing /\ job.todo \subseteq job.live
    BY <1>1, <1>2, <1>7 DEF ChildScanned, Job, Idle, TypeJob
  <2>3. job.sum + Top.sum \in Nat
    BY <2>1, <2>2 DEF Listing, FrameType
  <2>4. job' = [job EXCEPT !.sum = job.sum + Top.sum]
    BY <1>7 DEF ChildScanned
  <2>5. job' \in Listing /\ job'.todo \subseteq job'.live
    BY <2>2, <2>3, <2>4 DEF Listing
  <2>6. TypeRows'
    BY <1>1, <1>6, <1>7, MeasuredType, UpsertType DEF ChildScanned
  <2> QED
    BY <1>1, <1>7, <2>5, <2>6
    DEF ChildScanned, Job, TypeInv, TypeDisk, TypeWatch, TypeJob, TypeScan, Dirs, disk, watcher
<1>8. CASE ChildScanFails
  <2>1. job \in Listing
    BY <1>2, <1>8 DEF ChildScanFails, Job, Idle
  <2> QED
    BY <1>1, <1>8, <2>1
    DEF ChildScanFails, GiveUp, Listing, Job, Idle, TypeInv, TypeDisk, TypeWatch, TypeRows,
        TypeJob, TypeScan, Dirs, Known, disk, watcher
<1>9. CASE BeginScanRoot
  <2>1. PICK frame \in Frame(<<>>, 0) : stack' = <<frame>>
    BY <1>9 DEF BeginScanRoot
  <2>2. stack' \in Seq(FrameType)
    BY <1>1, <2>1, Sequences, FrameIsTyped
  <2>3. TypeRows'
    <3>1. rows' = [p \in Known |-> [rows[p] EXCEPT !.old = TRUE]]
      BY <1>9 DEF BeginScanRoot
    <3>2. \A p \in Known : [rows[p] EXCEPT !.old = TRUE] \in Row
      BY <1>1 DEF TypeRows, Row
    <3>3. rows' \in [Known -> Row] /\ DOMAIN rows' = Known
      BY <3>1, <3>2
    <3> QED
      BY <1>1, <3>3 DEF TypeRows, Known
  <2>4. job' \in Job /\ job'.at # "list"
    BY <1>9 DEF BeginScanRoot, Job
  <2>5. trust' \in {"full", "lost", "healing"}
    BY <1>1, <1>9 DEF BeginScanRoot, TypeDisk
  <2> QED
    BY <1>1, <1>9, <2>2, <2>3, <2>4, <2>5
    DEF BeginScanRoot, TypeInv, TypeDisk, TypeWatch, TypeJob, TypeScan, Dirs, disk, watcher
<1>10. CASE RootScanned
  <2>1. TypeRows'
    BY <1>1, <1>6, <1>10, MeasuredType, UpsertType DEF RootScanned
  <2>2. job' \in Job /\ job'.at # "list"
    BY <1>10 DEF RootScanned, Job
  <2> QED
    BY <1>1, <1>10, <2>1, <2>2
    DEF RootScanned, TypeInv, TypeDisk, TypeWatch, TypeJob, TypeScan, Dirs, disk, watcher
<1>11. ASSUME NEW f, DOMAIN f \subseteq Path, \A p \in DOMAIN f : f[p] \in Row,
              rows' = Young(f)
       PROVE  TypeRows'
  <2>1. \A p \in DOMAIN f : [f[p] EXCEPT !.old = FALSE] \in Row
    BY <1>11 DEF Row
  <2>2. rows' \in [DOMAIN f -> Row] /\ DOMAIN rows' = DOMAIN f
    BY <1>11, <2>1 DEF Young
  <2> QED
    BY <1>11, <2>2 DEF TypeRows, Known
<1>12. CASE Sweep
  <2> DEFINE f == Without(rows, {p \in Known : p # <<>> /\ rows[p].old})
  <2>1. DOMAIN f \subseteq Path /\ \A p \in DOMAIN f : f[p] \in Row
    <3> DEFINE S == {p \in Known : p # <<>> /\ rows[p].old}
    <3> HIDE DEF S
    <3>1. /\ Without(rows, S) \in [Known \ S -> Row]
          /\ DOMAIN Without(rows, S) = Known \ S /\ Known \ S \subseteq Path
      BY <1>1, WithoutType
    <3>2. \A p \in DOMAIN Without(rows, S) : Without(rows, S)[p] \in Row
      BY <3>1
    <3> QED
      BY <3>1, <3>2 DEF S
  <2>2. rows' = Young(f)
    BY <1>12 DEF Sweep
  <2> HIDE DEF f
  <2>3. TypeRows'
    BY <1>11, <2>1, <2>2
  <2>4. job' \in Job /\ job'.at # "list"
    BY <1>12 DEF Sweep, Job, Idle
  <2>5. trust' \in {"full", "lost", "healing"}
    BY <1>1, <1>12 DEF Sweep, TypeDisk
  <2> QED
    BY <1>1, <1>12, <2>3, <2>4, <2>5
    DEF Sweep, TypeInv, TypeDisk, TypeWatch, TypeJob, TypeScan, Dirs, disk, watcher, scan
<1>13. CASE RootScanFails
  <2>1. TypeRows'
    BY <1>1, <1>11, <1>13 DEF RootScanFails, TypeRows, Known
  <2>2. job' \in Job /\ job'.at # "list"
    BY <1>13 DEF RootScanFails, Job, Idle
  <2>3. trust' \in {"full", "lost", "healing"}
    BY <1>1, <1>13 DEF RootScanFails, TypeDisk
  <2> QED
    BY <1>1, <1>13, <2>1, <2>2, <2>3
    DEF RootScanFails, TypeInv, TypeDisk, TypeWatch, TypeJob, TypeScan, Dirs, disk, watcher
<1> QED
  BY <1>3, <1>4, <1>5, <1>7, <1>8, <1>9, <1>10, <1>12, <1>13

-----------------------------------------------------------------------------
(* The watch thread and the disk.                                          *)

LEMMA HeadEvent ==
  ASSUME TypeWatch, events # <<>>
  PROVE  /\ Head(events) \in Event /\ Tail(events) \in Seq(Event)
         /\ Head(events).kind = "changed" => Head(events).dir \in Path
         /\ Head(events).kind = "renamed" =>
              /\ Head(events).from \in Path /\ Head(events).to \in Path
              /\ Movable(Head(events).from, Head(events).to)
<1>1. Head(events) \in Event /\ Tail(events) \in Seq(Event)
  BY HeadTailProperties DEF TypeWatch
<1> QED
  BY <1>1 DEF Event

LEMMA WatchMoves ==
  ASSUME TypeWatch, watch.at \in {"lookup", "parent", "carry", "drop", "queue"}
  PROVE  /\ watch \in Moving /\ Movable(watch.from, watch.to)
         /\ watch.from \in Path /\ watch.to \in Path
         /\ watch.at = "parent" => watch.depth \in Int
         /\ watch.at \in {"carry", "drop"} =>
              watch \in [at : {"carry", "drop"}, from : Path, to : Path, delta : Int]
<1>1. watch \in Moving /\ Movable(watch.from, watch.to)
  BY DEF TypeWatch, Reading
<1> QED
  BY <1>1 DEF Moving

LEMMA WatcherType ==
  ASSUME TypeInv, Watcher
  PROVE  TypeInv'
<1>1. TypeDisk /\ TypeWatch /\ TypeRows /\ TypeJob /\ TypeScan
  BY DEF TypeInv
<1>2. ASSUME NEW d \in Path \ {<<>>} PROVE Front(d) \in Path
  BY Sequences
<1>3. CASE HandleChange
  <2>1. events # <<>> /\ Head(events).kind = "changed"
    BY <1>3 DEF HandleChange
  <2>2. TypeWatch'
    BY <1>1, <1>3, <2>1, HeadEvent DEF HandleChange, TypeWatch
  <2> QED
    BY <1>1, <1>3, <2>2
    DEF HandleChange, TypeInv, TypeDisk, TypeRows, TypeJob, TypeScan, Dirs, Known, disk, scan
<1>4. CASE HandleRename
  <2> DEFINE from == Head(events).from
             to == Head(events).to
  <2>1. events # <<>> /\ Head(events).kind = "renamed"
    BY <1>4 DEF HandleRename
  <2>2. from \in Path /\ to \in Path /\ Movable(from, to) /\ Tail(events) \in Seq(Event)
    BY <1>1, <2>1, HeadEvent
  <2>3. Front(from) \in Path /\ Front(to) \in Path
    BY <1>2, <2>2 DEF Movable
  <2>4. \/ watch' = [at |-> "lookup", from |-> from, to |-> to] /\ affected' = affected
        \/ watch' = watch /\ affected' = affected \cup {Front(from), Front(to)}
    BY <1>4 DEF HandleRename
  <2>5. events' = Tail(events)
    BY <1>4 DEF HandleRename
  <2> HIDE DEF from, to
  <2>6. CASE watch' = [at |-> "lookup", from |-> from, to |-> to] /\ affected' = affected
    <3>1. watch' \in Moving /\ Movable(watch'.from, watch'.to)
      BY <2>2, <2>6 DEF Moving
    <3> QED
      BY <1>1, <1>4, <2>2, <2>5, <2>6, <3>1
      DEF HandleRename, TypeInv, TypeDisk, TypeWatch, TypeRows, TypeJob, TypeScan, Dirs,
          Known, disk, scan
  <2>7. CASE watch' = watch /\ affected' = affected \cup {Front(from), Front(to)}
    BY <1>1, <1>4, <2>2, <2>3, <2>5, <2>7
    DEF HandleRename, TypeInv, TypeDisk, TypeWatch, TypeRows, TypeJob, TypeScan, Dirs,
        Known, disk, scan
  <2> QED
    BY <2>4, <2>6, <2>7
<1>5. CASE RenameLookup
  <2>1. watch.from \in Path /\ watch.to \in Path /\ Movable(watch.from, watch.to)
    BY <1>1, <1>5, WatchMoves DEF RenameLookup
  <2>2. Find(watch.from).depth \in Int
    BY <1>1, FindType
  <2>3. watch' \in Moving /\ Movable(watch'.from, watch'.to)
    BY <1>5, <2>1, <2>2 DEF RenameLookup, Moving
  <2> QED
    BY <1>1, <1>5, <2>3
    DEF RenameLookup, TypeInv, TypeDisk, TypeWatch, TypeRows, TypeJob, TypeScan, Dirs,
        Known, disk, scan
<1>6. CASE ParentLookup
  <2> DEFINE parent == Find(Front(watch.to))
  <2>1. watch.from \in Path /\ watch.to \in Path /\ Movable(watch.from, watch.to)
        /\ watch.depth \in Int
    BY <1>1, <1>6, WatchMoves DEF ParentLookup
  <2>2. parent.depth + 1 - watch.depth \in Int
    <3>1. parent.depth \in Int
      BY <1>1, FindType
    <3> QED
      BY <2>1, <3>1
  <2>3. watch' = [from |-> watch.from, to |-> watch.to,
                  at |-> IF parent = NoRow THEN "drop" ELSE "carry",
                  delta |-> parent.depth + 1 - watch.depth]
    BY <1>6 DEF ParentLookup
  <2> HIDE DEF parent
  <2>4. watch' \in Moving /\ Movable(watch'.from, watch'.to)
    BY <2>1, <2>2, <2>3 DEF Moving
  <2> QED
    BY <1>1, <1>6, <2>4
    DEF ParentLookup, TypeInv, TypeDisk, TypeWatch, TypeRows, TypeJob, TypeScan, Dirs,
        Known, disk, scan
<1>7. CASE RenameApply
  <2>1. watch \in [at : {"carry", "drop"}, from : Path, to : Path, delta : Int]
        /\ Movable(watch.from, watch.to)
    BY <1>1, <1>7, WatchMoves DEF RenameApply
  <2>2. TypeRows'
    BY <1>1, <1>7, <2>1, RenamePrefixType, RemoveType DEF RenameApply
  <2>3. watch' = [watch EXCEPT !.at = "queue"]
    BY <1>7 DEF RenameApply
  <2>4. watch' \in Moving /\ Movable(watch'.from, watch'.to)
    BY <2>1, <2>3 DEF Moving
  <2>5. trust' \in {"full", "lost", "healing"}
    BY <1>1, <1>7 DEF RenameApply, TypeDisk
  <2> QED
    BY <1>1, <1>7, <2>2, <2>4, <2>5
    DEF RenameApply, TypeInv, TypeDisk, TypeWatch, TypeJob, TypeScan, Dirs, disk, scan
<1>8. CASE RenameDone
  <2>1. Movable(watch.from, watch.to)
    BY <1>1, <1>8, WatchMoves DEF RenameDone
  <2>2. Front(watch.from) \in Path /\ Front(watch.to) \in Path
    BY <1>2, <2>1 DEF Movable
  <2> QED
    BY <1>1, <1>8, <2>2
    DEF RenameDone, TypeInv, TypeDisk, TypeWatch, TypeRows, TypeJob, TypeScan, Dirs,
        Known, disk, scan
<1>9. CASE EndBatch
  BY <1>1, <1>9
  DEF EndBatch, TypeInv, TypeDisk, TypeWatch, TypeRows, TypeJob, TypeScan, Dirs,
      Known, disk, scan
<1>10. ASSUME NEW d \in Path, QueueAffected(d) PROVE TypeInv'
  BY <1>1, <1>10
  DEF QueueAffected, TypeInv, TypeDisk, TypeWatch, TypeRows, TypeJob, TypeScan, Dirs,
      Known, disk, scan
<1> QED
  BY <1>3, <1>4, <1>5, <1>6, <1>7, <1>8, <1>9, <1>10 DEF Watcher

\* A change is recorded for the watch thread; the rest of the program is still.
LEMMA ChangeType ==
  ASSUME TypeInv, NEW op, NEW event \in Event, NEW followed \in BOOLEAN,
         DiskChanges(op, event, followed),
         Dirs' \subseteq Path, <<>> \in Dirs', own' \in [Dirs' -> 0..MaxSize]
  PROVE  TypeInv'
<1>1. TypeDisk /\ TypeWatch /\ TypeRows /\ TypeJob /\ TypeScan
  BY DEF TypeInv
<1>2. events' \in Seq(Event)
  BY <1>1, AppendProperties DEF DiskChanges, TypeWatch
<1>3. changes' \in 0..MaxChanges /\ trust' \in {"full", "lost", "healing"}
  BY <1>1, BoundAssumption DEF DiskChanges, TypeDisk
<1> QED
  BY <1>1, <1>2, <1>3
  DEF DiskChanges, TypeInv, TypeDisk, TypeWatch, TypeRows, TypeJob, TypeScan, Known, scan

LEMMA ChangedType ==
  ASSUME NEW d \in Path
  PROVE  Changed(d) \in Event
BY DEF Changed, Event

LEMMA AppearType ==
  ASSUME TypeDisk, NEW p \in Path, NEW n \in 0..MaxSize, Appear(p, n)
  PROVE  /\ Dirs' \subseteq Path /\ <<>> \in Dirs' /\ own' \in [Dirs' -> 0..MaxSize]
         /\ Front(p) \in Path
<1>1. own' = [d \in Dirs \cup {p} |-> IF d = p THEN n ELSE own[d]]
  BY DEF Appear
<1>2. Dirs' = Dirs \cup {p}
  BY <1>1 DEF Dirs
<1> QED
  BY <1>1, <1>2 DEF TypeDisk, Appear

LEMMA DisappearType ==
  ASSUME TypeDisk, NEW S, own' = Without(own, S), <<>> \notin S
  PROVE  Dirs' \subseteq Path /\ <<>> \in Dirs' /\ own' \in [Dirs' -> 0..MaxSize]
<1>1. Dirs' = Dirs \ S
  BY DEF Dirs, Without
<1> QED
  BY <1>1 DEF TypeDisk, Without, Dirs

LEMMA DiskType ==
  ASSUME TypeInv, Disk
  PROVE  TypeInv'
<1>1. TypeDisk
  BY DEF TypeInv
<1>2. ASSUME NEW p \in Path, Write(p) PROVE TypeInv'
  <2>1. PICK n \in 0..MaxSize \ {own[p]} : own' = [own EXCEPT ![p] = n]
    BY <1>2 DEF Write
  <2>2. Dirs' = Dirs /\ own' \in [Dirs -> 0..MaxSize]
    BY <1>1, <2>1 DEF TypeDisk, Dirs
  <2> QED
    BY <1>1, <1>2, <2>2, ChangedType, ChangeType DEF Write, TypeDisk
<1>3. ASSUME NEW p \in Path, Make(p) PROVE TypeInv'
  <2>1. Appear(p, 0) /\ 0 \in 0..MaxSize
    BY <1>3, BoundAssumption DEF Make
  <2>2. Forgotten(p) \in BOOLEAN
    BY DEF Forgotten
  <2> QED
    BY <1>1, <1>3, <2>1, <2>2, AppearType, ChangedType, ChangeType DEF Make
<1>4. ASSUME NEW p \in Path, MoveIn(p) PROVE TypeInv'
  <2>1. PICK n \in 0..MaxSize : Appear(p, n)
    BY <1>4 DEF MoveIn
  <2>2. Forgotten(p) \in BOOLEAN
    BY DEF Forgotten
  <2> QED
    BY <1>1, <1>4, <2>1, <2>2, AppearType, ChangedType, ChangeType DEF MoveIn
<1>5. ASSUME NEW p \in Path, Delete(p) PROVE TypeInv'
  <2> DEFINE S == {p}
  <2>1. own' = Without(own, S) /\ p # <<>>
    BY <1>5 DEF Delete
  <2>2. Front(p) \in Path /\ <<>> \notin S
    BY <2>1, Sequences
  <2> HIDE DEF S
  <2>3. /\ Dirs' \subseteq Path /\ <<>> \in Dirs' /\ own' \in [Dirs' -> 0..MaxSize]
        /\ Changed(Front(p)) \in Event /\ (p \in Known) \in BOOLEAN
    BY <1>1, <2>1, <2>2, DisappearType, ChangedType
  <2> QED
    BY <1>5, <2>3, ChangeType DEF Delete
<1>6. ASSUME NEW p \in Path, MoveOut(p) PROVE TypeInv'
  <2> DEFINE S == {q \in Dirs : IsUnder(q, p)}
  <2>1. own' = Without(own, S) /\ p # <<>>
    BY <1>6 DEF MoveOut
  <2>2. Front(p) \in Path /\ <<>> \notin S
    BY <2>1, Sequences, RootAlone
  <2> HIDE DEF S
  <2>3. /\ Dirs' \subseteq Path /\ <<>> \in Dirs' /\ own' \in [Dirs' -> 0..MaxSize]
        /\ Changed(Front(p)) \in Event /\ (p \in Known) \in BOOLEAN
    BY <1>1, <2>1, <2>2, DisappearType, ChangedType
  <2> QED
    BY <1>6, <2>3, ChangeType DEF MoveOut
<1>7. ASSUME NEW from \in Path, NEW to \in Path, Rename(from, to) PROVE TypeInv'
  <2> DEFINE moved == {p \in Dirs : IsUnder(p, from)}
             arrived == {Relocated(p, from, to) : p \in moved}
  <2>1. /\ from \in Dirs \ {<<>>} /\ to \notin Dirs
        /\ \A p \in Path : IsUnder(p, from) => Relocated(p, from, to) \in Path
        /\ own' = [q \in (Dirs \ moved) \cup arrived |->
                     IF q \in Dirs THEN own[q] ELSE own[Relocated(q, to, from)]]
    BY <1>7 DEF Rename
  <2>2. Dirs \subseteq Path /\ <<>> \in Dirs /\ own \in [Dirs -> 0..MaxSize]
    BY <1>1 DEF TypeDisk
  <2>3. Movable(from, to) /\ Renamed(from, to) \in Event
    BY <2>1, <2>2 DEF Movable, Renamed, Event
  <2>4. arrived \subseteq Path /\ <<>> \notin moved
    BY <2>1, <2>2, RootAlone
  <2>5. \A p \in moved : Relocated(Relocated(p, from, to), to, from) = p
    BY <2>2, Sequences, RelocatedBack
  <2>6. \A q \in arrived : Relocated(q, to, from) \in Dirs
    BY <2>5
  <2> HIDE DEF moved, arrived
  <2>7. Dirs' = (Dirs \ moved) \cup arrived
    BY <2>1 DEF Dirs
  <2>8. own' \in [Dirs' -> 0..MaxSize]
    BY <2>1, <2>2, <2>6, <2>7
  <2>9. (/\ \A p \in Path : IsUnder(from, p) => p \in Known
         /\ AtRest(from) /\ AtRest(to) /\ Forgotten(to)) \in BOOLEAN
    OBVIOUS
  <2>10. DiskChanges("rename", Renamed(from, to),
                     /\ \A p \in Path : IsUnder(from, p) => p \in Known
                     /\ AtRest(from) /\ AtRest(to) /\ Forgotten(to))
    BY <1>7 DEF Rename
  <2>11. Dirs' \subseteq Path /\ <<>> \in Dirs'
    BY <2>2, <2>4, <2>7
  <2> QED
    BY <2>3, <2>8, <2>9, <2>10, <2>11, ChangeType
<1> QED
  BY <1>2, <1>3, <1>4, <1>5, <1>6, <1>7 DEF Disk

LEMMA NextType == TypeInv /\ [Next]_vars => TypeInv'
<1> SUFFICES ASSUME TypeInv, [Next]_vars PROVE TypeInv'
  OBVIOUS
<1>1. CASE Scheduler
  BY <1>1, RescanType, RaisingType, ScanType DEF Scheduler
<1>2. CASE Watcher
  BY <1>2, WatcherType
<1>3. CASE Disk
  BY <1>3, DiskType
<1>4. CASE UNCHANGED vars
  BY <1>4
  DEF TypeInv, TypeDisk, TypeWatch, TypeRows, TypeJob, TypeScan, Dirs, Known, vars, disk,
      watcher, scan
<1> QED
  BY <1>1, <1>2, <1>3, <1>4 DEF Next

LEMMA InvType == TypeInv => TypeOK
<1> SUFFICES ASSUME TypeInv PROVE TypeOK
  OBVIOUS
<1>1. TypeDisk /\ TypeWatch /\ TypeRows /\ TypeJob /\ TypeScan
  BY DEF TypeInv
<1>2. ASSUME NEW i \in 1..Len(events)
      PROVE  \/ events[i] \in [kind : {"changed"}, dir : Path]
             \/ events[i] \in [kind : {"renamed"}, from : Path, to : Path]
  <2>1. events[i] \in Event
    BY <1>1, ElementOfSeq DEF TypeWatch
  <2> QED
    BY <2>1 DEF Event
<1>3. watch.at \in {"read", "lookup", "parent", "carry", "drop", "queue", "batch"}
  <2>1. CASE watch \in {Reading, [at |-> "batch"]}
    BY <2>1 DEF Reading
  <2>2. CASE watch \in Moving
    BY <2>2 DEF Moving
  <2> QED
    BY <1>1, <2>1, <2>2 DEF TypeWatch
<1>4. job.at \in {"idle", "open", "list", "purge", "raise", "apply", "root", "sweep"}
      /\ (job.at = "list" => job.todo \subseteq job.live /\ job.live \subseteq Path)
  <2>1. job \in Job /\ (job.at = "list" => job.todo \subseteq job.live)
    BY <1>1 DEF TypeJob
  <2> QED
    BY <2>1 DEF Job, Idle, Listing
<1>5. \A i \in 1..Len(stack) :
        stack[i] \in [dir : Path, depth : Int, sum : Nat, todo : SUBSET Path,
                      found : BOOLEAN, complete : BOOLEAN]
  BY <1>1, ElementOfSeq DEF TypeScan, FrameType
<1> QED
  BY <1>1, <1>2, <1>3, <1>4, <1>5
  DEF TypeDisk, TypeWatch, TypeRows, TypeJob, TypeScan, TypeOK

-----------------------------------------------------------------------------

\* However listings, differences, scans of the root, renames and changes of the
\* disk interleave, rows and what is to be rescanned belong to paths of the tree,
\* and no total falls below zero (scanner.cpp, RescanOne,
\* PropagateAncestorDeltas, ScanDirectory; db.cpp, RenamePrefix).
THEOREM TypeCorrect == Spec => []TypeOK
<1> QED
  BY InitType, NextType, InvType, PTL DEF Spec

=============================================================================
