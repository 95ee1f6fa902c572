----------------------- MODULE SettingsDialogProofs -----------------------
(***************************************************************************)
(* Proofs about SettingsDialog, for any folders, any sizes of the ring, of *)
(* the text and of the history, and any number of requests: what the       *)
(* records of manual scans say is true, and what the Logging tab shows is  *)
(* a run of the log.                                                       *)
(*                                                                         *)
(* The manual scans.  Requests are counted, so each step of the queue or   *)
(* of the history is a fact about the places at which a folder stands in a *)
(* sequence: shifting a sequence by one loses or adds at most the first    *)
(* place.                                                                  *)
(*                                                                         *)
(* The log.  Each place of the ring knows its number from head, count and  *)
(* next alone (RingInv), and what was logged since its oldest entry is in  *)
(* it (LoggedInv).  The text is a run of what was logged (Run).  That it   *)
(* has no gap (LogIsARun) would not last alone: a refresh appends behind   *)
(* the text, so nothing that was asked for may be missing there while it   *)
(* has room, and what the ring has lost meanwhile must empty it first.     *)
(***************************************************************************)
EXTENDS SettingsDialog, FiniteSetTheorems, SequenceTheorems,
        WellFoundedInduction, TLAPS

\* The manual scans' part of TypeOK.
TypeManual ==
  /\ queue \in Seq(Folder)
  /\ records \in Seq(Records)
  /\ current \in Folder \cup {NoFolder}
  /\ scan \in {"none", "popped", "running", "done", "aborted"}
  /\ (current = NoFolder) = (scan = "none")

IInv == TypeManual /\ RecordsAreTrue

\* Where v stands in s.
Places(s, v) == {i \in DOMAIN s : s[i] = v}

-----------------------------------------------------------------------------
(* Places in a sequence.                                                   *)

LEMMA PlacesFinite ==
  ASSUME NEW S, NEW s \in Seq(S), NEW v
  PROVE  /\ IsFiniteSet(Places(s, v)) /\ Cardinality(Places(s, v)) \in Nat
         /\ Places(s, v) \subseteq 1..Len(s)
<1>1. Places(s, v) \subseteq 1..Len(s) /\ Len(s) \in Nat
  BY LenProperties DEF Places
<1>2. IsFiniteSet(1..Len(s))
  BY <1>1, FS_Interval
<1> QED
  BY <1>1, <1>2, FS_Subset, FS_CardinalityType

\* A set of places whose members beyond the first are those of another, one
\* further on, is larger by at most one.
LEMMA ShiftBound ==
  ASSUME NEW A \in SUBSET Nat, IsFiniteSet(A), NEW B \in SUBSET (Nat \ {0}),
         \A b \in B : b # 1 => b - 1 \in A
  PROVE  /\ IsFiniteSet(B)
         /\ Cardinality(B) <= Cardinality(A) + 1
         /\ 1 \notin B => Cardinality(B) <= Cardinality(A)
<1> DEFINE Later == B \ {1}
           back == [b \in Later |-> b - 1]
<1>1. back \in [Later -> A]
  OBVIOUS
<1>2. \A b, c \in Later : back[b] = back[c] => b = c
  OBVIOUS
<1>3. back \in Injection(Later, A)
  BY <1>1, <1>2 DEF Injection, IsInjective
<1> HIDE DEF back, Later
<1>4. IsFiniteSet(Later) /\ Cardinality(Later) <= Cardinality(A)
  BY <1>3, FS_Injection
<1>5. Cardinality(Later) \in Nat /\ Cardinality(A) \in Nat
  BY <1>4, FS_CardinalityType
<1>6. /\ IsFiniteSet(Later \cup {1})
      /\ Cardinality(Later \cup {1}) <= Cardinality(Later) + 1
  <2>1. /\ IsFiniteSet(Later \cup {1})
        /\ Cardinality(Later \cup {1}) =
             IF 1 \in Later THEN Cardinality(Later) ELSE Cardinality(Later) + 1
    BY <1>4, FS_AddElement
  <2> QED
    BY <1>5, <2>1
<1>7. CASE 1 \in B
  <2>1. B = Later \cup {1}
    BY <1>7 DEF Later
  <2> QED
    BY <2>1, <1>4, <1>5, <1>6, <1>7, FS_CardinalityType
<1>8. CASE 1 \notin B
  <2>1. B = Later
    BY <1>8 DEF Later
  <2> QED
    BY <2>1, <1>4, <1>5, <1>8
<1> QED
  BY <1>7, <1>8

LEMMA AppendPlaces ==
  ASSUME NEW S, NEW s \in Seq(S), NEW e \in S, NEW v
  PROVE  /\ e # v => Places(Append(s, e), v) = Places(s, v)
         /\ e = v => Cardinality(Places(Append(s, e), v)) = Cardinality(Places(s, v)) + 1
<1> DEFINE t == Append(s, e)
<1>1. /\ Len(s) \in Nat /\ t \in Seq(S) /\ Len(t) = Len(s) + 1
      /\ \A i \in 1..Len(s) : t[i] = s[i]
      /\ t[Len(s) + 1] = e
  BY LenProperties, AppendProperties
<1>2. DOMAIN s = 1..Len(s) /\ DOMAIN t = 1..(Len(s) + 1)
  BY <1>1, LenProperties
<1> HIDE DEF t
<1>3. 1..(Len(s) + 1) = 1..Len(s) \cup {Len(s) + 1} /\ Len(s) + 1 \notin 1..Len(s)
  BY <1>1
<1>4. CASE e # v
  BY <1>1, <1>2, <1>3, <1>4 DEF Places, t
<1>5. CASE e = v
  <2>1. Places(t, v) = Places(s, v) \cup {Len(s) + 1} /\ Len(s) + 1 \notin Places(s, v)
    BY <1>1, <1>2, <1>3, <1>5 DEF Places
  <2>2. IsFiniteSet(Places(s, v))
    BY PlacesFinite
  <2> QED
    BY <2>1, <2>2, <1>5, FS_AddElement DEF t
<1> QED
  BY <1>4, <1>5

LEMMA TailPlaces ==
  ASSUME NEW S, NEW s \in Seq(S), s # <<>>, NEW v
  PROVE  /\ Cardinality(Places(s, v)) <= Cardinality(Places(Tail(s), v)) + 1
         /\ Head(s) # v => Cardinality(Places(s, v)) <= Cardinality(Places(Tail(s), v))
<1> DEFINE t == Tail(s)
<1>1. /\ t \in Seq(S) /\ Len(t) = Len(s) - 1 /\ Head(s) = s[1]
      /\ \A i \in 1..Len(t) : t[i] = s[i + 1]
  BY HeadTailProperties
<1>2. Len(s) \in Nat /\ DOMAIN s = 1..Len(s) /\ DOMAIN t = 1..Len(t)
  BY <1>1, LenProperties
<1>3. IsFiniteSet(Places(t, v)) /\ Places(t, v) \subseteq 1..Len(t)
  BY <1>1, PlacesFinite
<1>4. Places(s, v) \subseteq 1..Len(s)
  BY PlacesFinite
<1> HIDE DEF t
<1>5. \A b \in Places(s, v) : b # 1 => b - 1 \in Places(t, v)
  BY <1>1, <1>2 DEF Places
<1>6. Places(t, v) \subseteq Nat /\ Places(s, v) \subseteq Nat \ {0}
  BY <1>1, <1>2, <1>3, <1>4
<1>7. Head(s) # v => 1 \notin Places(s, v)
  BY <1>1 DEF Places
<1> QED
  BY <1>3, <1>5, <1>6, <1>7, ShiftBound DEF t

\* A history with a new record in front and cut off at any length n.
LEMMA PrependPlaces ==
  ASSUME NEW S, NEW s \in Seq(S), NEW e \in S, NEW v, NEW n \in Nat,
         n <= Len(s) + 1
  PROVE  LET t == SubSeq(<<e>> \o s, 1, n)
         IN /\ t \in Seq(S) /\ Len(t) = n
            /\ Cardinality(Places(t, v)) <= Cardinality(Places(s, v)) + 1
            /\ e # v => Cardinality(Places(t, v)) <= Cardinality(Places(s, v))
<1> DEFINE all == <<e>> \o s
           t == SubSeq(all, 1, n)
<1>1. <<e>> \in Seq(S) /\ Len(<<e>>) = 1 /\ <<e>>[1] = e
  OBVIOUS
<1>2. Len(s) \in Nat /\ DOMAIN s = 1..Len(s)
  BY LenProperties
<1>3. /\ all \in Seq(S) /\ Len(all) = Len(s) + 1
      /\ \A i \in 1..(Len(s) + 1) : all[i] = IF i <= 1 THEN e ELSE s[i - 1]
  BY <1>1, <1>2, ConcatProperties
<1>4. \A i \in 1..n : all[i] \in S
  BY <1>2, <1>3, ElementOfSeq
<1> HIDE DEF all
<1>5. /\ t \in Seq(S) /\ Len(t) = n
      /\ \A i \in 1..n : t[i] = all[i]
  <2>1. /\ t \in Seq(S) /\ Len(t) = IF 1 <= n THEN n - 1 + 1 ELSE 0
        /\ \A i \in 1..(n - 1 + 1) : t[i] = all[1 + i - 1]
    BY <1>4, SubSeqProperties
  <2> QED
    BY <2>1
<1>6. DOMAIN t = 1..n
  BY <1>5, LenProperties
<1> HIDE DEF t
<1>7. /\ IsFiniteSet(Places(s, v)) /\ Places(s, v) \subseteq 1..Len(s)
      /\ Places(t, v) \subseteq 1..n
  BY <1>5, PlacesFinite
<1>8. \A b \in Places(t, v) : b # 1 => b - 1 \in Places(s, v)
  BY <1>2, <1>3, <1>5, <1>6 DEF Places
<1>9. Places(s, v) \in SUBSET Nat /\ Places(t, v) \in SUBSET (Nat \ {0})
  BY <1>2, <1>7
<1>10. e # v => 1 \notin Places(t, v)
  BY <1>2, <1>3, <1>5, <1>6 DEF Places
<1>11. /\ Cardinality(Places(t, v)) <= Cardinality(Places(s, v)) + 1
       /\ e # v => Cardinality(Places(t, v)) <= Cardinality(Places(s, v))
  BY <1>7, <1>8, <1>9, <1>10, ShiftBound
<1> QED
  BY <1>5, <1>11 DEF t, all

-----------------------------------------------------------------------------
(* Records.                                                                *)

Record(f, s) == [path |-> f, state |-> s]

LEMMA InStatePlaces ==
  ASSUME NEW f, NEW s
  PROVE  /\ InState(f, s) = Places(records, Record(f, s))
         /\ Queued(f) = Cardinality(Places(queue, f))
BY DEF InState, Queued, Places, Record

LEMMA Smallest ==
  ASSUME NEW T \in SUBSET Nat, T # {}
  PROVE  \E i \in T : \A j \in T : i <= j
<1> DEFINE less == {ss \in Nat \X Nat : ss[1] < ss[2]}
<1>1. IsWellFoundedOn(less, Nat)
  BY NatLessThanWellFounded DEF OpToRel
<1>2. \A i, j \in Nat : <<j, i>> \in less <=> j < i
  OBVIOUS
<1> HIDE DEF less
<1>3. \E i \in T : \A j \in T : ~(<<j, i>> \in less)
  BY <1>1, WFMin
<1>4. PICK i \in T : \A j \in T : ~(<<j, i>> \in less)
  BY <1>3
<1>5. ASSUME NEW j \in T PROVE i <= j
  <2>1. i \in Nat /\ j \in Nat
    BY <1>4, <1>5
  <2>2. ~(j < i)
    BY <1>2, <1>4, <1>5, <2>1
  <2> QED
    BY <2>1, <2>2
<1> QED
  BY <1>4, <1>5

States == {"queued", "scanning", "done", "aborted"}

\* The records r differ from those now in one place, which went from the one
\* state to the other, or in none if there is no record to change.
Moved(r, f, from, to) ==
  \/ InState(f, from) = {} /\ r = records
  \/ \E k \in InState(f, from) :
       \A g \in Folder, s \in States :
         Places(r, Record(g, s)) =
           IF g # f THEN InState(g, s)
           ELSE IF s = from THEN InState(f, from) \ {k}
           ELSE IF s = to THEN InState(f, to) \cup {k}
           ELSE InState(f, s)

LEMMA MarkedPlaces ==
  ASSUME TypeManual, NEW f \in Folder,
         NEW from \in States, NEW to \in States, from # to
  PROVE  /\ Marked(f, from, to) \in Seq(Records)
         /\ Moved(Marked(f, from, to), f, from, to)
<1> DEFINE match == {i \in DOMAIN records : records[i] = [path |-> f, state |-> from]}
           k == CHOOSE i \in match : \A j \in match : i <= j
           r == [records EXCEPT ![k].state = to]
<1>1. records \in Seq(Records) /\ Len(records) \in Nat
      /\ DOMAIN records = 1..Len(records)
      /\ records \in [1..Len(records) -> Records]
  BY LenProperties DEF TypeManual
<1>2. match = InState(f, from)
  BY DEF InState
<1>3. CASE match = {}
  BY <1>1, <1>2, <1>3 DEF Marked, Moved
<1>4. CASE match # {}
  <2>1. k \in match
    <3>1. match \in SUBSET Nat
      BY <1>1
    <3>2. \E i \in match : \A j \in match : i <= j
      BY <3>1, <1>4, Smallest
    <3> QED
      BY <3>2
  <2>2. Marked(f, from, to) = r
    BY <1>4 DEF Marked
  <2> HIDE DEF k
  <2>3. records[k] = Record(f, from) /\ k \in 1..Len(records)
    BY <1>1, <2>1 DEF Record
  <2>4. r \in [1..Len(records) -> Records] /\ DOMAIN r = 1..Len(records)
    BY <1>1, <2>3 DEF Records, States
  <2>5. r \in Seq(Records)
    BY <1>1, <2>4, SeqDef
  <2>6. /\ r[k] = Record(f, to)
        /\ \A i \in 1..Len(records) : i # k => r[i] = records[i]
    BY <1>1, <2>3 DEF Record
  <2> HIDE DEF r
  <2>7. ASSUME NEW g \in Folder, NEW s \in States
        PROVE  Places(r, Record(g, s)) =
                 IF g # f THEN InState(g, s)
                 ELSE IF s = from THEN InState(f, from) \ {k}
                 ELSE IF s = to THEN InState(f, to) \cup {k}
                 ELSE InState(f, s)
    <3>1. InState(g, s) = {i \in 1..Len(records) : records[i] = Record(g, s)}
      BY <1>1 DEF InState, Record
    <3>2. Places(r, Record(g, s)) = {i \in 1..Len(records) : r[i] = Record(g, s)}
      BY <2>4 DEF Places
    <3>3. \A a \in {from, to} : Record(f, a) = Record(g, s) <=> f = g /\ a = s
      BY DEF Record
    <3>4. k \in InState(g, s) <=> f = g /\ from = s
      BY <2>3, <3>1, <3>3
    <3>5. k \in Places(r, Record(g, s)) <=> f = g /\ to = s
      BY <2>3, <2>6, <3>2, <3>3
    <3>6. \A i : i # k => (i \in Places(r, Record(g, s)) <=> i \in InState(g, s))
      BY <2>6, <3>1, <3>2
    <3> QED
      BY <3>4, <3>5, <3>6
  <2> QED
    BY <1>2, <2>1, <2>2, <2>5, <2>7 DEF Moved
<1> QED
  BY <1>3, <1>4

-----------------------------------------------------------------------------
(* The manual scans.                                                       *)

LEMMA InitInvariant == Init => IInv
<1> SUFFICES ASSUME Init PROVE IInv
  OBVIOUS
<1>1. TypeManual
  BY FolderAssumption DEF Init, TypeManual
<1>2. ASSUME NEW f \in Folder
      PROVE  Queued(f) = 0 /\ \A s : InState(f, s) = {} /\ Cardinality(InState(f, s)) = 0
  BY FS_EmptySet DEF Init, Queued, InState
<1>3. \A f \in Folder : Pending(f) = 0
  BY <1>2 DEF Init, Pending
<1> QED
  BY <1>1, <1>2, <1>3 DEF IInv, RecordsAreTrue

LEMMA Counts ==
  ASSUME TypeManual, NEW f \in Folder, NEW s
  PROVE  /\ Queued(f) \in Nat /\ Pending(f) \in Nat
         /\ IsFiniteSet(InState(f, s)) /\ Cardinality(InState(f, s)) \in Nat
<1>1. Queued(f) \in Nat
  BY InStatePlaces, PlacesFinite DEF TypeManual
<1>2. IsFiniteSet(InState(f, s)) /\ Cardinality(InState(f, s)) \in Nat
  BY InStatePlaces, PlacesFinite DEF TypeManual
<1> QED
  BY <1>1, <1>2 DEF Pending

\* A request and its record come at once; the record pushed out at the end may
\* be any.
LEMMA RequestKeeps ==
  ASSUME IInv, NEW f \in Folder, RequestManualScan(f), UNCHANGED <<current, scan>>
  PROVE  IInv'
<1> DEFINE n == IF Len(<<Record(f, "queued")>> \o records) > HistorySize THEN HistorySize
                ELSE Len(<<Record(f, "queued")>> \o records)
<1>1. TypeManual /\ RecordsAreTrue
  BY DEF IInv
<1>2. queue \in Seq(Folder) /\ records \in Seq(Records) /\ Len(records) \in Nat
  BY <1>1, LenProperties DEF TypeManual
<1>3. Record(f, "queued") \in Records
  BY DEF Record, Records
<1>4. n \in Nat /\ n <= Len(records) + 1
  <2>1. Len(<<Record(f, "queued")>> \o records) = Len(records) + 1
    BY <1>2, <1>3, ConcatProperties
  <2> QED
    BY <1>2, <2>1, SizeAssumption
<1>5. /\ queue' = Append(queue, f)
      /\ records' = SubSeq(<<Record(f, "queued")>> \o records, 1, n)
  BY DEF RequestManualScan, Record
<1> HIDE DEF n
<1>6. TypeManual'
  BY <1>1, <1>2, <1>3, <1>4, <1>5, PrependPlaces, AppendProperties DEF TypeManual
<1>7. ASSUME NEW g \in Folder, NEW s
      PROVE  /\ Cardinality(InState(g, s)') <= Cardinality(InState(g, s)) + 1
             /\ Record(f, "queued") # Record(g, s) =>
                  Cardinality(InState(g, s)') <= Cardinality(InState(g, s))
  <2>1. InState(g, s)' = Places(records', Record(g, s))
    BY DEF InState, Places, Record
  <2>2. InState(g, s) = Places(records, Record(g, s))
    BY InStatePlaces
  <2> QED
    BY <1>2, <1>3, <1>4, <1>5, <2>1, <2>2, PrependPlaces
<1>8. ASSUME NEW g \in Folder
      PROVE  Queued(g)' = IF g = f THEN Queued(g) + 1 ELSE Queued(g)
  <2>1. Queued(g) = Cardinality(Places(queue, g)) /\ Queued(g)' = Cardinality(Places(queue', g))
    BY DEF Queued, Places
  <2> QED
    BY <1>2, <1>5, <2>1, AppendPlaces
<1>9. ASSUME NEW g \in Folder
      PROVE  /\ Cardinality(InState(g, "queued")') <= Pending(g)'
             /\ InState(g, "scanning")' # {} => scan' \in {"running", "done", "aborted"} /\ current' = g
             /\ Cardinality(InState(g, "scanning")') <= 1
  <2>1. \A s : /\ Cardinality(InState(g, s)) \in Nat /\ Cardinality(InState(g, s)') \in Nat
               /\ IsFiniteSet(InState(g, s)) /\ IsFiniteSet(InState(g, s)')
    <3>1. ASSUME NEW s
          PROVE  /\ Cardinality(InState(g, s)) \in Nat
                 /\ IsFiniteSet(InState(g, s))
      BY <1>1, Counts
    <3>2. ASSUME NEW s
          PROVE  /\ Cardinality(InState(g, s)') \in Nat
                 /\ IsFiniteSet(InState(g, s)')
      <4>1. InState(g, s)' = Places(records', Record(g, s)) /\ records' \in Seq(Records)
        BY <1>6 DEF InState, Places, Record, TypeManual
      <4> QED
        BY <4>1, PlacesFinite
    <3> QED
      BY <3>1, <3>2
  <2>2. /\ Cardinality(InState(g, "queued")) <= Pending(g)
        /\ InState(g, "scanning") # {} => scan \in {"running", "done", "aborted"} /\ current = g
        /\ Cardinality(InState(g, "scanning")) <= 1
    BY <1>1 DEF RecordsAreTrue
  <2>3. Pending(g)' = IF g = f THEN Pending(g) + 1 ELSE Pending(g)
    BY <1>1, <1>8, Counts DEF Pending
  <2>4. g # f => Cardinality(InState(g, "queued")') <= Cardinality(InState(g, "queued"))
    BY <1>7 DEF Record
  <2>5. Cardinality(InState(g, "queued")') <= Pending(g)'
    <3>1. Pending(g) \in Nat
      BY <1>1, Counts
    <3>2. Cardinality(InState(g, "queued")') <= Cardinality(InState(g, "queued")) + 1
      BY <1>7
    <3> QED
      BY <2>1, <2>2, <2>3, <2>4, <3>1, <3>2
  <2>6. Cardinality(InState(g, "scanning")') <= Cardinality(InState(g, "scanning"))
    BY <1>7 DEF Record
  <2>7. InState(g, "scanning")' # {} => InState(g, "scanning") # {}
    BY <2>1, <2>6, FS_EmptySet
  <2> QED
    BY <2>1, <2>2, <2>5, <2>6, <2>7
<1> QED
  BY <1>6, <1>9 DEF IInv, RecordsAreTrue

LEMMA PopKeeps == IInv /\ PopManual => IInv'
<1> SUFFICES ASSUME IInv, PopManual PROVE IInv'
  OBVIOUS
<1>1. TypeManual /\ RecordsAreTrue
  BY DEF IInv
<1>2. /\ queue \in Seq(Folder) /\ queue # <<>> /\ scan = "none" /\ current = NoFolder
      /\ queue' = Tail(queue) /\ current' = Head(queue) /\ scan' = "popped"
      /\ records' = records
  BY <1>1 DEF PopManual, TypeManual
<1>3. TypeManual'
  BY <1>1, <1>2, FolderAssumption, HeadTailProperties DEF TypeManual
<1>4. ASSUME NEW f \in Folder
      PROVE  Pending(f) <= Pending(f)' /\ Pending(f)' \in Nat
  <2>1. Queued(f) = Cardinality(Places(queue, f)) /\ Queued(f)' = Cardinality(Places(queue', f))
    BY DEF Queued, Places
  <2>2. Queued(f) \in Nat /\ Queued(f)' \in Nat
    BY <1>2, <1>3, <2>1, PlacesFinite DEF TypeManual
  <2>3. /\ Queued(f) <= Queued(f)' + 1
        /\ current' # f => Queued(f) <= Queued(f)'
    BY <1>2, <2>1, TailPlaces
  <2> QED
    BY <1>2, <2>2, <2>3 DEF Pending
<1>5. ASSUME NEW f \in Folder, NEW s
      PROVE  InState(f, s)' = InState(f, s)
  BY <1>2 DEF InState
<1>6. ASSUME NEW f \in Folder
      PROVE  Cardinality(InState(f, "queued")) <= Pending(f)'
  <2>1. Cardinality(InState(f, "queued")) <= Pending(f) /\ Pending(f) \in Nat
        /\ Cardinality(InState(f, "queued")) \in Nat
    BY <1>1, Counts DEF RecordsAreTrue
  <2> QED
    BY <1>4, <2>1
<1>7. \A f \in Folder : InState(f, "scanning") = {} /\ Cardinality(InState(f, "scanning")) <= 1
  BY <1>1, <1>2 DEF RecordsAreTrue
<1> QED
  BY <1>3, <1>5, <1>6, <1>7 DEF IInv, RecordsAreTrue

\* The scan that starts takes one of the records that wait, if there is one.
LEMMA StartKeeps == IInv /\ StartManual => IInv'
<1> SUFFICES ASSUME IInv, StartManual PROVE IInv'
  OBVIOUS
<1>1. TypeManual /\ RecordsAreTrue
  BY DEF IInv
<1>2. /\ scan = "popped" /\ scan' = "running" /\ current' = current /\ queue' = queue
      /\ records' = Marked(current, "queued", "scanning")
      /\ current \in Folder
  BY <1>1 DEF StartManual, TypeManual
<1>3. /\ records' \in Seq(Records)
      /\ Moved(records', current, "queued", "scanning")
  BY <1>1, <1>2, MarkedPlaces DEF States
<1>4. TypeManual'
  BY <1>1, <1>2, <1>3, FolderAssumption DEF TypeManual
<1>5. \A g \in Folder : Queued(g)' = Queued(g) /\ Queued(g) \in Nat /\ Pending(g) \in Nat
  BY <1>1, <1>2, Counts DEF Queued
<1>6. \A g, s : InState(g, s)' = Places(records', Record(g, s))
  BY DEF InState, Places, Record
<1>7. ASSUME NEW g \in Folder
      PROVE  /\ Cardinality(InState(g, "queued")) <= Pending(g)
             /\ InState(g, "scanning") = {} /\ Cardinality(InState(g, "scanning")) = 0
             /\ IsFiniteSet(InState(g, "queued"))
             /\ Cardinality(InState(g, "queued")) \in Nat
  BY <1>1, <1>2, Counts, FS_EmptySet DEF RecordsAreTrue
<1>8. ASSUME NEW g \in Folder
      PROVE  /\ Cardinality(InState(g, "queued")') <= Pending(g)'
             /\ InState(g, "scanning")' # {} => scan' \in {"running", "done", "aborted"} /\ current' = g
             /\ Cardinality(InState(g, "scanning")') <= 1
  <2>1. CASE g # current
    <3>1. \A s \in {"queued", "scanning"} : InState(g, s)' = InState(g, s)
      BY <1>3, <1>6, <2>1, InStatePlaces DEF Moved, States
    <3>2. Pending(g)' = Pending(g)
      BY <1>2, <1>5, <2>1 DEF Pending
    <3>3. /\ InState(g, "scanning")' = {} /\ Cardinality(InState(g, "scanning")') = 0
          /\ Cardinality(InState(g, "queued")') <= Pending(g)'
      BY <1>7, <3>1, <3>2
    <3> QED
      BY <3>3
  <2>2. CASE g = current /\ InState(g, "queued") = {} /\ records' = records
    <3>1. \A s : InState(g, s)' = InState(g, s)
      BY <2>2 DEF InState
    <3>2. Pending(g)' \in Nat
      BY <1>2, <1>5 DEF Pending
    <3>3. Cardinality(InState(g, "queued")') = 0 /\ InState(g, "scanning")' = {}
          /\ Cardinality(InState(g, "scanning")') = 0
      BY <1>7, <2>2, <3>1, FS_EmptySet
    <3> QED
      BY <3>2, <3>3
  <2>3. ASSUME g = current, NEW k \in InState(g, "queued"),
               InState(g, "queued")' = InState(g, "queued") \ {k},
               InState(g, "scanning")' = InState(g, "scanning") \cup {k}
        PROVE  /\ Cardinality(InState(g, "queued")') <= Pending(g)'
               /\ Cardinality(InState(g, "scanning")') <= 1
    <3>1. Cardinality(InState(g, "queued")') = Cardinality(InState(g, "queued")) - 1
      BY <1>7, <2>3, FS_RemoveElement
    <3>2. Pending(g) = Queued(g) + 1 /\ Pending(g)' = Queued(g)
      BY <1>2, <1>5, <2>3 DEF Pending
    <3>3. InState(g, "scanning")' = {k}
      BY <1>7, <2>3
    <3>4. Cardinality(InState(g, "scanning")') = 1
      BY <3>3, FS_Singleton
    <3>5. Cardinality(InState(g, "queued")') <= Pending(g)'
      BY <1>5, <1>7, <3>1, <3>2
    <3> QED
      BY <3>4, <3>5
  <2>4. CASE g = current /\ ~(InState(g, "queued") = {} /\ records' = records)
    <3>1. \E k \in InState(g, "queued") :
            /\ InState(g, "queued")' = InState(g, "queued") \ {k}
            /\ InState(g, "scanning")' = InState(g, "scanning") \cup {k}
      BY <1>3, <1>6, <2>4 DEF Moved, States
    <3> QED
      BY <1>2, <2>3, <2>4, <3>1
  <2> QED
    BY <2>1, <2>2, <2>4
<1> QED
  BY <1>4, <1>8 DEF IInv, RecordsAreTrue

\* The scan that ends has at most one record, and takes it along.
LEMMA RecordKeeps == IInv /\ RecordManual => IInv'
<1> SUFFICES ASSUME IInv, RecordManual PROVE IInv'
  OBVIOUS
<1>1. TypeManual /\ RecordsAreTrue
  BY DEF IInv
<1>2. /\ scan \in {"done", "aborted"} /\ scan' = "none" /\ current' = NoFolder /\ queue' = queue
      /\ records' = Marked(current, "scanning", scan)
      /\ current \in Folder
  BY <1>1 DEF RecordManual, TypeManual
<1>3. /\ records' \in Seq(Records)
      /\ Moved(records', current, "scanning", scan)
  BY <1>1, <1>2, MarkedPlaces DEF States
<1>4. TypeManual'
  BY <1>1, <1>2, <1>3, FolderAssumption DEF TypeManual
<1>5. \A g, s : InState(g, s)' = Places(records', Record(g, s))
  BY DEF InState, Places, Record
<1>6. ASSUME NEW g \in Folder
      PROVE  /\ Pending(g)' = Pending(g) /\ InState(g, "queued")' = InState(g, "queued")
             /\ InState(g, "scanning")' = {}
  <2>1. Pending(g)' = Pending(g)
    BY <1>2 DEF Pending, Queued
  <2>2. InState(g, "queued")' = InState(g, "queued")
    BY <1>2, <1>3, <1>5, InStatePlaces DEF Moved, States
  <2>3. CASE g # current
    <3>1. InState(g, "scanning") = {}
      BY <1>1, <2>3 DEF RecordsAreTrue
    <3>2. InState(g, "scanning")' = InState(g, "scanning")
      BY <1>3, <1>5, <2>3, InStatePlaces DEF Moved, States
    <3> QED
      BY <2>1, <2>2, <3>1, <3>2
  <2>4. CASE g = current
    <3>1. ASSUME NEW k \in InState(g, "scanning")
          PROVE  InState(g, "scanning") \ {k} = {}
      <4>1. IsFiniteSet(InState(g, "scanning")) /\ Cardinality(InState(g, "scanning")) \in Nat
        BY <1>1, Counts
      <4>2. Cardinality(InState(g, "scanning")) <= 1
        BY <1>1 DEF RecordsAreTrue
      <4>3. /\ IsFiniteSet(InState(g, "scanning") \ {k})
            /\ Cardinality(InState(g, "scanning") \ {k}) = Cardinality(InState(g, "scanning")) - 1
        BY <4>1, FS_RemoveElement
      <4>4. Cardinality(InState(g, "scanning") \ {k}) = 0
        BY <4>1, <4>2, <4>3, FS_CardinalityType
      <4> QED
        BY <4>3, <4>4, FS_EmptySet
    <3>2. \/ InState(g, "scanning") = {} /\ InState(g, "scanning")' = InState(g, "scanning")
          \/ \E k \in InState(g, "scanning") :
               InState(g, "scanning")' = InState(g, "scanning") \ {k}
      BY <1>3, <1>5, <2>4, InStatePlaces DEF Moved, States
    <3> QED
      BY <2>1, <2>2, <3>1, <3>2
  <2> QED
    BY <2>3, <2>4
<1>7. \A g \in Folder : Cardinality(InState(g, "queued")) <= Pending(g)
  BY <1>1 DEF RecordsAreTrue
<1>8. ASSUME NEW g \in Folder
      PROVE  /\ Cardinality(InState(g, "queued")') <= Pending(g)'
             /\ InState(g, "scanning")' = {} /\ Cardinality(InState(g, "scanning")') <= 1
  BY <1>6, <1>7, FS_EmptySet
<1> QED
  BY <1>4, <1>8 DEF IInv, RecordsAreTrue

\* Everything else leaves the manual scans alone, or only gets on with one.
LEMMA OthersKeep ==
  ASSUME IInv, UNCHANGED <<queue, records, current>>,
         \/ scan' = scan
         \/ scan = "running" /\ scan' \in {"done", "aborted"}
  PROVE  IInv'
<1>1. TypeManual /\ RecordsAreTrue
  BY DEF IInv
<1>2. TypeManual'
  BY <1>1 DEF TypeManual
<1>3. ASSUME NEW f \in Folder
      PROVE  /\ Pending(f)' = Pending(f)
             /\ \A s : InState(f, s)' = InState(f, s)
  BY DEF Pending, Queued, InState
<1>4. ASSUME NEW f \in Folder
      PROVE  /\ Cardinality(InState(f, "queued")') <= Pending(f)'
             /\ InState(f, "scanning")' # {} => scan' \in {"running", "done", "aborted"} /\ current' = f
             /\ Cardinality(InState(f, "scanning")') <= 1
  BY <1>1, <1>3 DEF RecordsAreTrue
<1> QED
  BY <1>2, <1>4 DEF IInv, RecordsAreTrue

LEMMA NextInvariant == IInv /\ [Next]_vars => IInv'
<1> SUFFICES ASSUME IInv, [Next]_vars PROVE IInv'
  OBVIOUS
<1>1. CASE PopManual
  BY <1>1, PopKeeps
<1>2. CASE StartManual
  BY <1>2, StartKeeps
<1>3. ASSUME NEW o \in {"done", "aborted"}, LogManual(o) PROVE IInv'
  BY <1>3, OthersKeep DEF LogManual
<1>4. CASE RecordManual
  BY <1>4, RecordKeeps
<1>5. CASE Timers
  BY <1>5, OthersKeep DEF Timers, PollLog, PollManual, manual
<1>6. CASE OpenDialog \/ CloseDialog
  BY <1>6, OthersKeep DEF OpenDialog, CloseDialog, manual
<1>7. CASE SelectLogging \/ SelectManual \/ SelectOther
  BY <1>7, OthersKeep DEF SelectLogging, SelectManual, SelectOther, manual
<1>8. CASE ClearLog
  BY <1>8, OthersKeep DEF ClearLog, manual
<1>9. ASSUME NEW f \in Severity, SetVerbosity(f) PROVE IInv'
  BY <1>9, OthersKeep DEF SetVerbosity, manual
<1>10. ASSUME NEW f \in Folder, ManualScan(f) PROVE IInv'
  BY <1>10, RequestKeeps DEF ManualScan
<1>11. ASSUME NEW s \in Severity, Note(s) PROVE IInv'
  BY <1>11, OthersKeep DEF Note, manual
<1>12. CASE UNCHANGED vars
  BY <1>12, OthersKeep DEF vars, manual
<1> QED
  BY <1>1, <1>2, <1>3, <1>4, <1>5, <1>6, <1>7, <1>8, <1>9, <1>10, <1>11, <1>12
  DEF Next, Scheduler, User

-----------------------------------------------------------------------------

\* The queue, the history and the scan in progress keep their types, and what
\* the records say of them stays true (scanner.cpp, RequestManualScan,
\* ManualScanOne, MarkManualScan).
THEOREM Inductive == Spec => []IInv
<1> QED
  BY InitInvariant, NextInvariant, PTL DEF Spec

\* No record of a manual scan says "Queued" without a request that waits, or
\* "Scanning" of a scan that is over, however many scans of one folder are
\* requested and however many records are pushed out (scanner.cpp,
\* RequestManualScan, ManualScanOne).
THEOREM RecordsHold == Spec => []RecordsAreTrue
<1> QED
  BY Inductive, PTL DEF IInv

-----------------------------------------------------------------------------
(* Selected.                                                               *)

\* Places in rising order: k is the place of which there are k up to it.
LEMMA SelectedAt ==
  ASSUME NEW I \in SUBSET Nat, IsFiniteSet(I)
  PROVE  LET n == Cardinality(I)
             at == [k \in 1..n |->
                      CHOOSE i \in I : Cardinality({j \in I : j <= i}) = k]
         IN /\ n \in Nat
            /\ \A k \in 1..n : at[k] \in I
            /\ \A k, l \in 1..n : k < l => at[k] < at[l]
            /\ \A i \in I : \E k \in 1..n : at[k] = i
<1> DEFINE n == Cardinality(I)
           Upto(i) == {j \in I : j <= i}
           rank == [i \in I |-> Cardinality(Upto(i))]
           at == [k \in 1..n |-> CHOOSE i \in I : Cardinality({j \in I : j <= i}) = k]
<1>1. n \in Nat
  BY FS_CardinalityType
<1>2. ASSUME NEW i \in I
      PROVE  IsFiniteSet(Upto(i)) /\ rank[i] \in 1..n
  <2>1. IsFiniteSet(Upto(i)) /\ Cardinality(Upto(i)) <= n
    BY FS_Subset
  <2>2. Cardinality(Upto(i)) \in Nat /\ (Cardinality(Upto(i)) = 0 <=> Upto(i) = {})
    BY <2>1, FS_CardinalityType, FS_EmptySet
  <2>3. i \in Upto(i)
    OBVIOUS
  <2> QED
    BY <1>1, <2>1, <2>2, <2>3
<1>3. ASSUME NEW i \in I, NEW j \in I, i < j
      PROVE  rank[i] < rank[j]
  <2>1. Upto(i) \in SUBSET Upto(j) /\ j \in Upto(j) /\ j \notin Upto(i)
    <3>1. i \in Nat /\ j \in Nat /\ i < j /\ \A k \in I : k \in Nat
      BY <1>3
    <3>2. \A k \in I : k <= i => k <= j
      BY <3>1
    <3>3. j <= j /\ ~(j <= i)
      BY <3>1
    <3> QED
      BY <3>2, <3>3
  <2>2. IsFiniteSet(Upto(j))
    BY <1>2
  <2> HIDE DEF Upto
  <2>3. Cardinality(Upto(i)) <= Cardinality(Upto(j)) /\ Cardinality(Upto(i)) # Cardinality(Upto(j))
    BY <2>1, <2>2, FS_Subset
  <2> QED
    BY <1>2, <2>3
<1>4. \A i, j \in I : rank[i] = rank[j] => i = j
  <2> SUFFICES ASSUME NEW i \in I, NEW j \in I, rank[i] = rank[j] PROVE i = j
    OBVIOUS
  <2>1. i \in Nat /\ j \in Nat /\ rank[i] \in Nat /\ ~(rank[i] < rank[j]) /\ ~(rank[j] < rank[i])
    BY <1>2
  <2>2. ~(i < j) /\ ~(j < i)
    BY <1>3, <2>1
  <2> QED
    BY <2>1, <2>2
<1>5. rank \in Injection(I, 1..n)
  BY <1>2, <1>4 DEF Injection, IsInjective
<1>6. IsFiniteSet(1..n) /\ Cardinality(1..n) = n
  BY <1>1, FS_Interval
<1>7. rank \in Surjection(I, 1..n)
  BY <1>5, <1>6, FS_Injection
<1>8. ASSUME NEW k \in 1..n
      PROVE  at[k] \in I /\ rank[at[k]] = k
  <2>1. \E i \in I : rank[i] = k
    BY <1>7 DEF Surjection
  <2>2. \E i \in I : Cardinality({j \in I : j <= i}) = k
    BY <2>1
  <2>3. at[k] = CHOOSE i \in I : Cardinality({j \in I : j <= i}) = k
    OBVIOUS
  <2> HIDE DEF at
  <2>4. at[k] \in I /\ Cardinality({j \in I : j <= at[k]}) = k
    BY <2>2, <2>3
  <2> QED
    BY <2>4
<1> HIDE DEF at, rank
<1>9. ASSUME NEW k \in 1..n, NEW l \in 1..n, k < l
      PROVE  at[k] < at[l]
  <2>1. at[k] \in I /\ at[l] \in I /\ rank[at[k]] = k /\ rank[at[l]] = l
    BY <1>8
  <2>2. at[l] < at[k] => rank[at[l]] < rank[at[k]]
    BY <1>3, <2>1
  <2>3. at[k] \in Nat /\ at[l] \in Nat /\ k \in Nat /\ l \in Nat
    <3>1. k \in Nat /\ l \in Nat
      BY <1>1, <1>9
    <3>2. \A i \in I : i \in Nat
      OBVIOUS
    <3> QED
      BY <2>1, <3>1, <3>2
  <2>4. at[k] # at[l]
    BY <1>9, <2>1, <2>3
  <2> QED
    BY <1>9, <2>1, <2>2, <2>3, <2>4
<1>10. ASSUME NEW i \in I
       PROVE  \E k \in 1..n : at[k] = i
  <2>1. rank[i] \in 1..n
    BY <1>2
  <2>2. at[rank[i]] \in I /\ rank[at[rank[i]]] = rank[i]
    BY <1>8, <2>1
  <2> QED
    BY <1>4, <2>1, <2>2
<1> QED
  BY <1>1, <1>8, <1>9, <1>10 DEF at

\* What is selected from a sequence whose numbers rise is again such a sequence,
\* of exactly the entries at the places selected.
LEMMA SelectedRun ==
  ASSUME NEW s, NEW m \in Nat, NEW I \in SUBSET (1..m),
         \A i \in 1..m : s[i] \in Entries,
         \A i, j \in 1..m : i < j => s[i].seq < s[j].seq
  PROVE  LET t == Selected(s, I)
         IN /\ t \in Seq(Entries)
            /\ \A k, l \in DOMAIN t : k < l => t[k].seq < t[l].seq
            /\ {t[k] : k \in DOMAIN t} = {s[i] : i \in I}
<1> DEFINE n == Cardinality(I)
           at == [k \in 1..n |->
                    CHOOSE i \in I : Cardinality({j \in I : j <= i}) = k]
           t == [k \in 1..n |-> s[at[k]]]
<1>1. I \in SUBSET Nat /\ IsFiniteSet(I)
  <2>1. IsFiniteSet(1..m) /\ I \subseteq Nat
    BY FS_Interval
  <2> QED
    BY <2>1, FS_Subset
<1>2. /\ n \in Nat
      /\ \A k \in 1..n : at[k] \in I
      /\ \A k, l \in 1..n : k < l => at[k] < at[l]
      /\ \A i \in I : \E k \in 1..n : at[k] = i
  BY <1>1, SelectedAt
<1>3. Selected(s, I) = t
  BY DEF Selected
<1> HIDE DEF n, at
<1>4. t \in [1..n -> Entries] /\ DOMAIN t = 1..n
  BY <1>2
<1>5. t \in Seq(Entries)
  BY <1>2, <1>4, SeqDef
<1>6. \A k, l \in 1..n : k < l => t[k].seq < t[l].seq
  BY <1>2
<1>7. {t[k] : k \in 1..n} = {s[i] : i \in I}
  BY <1>2
<1> HIDE DEF t
<1> QED
  BY <1>3, <1>4, <1>5, <1>6, <1>7

-----------------------------------------------------------------------------
(* The ring.                                                               *)

\* Every place knows its number: those before head were written in this round,
\* the others in the one before.
RingInv ==
  /\ ring \in [0..(Capacity - 1) -> Entries]
  /\ head \in 0..(Capacity - 1) /\ count \in 0..Capacity /\ next \in Nat
  /\ count < next
  /\ count < Capacity => head = count /\ next = count + 1
  /\ \A p \in 0..(Capacity - 1) :
       /\ p < head => ring[p].seq = next - head + p
       /\ head <= p /\ p < count => ring[p].seq = next - Capacity + p - head

\* What is buffered.
Held == {ring[p] : p \in 0..(count - 1)}

InRing(n) == IF n < Capacity THEN n ELSE n - Capacity

\* A place counted beyond the end of the ring is one further from its start.
LEMMA Wrap ==
  ASSUME NEW c \in Nat \ {0}, NEW n \in 0..(2 * c - 1)
  PROVE  n % c = IF n < c THEN n ELSE n - c
OBVIOUS

\* A place in use is a place.
LEMMA Below ==
  ASSUME NEW c \in Nat, NEW n \in 0..c, NEW p \in 0..(n - 1)
  PROVE  p \in 0..(c - 1)
OBVIOUS

\* What is held carries the last count numbers.
LEMMA HeldType ==
  ASSUME RingInv
  PROVE  \A e \in Held : e \in Entries /\ e.seq \in (next - count)..(next - 1)
<1> SUFFICES ASSUME NEW p \in 0..(count - 1)
             PROVE  ring[p] \in Entries /\ ring[p].seq \in (next - count)..(next - 1)
  BY DEF Held
<1>1. p \in 0..(Capacity - 1) /\ p < count
  BY SizeAssumption DEF RingInv
<1>2. ring[p] \in Entries
  BY <1>1 DEF RingInv
<1>3. ring[p].seq \in (next - count)..(next - 1)
  <2>1. CASE p < head
    <3>1. ring[p].seq = next - head + p
      BY <1>1, <2>1 DEF RingInv
    <3>2. head <= count
      BY SizeAssumption DEF RingInv
    <3> QED
      BY <1>1, <2>1, <3>1, <3>2, SizeAssumption DEF RingInv
  <2>2. CASE head <= p
    <3>1. ring[p].seq = next - Capacity + p - head
      BY <1>1, <2>2 DEF RingInv
    <3>2. count = Capacity
      BY <1>1, <2>2, SizeAssumption DEF RingInv
    <3> QED
      BY <1>1, <2>2, <3>1, <3>2, SizeAssumption DEF RingInv
  <2> QED
    BY <1>1, <2>1, <2>2, SizeAssumption DEF RingInv
<1> QED
  BY <1>2, <1>3

\* Read from the oldest on, the numbers are next - count, ..., next - 1.
LEMMA BufferedRun ==
  ASSUME RingInv
  PROVE  /\ \A i \in 1..count : /\ Buffered[i] \in Entries
                                /\ Buffered[i].seq = next - count + i - 1
         /\ {Buffered[i] : i \in 1..count} = Held
<1>1. OldestIdx \in 0..(Capacity - 1) /\ (count < Capacity => OldestIdx = 0)
      /\ (count = Capacity => OldestIdx = head)
  BY SizeAssumption DEF RingInv, OldestIdx
<1> DEFINE Place(i) == InRing(OldestIdx + i - 1)
<1>2. ASSUME NEW i \in 1..count
      PROVE  /\ Place(i) \in 0..(count - 1) /\ Place(i) \in 0..(Capacity - 1)
             /\ Buffered[i] = ring[Place(i)]
  <2>1. i \in 1..Capacity
    BY SizeAssumption DEF RingInv
  <2>2. (OldestIdx + i - 1) \in 0..(2 * Capacity - 1)
    BY <1>1, <2>1, SizeAssumption
  <2> DEFINE n == OldestIdx + i - 1
  <2>3. n % Capacity = Place(i)
    <3>1. Capacity \in Nat \ {0} /\ n \in 0..(2 * Capacity - 1)
      BY <2>2, SizeAssumption
    <3>2. Place(i) = InRing(n)
      OBVIOUS
    <3> HIDE DEF n, Place
    <3> QED
      BY <3>1, <3>2, Wrap DEF InRing
  <2>4. Buffered[i] = ring[n % Capacity]
    BY DEF Buffered
  <2> HIDE DEF n
  <2>5. Place(i) \in 0..(Capacity - 1)
    BY <1>1, <2>1, SizeAssumption DEF InRing
  <2>6. Place(i) \in 0..(count - 1)
    BY <1>1, <2>1, <2>5, SizeAssumption DEF RingInv, InRing
  <2> QED
    BY <2>3, <2>4, <2>5, <2>6
<1>3. ASSUME NEW i \in 1..count
      PROVE  /\ Buffered[i] \in Entries /\ Buffered[i] \in Held
             /\ Buffered[i].seq = next - count + i - 1
  <2>1. Buffered[i] \in Entries /\ Buffered[i] \in Held
    BY <1>2, HeldType DEF Held
  <2>2. CASE count < Capacity
    <3>1. Place(i) = i - 1 /\ i - 1 < head /\ head = count
      BY <1>1, <2>2, SizeAssumption DEF RingInv, InRing
    <3>2. ring[Place(i)].seq = next - head + (i - 1)
      BY <1>2, <3>1 DEF RingInv
    <3> QED
      BY <1>2, <2>1, <3>1, <3>2 DEF RingInv
  <2>3. CASE count = Capacity
    <3>1. OldestIdx = head /\ head \in 0..(Capacity - 1)
      BY <1>1, <2>3 DEF RingInv
    <3>2. CASE head + i - 1 < Capacity
      <4>1. Place(i) = head + i - 1 /\ head <= Place(i)
        BY <3>1, <3>2 DEF InRing
      <4>2. ring[Place(i)].seq = next - Capacity + (head + i - 1) - head
        <5> HIDE DEF Place
        <5>1. Place(i) \in 0..(Capacity - 1) /\ head <= Place(i)
          BY <1>2, <4>1
        <5>2. ring[Place(i)].seq = next - Capacity + Place(i) - head
          BY <2>3, <5>1, SizeAssumption DEF RingInv
        <5> QED
          BY <4>1, <5>2
      <4> QED
        BY <1>2, <2>1, <2>3, <3>1, <4>2, SizeAssumption DEF RingInv
    <3>3. CASE ~(head + i - 1 < Capacity)
      <4>1. Place(i) = head + i - 1 - Capacity /\ Place(i) < head
        BY <2>3, <3>1, <3>3, SizeAssumption DEF InRing
      <4>2. ring[Place(i)].seq = next - head + (head + i - 1 - Capacity)
        BY <1>2, <4>1 DEF RingInv
      <4> QED
        BY <1>2, <2>1, <2>3, <3>1, <4>2, SizeAssumption DEF RingInv
    <3> QED
      BY <3>2, <3>3
  <2> QED
    BY <2>1, <2>2, <2>3, SizeAssumption DEF RingInv
<1>4. ASSUME NEW p \in 0..(count - 1)
      PROVE  \E i \in 1..count : Buffered[i] = ring[p]
  <2>1. p \in 0..(Capacity - 1)
    BY SizeAssumption DEF RingInv
  <2>2. CASE count < Capacity \/ p < head
    <3> DEFINE i == IF count < Capacity THEN p + 1 ELSE p + 1 + Capacity - head
    <3>1. i \in 1..count /\ Place(i) = p
      BY <1>1, <2>1, <2>2, SizeAssumption DEF RingInv, InRing
    <3> QED
      BY <1>2, <3>1
  <2>3. CASE count = Capacity /\ head <= p
    <3> DEFINE i == p + 1 - head
    <3>1. i \in 1..count /\ Place(i) = p
      BY <1>1, <2>1, <2>3, SizeAssumption DEF RingInv, InRing
    <3> QED
      BY <1>2, <3>1
  <2> QED
    BY <2>1, <2>2, <2>3, SizeAssumption DEF RingInv
<1> HIDE DEF Place
<1>5. {Buffered[i] : i \in 1..count} = Held
  BY <1>3, <1>4 DEF Held
<1> QED
  BY <1>3, <1>5

\* What was logged since the oldest entry of the ring is held.
LoggedInv ==
  /\ logged \subseteq Entries /\ Held \subseteq logged
  /\ \A e \in logged : e.seq < next /\ (next - count <= e.seq => e \in Held)

\* A new entry overwrites at most the oldest.
LEMMA RingAppend ==
  ASSUME RingInv, LoggedInv, NEW severity \in 0..2, Append1(severity)
  PROVE  /\ RingInv' /\ LoggedInv' /\ next' = next + 1
         /\ logged' = logged \cup {[seq |-> next, severity |-> severity]}
<1> DEFINE e == [seq |-> next, severity |-> severity]
<1>1. e \in Entries /\ e.seq = next
  BY DEF RingInv, Entries
<1>2. head' = IF head = Capacity - 1 THEN 0 ELSE head + 1
  <2> DEFINE n == head + 1
  <2>1. Capacity \in Nat \ {0} /\ n \in 0..(2 * Capacity - 1)
    BY SizeAssumption DEF RingInv
  <2>2. head' = n % Capacity
    BY DEF Append1
  <2>3. n = IF head = Capacity - 1 THEN Capacity ELSE head + 1
    BY SizeAssumption DEF RingInv
  <2>4. head \in 0..(Capacity - 1)
    BY DEF RingInv
  <2> HIDE DEF n
  <2>5. n % Capacity = IF n < Capacity THEN n ELSE n - Capacity
    BY <2>1, Wrap
  <2> QED
    BY <2>1, <2>2, <2>3, <2>4, <2>5
<1>3. /\ ring' = [ring EXCEPT ![head] = e] /\ next' = next + 1
      /\ count' = IF count < Capacity THEN count + 1 ELSE count
  BY DEF Append1
<1>4. /\ ring' \in [0..(Capacity - 1) -> Entries] /\ ring'[head] = e
      /\ \A p \in 0..(Capacity - 1) : p # head => ring'[p] = ring[p]
  BY <1>1, <1>3 DEF RingInv
<1> HIDE DEF e
<1>5. /\ head' \in 0..(Capacity - 1) /\ count' \in 0..Capacity /\ next' \in Nat
      /\ count' < next' /\ (count' < Capacity => head' = count' /\ next' = count' + 1)
  BY <1>2, <1>3, SizeAssumption DEF RingInv
<1>6. ASSUME NEW p \in 0..(Capacity - 1), p < head'
      PROVE  ring'[p].seq = next' - head' + p
  <2>1. head' = head + 1 /\ head \in Nat /\ next \in Nat
    BY <1>2, <1>6 DEF RingInv
  <2>2. CASE p = head
    BY <1>1, <1>3, <1>4, <2>1, <2>2
  <2>3. CASE p < head
    <3>1. ring[p].seq = next - head + p
      BY <2>3 DEF RingInv
    <3> QED
      BY <1>3, <1>4, <2>1, <2>3, <3>1
  <2> QED
    BY <1>6, <2>1, <2>2, <2>3
<1>7. ASSUME NEW p \in 0..(Capacity - 1), head' <= p, p < count'
      PROVE  ring'[p].seq = next' - Capacity + p - head'
  <2>1. count' = Capacity /\ head \in Nat /\ next \in Nat
    BY <1>2, <1>3, <1>7, SizeAssumption DEF RingInv
  <2>2. CASE head = Capacity - 1
    <3>1. head' = 0
      BY <1>2, <2>2
    <3>2. CASE p = head
      BY <1>1, <1>3, <1>4, <2>1, <2>2, <3>1, <3>2, SizeAssumption
    <3>3. CASE p # head
      <4>1. p < head
        BY <2>2, <3>3, SizeAssumption
      <4>2. ring[p].seq = next - head + p
        BY <4>1 DEF RingInv
      <4> QED
        BY <1>3, <1>4, <2>1, <2>2, <3>1, <3>3, <4>2, SizeAssumption
    <3> QED
      BY <3>2, <3>3
  <2>3. CASE head # Capacity - 1
    <3>1. head' = head + 1 /\ p # head /\ head <= p
      BY <1>2, <1>7, <2>1, <2>3
    <3>2. p < count
      BY <1>3, <1>7, <2>1, <2>3, SizeAssumption DEF RingInv
    <3>3. ring[p].seq = next - Capacity + p - head
      BY <3>1, <3>2 DEF RingInv
    <3> QED
      BY <1>3, <1>4, <2>1, <3>1, <3>3, SizeAssumption
  <2> QED
    BY <2>2, <2>3
<1>8. RingInv'
  BY <1>4, <1>5, <1>6, <1>7 DEF RingInv
<1>9. ASSUME NEW p \in 0..(count' - 1)
      PROVE  ring'[p] \in Held \cup {e}
  <2>1. p \in 0..(Capacity - 1)
    <3>1. count' \in 0..Capacity /\ Capacity \in Nat
      BY <1>5, SizeAssumption
    <3>2. p \in 0..(count' - 1)
      BY <1>9
    <3> QED
      BY <3>1, <3>2, Below
  <2>2. p # head => p \in 0..(count - 1)
    BY <1>3, <2>1, SizeAssumption DEF RingInv
  <2> QED
    BY <1>4, <2>1, <2>2 DEF Held
<1>10. logged' = logged \cup {e} /\ Held' \subseteq Held \cup {e}
  BY <1>9 DEF Append1, Held, e
<1>11. next \in Nat /\ count \in 0..Capacity /\ head \in 0..(Capacity - 1) /\ Capacity \in Nat
  BY SizeAssumption DEF RingInv
<1>12. e \in Held'
  <2>1. head \in 0..(count' - 1)
    <3>1. CASE count < Capacity
      BY <1>3, <1>11, <3>1 DEF RingInv
    <3>2. CASE ~(count < Capacity)
      BY <1>3, <1>11, <3>2
    <3> QED
      BY <3>1, <3>2
  <2> QED
    BY <1>4, <2>1 DEF Held
  \* The place that is overwritten has the number next - Capacity.
<1>13. ASSUME NEW d \in logged, next' - count' <= d.seq
       PROVE  d \in Held'
  <2>1. d.seq \in Nat /\ next - count <= d.seq
    <3>1. d.seq \in Nat
      BY DEF LoggedInv, Entries
    <3> QED
      BY <1>3, <1>11, <1>13, <3>1
  <2>2. PICK p \in 0..(count - 1) : d = ring[p]
    BY <2>1 DEF LoggedInv, Held
  <2>3. p \in 0..(Capacity - 1) /\ p \in 0..(count' - 1)
    BY <1>3, <1>11
  <2>4. p # head
    <3>1. SUFFICES ASSUME p = head PROVE FALSE
      OBVIOUS
    <3>2. count = Capacity /\ count' = count
      BY <1>3, <1>11, <3>1 DEF RingInv
    <3>3. d.seq = next - Capacity
      BY <1>11, <2>2, <2>3, <3>1, <3>2 DEF RingInv
    <3> QED
      BY <1>3, <1>11, <1>13, <3>2, <3>3
  <2> QED
    BY <1>4, <2>2, <2>3, <2>4 DEF Held
<1>14. LoggedInv'
  <2>1. logged' \subseteq Entries /\ Held' \subseteq logged'
    BY <1>1, <1>10 DEF LoggedInv
  <2>2. ASSUME NEW d \in logged'
        PROVE  d.seq < next' /\ (next' - count' <= d.seq => d \in Held')
    <3>1. CASE d = e
      BY <1>1, <1>3, <1>11, <1>12, <3>1
    <3>2. CASE d \in logged
      <4>1. d.seq \in Nat /\ d.seq < next
        BY <3>2 DEF LoggedInv, Entries
      <4> QED
        BY <1>3, <1>11, <1>13, <3>2, <4>1
    <3> QED
      BY <1>10, <3>1, <3>2
  <2> QED
    BY <2>1, <2>2 DEF LoggedInv
<1> QED
  BY <1>3, <1>8, <1>10, <1>14 DEF e


-----------------------------------------------------------------------------
(* The Logging tab.                                                        *)

Rising(t) == \A i, j \in DOMAIN t : i < j => t[i].seq < t[j].seq
Among(t)  == {t[i] : i \in DOMAIN t}

\* The text t shows a run of all entries, asked for up to since: it has no gap,
\* and as long as there is room none behind its end.
Run(t, since, f, gone, all) ==
  /\ t \in Seq(Entries) /\ Len(t) <= TextLimit /\ Rising(t)
  /\ Among(t) \subseteq all
  /\ \A e \in Among(t) : e.severity <= f /\ e.seq <= since /\ e.seq > gone
  /\ \A e \in all, a, b \in Among(t) :
       e.severity <= f /\ a.seq < e.seq /\ e.seq < b.seq => e \in Among(t)
  /\ Len(t) < TextLimit =>
       \A e \in all, a \in Among(t) :
         e.severity <= f /\ a.seq < e.seq /\ e.seq <= since => e \in Among(t)

\* An empty text shows nothing wrong.
LEMMA EmptyRun ==
  ASSUME NEW since, NEW f, NEW gone, NEW all
  PROVE  Run(<<>>, since, f, gone, all)
<1>1. <<>> \in Seq(Entries) /\ Len(<<>>) = 0 /\ DOMAIN <<>> = {}
  OBVIOUS
<1>2. Among(<<>>) = {} /\ Rising(<<>>)
  BY <1>1 DEF Among, Rising
<1> QED
  BY <1>1, <1>2, SizeAssumption DEF Run

\* What is appended comes behind the text, as far as there is room.
LEMMA AppendedText ==
  ASSUME NEW old \in Seq(Entries), NEW new \in Seq(Entries), Len(old) <= TextLimit
  PROVE  LET t == AppendLogText(old, new)
             n == Len(old)
             m == Len(new)
         IN /\ t \in Seq(Entries)
            /\ Len(t) = IF n + m > TextLimit THEN TextLimit ELSE n + m
            /\ \A i \in 1..Len(t) : t[i] = IF i <= n THEN old[i] ELSE new[i - n]
<1> DEFINE all == old \o new
           cut == IF Len(all) > TextLimit THEN TextLimit ELSE Len(all)
           t == SubSeq(all, 1, cut)
           n == Len(old)
           m == Len(new)
<1>1. n \in Nat /\ m \in Nat /\ DOMAIN old = 1..n /\ DOMAIN new = 1..m
  BY LenProperties
<1>2. TextLimit \in Nat /\ n <= TextLimit
  BY SizeAssumption
<1>3. /\ all \in Seq(Entries) /\ Len(all) = n + m
      /\ \A i \in 1..(n + m) : all[i] = IF i <= n THEN old[i] ELSE new[i - n]
  BY ConcatProperties
<1>4. AppendLogText(old, new) = IF new = <<>> THEN old ELSE t
  BY <1>1, <1>2 DEF AppendLogText
<1>5. CASE new = <<>>
  <2>1. m = 0
    BY <1>5, EmptySeq
  <2>2. AppendLogText(old, new) = old
    BY <1>4, <1>5
  <2> HIDE DEF n, m
  <2>3. /\ n = IF n + m > TextLimit THEN TextLimit ELSE n + m
        /\ \A i \in 1..n : i <= n
    BY <1>1, <1>2, <2>1
  <2> QED
    BY <2>2, <2>3 DEF n, m
<1>6. CASE new # <<>>
  <2>1. cut \in Nat /\ cut = IF n + m > TextLimit THEN TextLimit ELSE n + m
    BY <1>1, <1>2, <1>3
  <2>2. \A i \in 1..cut : all[i] \in Entries
    BY <1>1, <1>3, <2>1, ElementOfSeq
  <2> HIDE DEF all, cut
  <2>3. /\ t \in Seq(Entries) /\ Len(t) = IF 1 <= cut THEN cut - 1 + 1 ELSE 0
        /\ \A i \in 1..(cut - 1 + 1) : t[i] = all[1 + i - 1]
    BY <2>1, <2>2, SubSeqProperties
  <2>4. t \in Seq(Entries) /\ Len(t) = cut /\ \A i \in 1..cut : t[i] = all[i]
    BY <2>1, <2>3
  <2> HIDE DEF t
  <2>5. \A i \in 1..cut : i \in 1..(n + m)
    BY <1>1, <1>2, <2>1
  <2> QED
    BY <1>3, <1>4, <1>6, <2>1, <2>4, <2>5
<1> QED
  BY <1>5, <1>6

\* A run followed by all that is new is a run, and so is what fits of it.
LEMMA AppendedRun ==
  ASSUME NEW since \in Nat, NEW to \in Nat, since <= to, NEW f \in 0..2,
         NEW gone \in 0..since, NEW all \in SUBSET Entries,
         NEW old, Run(old, since, f, gone, all),
         NEW new \in Seq(Entries), Rising(new),
         \A e \in all : e.seq <= to,
         Among(new) = {e \in all : e.seq > since /\ e.severity <= f}
  PROVE  Run(AppendLogText(old, new), to, f, gone, all)
<1> DEFINE t == AppendLogText(old, new)
           n == Len(old)
           m == Len(new)
<1>1. /\ old \in Seq(Entries) /\ n <= TextLimit /\ Rising(old)
      /\ n \in Nat /\ m \in Nat /\ DOMAIN old = 1..n /\ DOMAIN new = 1..m
  BY LenProperties DEF Run
<1>2. /\ t \in Seq(Entries)
      /\ Len(t) = IF n + m > TextLimit THEN TextLimit ELSE n + m
      /\ \A i \in 1..Len(t) : t[i] = IF i <= n THEN old[i] ELSE new[i - n]
  BY <1>1, AppendedText
<1>3. TextLimit \in Nat /\ Len(t) \in Nat /\ DOMAIN t = 1..Len(t) /\ n <= Len(t)
      /\ Len(t) <= n + m
  BY <1>1, <1>2, SizeAssumption, LenProperties
<1> HIDE DEF t, n, m
<1>4. \A i \in 1..n : /\ old[i] \in Entries /\ old[i] \in Among(old)
                      /\ old[i].severity <= f /\ old[i].seq <= since /\ old[i].seq > gone
  <2>1. \A i \in 1..n : old[i] \in Entries /\ old[i] \in Among(old)
    BY <1>1, ElementOfSeq DEF Among, n
  <2> QED
    BY <2>1 DEF Run
<1>5. \A i \in 1..m : /\ new[i] \in Entries /\ new[i] \in Among(new) /\ new[i] \in all
                      /\ new[i].severity <= f /\ new[i].seq > since /\ new[i].seq <= to
  BY <1>1 DEF Among
<1>6. \A i \in 1..Len(t) : i <= n \/ (i - n) \in 1..m
  BY <1>1, <1>3
<1>7. Rising(t)
  <2> SUFFICES ASSUME NEW i \in 1..Len(t), NEW j \in 1..Len(t), i < j
               PROVE  t[i].seq < t[j].seq
    BY <1>3 DEF Rising
  <2>1. CASE j <= n
    <3>1. i \in 1..n /\ j \in 1..n
      BY <1>1, <1>3, <2>1
    <3>2. t[i] = old[i] /\ t[j] = old[j]
      BY <1>1, <1>2, <3>1
    <3> QED
      BY <1>1, <3>1, <3>2 DEF Rising
  <2>2. CASE i <= n /\ ~(j <= n)
    <3>1. i \in 1..n /\ (j - n) \in 1..m
      BY <1>1, <1>3, <1>6, <2>2
    <3>2. t[i] = old[i] /\ t[j] = new[j - n]
      BY <1>2, <2>2
    <3>3. old[i].seq \in Nat /\ new[j - n].seq \in Nat
      BY <1>4, <1>5, <3>1 DEF Entries
    <3>4. old[i].seq <= since
      BY <1>4, <3>1
    <3>5. new[j - n].seq > since
      BY <1>5, <3>1
    <3>6. old[i].seq < new[j - n].seq
      BY <3>3, <3>4, <3>5
    <3> QED
      BY <3>2, <3>6
  <2>3. CASE ~(i <= n)
    <3>1. (i - n) \in 1..m /\ (j - n) \in 1..m /\ i - n < j - n /\ ~(j <= n)
      BY <1>1, <1>3, <1>6, <2>3
    <3> QED
      BY <1>1, <1>2, <2>3, <3>1 DEF Rising
  <2> QED
    BY <2>1, <2>2, <2>3
\* Every entry of the text is an old one or a new one, ...
<1>8. ASSUME NEW e \in Among(t)
      PROVE  e \in Among(old) \/ (e \in Among(new) /\ n < Len(t))
  <2>1. PICK i \in 1..Len(t) : e = t[i]
    BY <1>3 DEF Among
  <2>2. CASE i <= n
    BY <1>1, <1>2, <1>3, <2>1, <2>2 DEF Among
  <2>3. CASE ~(i <= n)
    <3>1. (i - n) \in 1..m /\ n < Len(t) /\ e = new[i - n]
      BY <1>1, <1>2, <1>3, <1>6, <2>1, <2>3
    <3> QED
      BY <1>5, <3>1
  <2> QED
    BY <2>2, <2>3
\* ... all old ones are in it, ...
<1>9. Among(old) \subseteq Among(t)
  <2> SUFFICES ASSUME NEW i \in 1..n PROVE old[i] \in Among(t)
    BY <1>1 DEF Among
  <2>1. i \in 1..Len(t) /\ t[i] = old[i]
    BY <1>1, <1>2, <1>3
  <2> QED
    BY <1>3, <2>1 DEF Among
\* ... and of the new ones all that fit, or that come before one that did.
<1>10. Len(t) < TextLimit => Among(new) \subseteq Among(t)
  <2> SUFFICES ASSUME Len(t) < TextLimit, NEW i \in 1..m PROVE new[i] \in Among(t)
    BY <1>1 DEF Among
  <2>1. Len(t) = n + m
    BY <1>1, <1>2, <1>3
  <2>2. (n + i) \in 1..Len(t) /\ ~(n + i <= n) /\ (n + i) - n = i
    BY <1>1, <2>1
  <2>3. t[n + i] = new[i]
    BY <1>2, <2>2
  <2> QED
    BY <1>3, <2>2, <2>3 DEF Among
<1>11. ASSUME NEW e \in Among(new), NEW b \in Among(t), e.seq < b.seq
       PROVE  e \in Among(t)
  <2>1. PICK i \in 1..m : e = new[i]
    BY <1>1 DEF Among
  <2>2. PICK j \in 1..Len(t) : b = t[j]
    BY <1>3 DEF Among
  <2>3. e.seq \in Nat /\ e.seq > since
    BY <1>5, <2>1 DEF Entries
  <2>4. ~(j <= n)
    <3> SUFFICES ASSUME j <= n PROVE FALSE
      OBVIOUS
    <3>1. j \in 1..n /\ b = old[j]
      BY <1>1, <1>2, <1>3, <2>2
    <3>2. b.seq \in Nat /\ b.seq <= since
      BY <1>4, <3>1 DEF Entries
    <3> QED
      BY <1>11, <2>3, <3>2
  <2>5. (j - n) \in 1..m /\ b = new[j - n]
    BY <1>1, <1>2, <1>3, <1>6, <2>2, <2>4
  <2>6. i < j - n
    <3>1. b.seq \in Nat
      BY <1>5, <2>5 DEF Entries
    <3>2. j - n < i => b.seq < e.seq
      BY <1>1, <2>1, <2>5 DEF Rising
    <3>3. j - n = i => b.seq = e.seq
      BY <2>1, <2>5
    <3> QED
      BY <1>11, <2>3, <2>5, <3>1, <3>2, <3>3
  <2>7. (n + i) \in 1..Len(t) /\ ~(n + i <= n) /\ (n + i) - n = i
    BY <1>1, <1>3, <2>6
  <2>8. t[n + i] = new[i]
    BY <1>2, <2>7
  <2> QED
    BY <1>3, <2>1, <2>7, <2>8 DEF Among
<1>12. ASSUME NEW e \in Among(t)
       PROVE  e \in Entries /\ e.severity <= f /\ e.seq <= to /\ e.seq > gone
  <2>1. CASE e \in Among(old)
    <3>1. e \in Entries /\ e.severity <= f /\ e.seq <= since /\ e.seq > gone
      BY <1>1, <1>4, <2>1 DEF Among
    <3>2. e.seq \in Nat
      BY <3>1 DEF Entries
    <3> QED
      BY <3>1, <3>2
  <2>2. CASE e \in Among(new)
    <3>1. e \in Entries /\ e.severity <= f /\ e.seq > since /\ e.seq <= to
      BY <1>1, <1>5, <2>2 DEF Among
    <3>2. e.seq \in Nat
      BY <3>1 DEF Entries
    <3> QED
      BY <3>1, <3>2
  <2> QED
    BY <1>8, <2>1, <2>2
\* What the filter lets through behind an old entry is shown, or it is new.
<1>13. ASSUME NEW e \in all, e.severity <= f, NEW a \in Among(t), a.seq < e.seq,
              n < TextLimit
       PROVE  e \in Among(t) \/ e \in Among(new)
  <2>1. e.seq \in Nat /\ a.seq \in Nat
    BY <1>12 DEF Entries
  <2>2. CASE e.seq > since
    BY <1>13, <2>2
  <2>3. CASE ~(e.seq > since)
    <3>1. a \in Among(old)
      <4>1. a \in Among(new) => a.seq > since
        OBVIOUS
      <4> QED
        BY <1>8, <1>13, <2>1, <2>3, <4>1
    <3>2. e \in Among(old)
      BY <1>13, <2>1, <2>3, <3>1 DEF Run, n
    <3> QED
      BY <1>9, <3>2
  <2> QED
    BY <2>2, <2>3
<1>14. ASSUME NEW e \in all, NEW a \in Among(t), NEW b \in Among(t),
              e.severity <= f, a.seq < e.seq, e.seq < b.seq
       PROVE  e \in Among(t)
  <2>1. CASE n < TextLimit
    BY <1>11, <1>13, <1>14, <2>1
  <2>2. CASE ~(n < TextLimit)
    <3>1. ~(n < Len(t))
      BY <1>1, <1>2, <1>3, <2>2
    <3>2. a \in Among(old) /\ b \in Among(old)
      BY <1>8, <3>1
    <3>3. e \in Among(old)
      BY <1>14, <3>2 DEF Run
    <3> QED
      BY <1>9, <3>3
  <2> QED
    BY <2>1, <2>2
<1>15. ASSUME Len(t) < TextLimit, NEW e \in all, NEW a \in Among(t),
              e.severity <= f, a.seq < e.seq
       PROVE  e \in Among(t)
  <2>1. n < TextLimit
    BY <1>1, <1>3, <1>15
  <2> QED
    BY <1>10, <1>13, <1>15, <2>1
<1>16. Len(t) <= TextLimit
  BY <1>1, <1>2, <1>3
<1>17. Among(t) \subseteq all
  BY <1>8 DEF Run
<1> QED
  BY <1>2, <1>7, <1>12, <1>14, <1>15, <1>16, <1>17 DEF Run, t


\* An entry newer than all that was asked for leaves a gap nowhere.
LEMMA RunGoesOn ==
  ASSUME NEW t, NEW since \in Nat, NEW f, NEW gone, NEW all, NEW more, NEW e \in Entries,
         Run(t, since, f, gone, all), more = all \cup {e}, e.seq > since
  PROVE  Run(t, since, f, gone, more)
<1>1. ASSUME NEW b \in Among(t)
      PROVE  b.seq \in Nat /\ b.seq <= since
  <2>1. b \in Entries
    BY LenProperties, ElementOfSeq DEF Run, Among
  <2> QED
    BY <2>1 DEF Run, Entries
<1>2. e.seq \in Nat
  BY DEF Entries
<1>3. ASSUME NEW d \in more, NEW a \in Among(t), NEW b \in Among(t),
             d.severity <= f, a.seq < d.seq, d.seq < b.seq
      PROVE  d \in Among(t)
  <2>1. d # e
    BY <1>1, <1>2, <1>3
  <2> QED
    BY <1>3, <2>1 DEF Run
<1>4. ASSUME Len(t) < TextLimit, NEW d \in more, NEW a \in Among(t),
             d.severity <= f, a.seq < d.seq, d.seq <= since
      PROVE  d \in Among(t)
  <2>1. d # e
    BY <1>2, <1>4
  <2> QED
    BY <1>4, <2>1 DEF Run
<1> QED
  BY <1>3, <1>4 DEF Run

\* A refresh appends what was logged after since.  What the ring has lost of it
\* empties the text, and what is shown then begins at the oldest entry held.
LEMMA RefreshedRun ==
  ASSUME RingInv, LoggedInv, NEW since \in 0..(next - 1), NEW f \in 0..2,
         NEW gone \in 0..since,
         NEW old, Run(old, since, f, gone, logged), Refresh(since, old, f)
  PROVE  last' = next - 1 /\ Run(text', next - 1, f, gone, logged)
<1> DEFINE reply == Serialize(since)
           I == {i \in After(since) : Buffered[i].severity <= f}
           new == Selected(Buffered, I)
           kept == IF reply.truncated THEN <<>> ELSE old
<1>1. next \in Nat \ {0} /\ count \in Nat /\ count < next /\ (count = 0 => next = 1)
  BY SizeAssumption DEF RingInv
<1>2. reply.latest = next - 1 /\ reply.entries = After(since)
  BY <1>1 DEF Serialize
<1>3. last' = next - 1 /\ text' = AppendLogText(kept, new)
  BY <1>2 DEF Refresh
<1>4. /\ \A i \in 1..count : /\ Buffered[i] \in Entries
                             /\ Buffered[i].seq = next - count + i - 1
      /\ {Buffered[i] : i \in 1..count} = Held
  BY BufferedRun
<1>5. I \in SUBSET (1..count)
  BY DEF After
<1>6. \A i, j \in 1..count : i < j => Buffered[i].seq < Buffered[j].seq
  BY <1>1, <1>4
\* Where nothing is lost the reply reaches back to since; otherwise it is alone.
<1> DEFINE from == IF next - count <= since THEN since ELSE next - count - 1
<1>7. count > 0 => ring[OldestIdx].seq = next - count
  <2>1. SUFFICES ASSUME count > 0 PROVE ring[OldestIdx].seq = next - count
    OBVIOUS
  <2>2. 1 \in 1..count /\ Buffered[1].seq = next - count
    BY <1>1, <1>4, <2>1
  <2>3. OldestIdx \in 0..(Capacity - 1) /\ Capacity \in Nat \ {0}
    BY SizeAssumption DEF RingInv, OldestIdx
  <2>4. (OldestIdx + 1 - 1) % Capacity = OldestIdx
    BY <2>3
  <2>5. Buffered[1] = ring[(OldestIdx + 1 - 1) % Capacity]
    BY <2>2 DEF Buffered
  <2> QED
    BY <2>2, <2>4, <2>5
<1>8. next - count <= since \/ kept = <<>>
  <2>1. SUFFICES ASSUME ~(next - count <= since) PROVE kept = <<>>
    OBVIOUS
  <2>2. CASE since = 0
    <3>1. Among(old) = {} /\ old \in Seq(Entries)
      <4>1. ASSUME NEW d \in Among(old) PROVE FALSE
        <5>1. d \in Entries /\ d.seq <= 0 /\ d.seq > gone /\ gone = 0
          BY <2>2, LenProperties, ElementOfSeq DEF Run, Among
        <5> QED
          BY <5>1 DEF Entries
      <4> QED
        BY <4>1 DEF Run
    <3>2. Len(old) = 0
      <4>1. DOMAIN old = 1..Len(old) /\ Len(old) \in Nat
        BY <3>1, LenProperties
      <4>2. 1 \notin DOMAIN old
        BY <3>1 DEF Among
      <4> QED
        BY <4>1, <4>2
    <3>3. old = <<>>
      BY <3>1, <3>2, EmptySeq
    <3> QED
      BY <3>3
  <2>3. CASE since # 0
    <3>1. count > 0 /\ since > 0 /\ since < next - count
      BY <1>1, <2>1, <2>3
    <3>2. reply.truncated
      BY <1>7, <3>1 DEF Serialize
    <3> QED
      BY <3>2
  <2> QED
    BY <2>2, <2>3
<1> HIDE DEF I
<1>9. /\ new \in Seq(Entries)
      /\ \A k, l \in DOMAIN new : k < l => new[k].seq < new[l].seq
      /\ {new[k] : k \in DOMAIN new} = {Buffered[i] : i \in I}
  BY <1>1, <1>4, <1>5, <1>6, SelectedRun
<1> HIDE DEF new, reply
<1>10. Rising(new) /\ Among(new) = {Buffered[i] : i \in I}
  BY <1>9 DEF Rising, Among
<1>11. Among(new) = {e \in Held : e.seq > since /\ e.severity <= f}
  BY <1>4, <1>10 DEF I, After
<1>12. logged \in SUBSET Entries /\ \A e \in logged : e.seq \in Nat /\ e.seq <= next - 1
  BY <1>1 DEF LoggedInv, Entries
<1>13. from \in Nat /\ next - 1 \in Nat /\ from <= next - 1 /\ gone \in 0..from
  BY <1>1
<1>14. Among(new) = {e \in logged : e.seq > from /\ e.severity <= f}
  <2>1. ASSUME NEW e \in logged, e.seq > from
        PROVE  e \in Held /\ e.seq > since
    BY <1>1, <1>12, <2>1 DEF LoggedInv
  <2>2. ASSUME NEW e \in Held, e.seq > since
        PROVE  e \in logged /\ e.seq > from
    <3>1. e \in logged /\ e.seq \in (next - count)..(next - 1)
      BY HeldType DEF LoggedInv
    <3> QED
      BY <1>1, <2>2, <3>1
  <2> QED
    BY <1>11, <2>1, <2>2
<1>15. Run(kept, from, f, gone, logged)
  BY <1>8, EmptyRun
<1> HIDE DEF kept, from
<1>16. Run(AppendLogText(kept, new), next - 1, f, gone, logged)
  BY <1>9, <1>10, <1>15, <1>12, <1>13, <1>14, AppendedRun
<1> QED
  BY <1>3, <1>16

TextInv ==
  /\ last \in 0..(next - 1) /\ cleared \in 0..last /\ filter \in 0..2
  /\ LoggedInv /\ Run(text, last, filter, cleared, logged)

\* What is left of TypeOK.
TypeRest ==
  /\ Len(records) <= HistorySize
  /\ scanning = (scan \in {"running", "done", "aborted"})
  /\ tab \in {"closed", "other", "manual", "logging"}
  /\ view \in Seq(Records) /\ Len(view) <= HistorySize
  /\ requests \in 0..MaxEvents /\ notes \in 0..MaxEvents

DialogInv == IInv /\ RingInv /\ TextInv /\ TypeRest

LEMMA InitDialog == Init => DialogInv
<1> SUFFICES ASSUME Init PROVE DialogInv
  OBVIOUS
<1>1. IInv
  BY InitInvariant
<1>2. RingInv
  <2>1. [seq |-> 0, severity |-> Info] \in Entries
    BY DEF Entries, Info
  <2>2. ring \in [0..(Capacity - 1) -> Entries]
    BY <2>1 DEF Init
  <2> QED
    BY <2>2, SizeAssumption DEF Init, RingInv
<1>3. TextInv
  <2>1. Held = {}
    BY DEF Init, Held
  <2>2. LoggedInv
    BY <2>1 DEF Init, LoggedInv
  <2> QED
    BY <2>2, EmptyRun DEF Init, TextInv, Info
<1>4. TypeRest
  <2>1. scanning = (scan \in {"running", "done", "aborted"})
    <3>1. scanning = FALSE /\ scan = "none"
      BY DEF Init
    <3>2. ("none" \in {"running", "done", "aborted"}) = FALSE
      OBVIOUS
    <3> QED
      BY <3>1, <3>2
  <2> QED
    BY <2>1, SizeAssumption, BoundAssumption DEF Init, TypeRest
<1> QED
  BY <1>1, <1>2, <1>3, <1>4 DEF DialogInv

\* Whatever is logged while the tab shows what it showed.
LEMMA LoggedKeeps ==
  ASSUME RingInv, TextInv, NEW severity \in 0..2, Append1(severity),
         UNCHANGED <<text, last, filter, cleared>>
  PROVE  RingInv' /\ TextInv'
<1> DEFINE e == [seq |-> next, severity |-> severity]
<1>1. RingInv' /\ LoggedInv' /\ next' = next + 1 /\ logged' = logged \cup {e}
  BY RingAppend DEF TextInv
<1>2. next \in Nat /\ last \in 0..(next - 1) /\ e \in Entries /\ e.seq = next
  BY DEF RingInv, TextInv, Entries
<1>3. last \in Nat /\ e.seq > last /\ last \in 0..(next' - 1)
  BY <1>1, <1>2
<1> HIDE DEF e
<1>4. Run(text, last, filter, cleared, logged')
  BY <1>1, <1>2, <1>3, RunGoesOn DEF TextInv
<1> QED
  BY <1>1, <1>3, <1>4 DEF TextInv

LEMMA SameRing ==
  ASSUME RingInv, UNCHANGED log
  PROVE  /\ RingInv' /\ (LoggedInv => LoggedInv')
         /\ logged' = logged /\ next' = next
BY DEF RingInv, LoggedInv, Held, log

\* The text is refreshed, for the filter and from the place given, or left.
LEMMA RefreshKeeps ==
  ASSUME RingInv, LoggedInv, NEW since \in 0..(next - 1), NEW gone \in 0..since, NEW old,
         filter' \in 0..2, cleared' = gone, UNCHANGED log,
         Run(old, since, filter', gone, logged),
         Refresh(since, old, filter') \/ RefreshFails(since, old)
  PROVE  RingInv' /\ TextInv'
<1>1. RingInv' /\ LoggedInv' /\ logged' = logged /\ next' = next
  BY SameRing
<1>2. next \in Nat \ {0}
  BY SizeAssumption DEF RingInv
<1>3. CASE Refresh(since, old, filter')
  <2>1. last' = next - 1 /\ Run(text', next - 1, filter', gone, logged)
    BY <1>3, RefreshedRun
  <2>2. last' \in 0..(next' - 1) /\ cleared' \in 0..last'
    BY <1>1, <1>2, <2>1
  <2> QED
    BY <1>1, <2>1, <2>2 DEF TextInv
<1>4. CASE RefreshFails(since, old)
  BY <1>1, <1>4 DEF RefreshFails, TextInv
<1> QED
  BY <1>3, <1>4

\* The text is emptied: what was asked for up to now may be cleared away.
LEMMA EmptiedKeeps ==
  ASSUME RingInv, LoggedInv, UNCHANGED log, text' = <<>>, filter' \in 0..2,
         last' \in 0..(next - 1), cleared' \in 0..last'
  PROVE  RingInv' /\ TextInv'
<1>1. RingInv' /\ LoggedInv' /\ logged' = logged /\ next' = next
  BY SameRing
<1> QED
  BY <1>1, EmptyRun DEF TextInv

LEMMA SameText ==
  ASSUME RingInv, TextInv, UNCHANGED <<log, text, last, filter, cleared>>
  PROVE  RingInv' /\ TextInv'
<1>1. RingInv' /\ LoggedInv' /\ logged' = logged /\ next' = next
  BY SameRing DEF log, TextInv
<1> QED
  BY <1>1 DEF TextInv

LEMMA TextStep ==
  ASSUME IInv, RingInv, TextInv, [Next]_vars
  PROVE  RingInv' /\ TextInv'
<1>1. CASE PopManual
  BY <1>1, SameText DEF PopManual, screen
<1>2. CASE StartManual
  BY <1>2, LoggedKeeps DEF StartManual, screen, Info
<1>3. ASSUME NEW o \in {"done", "aborted"}, LogManual(o) PROVE RingInv' /\ TextInv'
  BY <1>3, LoggedKeeps DEF LogManual, screen, Info, Error
<1>4. CASE RecordManual
  BY <1>4, SameText DEF RecordManual, screen
<1>5. last \in 0..(next - 1) /\ cleared \in 0..last /\ filter \in 0..2
      /\ LoggedInv /\ Run(text, last, filter, cleared, logged)
  BY DEF TextInv
<1>6. next - 1 \in Nat /\ 0 \in 0..(next - 1) /\ 0 \in 0..0
  BY SizeAssumption DEF RingInv
<1>7. CASE PollLog
  BY <1>5, <1>7, RefreshKeeps DEF PollLog
<1>8. CASE PollManual
  BY <1>8, SameText DEF PollManual
<1>9. CASE OpenDialog
  BY <1>5, <1>6, <1>9, EmptiedKeeps DEF OpenDialog
<1>10. CASE CloseDialog
  <2>1. 0 \in 0..last
    BY <1>5, <1>6
  <2> QED
    BY <1>5, <1>10, <2>1, EmptiedKeeps DEF CloseDialog
<1>11. CASE SelectLogging
  BY <1>5, <1>11, RefreshKeeps DEF SelectLogging
<1>12. CASE SelectManual \/ SelectOther
  BY <1>12, SameText DEF SelectManual, SelectOther
<1>13. CASE ClearLog
  <2>1. last \in 0..last
    BY <1>5, <1>6
  <2> QED
    BY <1>5, <1>13, <2>1, EmptiedKeeps DEF ClearLog
<1>14. ASSUME NEW f \in Severity, SetVerbosity(f) PROVE RingInv' /\ TextInv'
  <2>1. f \in 0..2 /\ filter' = f /\ cleared' = 0
    BY <1>14, BoundAssumption DEF SetVerbosity
  <2>2. Run(<<>>, 0, filter', 0, logged)
    BY EmptyRun
  <2> QED
    BY <1>5, <1>6, <1>14, <2>1, <2>2, RefreshKeeps DEF SetVerbosity
<1>15. ASSUME NEW f \in Folder, ManualScan(f) PROVE RingInv' /\ TextInv'
  BY <1>15, LoggedKeeps DEF ManualScan, Info
<1>16. ASSUME NEW s \in Severity, Note(s) PROVE RingInv' /\ TextInv'
  BY <1>16, LoggedKeeps, BoundAssumption DEF Note, screen
<1>17. CASE UNCHANGED vars
  BY <1>17, SameText DEF vars, screen
<1> QED
  BY <1>1, <1>2, <1>3, <1>4, <1>7, <1>8, <1>9, <1>10, <1>11, <1>12, <1>13, <1>14,
     <1>15, <1>16, <1>17
  DEF Next, Scheduler, Timers, User

LEMMA MarkedLength ==
  ASSUME TypeManual, NEW f \in Folder, NEW from \in States, NEW to \in States, from # to
  PROVE  Marked(f, from, to) \in Seq(Records) /\ Len(Marked(f, from, to)) = Len(records)
<1>1. Marked(f, from, to) \in Seq(Records)
  BY MarkedPlaces
<1>2. DOMAIN Marked(f, from, to) = DOMAIN records
  BY DEF Marked
<1> HIDE DEF Marked
<1> QED
  BY <1>1, <1>2, LenProperties DEF TypeManual

LEMMA RestStep ==
  ASSUME IInv, TypeRest, [Next]_vars
  PROVE  TypeRest'
<1>1. TypeManual /\ records \in Seq(Records) /\ Len(records) \in Nat
  BY LenProperties DEF IInv, TypeManual
<1>2. /\ Len(records) <= HistorySize /\ scanning = (scan \in {"running", "done", "aborted"})
      /\ tab \in {"closed", "other", "manual", "logging"}
      /\ view \in Seq(Records) /\ Len(view) <= HistorySize
      /\ requests \in 0..MaxEvents /\ notes \in 0..MaxEvents
  BY DEF TypeRest
<1>3. <<>> \in Seq(Records) /\ Len(<<>>) <= HistorySize
  BY SizeAssumption
<1>4. CASE PopManual
  <2>1. scanning' = (scan' \in {"running", "done", "aborted"})
    BY <1>2, <1>4 DEF PopManual
  <2> QED
    BY <1>2, <1>4, <2>1 DEF PopManual, TypeRest, screen, bounds
<1>5. CASE StartManual
  <2>1. scanning' = (scan' \in {"running", "done", "aborted"})
    BY <1>5 DEF StartManual
  <2>2. current \in Folder
    BY <1>1, <1>5 DEF TypeManual, StartManual
  <2>3. Len(records') = Len(records)
    BY <1>1, <1>5, <2>2, MarkedLength DEF StartManual, States
  <2> QED
    BY <1>2, <1>5, <2>1, <2>3 DEF StartManual, TypeRest, screen, bounds
<1>6. ASSUME NEW o \in {"done", "aborted"}, LogManual(o) PROVE TypeRest'
  <2>1. scanning' = (scan' \in {"running", "done", "aborted"})
    BY <1>2, <1>6 DEF LogManual
  <2> QED
    BY <1>2, <1>6, <2>1 DEF LogManual, TypeRest, screen, bounds
<1>7. CASE RecordManual
  <2>1. scanning' = (scan' \in {"running", "done", "aborted"})
    <3>1. scanning' = FALSE /\ scan' = "none"
      BY <1>7 DEF RecordManual
    <3>2. ("none" \in {"running", "done", "aborted"}) = FALSE
      OBVIOUS
    <3> QED
      BY <3>1, <3>2
  <2>2. current \in Folder
    BY <1>1, <1>7 DEF TypeManual, RecordManual
  <2>3. Len(records') = Len(records)
    BY <1>1, <1>7, <2>2, MarkedLength DEF RecordManual, States
  <2> QED
    BY <1>2, <1>7, <2>1, <2>3 DEF RecordManual, TypeRest, screen, bounds
<1>8. CASE Timers
  <2>1. scanning' = (scan' \in {"running", "done", "aborted"})
    BY <1>2, <1>8 DEF Timers, PollLog, PollManual, manual
  <2> QED
    BY <1>1, <1>2, <1>8, <2>1 DEF Timers, PollLog, PollManual, manual, TypeRest, bounds
<1>9. CASE OpenDialog \/ CloseDialog
  <2>1. scanning' = (scan' \in {"running", "done", "aborted"})
    BY <1>2, <1>9 DEF OpenDialog, CloseDialog, manual
  <2> QED
    BY <1>2, <1>3, <1>9, <2>1 DEF OpenDialog, CloseDialog, manual, TypeRest, bounds
<1>10. CASE SelectLogging \/ SelectManual \/ SelectOther
  <2>1. scanning' = (scan' \in {"running", "done", "aborted"})
    BY <1>2, <1>10 DEF SelectLogging, SelectManual, SelectOther, manual
  <2> QED
    BY <1>1, <1>2, <1>3, <1>10, <2>1
    DEF SelectLogging, SelectManual, SelectOther, manual, TypeRest, bounds
<1>11. CASE ClearLog
  <2>1. scanning' = (scan' \in {"running", "done", "aborted"})
    BY <1>2, <1>11 DEF ClearLog, manual
  <2> QED
    BY <1>2, <1>11, <2>1 DEF ClearLog, manual, TypeRest, bounds
<1>12. ASSUME NEW f \in Severity, SetVerbosity(f) PROVE TypeRest'
  <2>1. scanning' = (scan' \in {"running", "done", "aborted"})
    BY <1>2, <1>12 DEF SetVerbosity, manual
  <2> QED
    BY <1>2, <1>12, <2>1 DEF SetVerbosity, manual, TypeRest, bounds
<1>13. ASSUME NEW f \in Folder, ManualScan(f) PROVE TypeRest'
  <2>1. scanning' = (scan' \in {"running", "done", "aborted"})
    BY <1>2, <1>13 DEF ManualScan
  <2>2. records' \in Seq(Records) /\ Len(records') <= HistorySize
    <3> DEFINE all == <<Record(f, "queued")>> \o records
               n == IF Len(all) > HistorySize THEN HistorySize ELSE Len(all)
    <3>1. Record(f, "queued") \in Records
      BY DEF Record, Records
    <3>2. Len(all) = Len(records) + 1
      BY <1>1, <3>1, ConcatProperties
    <3>3. n \in Nat /\ n <= Len(records) + 1 /\ n <= HistorySize
      BY <1>1, <3>2, SizeAssumption
    <3>4. records' = SubSeq(all, 1, n)
      BY <1>13 DEF ManualScan, RequestManualScan, Record
    <3> HIDE DEF n
    <3>5. SubSeq(all, 1, n) \in Seq(Records) /\ Len(SubSeq(all, 1, n)) = n
      BY <1>1, <3>1, <3>3, PrependPlaces
    <3> QED
      BY <3>3, <3>4, <3>5
  <2>3. requests' \in 0..MaxEvents
    BY <1>2, <1>13, BoundAssumption DEF ManualScan
  <2> QED
    BY <1>2, <1>13, <2>1, <2>2, <2>3 DEF ManualScan, TypeRest
<1>14. ASSUME NEW s \in Severity, Note(s) PROVE TypeRest'
  <2>1. scanning' = (scan' \in {"running", "done", "aborted"})
    BY <1>2, <1>14 DEF Note, manual
  <2>2. notes' \in 0..MaxEvents
    BY <1>2, <1>14, BoundAssumption DEF Note
  <2> QED
    BY <1>2, <1>14, <2>1, <2>2 DEF Note, manual, screen, TypeRest
<1>15. CASE UNCHANGED vars
  <2>1. scanning' = (scan' \in {"running", "done", "aborted"})
    BY <1>2, <1>15 DEF vars, manual
  <2> QED
    BY <1>2, <1>15, <2>1 DEF vars, manual, screen, bounds, TypeRest
<1> QED
  BY <1>4, <1>5, <1>6, <1>7, <1>8, <1>9, <1>10, <1>11, <1>12, <1>13, <1>14, <1>15
  DEF Next, Scheduler, User

-----------------------------------------------------------------------------

\* The manual scans, the ring, the text and the screen keep their invariants
\* together (log_buffer.cpp, Append, Serialize; settings_dialog.cpp, RefreshLog;
\* scanner.cpp, RequestManualScan, ManualScanOne).
THEOREM DialogInductive == Spec => []DialogInv
<1>1. DialogInv /\ [Next]_vars => DialogInv'
  BY NextInvariant, TextStep, RestStep DEF DialogInv
<1> QED
  BY <1>1, InitDialog, PTL DEF Spec

\* The ring holds the last entries logged, numbered without a gap, the history
\* and the text stay within their limits, and what the dialog asked for last
\* was logged (log_buffer.cpp, Append; settings_dialog.cpp, AppendLogText).
THEOREM TypeCorrect == Spec => []TypeOK
<1>1. DialogInv => TypeOK
  <2> SUFFICES ASSUME DialogInv PROVE TypeOK
    OBVIOUS
  <2>1. RingInv /\ TextInv /\ TypeRest /\ TypeManual
    BY DEF DialogInv, IInv
  <2>2. head \in 0..(Capacity - 1) /\ count \in 0..Capacity /\ next \in Nat \ {0}
    BY <2>1, SizeAssumption DEF RingInv
  <2>3. ASSUME NEW i \in 0..(Capacity - 1)
        PROVE  ring[i] \in Entries /\ (i < count => ring[i].seq \in (next - count)..(next - 1))
    <3>1. ring[i] \in Entries
      BY <2>1 DEF RingInv
    <3>2. ASSUME i < count PROVE ring[i] \in Held
      <4>1. i \in 0..(count - 1)
        BY <2>2, <3>2
      <4> QED
        BY <4>1 DEF Held
    <3> QED
      BY <2>1, <3>1, <3>2, HeldType
  <2>4. text \in Seq(Entries) /\ Len(text) <= TextLimit /\ logged \subseteq Entries
    BY <2>1 DEF TextInv, Run, LoggedInv
  <2> QED
    BY <2>1, <2>2, <2>3, <2>4 DEF TextInv, TypeRest, TypeManual, TypeOK
<1> QED
  BY <1>1, DialogInductive, PTL

\* However entries are logged, polled, filtered, cleared, lost from the ring or
\* cut off at the limit of the control, the tab shows a run of all that was
\* ever logged, without repetition and without a gap, also where entries were
\* lost before they could be fetched (settings_dialog.cpp, RefreshLog;
\* log_buffer.cpp, Serialize).
THEOREM LogStaysARun == Spec => []LogIsARun
<1>1. DialogInv => LogIsARun
  <2> SUFFICES ASSUME DialogInv PROVE LogIsARun
    OBVIOUS
  <2>1. Run(text, last, filter, cleared, logged)
    BY DEF DialogInv, TextInv
  <2>2. Among(text) = Shown
    BY DEF Among, Shown
  <2> QED
    BY <2>1, <2>2 DEF Run, Rising, LogIsARun
<1> QED
  BY <1>1, DialogInductive, PTL

\* No poll brings back what the user cleared away (settings_dialog.cpp,
\* IDC_BTN_LOG_CLEAR, RefreshLog).
THEOREM StaysCleared == Spec => []ClearedStaysAway
<1>1. DialogInv => ClearedStaysAway
  BY DEF DialogInv, TextInv, Run, ClearedStaysAway, Among, Shown
<1> QED
  BY <1>1, DialogInductive, PTL

=============================================================================
