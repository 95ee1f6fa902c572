-------------------------- MODULE RescanQueueProofs -------------------------
(***************************************************************************)
(* Proofs about RescanQueue, for any directories, any number of calling    *)
(* threads and any times.                                                  *)
(***************************************************************************)
EXTENDS RescanQueue, TLAPS

USE DEF queue, thread, clock, rows

\* Between the pick and the record there is a directory being worked on, and a
\* change of it is remembered only while it is listed.
TypeInv ==
  /\ TypeOK
  /\ pc \in {"listing", "post"} => target \in Dir
  /\ again => pc = "listing" /\ ~stop /\ target \notin unopened

\* What is left of a cooldown is a time within it.
LEMMA RemainingType ==
  ASSUME TypeOK, NEW d \in Dir
  PROVE  Remaining(d) \in 0..Cooldown
  BY TimeAssumption DEF TypeOK, Remaining, Cooling

\* QueueRescan leaves the queue and its times well-typed.
LEMMA EnqueueType ==
  ASSUME TypeOK, NEW d \in Dir, Enqueue(d)
  PROVE  queued' \subseteq Dir /\ due' \in [Dir -> 0..Cooldown]
  BY RemainingType DEF Enqueue, TypeOK

\* So does putting entries off when one is picked.
LEMMA PutOffType ==
  ASSUME TypeOK, NEW S, PutOff(S)
  PROVE  due' \in [Dir -> 0..Cooldown]
<1>1. \A d \in Dir : Remaining(d) \in 0..Cooldown /\ due[d] \in 0..Cooldown
  BY RemainingType DEF TypeOK
<1>2. QED
  BY <1>1 DEF PutOff

\* Times that go by stay within their bounds.
LEMMA AtMostType ==
  \A bound \in Nat : \A n \in 0..bound : AtMost(n + 1, bound) \in 0..bound
  BY DEF AtMost

\* The same for times that run down.
LEMMA BeforeType ==
  \A bound \in Nat : \A n \in 0..bound : Before(n) \in 0..bound
  BY DEF Before

\* Every variable keeps its type.
THEOREM TypeCorrect == Spec => []TypeInv
<1> USE DEF TypeInv
<1>1. Init => TypeInv
  <2>1. ASSUME Init
        PROVE  /\ uptime \in 0..(Keep + 1) /\ deadline \in 0..WaitCap
               /\ work \in 0..MaxWork /\ target \in Dir \cup {NoDir}
               /\ known \subseteq Dir
    BY <2>1, DirAssumption, TimeAssumption DEF Init
  <2>2. ASSUME Init
        PROVE  /\ due \in [Dir -> 0..Cooldown]
               /\ age \in [Dir -> 0..(Keep + 1)]
               /\ since \in [Dir -> 0..Cooldown]
    BY <2>2, TimeAssumption DEF Init
  <2>3. QED
    BY <2>1, <2>2 DEF Init, TypeOK
<1>2. TypeInv /\ [Next]_vars => TypeInv'
  <2> SUFFICES ASSUME TypeInv, [Next]_vars
               PROVE  TypeInv'
    OBVIOUS
  <2>1. CASE UNCHANGED vars
    BY <2>1 DEF vars, TypeOK
  <2>2. ASSUME NEW t \in Thread, NEW d \in Dir, QueueRescan(t, d),
               buffer' \subseteq Dir
        PROVE  TypeInv'
    BY <2>2, EnqueueType DEF QueueRescan, TypeOK
  <2>3. ASSUME NEW d \in Dir, Notified(d) \/ Requested(d)
        PROVE  TypeInv'
    BY <2>2, <2>3 DEF Notified, Requested, TypeOK
  <2>4. ASSUME NEW t \in Thread, Signal(t)
        PROVE  TypeInv'
    BY <2>4 DEF Signal, TypeOK
  <2>5. ASSUME NEW d \in Dir, Change(d)
        PROVE  TypeInv'
    BY <2>5 DEF Change, TypeOK
  <2>6. CASE StopEngine
    BY <2>6 DEF StopEngine, TypeOK
  <2>7. CASE Tick
    <3>1. age' \in [Dir -> 0..(Keep + 1)] /\ uptime' \in 0..(Keep + 1)
      BY <2>7, AtMostType, TimeAssumption, Keep + 1 \in Nat DEF Tick, TypeOK
    <3>2. since' \in [Dir -> 0..Cooldown]
      BY <2>7, AtMostType, TimeAssumption DEF Tick, TypeOK
    <3>3. due' \in [Dir -> 0..Cooldown] /\ deadline' \in 0..WaitCap
      BY <2>7, BeforeType, TimeAssumption DEF Tick, TypeOK
    <3>4. work' \in 0..MaxWork
      BY <2>7, TimeAssumption DEF Tick, TypeOK
    <3>5. QED
      BY <2>7, <3>1, <3>2, <3>3, <3>4 DEF Tick, TypeOK
  <2>8. CASE Scheduler
    <3>1. CASE ComputeDeadline \/ Wake \/ Stopped \/ RootsDone
      <4>1. deadline' \in 0..WaitCap
        BY <3>1, TimeAssumption
           DEF ComputeDeadline, Wake, Stopped, RootsDone, TypeOK
      <4>2. ~again /\ UNCHANGED <<queue, stop, target, work, clock, buffer, rows>>
        BY <3>1 DEF ComputeDeadline, Wake, Stopped, RootsDone
      <4>3. /\ event' \in BOOLEAN /\ signalling' \subseteq Thread
            /\ pc' \in {"wait", "rescans", "off", "top"}
        BY <3>1 DEF ComputeDeadline, Wake, Stopped, RootsDone, TypeOK
      <4>4. QED
        BY <4>1, <4>2, <4>3 DEF TypeOK
    <3>2. CASE NothingDue
      BY <3>2, PutOffType DEF NothingDue, TypeOK
    <3>3. ASSUME NEW d \in Dir, Pick(d)
          PROVE  TypeInv'
      <4>1. due' \in [Dir -> 0..Cooldown]
        BY <3>3, PutOffType DEF Pick
      <4>2. QED
        BY <3>3, <4>1 DEF Pick, TypeOK
    <3>4. CASE ListingDone
      <4>1. queued' \subseteq Dir /\ due' \in [Dir -> 0..Cooldown]
            /\ event' \in BOOLEAN /\ stale' \subseteq Dir
            /\ unopened' \subseteq stale'
        <5>1. CASE target \notin known /\ ParentOf[target] \in Watched
          <6>1. ParentOf[target] \in Dir
            BY <5>1, DirAssumption
          <6>2. Enqueue(ParentOf[target])
                /\ event' = (event \/ ParentOf[target] \notin queued)
                /\ stale' = CaughtUp \cup {ParentOf[target]}
                /\ unopened' = unopened \ {target, ParentOf[target]}
            BY <3>4, <5>1 DEF ListingDone
          <6>3. QED
            BY <6>1, <6>2, EnqueueType DEF TypeOK, CaughtUp
        <5>2. CASE ~(target \notin known /\ ParentOf[target] \in Watched)
          BY <3>4, <5>2 DEF ListingDone, TypeOK, CaughtUp
        <5>3. QED
          BY <5>1, <5>2
      <4>2. work' \in 0..MaxWork
        BY <3>4, TimeAssumption DEF ListingDone
      <4>3. QED
        BY <3>4, <4>1, <4>2 DEF ListingDone, TypeOK
    <3>5. CASE ListingFails
      <4>1. work' \in 0..MaxWork
        BY <3>5, TimeAssumption DEF ListingFails
      <4>2. QED
        BY <3>5, <4>1, EnqueueType DEF ListingFails, TypeOK
    <3>6. CASE OpenFails \/ ListingAborted
      <4>1. work' \in 0..MaxWork
        BY <3>6, TimeAssumption DEF OpenFails, ListingAborted
      <4>2. /\ known' \subseteq Dir /\ stale' \subseteq Dir
            /\ unopened' \subseteq stale'
        BY <3>6 DEF OpenFails, ListingAborted, TypeOK, CaughtUp
      <4>3. ~again' /\ pc' = "post" /\ target' = target
            /\ result' \in {"none", "listed", "gone", "failed", "unopened"}
        BY <3>6 DEF OpenFails, ListingAborted, TypeOK
      <4>4. QED
        BY <3>6, <4>1, <4>2, <4>3 DEF OpenFails, ListingAborted, TypeOK
    <3>7. CASE RecordDone
      <4>1. done' \subseteq Dir
        BY <3>7 DEF RecordDone, TypeOK
      <4>2. age' \in [Dir -> 0..(Keep + 1)]
        BY <3>7, TimeAssumption DEF RecordDone, TypeOK
      <4>3. since' \in [Dir -> 0..Cooldown]
        BY <3>7, TimeAssumption DEF RecordDone, TypeOK
      <4>4. QED
        BY <3>7, <4>1, <4>2, <4>3 DEF RecordDone, TypeOK
    <3>8. QED
      BY <2>8, <3>1, <3>2, <3>3, <3>4, <3>5, <3>6, <3>7 DEF Scheduler
  <2>9. QED
    BY <2>1, <2>3, <2>4, <2>5, <2>6, <2>7, <2>8 DEF Next
<1>3. QED
  BY <1>1, <1>2, PTL DEF Spec

\* The types alone, as TLC checks them.
THEOREM TypesHold == Spec => []TypeOK
BY TypeCorrect, PTL DEF TypeInv

-----------------------------------------------------------------------------
\* A changed directory moves from the notification to the queue, leaves the
\* queue only for a listing, and is done with when that listing is complete
\* and nothing has changed meanwhile; what breaks off goes back into the queue.
THEOREM Remembered == Spec => []NothingForgotten
<1>1. Init => NothingForgotten
  BY DEF Init, NothingForgotten
<1>2. TypeInv /\ NothingForgotten /\ [Next]_vars => NothingForgotten'
  <2> SUFFICES ASSUME TypeInv, NothingForgotten, [Next]_vars
               PROVE  NothingForgotten'
    OBVIOUS
  <2> USE DEF TypeInv, TypeOK, NothingForgotten
  <2>1. CASE UNCHANGED vars
    BY <2>1 DEF vars
  <2>2. ASSUME NEW d \in Dir, Notified(d)
        PROVE  NothingForgotten'
    BY <2>2 DEF Notified, QueueRescan, Enqueue
  <2>3. ASSUME NEW d \in Dir, Requested(d)
        PROVE  NothingForgotten'
    BY <2>3 DEF Requested, QueueRescan, Enqueue
  <2>4. ASSUME NEW t \in Thread, Signal(t)
        PROVE  NothingForgotten'
    BY <2>4 DEF Signal
  <2>5. ASSUME NEW d \in Dir, Change(d)
        PROVE  NothingForgotten'
    BY <2>5 DEF Change
  <2>6. CASE StopEngine \/ Tick
    BY <2>6 DEF StopEngine, Tick
  <2>7. CASE Scheduler
    <3>1. CASE ComputeDeadline \/ Wake \/ Stopped \/ RootsDone \/ NothingDue
      BY <3>1 DEF ComputeDeadline, Wake, Stopped, RootsDone, NothingDue
    <3>2. ASSUME NEW d \in Dir, Pick(d)
          PROVE  NothingForgotten'
      BY <3>2 DEF Pick
    <3>3. CASE ListingDone
      BY <3>3 DEF ListingDone, Enqueue, CaughtUp
    <3>4. CASE ListingFails
      BY <3>4 DEF ListingFails, Enqueue
    <3>5. CASE OpenFails \/ ListingAborted \/ RecordDone
      BY <3>5 DEF OpenFails, ListingAborted, RecordDone, CaughtUp
    <3>6. QED
      BY <2>7, <3>1, <3>2, <3>3, <3>4, <3>5 DEF Scheduler
  <2>8. QED
    BY <2>1, <2>2, <2>3, <2>4, <2>5, <2>6, <2>7 DEF Next
<1>3. QED
  BY <1>1, <1>2, TypeCorrect, PTL DEF Spec

-----------------------------------------------------------------------------
\* The deadline of a wait covers what was queued when it was computed; what is
\* queued later comes with a signal, which stays until the wait is over.
THEOREM InTime == Spec => []WakesInTime
<1>1. Init => WakesInTime
  BY DEF Init, WakesInTime
<1>2. TypeInv /\ WakesInTime /\ [Next]_vars => WakesInTime'
  <2> SUFFICES ASSUME TypeInv, WakesInTime, [Next]_vars
               PROVE  WakesInTime'
    OBVIOUS
  <2> USE DEF TypeInv, TypeOK, WakesInTime
  <2>1. CASE UNCHANGED vars
    BY <2>1 DEF vars
  <2>2. ASSUME NEW t \in Thread, NEW d \in Dir, QueueRescan(t, d)
        PROVE  WakesInTime'
    BY <2>2 DEF QueueRescan, Enqueue
  <2>3. ASSUME NEW d \in Dir, Notified(d) \/ Requested(d)
        PROVE  WakesInTime'
    BY <2>2, <2>3 DEF Notified, Requested
  <2>4. ASSUME NEW t \in Thread, Signal(t)
        PROVE  WakesInTime'
    BY <2>4 DEF Signal
  <2>5. ASSUME NEW d \in Dir, Change(d)
        PROVE  WakesInTime'
    BY <2>5 DEF Change
  <2>6. CASE StopEngine
    BY <2>6 DEF StopEngine
  <2>7. CASE Tick
    BY <2>7, TimeAssumption DEF Tick, Before
  <2>8. CASE ComputeDeadline
    BY <2>8 DEF ComputeDeadline
  <2>9. ASSUME Scheduler, ~ComputeDeadline
        PROVE  pc' # "wait"
    BY <2>9 DEF Scheduler, Wake, Stopped, RootsDone, NothingDue, Pick,
                ListingDone, ListingFails, OpenFails, ListingAborted, RecordDone
  <2>10. QED
    BY <2>1, <2>3, <2>4, <2>5, <2>6, <2>7, <2>8, <2>9 DEF Next
<1>3. QED
  BY <1>1, <1>2, TypeCorrect, PTL DEF Spec

-----------------------------------------------------------------------------
(* The cooldown.  What the map knows of a directory that is still cooling  *)
(* is the truth, because cleaning it removes only entries older than Keep. *)
(* That needs Keep to have gone by since the machine was started.          *)

CoolInv ==
  /\ uptime >= Keep
  /\ \A d \in Dir : since[d] < Cooldown => d \in done /\ age[d] = since[d]

\* Unsigned subtraction does not wrap when the machine has been up that long.
LEMMA CutoffValue ==
  ASSUME TypeOK, uptime >= Keep
  PROVE  Cutoff = uptime - Keep
<1>1. uptime - Keep \in 0..1 /\ Word \in Nat /\ Word > 1
  BY TimeAssumption DEF TypeOK
<1>2. \A n \in 0..1 : n % Word = n
  BY <1>1
<1>3. QED
  BY <1>1, <1>2 DEF Cutoff

\* When the engine starts every directory's last rescan is long ago.
LEMMA CoolInit == BootUptime >= Keep /\ Init => CoolInv
  BY TimeAssumption DEF Init, CoolInv

\* m_lastRescanDone knows how long ago each recent rescan was: RecordDone notes
\* it, and the clean-up drops only entries that are no longer recent.
LEMMA CoolStep == TypeInv /\ CoolInv /\ [Next]_vars => CoolInv'
<1> SUFFICES ASSUME TypeInv, CoolInv, [Next]_vars
             PROVE  CoolInv'
  OBVIOUS
<1> USE DEF TypeInv, CoolInv
<1>1. CASE UNCHANGED <<done, age, clock>>
  BY <1>1
<1>2. CASE Tick
  <2>1. uptime' >= Keep
    BY <1>2, TimeAssumption DEF Tick, AtMost, TypeOK
  <2>2. ASSUME NEW d \in Dir, since'[d] < Cooldown
        PROVE  d \in done' /\ age'[d] = since'[d]
    <3>1. /\ since[d] \in 0..Cooldown
          /\ since'[d] = AtMost(since[d] + 1, Cooldown)
          /\ age'[d] = IF d \in done THEN AtMost(age[d] + 1, Keep + 1)
                                     ELSE age[d]
          /\ done' = done
      BY <1>2 DEF Tick, TypeOK
    <3>2. since[d] + 1 < Cooldown /\ since'[d] = since[d] + 1
      BY <2>2, <3>1, TimeAssumption DEF AtMost
    <3>3. d \in done /\ age[d] = since[d]
      BY <3>1, <3>2, TimeAssumption
    <3>4. QED
      BY <3>1, <3>2, <3>3, TimeAssumption DEF AtMost
  <2>3. QED
    BY <2>1, <2>2
<1>3. CASE RecordDone
  <2>1. target \in Dir /\ uptime' = uptime
    BY <1>3 DEF RecordDone
  <2> DEFINE keys == done \cup {target}
             ages == [age EXCEPT ![target] = 0]
             cold == IF Cardinality(keys) > MaxDone
                     THEN {d \in keys : DoneAt(ages, d) < Cutoff}
                     ELSE {}
  <2>2. /\ \A d \in cold : DoneAt(ages, d) < Cutoff
        /\ done' = keys \ cold
        /\ age' = [d \in Dir |-> IF d \in cold THEN 0 ELSE ages[d]]
    BY <1>3 DEF RecordDone
  <2> HIDE DEF cold
  <2>3. ASSUME NEW d \in Dir, since'[d] < Cooldown
        PROVE  d \in done' /\ age'[d] = since'[d]
    <3>1. CASE d = target
      <4>1. since'[d] = 0 /\ ages[d] = 0
        BY <1>3, <2>1, <3>1 DEF RecordDone, TypeOK
      <4>2. d \notin cold
        BY <2>2, <3>1, <4>1, CutoffValue, TimeAssumption DEF DoneAt, TypeOK
      <4>3. QED
        BY <2>2, <3>1, <4>1, <4>2
    <3>2. CASE d # target
      <4>1. since'[d] = since[d] /\ ages[d] = age[d]
        BY <1>3, <2>1, <3>2 DEF RecordDone, TypeOK
      <4>2. d \in done /\ age[d] = since[d] /\ since[d] \in 0..Cooldown
        BY <2>3, <4>1 DEF TypeOK
      <4>3. d \notin cold
        BY <2>2, <2>3, <4>1, <4>2, CutoffValue, TimeAssumption
           DEF DoneAt, TypeOK
      <4>4. QED
        BY <2>2, <4>1, <4>2, <4>3
    <3>3. QED
      BY <3>1, <3>2
  <2>4. QED
    BY <2>1, <2>3
<1>4. ASSUME NEW d \in Dir, Notified(d) \/ Requested(d) \/ Change(d) \/ Pick(d)
      PROVE  UNCHANGED <<done, age, clock>>
  BY <1>4 DEF Notified, Requested, QueueRescan, Change, Pick
<1>5. ASSUME NEW t \in Thread, Signal(t)
      PROVE  UNCHANGED <<done, age, clock>>
  BY <1>5 DEF Signal
<1>6. CASE StopEngine \/ ComputeDeadline \/ Wake \/ Stopped \/ NothingDue
           \/ ListingDone \/ ListingFails \/ OpenFails \/ ListingAborted
           \/ RootsDone
  <2>1. UNCHANGED <<done, age, clock>>
    BY <1>6 DEF StopEngine, ComputeDeadline, Wake, Stopped, NothingDue,
                ListingDone, ListingFails, OpenFails, ListingAborted, RootsDone
  <2>2. QED
    BY <1>1, <2>1
<1>7. CASE UNCHANGED vars
  BY <1>1, <1>7 DEF vars
<1>8. QED
  BY <1>1, <1>2, <1>3, <1>4, <1>5, <1>6, <1>7 DEF Next, Scheduler

\* On a machine that has been up for at least Keep, a directory is listed at
\* most once per cooldown.
THEOREM CooldownKept == BootUptime >= Keep => (Spec => CooldownHolds)
<1> SUFFICES ASSUME BootUptime >= Keep
             PROVE  Spec => CooldownHolds
  OBVIOUS
<1> DEFINE Holds ==
      \A d \in Dir : target' = d /\ target # d => since[d] >= Cooldown
<1>1. Init => CoolInv
  BY CoolInit
<1>2. TypeInv /\ CoolInv /\ [Next]_vars => [Holds]_vars
  <2> SUFFICES ASSUME TypeInv, CoolInv, Next,
                      NEW d \in Dir, target' = d, target # d
               PROVE  since[d] >= Cooldown
    OBVIOUS
  <2>1. Pick(d)
    <3>1. target' # target
      OBVIOUS
    <3>2. \/ \E e \in Dir : Pick(e) \/ RecordDone
      BY <3>1 DEF Next, Scheduler, ComputeDeadline, Wake, Stopped, NothingDue,
                  ListingDone, ListingFails, OpenFails, ListingAborted,
                  RootsDone, Notified, Requested, QueueRescan, Change, Signal,
                  StopEngine, Tick
    <3>3. ~RecordDone
      BY DirAssumption DEF RecordDone
    <3>4. QED
      BY <3>2, <3>3 DEF Pick
  <2>2. ~Cooling(d)
    BY <2>1 DEF Pick
  <2>3. QED
    BY <2>2, TimeAssumption DEF TypeInv, TypeOK, CoolInv, Cooling
<1>3. QED
  BY <1>1, <1>2, CoolStep, TypeCorrect, PTL DEF Spec, CooldownHolds
=============================================================================
