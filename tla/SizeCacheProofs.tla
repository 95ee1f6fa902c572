-------------------------- MODULE SizeCacheProofs ---------------------------
(***************************************************************************)
(* Proofs about SizeCache, for any paths (finitely many or not), any       *)
(* number of Explorer's threads, any size of the cache and any times.      *)
(***************************************************************************)
EXTENDS SizeCache, FiniteSetTheorems, TLAPS

USE SizesAssumption DEF engine, explorer

\* What a moment adds to a time that saturates, or to a lag.
LEMMA MinOfType ==
  ASSUME NEW bound \in Nat, NEW n \in 0..bound
  PROVE  MinOf(n + 1, bound) \in 0..bound
  BY DEF MinOf

\* A lag grows by at most one.
LEMMA LagLaterType ==
  ASSUME NEW lag \in 0..MaxLag, NEW r, NEW p
  PROVE  /\ LagLater(lag, r, p) \in 0..MaxLag
         /\ LagLater(lag, r, p) <= lag + 1
  BY DEF LagLater, MinOf, MaxLag

\* The first state has the types.
LEMMA TypeInit == Init => TypeOK
<1>1. SUFFICES ASSUME Init PROVE TypeOK
  OBVIOUS
<1>2. row \in [Path -> Row]
  BY <1>1 DEF Init, NoRow, Row
<1>3. OpenIsAccurate
  BY <1>1 DEF Init, OpenIsAccurate, Opening, Idle
<1>4. QED
  BY <1>1, <1>2, <1>3 DEF Init, TypeOK

\* Only who is inside Open makes the connection seem half open: the mutex lets
\* one in, and it leaves the connection open or closed.
LEMMA OpenStep == TypeOK /\ [Next]_vars => OpenIsAccurate'
<1>1. SUFFICES ASSUME TypeOK, [Next]_vars PROVE OpenIsAccurate'
  OBVIOUS
<1>2. OpenIsAccurate /\ thread \in [Thread -> Lookup \cup {Idle}]
  BY <1>1 DEF TypeOK
<1>3. CASE conn' = conn /\ \A t \in Thread : Opening(t)' <=> Opening(t)
  BY <1>2, <1>3 DEF OpenIsAccurate
<1>4. CASE CreateTables \/ Publish \/ (\E p \in Path : Write(p)) \/ UNCHANGED vars
  <2>1. UNCHANGED explorer
    BY <1>4 DEF CreateTables, Publish, Write, vars
  <2>2. QED
    BY <1>3, <2>1 DEF Opening
<1>5. ASSUME NEW t \in Thread, NEW p \in Path, Miss(t, p)
      PROVE  OpenIsAccurate'
  BY <1>2, <1>3, <1>5 DEF Miss, Opening, Begin, Idle
<1>6. ASSUME NEW t \in Thread, TryOpen(t) PROVE OpenIsAccurate'
  BY <1>2, <1>6 DEF TryOpen, OpenIsAccurate, Opening, Begin, Idle
<1>7. ASSUME NEW t \in Thread, Opened(t) PROVE OpenIsAccurate'
  BY <1>2, <1>7 DEF Opened, OpenIsAccurate, Opening, Begin
<1>8. ASSUME NEW t \in Thread, OpenFails(t) PROVE OpenIsAccurate'
  BY <1>2, <1>8 DEF OpenFails, OpenIsAccurate, Opening, Idle
<1>9. ASSUME NEW t \in Thread, Query(t) \/ Store(t) PROVE OpenIsAccurate'
  <2>1. /\ conn' = conn /\ ~Opening(t) /\ ~Opening(t)'
        /\ \A u \in Thread \ {t} : thread'[u] = thread[u]
    BY <1>2, <1>9 DEF Query, Store, Opening, Idle
  <2>2. QED
    BY <1>3, <2>1 DEF Opening
<1>10. CASE Tick
  <2>1. ASSUME NEW t \in Thread PROVE thread'[t].at = thread[t].at
    <3>1. thread[t] \in Lookup \cup {Idle}
      BY <1>2
    <3>2. QED
      BY <1>10, <3>1 DEF Tick, Lookup, Idle
  <2>2. conn' = conn
    BY <1>10 DEF Tick
  <2>3. QED
    BY <1>3, <2>1, <2>2 DEF Opening
<1>11. QED
  BY <1>1, <1>4, <1>5, <1>6, <1>7, <1>8, <1>9, <1>10 DEF Next

\* Every step keeps them.
LEMMA TypeStep == TypeOK /\ [Next]_vars => TypeOK'
<1>1. SUFFICES ASSUME TypeOK, [Next]_vars PROVE TypeOK'
  OBVIOUS
<1>2. OpenIsAccurate'
  BY <1>1, OpenStep
<1>3. CASE CreateTables
  BY <1>1, <1>2, <1>3 DEF CreateTables, TypeOK
<1>4. CASE Publish
  BY <1>1, <1>2, <1>4 DEF Publish, TypeOK
<1>5. ASSUME NEW p \in Path, Write(p) PROVE TypeOK'
  <2>1. row' \in [Path -> Row]
    BY <1>1, <1>5 DEF Write, TypeOK, Row
  <2>2. QED
    BY <1>1, <1>2, <1>5, <2>1 DEF Write, TypeOK
<1>6. ASSUME NEW t \in Thread, NEW p \in Path, Miss(t, p) PROVE TypeOK'
  <2>1. Begin(p, generation) \in Lookup
    BY <1>1 DEF Begin, Lookup, TypeOK
  <2>2. [at |-> "open", path |-> p] \in Lookup
    BY DEF Lookup
  <2>3. QED
    BY <1>1, <1>2, <1>6, <2>1, <2>2 DEF Miss, TypeOK
<1>7. ASSUME NEW t \in Thread, TryOpen(t) PROVE TypeOK'
  <2>1. thread[t].path \in Path
    BY <1>1, <1>7 DEF TryOpen, TypeOK, Lookup, Idle
  <2>2. Begin(thread[t].path, generation) \in Lookup
    BY <1>1, <2>1 DEF Begin, Lookup, TypeOK
  <2>3. [at |-> "opening", path |-> thread[t].path] \in Lookup
    BY <2>1 DEF Lookup
  <2>4. thread' \in [Thread -> Lookup \cup {Idle}]
    BY <1>1, <1>7, <2>2, <2>3 DEF TryOpen, TypeOK
  <2>5. QED
    BY <1>1, <1>2, <1>7, <2>4 DEF TryOpen, TypeOK
<1>8. ASSUME NEW t \in Thread, Opened(t) PROVE TypeOK'
  <2>1. thread[t].path \in Path
    BY <1>1, <1>8 DEF Opened, Opening, TypeOK, Lookup, Idle
  <2>2. Begin(thread[t].path, generation) \in Lookup
    BY <1>1, <2>1 DEF Begin, Lookup, TypeOK
  <2>3. thread' \in [Thread -> Lookup \cup {Idle}]
    BY <1>1, <1>8, <2>2 DEF Opened, Opening, TypeOK
  <2>4. QED
    BY <1>1, <1>2, <1>8, <2>3 DEF Opened, Opening, TypeOK
<1>14. ASSUME NEW t \in Thread, OpenFails(t) PROVE TypeOK'
  BY <1>1, <1>2, <1>14 DEF OpenFails, TypeOK
<1>9. ASSUME NEW t \in Thread, Query(t) PROVE TypeOK'
  <2>1. /\ thread[t].path \in Path
        /\ thread[t].hold \in 0..MaxHold
        /\ thread[t].beganGen \in 0..MaxBumps
    BY <1>1, <1>9 DEF Query, TypeOK, Lookup, Idle
  <2> DEFINE r == IF conn = "open" THEN row[thread[t].path] ELSE NoRow
             l == IF conn = "open" THEN 0 ELSE thread[t].hold
  <2>2. r \in Row
    BY <1>1, <2>1 DEF TypeOK, NoRow, Row
  <2>3. l \in 0..MaxLag
    BY <2>1 DEF MaxLag
  <2>4. [at |-> "store", path |-> thread[t].path, hold |-> thread[t].hold,
         row |-> r, beganGen |-> thread[t].beganGen, lag |-> l,
         blind |-> conn = "closed"] \in Lookup
    BY <2>1, <2>2, <2>3 DEF Lookup
  <2>5. thread' \in [Thread -> Lookup \cup {Idle}]
    BY <1>1, <1>9, <2>4 DEF Query, TypeOK
  <2>6. QED
    BY <1>1, <1>2, <1>9, <2>5 DEF Query, TypeOK
<1>10. ASSUME NEW t \in Thread, Store(t) PROVE TypeOK'
  <2>1. /\ thread[t].path \in Path /\ thread[t].row \in Row
        /\ thread[t].beganGen \in 0..MaxBumps /\ thread[t].lag \in 0..MaxLag
        /\ thread[t].blind \in BOOLEAN
    BY <1>1, <1>10 DEF Store, TypeOK, Lookup, Idle
  <2> DEFINE entry == [row |-> thread[t].row, generation |-> generation,
                       age |-> 0, beganGen |-> thread[t].beganGen,
                       lag |-> thread[t].lag, blind |-> thread[t].blind]
  <2>2. entry \in Entry
    BY <1>1, <2>1 DEF Entry, TypeOK
  <2>3. PICK kept \in SUBSET DOMAIN cache :
          cache' = [p \in kept \cup {thread[t].path} |->
                      IF p = thread[t].path THEN entry ELSE cache[p]]
    BY <1>10 DEF Store
  <2>4. /\ DOMAIN cache' \subseteq Path
        /\ \A p \in DOMAIN cache' : cache'[p] \in Entry
    BY <1>1, <2>1, <2>2, <2>3 DEF TypeOK
  <2>5. thread' \in [Thread -> Lookup \cup {Idle}]
    BY <1>1, <1>10 DEF Store, TypeOK
  <2>6. QED
    BY <1>1, <1>2, <1>10, <2>4, <2>5 DEF Store, TypeOK
<1>11. CASE Tick
  <2>1. ASSUME NEW p \in DOMAIN cache PROVE cache'[p] \in Entry
    <3>1. cache[p] \in Entry
      BY <1>1 DEF TypeOK
    <3>2. MinOf(cache[p].age + 1, Ttl + 1) \in 0..(Ttl + 1)
      BY <3>1, MinOfType DEF Entry
    <3>3. LagLater(cache[p].lag, cache[p].row, p) \in 0..MaxLag
      BY <3>1, LagLaterType DEF Entry
    <3>4. QED
      BY <1>11, <3>1, <3>2, <3>3 DEF Tick, Entry
  <2>2. DOMAIN cache' = DOMAIN cache
    BY <1>11 DEF Tick
  <2>3. ASSUME NEW t \in Thread PROVE thread'[t] \in Lookup \cup {Idle}
    <3>1. thread[t] \in Lookup \cup {Idle}
      BY <1>1 DEF TypeOK
    <3>2. CASE thread[t].at = "query"
      <4>1. thread[t].hold < MaxHold
        BY <1>11, <3>2 DEF Tick
      <4>2. thread[t] \in [at : {"query"}, path : Path, hold : 0..MaxHold,
                           beganGen : 0..MaxBumps]
        BY <3>1, <3>2 DEF Lookup, Idle
      <4>3. thread'[t] = [thread[t] EXCEPT !.hold = @ + 1]
        BY <1>11, <3>2 DEF Tick
      <4>4. thread'[t] \in [at : {"query"}, path : Path, hold : 0..MaxHold,
                            beganGen : 0..MaxBumps]
        BY <4>1, <4>2, <4>3
      <4>5. QED
        BY <4>4 DEF Lookup
    <3>3. CASE thread[t].at = "store"
      <4>1. thread[t].hold < MaxHold
        BY <1>11, <3>3 DEF Tick
      <4> DEFINE Storing == [at : {"store"}, path : Path, hold : 0..MaxHold,
                             row : Row, beganGen : 0..MaxBumps, lag : 0..MaxLag, blind : BOOLEAN]
                 l == LagLater(thread[t].lag, thread[t].row, thread[t].path)
      <4>2. thread[t] \in Storing
        BY <3>1, <3>3 DEF Lookup, Idle
      <4>3. thread'[t] = [thread[t] EXCEPT !.hold = @ + 1, !.lag = l]
        BY <1>11, <3>3 DEF Tick
      <4>4. l \in 0..MaxLag
        BY <4>2, LagLaterType
      <4> HIDE DEF l
      <4>5. thread'[t] = [at |-> "store", path |-> thread[t].path,
                          hold |-> thread[t].hold + 1, row |-> thread[t].row,
                          beganGen |-> thread[t].beganGen, lag |-> l,
                          blind |-> thread[t].blind]
        BY <4>2, <4>3
      <4>6. thread[t].hold + 1 \in 0..MaxHold
        BY <4>1, <4>2
      <4>7. thread'[t] \in Storing
        BY <4>2, <4>4, <4>5, <4>6
      <4>8. QED
        BY <4>7 DEF Lookup
    <3>4. CASE thread[t].at \notin {"query", "store"}
      BY <1>11, <3>1, <3>4 DEF Tick
    <3>5. QED
      BY <3>2, <3>3, <3>4
  <2>4. thread' \in [Thread -> Lookup \cup {Idle}]
    BY <1>11, <2>3 DEF Tick
  <2>5. sinceAttempt' \in 0..RetryInterval
    BY <1>1, <1>11, MinOfType DEF Tick, TypeOK
  <2>6. QED
    BY <1>1, <1>2, <1>11, <2>1, <2>2, <2>4, <2>5 DEF Tick, TypeOK
<1>12. CASE UNCHANGED vars
  BY <1>1, <1>2, <1>12 DEF vars, TypeOK
<1>15. QED
  BY <1>1, <1>3, <1>4, <1>5, <1>6, <1>7, <1>8, <1>14, <1>9, <1>10, <1>11,
     <1>12
  DEF Next

\* Every variable keeps its type, and the connection seems half open only to
\* those who meet a thread that is inside Database::Open: whatever error Open
\* meets, it leaves the object closed (db.cpp, Open).
THEOREM TypesHold == Spec => []TypeOK
<1>1. QED
  BY TypeInit, TypeStep, PTL DEF Spec

-----------------------------------------------------------------------------
\* Only finite sets have a cardinality worth bounding.
CacheFinite == IsFiniteSet(DOMAIN cache)

\* A full cache loses at least one entry, for kMaxEntries is 2 or more.
LEMMA BoundStep ==
  ASSUME CacheFinite, CacheBounded, NEW t \in Thread, Store(t)
  PROVE  CacheFinite' /\ CacheBounded'
<1> DEFINE path == thread[t].path
<1>1. PICK kept \in SUBSET DOMAIN cache :
        /\ Cardinality(DOMAIN cache \ kept) =
             IF Full THEN MaxEntries \div 2 ELSE 0
        /\ DOMAIN cache' = kept \cup {path}
  BY DEF Store
<1>2. /\ IsFiniteSet(kept) /\ Cardinality(kept) \in Nat
      /\ Cardinality(DOMAIN cache) \in Nat
  BY FS_Subset, FS_CardinalityType DEF CacheFinite
<1>3. Cardinality(DOMAIN cache \ kept) =
        Cardinality(DOMAIN cache) - Cardinality(kept)
  <2>1. DOMAIN cache \cap kept = kept
    OBVIOUS
  <2>2. QED
    BY <2>1, FS_Difference DEF CacheFinite
<1>4. /\ IsFiniteSet(kept \cup {path})
      /\ Cardinality(kept \cup {path}) <= Cardinality(kept) + 1
  <2> HIDE DEF path
  <2>1. /\ IsFiniteSet(kept \cup {path})
        /\ Cardinality(kept \cup {path}) =
             IF path \in kept THEN Cardinality(kept) ELSE Cardinality(kept) + 1
    BY <1>2, FS_AddElement, Zenon
  <2>2. QED
    BY <1>2, <2>1
<1>5. Cardinality(kept) + 1 <= MaxEntries
  <2>1. CASE Full
    BY <1>1, <1>2, <1>3, <2>1 DEF Full, CacheBounded
  <2>2. CASE ~Full
    BY <1>1, <1>2, <1>3, <2>2 DEF Full
  <2>3. QED
    BY <2>1, <2>2
<1>6. Cardinality(kept \cup {path}) \in Nat
  BY <1>4, FS_CardinalityType
<1>7. QED
  BY <1>1, <1>2, <1>4, <1>5, <1>6 DEF CacheFinite, CacheBounded

\* However lookups interleave, the cache never holds more than kMaxEntries
\* entries: it is emptied by half under the same lock as the new entry is put
\* (property_handler.cpp, Put and PutNegative).
THEOREM Bounded == Spec => []CacheBounded
<1>1. Init => CacheFinite /\ CacheBounded
  <2>1. SUFFICES ASSUME Init PROVE CacheFinite /\ CacheBounded
    OBVIOUS
  <2>2. DOMAIN cache = {}
    BY <2>1 DEF Init
  <2>3. QED
    BY <2>2, FS_EmptySet DEF CacheFinite, CacheBounded
<1>2. CacheFinite /\ CacheBounded /\ [Next]_vars => (CacheFinite /\ CacheBounded)'
  <2>1. SUFFICES ASSUME CacheFinite, CacheBounded, [Next]_vars
                 PROVE  CacheFinite' /\ CacheBounded'
    OBVIOUS
  <2>2. CASE \E t \in Thread : Store(t)
    BY <2>1, <2>2, BoundStep
  <2>3. CASE ~ \E t \in Thread : Store(t)
    <3>1. cache' = cache \/ Tick
      BY <2>1, <2>3 DEF Next, vars, CreateTables, Publish, Write, Miss, TryOpen,
                        Opened, OpenFails, Query
    <3>2. DOMAIN cache' = DOMAIN cache
      BY <3>1 DEF Tick
    <3>3. QED
      BY <2>1, <3>2 DEF CacheFinite, CacheBounded
  <2>4. QED
    BY <2>2, <2>3
<1>3. QED
  BY <1>1, <1>2, PTL DEF Spec

-----------------------------------------------------------------------------
\* The inductive invariant behind StalenessBounded: an entry has been wrong for
\* no longer than it has been in the cache and its lookup took before that.
StaleInv ==
  /\ \A p \in DOMAIN cache : cache[p].lag <= cache[p].age + MaxHold
  /\ \A t \in Thread :
       thread[t].at = "store" => thread[t].lag <= thread[t].hold

\* A moment ages the entry by as much as it can add to the lag.
LEMMA StaleTick ==
  ASSUME TypeOK, StaleInv, Tick
  PROVE  StaleInv'
<1>1. ASSUME NEW p \in DOMAIN cache
      PROVE  cache'[p].lag <= cache'[p].age + MaxHold
  <2> DEFINE l == LagLater(cache[p].lag, cache[p].row, p)
             a == MinOf(cache[p].age + 1, Ttl + 1)
  <2>1. cache[p] \in Entry /\ cache[p].lag <= cache[p].age + MaxHold
    BY DEF TypeOK, StaleInv
  <2>2. cache'[p] = [cache[p] EXCEPT !.age = a, !.lag = l]
    BY DEF Tick
  <2>3. l \in 0..MaxLag /\ l <= cache[p].lag + 1
    BY <2>1, LagLaterType DEF Entry
  <2>4. a = cache[p].age + 1 \/ a = Ttl + 1
    BY DEF MinOf
  <2> HIDE DEF l, a
  <2>5. cache'[p].lag = l /\ cache'[p].age = a
    BY <2>1, <2>2 DEF Entry
  <2>6. cache[p].age \in Nat /\ cache[p].lag \in Nat
    BY <2>1 DEF Entry, MaxLag
  <2>7. QED
    BY <2>1, <2>3, <2>4, <2>5, <2>6 DEF MaxLag
<1>2. ASSUME NEW t \in Thread, thread'[t].at = "store"
      PROVE  thread'[t].lag <= thread'[t].hold
  <2> DEFINE l == LagLater(thread[t].lag, thread[t].row, thread[t].path)
  <2>1. thread[t] \in Lookup \cup {Idle}
    BY DEF TypeOK
  <2>2. thread[t].at = "store"
    BY <1>2, <2>1 DEF Tick, Lookup, Idle
  <2>3. /\ thread[t] \in [at : {"store"}, path : Path, hold : 0..MaxHold,
                           row : Row, beganGen : 0..MaxBumps, lag : 0..MaxLag, blind : BOOLEAN]
        /\ thread[t].lag <= thread[t].hold
    BY <2>1, <2>2 DEF Lookup, Idle, StaleInv
  <2>4. thread'[t] = [thread[t] EXCEPT !.hold = @ + 1, !.lag = l]
    BY <2>2 DEF Tick
  <2>5. l \in 0..MaxLag /\ l <= thread[t].lag + 1
    BY <2>3, LagLaterType
  <2> HIDE DEF l
  <2>6. thread'[t].hold = thread[t].hold + 1 /\ thread'[t].lag = l
    BY <2>3, <2>4
  <2>7. thread[t].hold \in Nat /\ thread[t].lag \in Nat
    BY <2>3 DEF MaxLag
  <2>8. QED
    BY <2>3, <2>5, <2>6, <2>7 DEF MaxLag
<1>3. DOMAIN cache' = DOMAIN cache
  BY DEF Tick
<1>4. QED
  BY <1>1, <1>2, <1>3 DEF StaleInv

\* An entry is put with the lag of its lookup.
LEMMA StaleStep == TypeOK /\ StaleInv /\ [Next]_vars => StaleInv'
<1>1. SUFFICES ASSUME TypeOK, StaleInv, [Next]_vars PROVE StaleInv'
  OBVIOUS
<1>2. TypeOK
  BY <1>1
<1>3. CASE UNCHANGED explorer
  BY <1>1, <1>3 DEF StaleInv
<1>4. ASSUME NEW t \in Thread, NEW p \in Path, Miss(t, p) PROVE StaleInv'
  BY <1>1, <1>2, <1>4 DEF Miss, StaleInv, TypeOK, Begin
<1>5. ASSUME NEW t \in Thread, TryOpen(t) PROVE StaleInv'
  BY <1>1, <1>2, <1>5 DEF TryOpen, StaleInv, TypeOK, Begin, Idle
<1>6. ASSUME NEW t \in Thread, Opened(t) \/ OpenFails(t) PROVE StaleInv'
  BY <1>1, <1>2, <1>6 DEF Opened, OpenFails, StaleInv, TypeOK, Begin, Idle
<1>7. ASSUME NEW t \in Thread, Query(t) PROVE StaleInv'
  <2>1. thread[t].hold \in 0..MaxHold
    BY <1>2, <1>7 DEF Query, TypeOK, Lookup, Idle
  <2>2. thread'[t].lag <= thread'[t].hold
    BY <1>2, <1>7, <2>1 DEF Query, TypeOK
  <2>3. \A u \in Thread \ {t} : thread'[u] = thread[u]
    BY <1>2, <1>7 DEF Query, TypeOK
  <2>4. cache' = cache
    BY <1>7 DEF Query
  <2>5. QED
    BY <1>1, <2>2, <2>3, <2>4 DEF StaleInv
<1>8. ASSUME NEW t \in Thread, Store(t) PROVE StaleInv'
  <2>1. /\ thread[t].hold \in 0..MaxHold /\ thread[t].lag \in 0..MaxLag
        /\ thread[t].lag <= thread[t].hold
    BY <1>1, <1>2, <1>8 DEF Store, StaleInv, TypeOK, Lookup, Idle
  <2>2. ASSUME NEW p \in DOMAIN cache'
        PROVE  cache'[p].lag <= cache'[p].age + MaxHold
    <3>1. PICK kept \in SUBSET DOMAIN cache :
            cache' = [q \in kept \cup {thread[t].path} |->
                        IF q = thread[t].path
                        THEN [row |-> thread[t].row, generation |-> generation,
                              age |-> 0, beganGen |-> thread[t].beganGen,
                              lag |-> thread[t].lag, blind |-> thread[t].blind]
                        ELSE cache[q]]
      BY <1>8 DEF Store
    <3>2. CASE p = thread[t].path
      <4>1. cache'[p].lag = thread[t].lag /\ cache'[p].age = 0
        BY <3>1, <3>2
      <4>2. QED
        BY <2>1, <4>1 DEF MaxLag
    <3>3. CASE p # thread[t].path
      BY <1>1, <3>1, <3>3 DEF StaleInv
    <3>4. QED
      BY <3>2, <3>3
  <2>3. \A u \in Thread : thread'[u].at = "store" => thread'[u] = thread[u]
    BY <1>2, <1>8 DEF Store, TypeOK, Idle
  <2>4. QED
    BY <1>1, <2>2, <2>3 DEF StaleInv
<1>9. CASE Tick
  BY <1>1, <1>9, StaleTick
<1>10. QED
  BY <1>1, <1>3, <1>4, <1>5, <1>6, <1>7, <1>8, <1>9
  DEF Next, vars, CreateTables, Publish, Write

\* A size that is shown from the cache was the row's no longer ago than its
\* time to live and the time one lookup takes, whatever becomes of the shared
\* counter (property_handler.cpp, Lookup).
THEOREM Staleness == Spec => []StalenessBounded
<1>1. Init => StaleInv
  BY DEF Init, StaleInv, Idle
<1>2. TypeOK /\ StaleInv => StalenessBounded
  <2>1. SUFFICES ASSUME TypeOK, StaleInv, NEW p \in Path, Hit(p)
                 PROVE  cache[p].lag <= TtlOf(cache[p]) + MaxHold
    BY DEF StalenessBounded
  <2>2. /\ cache[p] \in Entry /\ cache[p].age <= TtlOf(cache[p])
        /\ cache[p].lag <= cache[p].age + MaxHold
    BY <2>1 DEF Hit, TypeOK, StaleInv
  <2>3. cache[p].age \in Nat /\ cache[p].lag \in Nat /\ TtlOf(cache[p]) \in Nat
    BY <2>2 DEF Entry, MaxLag, TtlOf
  <2>4. QED
    BY <2>2, <2>3
<1>3. QED
  BY <1>1, <1>2, StaleStep, TypesHold, PTL DEF Spec

-----------------------------------------------------------------------------
\* What a lookup that turned to the database at generation began may have read
\* of path p: the row, unless that has been written again and a publication is
\* still to come.
Fresh(began, r, p) ==
  began <= generation /\ (began = generation => r = row[p] \/ p \in unpublished)

\* The inductive invariant behind PublishedIsRead: what a lookup has read
\* through an open connection is fresh.
ReadInv ==
  shared =>
  /\ \A p \in DOMAIN cache :
       cache[p].blind \/ Fresh(cache[p].beganGen, cache[p].row, p)
  /\ \A t \in Thread :
       /\ thread[t].at = "store" =>
            thread[t].blind
              \/ Fresh(thread[t].beganGen, thread[t].row, thread[t].path)
       /\ thread[t].at = "query" => thread[t].beganGen <= generation

\* What is fresh stays fresh while the engine writes and publishes.
LEMMA FreshStep ==
  ASSUME TypeOK, shared, Publish \/ (\E q \in Path : Write(q)),
         NEW began \in 0..MaxBumps, NEW r, NEW p \in Path, Fresh(began, r, p)
  PROVE  Fresh(began, r, p)'
<1>1. CASE Publish
  BY <1>1 DEF Publish, Fresh, TypeOK
<1>2. ASSUME NEW q \in Path, Write(q) PROVE Fresh(began, r, p)'
  BY <1>2 DEF Write, Fresh, TypeOK
<1>3. QED
  BY <1>1, <1>2

\* Nothing Explorer does makes what it has read less fresh.
LEMMA ReadStep == TypeOK /\ ReadInv /\ [Next]_vars => ReadInv'
<1>1. SUFFICES ASSUME TypeOK, ReadInv, [Next]_vars PROVE ReadInv'
  OBVIOUS
<1>2. shared' = shared
  BY <1>1 DEF Next, vars, CreateTables, Publish, Write, Miss, TryOpen, Opened,
              OpenFails, Query, Store, Tick
<1>3. SUFFICES ASSUME shared PROVE ReadInv'
  BY <1>2 DEF ReadInv
<1>4. CASE Publish \/ \E q \in Path : Write(q)
  <2>1. UNCHANGED explorer
    BY <1>4 DEF Publish, Write
  <2>2. ASSUME NEW p \in DOMAIN cache, ~cache[p].blind
        PROVE  Fresh(cache[p].beganGen, cache[p].row, p)'
    <3>1. p \in Path /\ cache[p].beganGen \in 0..MaxBumps
      BY <1>1 DEF TypeOK, Entry
    <3>2. Fresh(cache[p].beganGen, cache[p].row, p)
      BY <1>1, <1>3, <2>2 DEF ReadInv
    <3>3. QED
      BY <1>1, <1>3, <1>4, <2>1, <3>1, <3>2, FreshStep DEF Fresh
  <2>3. ASSUME NEW t \in Thread, thread[t].at = "store", ~thread[t].blind
        PROVE  Fresh(thread[t].beganGen, thread[t].row, thread[t].path)'
    <3>1. thread[t].path \in Path /\ thread[t].beganGen \in 0..MaxBumps
      BY <1>1, <2>3 DEF TypeOK, Lookup, Idle
    <3>2. Fresh(thread[t].beganGen, thread[t].row, thread[t].path)
      BY <1>1, <1>3, <2>3 DEF ReadInv
    <3>3. QED
      BY <1>1, <1>3, <1>4, <2>1, <3>1, <3>2, FreshStep DEF Fresh
  <2>4. ASSUME NEW t \in Thread, thread[t].at = "query"
        PROVE  thread[t].beganGen <= generation'
    <3>1. thread[t].beganGen \in 0..MaxBumps
      BY <1>1, <2>4 DEF TypeOK, Lookup, Idle
    <3>2. thread[t].beganGen <= generation
      BY <1>1, <1>3, <2>4 DEF ReadInv
    <3>3. generation <= generation' /\ generation \in Nat /\ generation' \in Nat
      BY <1>1, <1>4 DEF Publish, Write, TypeOK
    <3>4. QED
      BY <3>1, <3>2, <3>3
  <2>5. QED
    BY <2>1, <2>2, <2>3, <2>4 DEF ReadInv
<1>5. CASE CreateTables \/ UNCHANGED vars
  BY <1>1, <1>5 DEF CreateTables, vars, ReadInv, Fresh
<1>6. ASSUME NEW t \in Thread, NEW p \in Path, Miss(t, p) PROVE ReadInv'
  BY <1>1, <1>6 DEF Miss, ReadInv, Fresh, TypeOK, Begin
<1>7. ASSUME NEW t \in Thread, TryOpen(t) PROVE ReadInv'
  BY <1>1, <1>7 DEF TryOpen, ReadInv, Fresh, TypeOK, Begin, Idle
<1>8. ASSUME NEW t \in Thread, Opened(t) \/ OpenFails(t) PROVE ReadInv'
  <2>1. UNCHANGED <<engine, cache>>
    BY <1>8 DEF Opened, OpenFails
  <2>2. /\ \/ thread'[t] = Begin(thread[t].path, generation)
           \/ thread'[t] = Idle
        /\ \A u \in Thread \ {t} : thread'[u] = thread[u]
    BY <1>1, <1>8 DEF Opened, OpenFails, TypeOK
  <2>3. generation \in Nat
    BY <1>1 DEF TypeOK
  <2>4. QED
    BY <1>1, <2>1, <2>2, <2>3 DEF ReadInv, Fresh, Begin, Idle
<1>9. ASSUME NEW t \in Thread, Query(t) PROVE ReadInv'
  <2>1. thread[t].beganGen <= generation /\ thread[t].beganGen \in 0..MaxBumps
    BY <1>1, <1>3, <1>9 DEF Query, ReadInv, TypeOK, Lookup, Idle
  <2>2. UNCHANGED <<engine, cache>>
    BY <1>9 DEF Query
  <2>3. /\ thread'[t].at = "store"
        /\ conn = "open" => thread'[t].row = row'[thread'[t].path]
        /\ thread'[t].beganGen = thread[t].beganGen
        /\ thread'[t].blind = (conn = "closed")
        /\ \A u \in Thread \ {t} : thread'[u] = thread[u]
    BY <1>1, <1>9 DEF Query, TypeOK
  <2>4. conn \in {"open", "closed"}
    BY <1>1, <1>9 DEF Query, TypeOK
  <2>5. CASE conn = "closed"
    BY <1>1, <2>2, <2>3, <2>5 DEF ReadInv, Fresh
  <2>6. CASE conn = "open"
    <3>1. Fresh(thread'[t].beganGen, thread'[t].row, thread'[t].path)
      BY <2>1, <2>2, <2>3, <2>6 DEF Fresh
    <3>2. QED
      BY <1>1, <2>2, <2>3, <3>1 DEF ReadInv, Fresh
  <2>7. QED
    BY <2>4, <2>5, <2>6
<1>10. ASSUME NEW t \in Thread, Store(t) PROVE ReadInv'
  <2>1. \/ thread[t].blind
        \/ Fresh(thread[t].beganGen, thread[t].row, thread[t].path)
    BY <1>1, <1>3, <1>10 DEF Store, ReadInv
  <2>2. PICK kept \in SUBSET DOMAIN cache :
          cache' = [q \in kept \cup {thread[t].path} |->
                      IF q = thread[t].path
                      THEN [row |-> thread[t].row, generation |-> generation,
                            age |-> 0, beganGen |-> thread[t].beganGen,
                            lag |-> thread[t].lag, blind |-> thread[t].blind]
                      ELSE cache[q]]
    BY <1>10 DEF Store
  <2>3. UNCHANGED engine
    BY <1>10 DEF Store
  <2>4. \A p \in DOMAIN cache' :
          cache'[p].blind \/ Fresh(cache'[p].beganGen, cache'[p].row, p)
    BY <1>1, <1>3, <2>1, <2>2 DEF ReadInv
  <2>5. \A u \in Thread : \/ thread'[u] = thread[u]
                          \/ thread'[u].at = "idle"
    BY <1>1, <1>10 DEF Store, TypeOK, Idle
  <2>6. QED
    BY <1>1, <1>3, <2>3, <2>4, <2>5 DEF ReadInv, Fresh
<1>11. CASE Tick
  <2>1. UNCHANGED engine /\ DOMAIN cache' = DOMAIN cache
    BY <1>11 DEF Tick
  <2>2. \A p \in DOMAIN cache : /\ cache'[p].beganGen = cache[p].beganGen
                                /\ cache'[p].row = cache[p].row
                                /\ cache'[p].blind = cache[p].blind
    BY <1>1, <1>11 DEF Tick, TypeOK, Entry
  <2>3. ASSUME NEW t \in Thread
        PROVE  /\ thread'[t].at = thread[t].at
               /\ thread[t].at \in {"query", "store"} =>
                    /\ thread'[t].path = thread[t].path
                    /\ thread'[t].beganGen = thread[t].beganGen
               /\ thread[t].at = "store" =>
                    /\ thread'[t].row = thread[t].row
                    /\ thread'[t].blind = thread[t].blind
    <3>1. thread[t] \in Lookup \cup {Idle}
      BY <1>1 DEF TypeOK
    <3>2. QED
      BY <1>11, <3>1 DEF Tick, Lookup, Idle
  <2>4. QED
    BY <1>1, <2>1, <2>2, <2>3 DEF ReadInv, Fresh
<1>12. QED
  BY <1>1, <1>4, <1>5, <1>6, <1>7, <1>8, <1>9, <1>10, <1>11 DEF Next

\* Once the writes are published, no lookup that turned to the database after
\* that and read it leaves an outdated entry to be served (generation.cpp and
\* property_handler.cpp, Initialize), even one that waited for another
\* thread's Open; only one whose connection turned out to have failed does.
THEOREM ReadAfterPublication == Spec => []PublishedIsRead
<1>1. Init => ReadInv
  BY DEF Init, ReadInv, Idle
<1>2. TypeOK /\ ReadInv => PublishedIsRead
  BY DEF TypeOK, ReadInv, Fresh, PublishedIsRead, Hit
<1>3. QED
  BY <1>1, <1>2, ReadStep, TypesHold, PTL DEF Spec
=============================================================================
