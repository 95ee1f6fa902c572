------------------------------ MODULE SizeCache -----------------------------
(***************************************************************************)
(* The shell extension's cache of directory sizes (shell-ext/              *)
(* property_handler.cpp, shell_hook.cpp) and the generation counter by     *)
(* which the engine invalidates it (common/src/generation.cpp).            *)
(*                                                                         *)
(* Explorer's threads look a path up; on a miss they make sure the         *)
(* database is open, read its row without holding any lock of the cache,   *)
(* and store what they read under the generation of that later moment.     *)
(* Meanwhile the engine, another process, writes rows and bumps the        *)
(* counter when it is done.                                                *)
(*                                                                         *)
(* Times are ages, which saturate.  Sizes are the versions of a row.       *)
(***************************************************************************)
EXTENDS Naturals, FiniteSets

CONSTANTS
  Path,         \* canonical directory paths
  Thread,       \* threads of Explorer
  MaxEntries,   \* kMaxEntries
  Ttl,          \* kTtl
  NegativeTtl,  \* kNegativeTtl
  RetryInterval,\* kRetryIntervalMs
  MaxHold,      \* bound: how long a thread takes from its miss to its store
  MaxWrites,    \* bound: how many rows the engine writes
  MaxBumps      \* bound: how often the engine bumps the generation

ASSUME SizesAssumption ==
  /\ MaxEntries \in Nat /\ MaxEntries >= 2
  /\ NegativeTtl \in Nat /\ Ttl \in Nat /\ NegativeTtl <= Ttl
  /\ RetryInterval \in Nat /\ MaxHold \in Nat
  /\ MaxWrites \in Nat /\ MaxBumps \in Nat

VARIABLES
  row,          \* per path, its row in the database
  writes,       \* how many rows have been written
  unpublished,  \* paths written since the generation was last bumped
  created,      \* the engine has created the tables
  shared,       \* the counter's shared memory is available
  generation,   \* the counter
  cache,        \* m_cache
  conn,         \* the extension's connection: "closed", "opening" or "open"
  sinceAttempt, \* time since the last attempt to open it (up to RetryInterval)
  thread        \* per thread, where it is in a lookup

engine   == <<row, writes, unpublished, created, shared, generation>>
explorer == <<cache, conn, sinceAttempt, thread>>
vars     == <<engine, explorer>>

MaxLag == Ttl + MaxHold + 1
MinOf(m, n) == IF m < n THEN m ELSE n

\* Every write makes a new version; the removal of a row makes one too.
Row == [version : 0..MaxWrites, found : BOOLEAN]
NoRow == [version |-> 0, found |-> FALSE]

\* beganGen, lag and blind are history: the generation when the lookup turned
\* to the database, how long the entry has differed from the database, and
\* whether the lookup met a connection that turned out to have failed.
Entry == [row : Row, generation : 0..MaxBumps, age : 0..(Ttl + 1),
          beganGen : 0..MaxBumps, lag : 0..MaxLag, blind : BOOLEAN]

Idle == [at |-> "idle"]
Begin(p, g) == [at |-> "query", path |-> p, hold |-> 0, beganGen |-> g]
Lookup ==
  [at : {"open", "opening"}, path : Path]
    \cup [at : {"query"}, path : Path, hold : 0..MaxHold,
          beganGen : 0..MaxBumps]
    \cup [at : {"store"}, path : Path, hold : 0..MaxHold, row : Row,
          beganGen : 0..MaxBumps, lag : 0..MaxLag, blind : BOOLEAN]

\* Who is inside Database::Open, under openMutex.
Opening(t) == thread[t].at = "opening"

\* The connection seems half open exactly while one thread is inside Open.
OpenIsAccurate ==
  /\ conn = "opening" <=> \E t \in Thread : Opening(t)
  /\ \A t, u \in Thread : Opening(t) /\ Opening(u) => t = u

\* With the types, the coupling of the connection and of whoever opens it
\* (db.cpp: "Leave the object fully closed on failure so IsOpen() is
\* accurate").
TypeOK ==
  /\ row \in [Path -> Row]
  /\ writes \in 0..MaxWrites
  /\ unpublished \subseteq Path
  /\ created \in BOOLEAN /\ shared \in BOOLEAN
  /\ generation \in 0..MaxBumps
  /\ DOMAIN cache \subseteq Path
  /\ \A p \in DOMAIN cache : cache[p] \in Entry
  /\ conn \in {"closed", "opening", "open"}
  /\ sinceAttempt \in 0..RetryInterval
  /\ thread \in [Thread -> Lookup \cup {Idle}]
  /\ OpenIsAccurate

\* Explorer may be running before the engine has been started for the first
\* time.  sinceAttempt stands for "never" too: lastAttempt is 0.
Init ==
  /\ row = [p \in Path |-> NoRow]
  /\ writes = 0
  /\ unpublished = {}
  /\ created \in BOOLEAN
  /\ shared \in BOOLEAN
  /\ generation = 0
  /\ cache = [p \in {} |-> NoRow]
  /\ conn = "closed"
  /\ sinceAttempt = RetryInterval
  /\ thread = [t \in Thread |-> Idle]

-----------------------------------------------------------------------------
(* The engine.                                                             *)

CreateTables ==
  /\ ~created
  /\ created' = TRUE
  /\ UNCHANGED <<row, writes, unpublished, shared, generation, explorer>>

\* A row is written or removed, by a scan, a rescan or a rename.
Write(p) ==
  /\ created
  /\ writes < MaxWrites
  /\ writes' = writes + 1
  /\ \E found \in BOOLEAN :
       row' = [row EXCEPT ![p] = [version |-> writes + 1, found |-> found]]
  /\ unpublished' = unpublished \cup {p}
  /\ UNCHANGED <<created, shared, generation, explorer>>

\* BumpSizeDataGeneration, at the end of a scan or of a round of rescans,
\* whether they wrote anything or not; it does nothing where the shared memory
\* is not available.
Publish ==
  /\ generation < MaxBumps
  /\ unpublished' = {}
  /\ generation' = IF shared THEN generation + 1 ELSE generation
  /\ UNCHANGED <<row, writes, created, shared, explorer>>

-----------------------------------------------------------------------------
(* Explorer.                                                               *)

\* Mutant of TtlOf: a negative entry never expires.
NegativesStay(e) == IF e.row.found THEN Ttl ELSE Ttl + 1

TtlOf(e) == IF e.row.found THEN Ttl ELSE NegativeTtl

\* Mutant of Hit: the age of the entry is not looked at.
HitForever(p) ==
  /\ p \in DOMAIN cache
  /\ cache[p].generation = generation

\* SizeCache::Lookup returns an entry for p.
Hit(p) ==
  /\ p \in DOMAIN cache
  /\ cache[p].generation = generation
  /\ cache[p].age <= TtlOf(cache[p])

\* A miss, after which GetReadOnlyDb looks at the connection without a lock;
\* it seems open as soon as sqlite3_open_v2 has returned.
Miss(t, p) ==
  /\ thread[t] = Idle
  /\ ~Hit(p)
  /\ thread' = [thread EXCEPT ![t] =
                  IF conn = "closed" THEN [at |-> "open", path |-> p]
                  ELSE Begin(p, generation)]
  /\ UNCHANGED <<engine, cache, conn, sinceAttempt>>

\* Mutant of TryOpen: an attempt that is refused starts the wait anew.
TryOpenWaitsAnew(t) ==
  /\ thread[t].at = "open"
  /\ \A u \in Thread : ~Opening(u)
  /\ LET path == thread[t].path IN
     IF conn # "closed"
     THEN /\ thread' = [thread EXCEPT ![t] = Begin(path, generation)]
          /\ UNCHANGED <<conn, sinceAttempt>>
     ELSE /\ sinceAttempt' = 0
          /\ IF sinceAttempt < RetryInterval
             THEN thread' = [thread EXCEPT ![t] = Idle] /\ UNCHANGED conn
             ELSE /\ thread' = [thread EXCEPT ![t] =
                                  [at |-> "opening", path |-> path]]
                  /\ conn' = "opening"
  /\ UNCHANGED <<engine, cache>>

\* GetReadOnlyDb, having got openMutex: unless the last attempt was too
\* recent, Database::Open begins.
TryOpen(t) ==
  /\ thread[t].at = "open"
  /\ \A u \in Thread : ~Opening(u)
  /\ LET path == thread[t].path IN
     \/ /\ conn # "closed"
        /\ thread' = [thread EXCEPT ![t] = Begin(path, generation)]
        /\ UNCHANGED <<conn, sinceAttempt>>
     \/ /\ conn = "closed" /\ sinceAttempt < RetryInterval
        /\ thread' = [thread EXCEPT ![t] = Idle]
        /\ UNCHANGED <<conn, sinceAttempt>>
     \/ /\ conn = "closed" /\ sinceAttempt = RetryInterval
        /\ thread' = [thread EXCEPT ![t] = [at |-> "opening", path |-> path]]
        /\ conn' = "opening"
        /\ sinceAttempt' = 0
  /\ UNCHANGED <<engine, cache>>

\* Open returns TRUE.  Without the tables no statement can be prepared.
Opened(t) ==
  /\ Opening(t)
  /\ created
  /\ conn' = "open"
  /\ thread' = [thread EXCEPT ![t] = Begin(thread[t].path, generation)]
  /\ UNCHANGED <<engine, cache, sinceAttempt>>

\* Mutant of OpenFails: a connection whose statements cannot be prepared is
\* not closed again.
OpenFailsHalfOpen(t) ==
  /\ Opening(t)
  /\ thread' = [thread EXCEPT ![t] = Idle]
  /\ UNCHANGED <<engine, cache, conn, sinceAttempt>>

\* Open fails, for want of the tables or for any other error of SQLite: the
\* connection is closed again.
OpenFails(t) ==
  /\ Opening(t)
  /\ conn' = "closed"
  /\ thread' = [thread EXCEPT ![t] = Idle]
  /\ UNCHANGED <<engine, cache, sinceAttempt>>

\* Mutant of Query: a lookup does not wait for an Open in progress.
QueryWhileOpening(t) ==
  /\ thread[t].at = "query"
  /\ LET path == thread[t].path
         hold == thread[t].hold
     IN  thread' = [thread EXCEPT ![t] =
           [at |-> "store", path |-> path, hold |-> hold,
            row |-> IF conn = "open" THEN row[path] ELSE NoRow,
            beganGen |-> thread[t].beganGen,
            lag |-> IF conn = "open" THEN 0 ELSE hold,
            blind |-> conn = "closed"]]
  /\ UNCHANGED <<engine, cache, conn, sinceAttempt>>

\* Database::GetEntry waits for an Open in progress; if that failed there is
\* no statement, and no row.
Query(t) ==
  /\ thread[t].at = "query"
  /\ conn # "opening"
  /\ LET path == thread[t].path
         hold == thread[t].hold
     IN  thread' = [thread EXCEPT ![t] =
           [at |-> "store", path |-> path, hold |-> hold,
            row |-> IF conn = "open" THEN row[path] ELSE NoRow,
            beganGen |-> thread[t].beganGen,
            lag |-> IF conn = "open" THEN 0 ELSE hold,
            blind |-> conn = "closed"]]
  /\ UNCHANGED <<engine, cache, conn, sinceAttempt>>

\* Mutant of Full: the limit is passed before it is noticed.
FullTooLate == Cardinality(DOMAIN cache) > MaxEntries

Full == Cardinality(DOMAIN cache) >= MaxEntries

\* Put and PutNegative: a full cache loses half its entries first, and the
\* entry gets the generation of this moment.
Store(t) ==
  /\ thread[t].at = "store"
  /\ LET path == thread[t].path
         entry == [row |-> thread[t].row, generation |-> generation, age |-> 0,
                   beganGen |-> thread[t].beganGen, lag |-> thread[t].lag,
                   blind |-> thread[t].blind]
     IN  \E kept \in SUBSET DOMAIN cache :
           /\ Cardinality(DOMAIN cache \ kept) =
                IF Full THEN MaxEntries \div 2 ELSE 0
           /\ cache' = [p \in kept \cup {path} |->
                          IF p = path THEN entry ELSE cache[p]]
  /\ thread' = [thread EXCEPT ![t] = Idle]
  /\ UNCHANGED <<engine, conn, sinceAttempt>>

-----------------------------------------------------------------------------
\* How long something has differed from the database, a moment later.
LagLater(lag, r, p) == IF r = row[p] THEN 0 ELSE MinOf(lag + 1, MaxLag)

Tick ==
  /\ \A t \in Thread :
       thread[t].at \in {"query", "store"} => thread[t].hold < MaxHold
  /\ cache' = [p \in DOMAIN cache |->
       [cache[p] EXCEPT !.age = MinOf(@ + 1, Ttl + 1),
                        !.lag = LagLater(@, cache[p].row, p)]]
  /\ thread' = [t \in Thread |->
       CASE thread[t].at = "query" -> [thread[t] EXCEPT !.hold = @ + 1]
         [] thread[t].at = "store" ->
              [thread[t] EXCEPT !.hold = @ + 1,
                 !.lag = LagLater(@, thread[t].row, thread[t].path)]
         [] OTHER -> thread[t]]
  /\ sinceAttempt' = MinOf(sinceAttempt + 1, RetryInterval)
  /\ UNCHANGED <<engine, conn>>

Next ==
  \/ CreateTables \/ Publish
  \/ \E p \in Path : Write(p)
  \/ \E t \in Thread :
       \/ \E p \in Path : Miss(t, p)
       \/ TryOpen(t) \/ Opened(t) \/ OpenFails(t) \/ Query(t) \/ Store(t)
  \/ Tick

Spec == Init /\ [][Next]_vars

\* A lookup that has begun ends, and time passes.  A database that is there
\* may fail to open, but not each time for ever.  Nobody has to look anything
\* up, and the engine owes nothing.
Fairness ==
  /\ \A t \in Thread :
       WF_vars(TryOpen(t) \/ Opened(t) \/ OpenFails(t) \/ Query(t) \/ Store(t))
  /\ SF_vars(\E t \in Thread : Opened(t))
  /\ WF_vars(Tick)

FairSpec == Spec /\ Fairness

-----------------------------------------------------------------------------
(* Properties.                                                             *)

\* However lookups interleave, the cache never holds more than kMaxEntries
\* entries (property_handler.cpp, Put: "Evict oldest entries if cache is full").
CacheBounded == Cardinality(DOMAIN cache) <= MaxEntries

\* A size that Explorer shows from the cache was the row's no longer ago than
\* the entry's time to live and the time one lookup takes, whatever became of
\* the generation (property_handler.h, kTtl and kNegativeTtl).  Of a lookup
\* whose connection turned out to have failed, which shows no size whatever
\* the row says, the time counts from its miss.
StalenessBounded ==
  \A p \in Path : Hit(p) => cache[p].lag <= TtlOf(cache[p]) + MaxHold

\* Once the engine has published its writes, no lookup that turned to the
\* database afterwards leaves an outdated entry to be served (generation.h),
\* even one that waited for another thread's Open of the connection.  The
\* exceptions last as StalenessBounded says: the row read before the engine
\* wrote it and stored after the bump, under the new generation, and the 'no
\* size' of a lookup that took the connection for open while another thread
\* failed to open it.
PublishedIsRead ==
  shared =>
    \A p \in Path \ unpublished :
      Hit(p) /\ cache[p].beganGen = generation /\ ~cache[p].blind
        => cache[p].row = row[p]

\* When the engine has stopped writing, what Explorer shows becomes right and
\* stays right, with or without the shared counter.
Converges == <>[](\A p \in Path : Hit(p) => cache[p].row = row[p])

\* If Explorer is started before the engine has created the database, it is
\* not left without sizes: as long as somebody asks, the connection is opened
\* after the tables exist (property_handler.cpp, GetReadOnlyDb: "a single
\* failed call_once left the shell extension permanently blind").
ConnectionHeals ==
  created ~> \/ conn = "open"
             \/ [](\A t \in Thread : thread[t].at # "open")

=============================================================================
