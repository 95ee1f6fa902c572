------------------------ MODULE EngineProcessProofs ------------------------
(***************************************************************************)
(* Proofs about EngineProcess, for any roots, any number of clients and    *)
(* any number of saves.                                                    *)
(*                                                                         *)
(* The inductive invariant is IInv of EngineProcess.  Its first half, the  *)
(* types, the order of startup and stop and what the lock excludes, is     *)
(* inductive by itself; what RestartWatchers works on and what a reload    *)
(* leaves behind need it.                                                  *)
(***************************************************************************)
EXTENDS EngineProcess, TLAPS

USE DEF Thread

-----------------------------------------------------------------------------
(* What the steps do to the set of watchers.                               *)

LEMMA BeginStopRunning ==
  ASSUME TypeOK, NEW t \in Thread, NEW w \in Watcher, BeginStop(t, w)
  PROVE  Running' = Running
BY DEF TypeOK, TypeWatch, BeginStop, Running

LEMMA EndWatchRunning ==
  ASSUME TypeOK, NEW w \in Watcher, EndWatch(w)
  PROVE  Running' = Running
BY DEF TypeOK, TypeWatch, EndWatch, Running

LEMMA JoinRunning ==
  ASSUME TypeOK, NEW t \in Thread, NEW w \in Watcher, Join(t, w)
  PROVE  Running' = Running \ {w}
BY DEF TypeOK, TypeWatch, Join, Running

LEMMA StartRunning ==
  ASSUME TypeOK, NEW t \in Thread, NEW r \in Root, Start(t, r)
  PROVE  Running' = IF r \in Reachable THEN Running \cup {<<r, t>>} ELSE Running
<1>1. <<r, t>> \in Watcher
  BY DEF Watcher
<1>2. QED
  BY <1>1 DEF TypeOK, TypeWatch, Start, Running

LEMMA SameRunning == watcher' = watcher => Running' = Running
BY DEF Running

-----------------------------------------------------------------------------
(* The first half.                                                         *)

CoreInv == TypeOK /\ Order /\ Exclusion

LEMMA CoreInit == Init => CoreInv
<1> SUFFICES ASSUME Init PROVE CoreInv
  OBVIOUS
<1>1. Running = {}
  BY DEF Init, Running
<1>2. TypeEngine
  BY DEF Init, TypeEngine
<1>3. TypeWatch
  BY RootAssumption DEF Init, TypeWatch
<1>4. TypePipe
  <2>1. saves \in 0..MaxSaves /\ mine \in [Client -> 0..MaxSaves]
    BY BoundAssumption DEF Init
  <2>2. client \in [Client -> Connected \cup {"idle", "gone", "failed", "ok"}]
    BY DEF Init
  <2>3. command \in [Client -> {"reload", "other"}]
    BY DEF Init
  <2>4. QED
    BY <2>1, <2>2, <2>3 DEF Init, TypePipe, Serving
<1>5. QED
  BY <1>1, <1>2, <1>3, <1>4 DEF Init, CoreInv, TypeOK, Order, Exclusion

\* The types need the order for one thing: the listener is new when the engine
\* starts.
LEMMA TypeStep == TypeOK /\ Order /\ [Next]_vars => TypeOK'
<1> SUFFICES ASSUME TypeOK, Order, [Next]_vars
             PROVE  TypeOK'
  OBVIOUS
<1> USE RootAssumption, ClientAssumption, BoundAssumption
<1> USE DEF TypeOK, engine, server, clients, user, watch
<1>1. CASE UNCHANGED vars
  BY <1>1 DEF vars, TypeEngine, TypeWatch, TypePipe
<1>2. ASSUME NEW t \in Thread, Lock(t)
      PROVE  TypeOK'
  <2>1. TypeEngine' /\ TypePipe'
    BY <1>2 DEF Lock, TypeEngine, TypePipe
  <2>2. TypeWatch'
    BY <1>2 DEF Lock, Running, TypeWatch
  <2>3. QED
    BY <2>1, <2>2
<1>3. ASSUME NEW t \in Thread, Unlock(t)
      PROVE  TypeOK'
  <2>1. TypeEngine'
    BY <1>3 DEF Unlock, TypeEngine
  <2>2. TypeWatch'
    BY <1>3 DEF Unlock, TypeWatch
  <2>3. TypePipe'
    BY <1>3 DEF Unlock, Restarting, TypePipe, Serving
  <2>4. QED
    BY <2>1, <2>2, <2>3
<1>4. ASSUME NEW t \in Thread, NEW r \in Root, Start(t, r)
      PROVE  TypeOK'
  <2>1. <<r, t>> \in Watcher
    BY DEF Watcher
  <2>2. TypeWatch'
    BY <1>4, <2>1 DEF Start, TypeWatch
  <2>3. TypeEngine' /\ TypePipe'
    BY <1>4 DEF Start, TypeEngine, TypePipe
  <2>4. QED
    BY <2>2, <2>3
<1>5. ASSUME NEW t \in Thread, NEW w \in Watcher, BeginStop(t, w) \/ Join(t, w)
      PROVE  TypeOK'
  <2>1. TypeWatch'
    <3>1. CASE BeginStop(t, w)
      BY <3>1 DEF BeginStop, TypeWatch
    <3>2. CASE Join(t, w)
      BY <3>2 DEF Join, TypeWatch
    <3>3. QED
      BY <1>5, <3>1, <3>2
  <2>2. TypeEngine' /\ TypePipe'
    BY <1>5 DEF BeginStop, Join, TypeEngine, TypePipe
  <2>3. QED
    BY <2>1, <2>2
<1>6. ASSUME NEW w \in Watcher, EndWatch(w)
      PROVE  TypeOK'
  BY <1>6 DEF EndWatch, TypeEngine, TypeWatch, TypePipe
<1>7. CASE StartEngine \/ StartFails \/ Exit
  <2>1. TypeEngine' /\ TypeWatch'
    BY <1>7 DEF StartEngine, StartFails, Exit, TypeEngine, TypeWatch
  <2>2. TypePipe'
    BY <1>7 DEF StartEngine, StartFails, Exit, Order, TypePipe, Serving
  <2>3. QED
    BY <2>1, <2>2
<1>8. CASE LockWatchers \/ WatchersCleared
  <2>1. TypeEngine' /\ TypePipe'
    BY <1>8 DEF LockWatchers, WatchersCleared, TypeEngine, TypePipe
  <2>2. TypeWatch'
    BY <1>8 DEF LockWatchers, WatchersCleared, Running, TypeWatch
  <2>3. QED
    BY <2>1, <2>2
<1>9. CASE StopScanner \/ SignalServer \/ JoinListener \/ Destroy \/ EndScheduler
  <2> USE DEF StopScanner, SignalServer, JoinListener, Destroy, EndScheduler
  <2>1. TypeEngine'
    BY <1>9 DEF TypeEngine
  <2>2. TypeWatch'
    BY <1>9 DEF TypeWatch
  <2>3. TypePipe'
    BY <1>9 DEF TypePipe
  <2>4. QED
    BY <2>1, <2>2, <2>3
<1>10. CASE CreatePipe \/ Cancel \/ ReadRequest \/ ReadFails \/ Handle \/ Finish
  <2> USE DEF CreatePipe, Cancel, ReadRequest, ReadFails, Handle, Finish
  <2>1. TypeEngine'
    BY <1>10 DEF TypeEngine
  <2>2. TypeWatch'
    BY <1>10 DEF TypeWatch
  <2>3. TypePipe'
    BY <1>10 DEF TypePipe, Serving
  <2>4. QED
    BY <2>1, <2>2, <2>3
<1>11. CASE WriteAnswer \/ Disconnect
  <2> USE DEF WriteAnswer, Disconnect
  <2>1. TypeEngine' /\ TypeWatch'
    BY <1>11 DEF TypeEngine, TypeWatch
  <2>2. TypePipe'
    BY <1>11 DEF TypePipe, Serving, Connected
  <2>3. QED
    BY <2>1, <2>2
<1>12. ASSUME NEW new \in SUBSET Root, Save(new)
       PROVE  TypeOK'
  BY <1>12 DEF Save, TypeEngine, TypeWatch, TypePipe
<1>13. CASE SendCommand
  <2> USE DEF SendCommand, Open, WriteRequest, GiveUp, ReadAnswer
  <2>1. TypeEngine' /\ TypeWatch'
    BY <1>13 DEF TypeEngine, TypeWatch
  <2>2. TypePipe'
    BY <1>13 DEF TypePipe, Serving, Connected
  <2>3. QED
    BY <2>1, <2>2
<1>14. QED
  BY <1>1, <1>2, <1>3, <1>4, <1>5, <1>6, <1>7, <1>8, <1>9, <1>10, <1>11, <1>12, <1>13
  DEF Next, MainThread, ListenerThread, StopWatchers

LEMMA OrderStep == TypeOK /\ Order /\ Exclusion /\ [Next]_vars => Order'
<1> SUFFICES ASSUME TypeOK, Order, Exclusion, [Next]_vars
             PROVE  Order'
  OBVIOUS
<1> USE DEF Order, engine, server, clients, user, watch
<1>1. CASE UNCHANGED vars
  BY <1>1 DEF vars, Running
<1>2. ASSUME NEW t \in Thread, Lock(t)
      PROVE  Order'
  BY <1>2, SameRunning DEF Lock
<1>3. ASSUME NEW t \in Thread, Unlock(t)
      PROVE  Order'
  BY <1>3, SameRunning DEF Unlock, Restarting
<1>4. ASSUME NEW t \in Thread, NEW r \in Root, Start(t, r)
      PROVE  Order'
  BY <1>4, StartRunning DEF Start, Restarting
<1>5. ASSUME NEW t \in Thread, NEW w \in Watcher, BeginStop(t, w)
      PROVE  Order'
  BY <1>5, BeginStopRunning DEF BeginStop
<1>6. ASSUME NEW t \in Thread, NEW w \in Watcher, Join(t, w)
      PROVE  Order'
  BY <1>6, JoinRunning DEF Join
<1>7. ASSUME NEW w \in Watcher, EndWatch(w)
      PROVE  Order'
  BY <1>7, EndWatchRunning DEF EndWatch
<1>8. CASE StartEngine \/ StartFails \/ Exit \/ LockWatchers \/ WatchersCleared
  BY <1>8, SameRunning DEF StartEngine, StartFails, Exit, LockWatchers, WatchersCleared
<1>9. CASE StopScanner \/ SignalServer \/ JoinListener \/ Destroy \/ EndScheduler
  BY <1>9, SameRunning DEF StopScanner, SignalServer, JoinListener, Destroy, EndScheduler
<1>10. CASE CreatePipe \/ Cancel \/ ReadRequest \/ ReadFails \/ Handle \/ Finish
  BY <1>10, SameRunning DEF CreatePipe, Cancel, ReadRequest, ReadFails, Handle, Finish
<1>11. CASE WriteAnswer \/ Disconnect
  BY <1>11, SameRunning DEF WriteAnswer, Disconnect
<1>12. ASSUME NEW new \in SUBSET Root, Save(new)
       PROVE  Order'
  BY <1>12, SameRunning DEF Save
<1>13. CASE SendCommand
  BY <1>13, SameRunning DEF SendCommand, Open, WriteRequest, GiveUp, ReadAnswer
<1>14. QED
  BY <1>1, <1>2, <1>3, <1>4, <1>5, <1>6, <1>7, <1>8, <1>9, <1>10, <1>11, <1>12, <1>13
  DEF Next, MainThread, ListenerThread, StopWatchers

\* A reload that gets the lock behind StopEngine is the one way to watchers
\* that stay: it sets late.
LEMMA ExclusionStep == TypeOK /\ Order /\ Exclusion /\ [Next]_vars => Exclusion'
<1> SUFFICES ASSUME TypeOK, Order, Exclusion, [Next]_vars
             PROVE  Exclusion'
  OBVIOUS
<1> USE DEF Exclusion, engine, server, clients, user, watch
<1>1. CASE UNCHANGED vars
  BY <1>1 DEF vars, Running
<1>2. ASSUME NEW t \in Thread, Lock(t)
      PROVE  Exclusion'
  BY <1>2, SameRunning DEF Lock, Restarting
<1>3. ASSUME NEW t \in Thread, Unlock(t)
      PROVE  Exclusion'
  BY <1>3, SameRunning DEF Unlock, Restarting
<1>4. ASSUME NEW t \in Thread, NEW r \in Root, Start(t, r)
      PROVE  Exclusion'
  BY <1>4 DEF Start, Restarting
<1>5. ASSUME NEW t \in Thread, NEW w \in Watcher, BeginStop(t, w)
      PROVE  Exclusion'
  BY <1>5, BeginStopRunning DEF BeginStop
<1>6. ASSUME NEW t \in Thread, NEW w \in Watcher, Join(t, w)
      PROVE  Exclusion'
  <2>1. Running' = Running \ {w} /\ drop'[t] = drop[t] \ {w}
    BY <1>6, JoinRunning DEF Join, TypeOK, TypeWatch
  <2>2. main = "clear" => t = "main"
    BY <1>6 DEF Join
  <2>3. QED
    BY <1>6, <2>1, <2>2 DEF Join
<1>7. ASSUME NEW w \in Watcher, EndWatch(w)
      PROVE  Exclusion'
  BY <1>7, EndWatchRunning DEF EndWatch
<1>8. CASE StartEngine \/ StartFails \/ Exit
  BY <1>8, SameRunning DEF StartEngine, StartFails, Exit, Order
<1>9. CASE LockWatchers \/ WatchersCleared
  BY <1>9, SameRunning DEF LockWatchers, WatchersCleared, TypeOK, TypeWatch
<1>10. CASE StopScanner \/ SignalServer \/ JoinListener \/ Destroy \/ EndScheduler
  BY <1>10, SameRunning DEF StopScanner, SignalServer, JoinListener, Destroy, EndScheduler
<1>11. CASE CreatePipe \/ Cancel \/ ReadRequest \/ ReadFails \/ Handle \/ Finish
  BY <1>11, SameRunning DEF CreatePipe, Cancel, ReadRequest, ReadFails, Handle, Finish
<1>12. CASE WriteAnswer \/ Disconnect
  BY <1>12, SameRunning DEF WriteAnswer, Disconnect
<1>13. ASSUME NEW new \in SUBSET Root, Save(new)
       PROVE  Exclusion'
  BY <1>13, SameRunning DEF Save
<1>14. CASE SendCommand
  BY <1>14, SameRunning DEF SendCommand, Open, WriteRequest, GiveUp, ReadAnswer
<1>15. QED
  BY <1>1, <1>2, <1>3, <1>4, <1>5, <1>6, <1>7, <1>8, <1>9, <1>10, <1>11, <1>12, <1>13, <1>14
  DEF Next, MainThread, ListenerThread, StopWatchers

THEOREM Core == Spec => []CoreInv
<1>1. CoreInv /\ [Next]_vars => CoreInv'
  BY TypeStep, OrderStep, ExclusionStep DEF CoreInv
<1>2. QED
  BY CoreInit, <1>1, PTL DEF Spec

\* The types of the variables.
THEOREM TypesHold == Spec => []TypeOK
BY Core, PTL DEF CoreInv

\* StopEngine destroys the scanner and closes the database only when neither
\* the scheduler nor the listener is at work, and with every watch thread
\* joined, unless a reload got the lock behind it.
THEOREM ScannerOutlives == Spec => []ScannerOutlivesUsers
<1>1. CoreInv => ScannerOutlivesUsers
  BY DEF CoreInv, Order, Exclusion, ScannerOutlivesUsers
<1>2. QED
  BY Core, <1>1, PTL

-----------------------------------------------------------------------------
(* What RestartWatchers works on.                                          *)

\* Steps that touch neither the watchers nor what the holder of the lock has
\* yet to do, and leave the list and the reload that is served alone.
LEMMA WorkKept ==
  ASSUME TypeOK, Exclusion, OneWatcherPerRoot, Work,
         UNCHANGED <<drop, add, watcher, list, saves, mine>>,
         mutex' \subseteq mutex, stopEvent' = FALSE => stopEvent = FALSE,
         \A t \in mutex' : Restarting(t)' => Restarting(t),
         "ipc" \in mutex' => serving' = serving
  PROVE  OneWatcherPerRoot' /\ Work'
<1>1. Running' = Running /\ Watched' = Watched
  BY DEF Running, Watched
<1>2. OneWatcherPerRoot'
  BY <1>1 DEF OneWatcherPerRoot
<1>3. "ipc" \in mutex' /\ Fresh(serving)' => "ipc" \in mutex /\ Fresh(serving)
  BY DEF Fresh, TypeOK, TypeEngine
<1>4. Work'
  BY <1>1, <1>3 DEF Work
<1>5. QED
  BY <1>2, <1>4

LEMMA WorkStep ==
  CoreInv /\ OneWatcherPerRoot /\ Work /\ [Next]_vars => OneWatcherPerRoot' /\ Work'
<1> SUFFICES ASSUME CoreInv, OneWatcherPerRoot, Work, [Next]_vars
             PROVE  OneWatcherPerRoot' /\ Work'
  OBVIOUS
<1> USE DEF CoreInv, engine, server, clients, user, watch
<1> DEFINE Covers == {w[1] : w \in Running \ drop["ipc"]} \cup (add["ipc"] \cap Reachable)
<1>1. CASE UNCHANGED vars
  BY <1>1, WorkKept DEF vars, Restarting
<1>2. ASSUME NEW t \in Thread, Lock(t)
      PROVE  OneWatcherPerRoot' /\ Work'
  <2>1. Running' = Running /\ Watched' = Watched
    BY <1>2 DEF Lock, Running, Watched
  <2>2. mutex' = {t} /\ add'[t] = list \ Watched
        /\ drop'[t] = {w \in Running : w[1] \notin list}
    BY <1>2 DEF Lock, TypeOK, TypeWatch
  <2>3. OneWatcherPerRoot'
    BY <2>1 DEF OneWatcherPerRoot
  <2>4. \A u \in mutex' : add'[u] \cap Watched' = {}
    BY <2>1, <2>2
  <2>5. t = "ipc" => Covers' = list \cap Reachable
    <3>1. ASSUME t = "ipc" PROVE Running' \ drop'["ipc"] = {w \in Running : w[1] \in list}
      BY <2>1, <2>2, <3>1
    <3>2. {w[1] : w \in {v \in Running : v[1] \in list}} = Watched \cap list
      BY DEF Watched
    <3>3. Watched \subseteq Reachable
      BY DEF Work
    <3>4. QED
      BY <2>2, <3>1, <3>2, <3>3
  <2>6. list' = list /\ UNCHANGED <<mine, saves>>
    BY <1>2 DEF Lock
  <2>7. QED
    BY <2>1, <2>2, <2>3, <2>4, <2>5, <2>6 DEF Work
<1>3. ASSUME NEW t \in Thread, Unlock(t)
      PROVE  OneWatcherPerRoot' /\ Work'
  <2>1. mutex' = {}
    BY <1>3 DEF Unlock, Exclusion
  <2>2. QED
    BY <1>3, <2>1, WorkKept DEF Unlock
<1>4. ASSUME NEW t \in Thread, NEW r \in Root, Start(t, r)
      PROVE  OneWatcherPerRoot' /\ Work'
  <2>1. Running' = IF r \in Reachable THEN Running \cup {<<r, t>>} ELSE Running
    BY <1>4, StartRunning
  <2>2. Watched' = IF r \in Reachable THEN Watched \cup {r} ELSE Watched
    <3>1. <<r, t>>[1] = r
      OBVIOUS
    <3>2. CASE r \in Reachable
      BY <2>1, <3>1, <3>2 DEF Watched
    <3>3. CASE r \notin Reachable
      BY <2>1, <3>3 DEF Watched
    <3>4. QED
      BY <3>2, <3>3
  <2>3. mutex = {t} /\ r \notin Watched /\ drop[t] = {} /\ add[t] \cap Watched = {}
        /\ add'[t] = add[t] \ {r} /\ r \in add[t]
        /\ UNCHANGED <<mutex, drop, list, saves, mine, serving, stopEvent>>
    BY <1>4 DEF Start, Exclusion, Work, TypeOK, TypeWatch
  <2>4. OneWatcherPerRoot'
    <3>1. \A v \in Running : v[1] # r
      BY <2>3 DEF Watched
    <3>2. QED
      BY <2>1, <3>1 DEF OneWatcherPerRoot
  <2>5. Watched' \subseteq Reachable /\ \A u \in mutex' : add'[u] \cap Watched' = {}
    BY <2>2, <2>3 DEF Work
  <2>6. t = "ipc" => Covers' = Covers
    <3>1. ASSUME t = "ipc" PROVE /\ Covers = Watched \cup (add["ipc"] \cap Reachable)
                                /\ Covers' = Watched' \cup (add'["ipc"] \cap Reachable)
      BY <2>3, <3>1 DEF Watched
    <3>2. QED
      BY <2>2, <2>3, <3>1
  <2>7. "ipc" \in mutex' /\ Fresh(serving)' => t = "ipc" /\ Fresh(serving)
    BY <2>3 DEF Fresh
  <2>8. QED
    BY <2>3, <2>4, <2>5, <2>6, <2>7 DEF Work
<1>5. ASSUME NEW t \in Thread, NEW w \in Watcher, BeginStop(t, w)
      PROVE  OneWatcherPerRoot' /\ Work'
  <2>1. Running' = Running /\ Watched' = Watched
    BY <1>5, BeginStopRunning DEF Watched
  <2>2. QED
    BY <1>5, <2>1 DEF BeginStop, OneWatcherPerRoot, Work, Restarting, Fresh
<1>6. ASSUME NEW t \in Thread, NEW w \in Watcher, Join(t, w)
      PROVE  OneWatcherPerRoot' /\ Work'
  <2>1. Running' = Running \ {w} /\ drop'[t] = drop[t] \ {w} /\ w \in drop[t]
    BY <1>6, JoinRunning DEF Join, TypeOK, TypeWatch
  <2>2. Watched' \subseteq Watched
    BY <2>1 DEF Watched
  <2>3. mutex = {t} /\ UNCHANGED <<main, listener, mutex, add, list, saves, mine, serving, stopEvent>>
    BY <1>6 DEF Join, Exclusion
  <2>4. t = "ipc" => Running' \ drop'["ipc"] = Running \ drop["ipc"]
    BY <2>1
  <2>5. OneWatcherPerRoot'
    BY <2>1 DEF OneWatcherPerRoot
  <2>6. Watched' \subseteq Reachable /\ \A u \in mutex' : Restarting(u)' => add'[u] \cap Watched' = {}
    BY <2>2, <2>3 DEF Work, Restarting
  <2>7. "ipc" \in mutex' /\ Fresh(serving)' => t = "ipc" /\ Fresh(serving)
    BY <2>3 DEF Fresh
  <2>8. QED
    BY <2>3, <2>4, <2>5, <2>6, <2>7 DEF Work
<1>7. ASSUME NEW w \in Watcher, EndWatch(w)
      PROVE  OneWatcherPerRoot' /\ Work'
  <2>1. Running' = Running /\ Watched' = Watched
    BY <1>7, EndWatchRunning DEF Watched
  <2>2. QED
    BY <1>7, <2>1 DEF EndWatch, OneWatcherPerRoot, Work, Restarting, Fresh
<1>8. CASE StartEngine
  <2>1. mutex = {}
    BY <1>8 DEF StartEngine, Order, Exclusion, TypeOK, TypeWatch
  <2>2. QED
    BY <1>8, <2>1, WorkKept DEF StartEngine, Restarting
<1>9. CASE StartFails \/ Exit \/ StopScanner \/ SignalServer \/ JoinListener \/ Destroy \/ EndScheduler
  BY <1>9, WorkKept
  DEF StartFails, Exit, StopScanner, SignalServer, JoinListener, Destroy, EndScheduler, Restarting
<1>10. CASE LockWatchers
  <2>1. Running' = Running /\ Watched' = Watched /\ mutex' = {"main"} /\ main' = "clear"
        /\ UNCHANGED <<mine, saves>>
    BY <1>10 DEF LockWatchers, Running, Watched
  <2>2. QED
    BY <2>1 DEF OneWatcherPerRoot, Work, Restarting
<1>11. CASE WatchersCleared
  BY <1>11, WorkKept DEF WatchersCleared
<1>12. CASE CreatePipe \/ Cancel \/ ReadRequest \/ ReadFails \/ Finish \/ WriteAnswer \/ Disconnect
  BY <1>12, WorkKept
  DEF CreatePipe, Cancel, ReadRequest, ReadFails, Finish, WriteAnswer, Disconnect, Exclusion, Restarting
<1>13. CASE Handle
  <2>1. "ipc" \notin mutex /\ mutex \subseteq Thread
    BY <1>13 DEF Handle, Exclusion, TypeOK, TypeWatch
  <2>2. QED
    BY <1>13, <2>1, WorkKept DEF Handle, Restarting
<1>14. ASSUME NEW new \in SUBSET Root, Save(new)
       PROVE  OneWatcherPerRoot' /\ Work'
  <2>1. Running' = Running /\ Watched' = Watched
    BY <1>14 DEF Save, Running, Watched
  <2>2. \A c \in Client : mine'[c] <= saves' /\ mine'[c] # saves'
    BY <1>14, BoundAssumption DEF Save, Work, TypeOK, TypePipe
  <2>3. "ipc" \in mutex' => serving' \in Client
    BY <1>14, ClientAssumption DEF Save, Exclusion, TypeOK, TypePipe, Serving
  <2>4. QED
    BY <1>14, <2>1, <2>2, <2>3 DEF Save, OneWatcherPerRoot, Work, Restarting, Fresh
<1>15. ASSUME NEW c \in Client, NEW what \in {"reload", "other"}, Open(c, what)
       PROVE  OneWatcherPerRoot' /\ Work'
  <2>1. Running' = Running /\ Watched' = Watched
    BY <1>15 DEF Open, Running, Watched
  <2>2. "ipc" \notin mutex'
    BY <1>15 DEF Open, Exclusion
  <2>3. \A d \in Client : mine'[d] <= saves'
    BY <1>15, BoundAssumption DEF Open, Work, TypeOK, TypePipe
  <2>4. QED
    BY <1>15, <2>1, <2>2, <2>3 DEF Open, OneWatcherPerRoot, Work, Restarting
<1>16. ASSUME NEW c \in Client, WriteRequest(c) \/ GiveUp(c) \/ ReadAnswer(c)
       PROVE  OneWatcherPerRoot' /\ Work'
  BY <1>16, WorkKept DEF WriteRequest, GiveUp, ReadAnswer, Restarting
<1>17. QED
  BY <1>1, <1>2, <1>3, <1>4, <1>5, <1>6, <1>7, <1>8, <1>9, <1>10, <1>11, <1>12, <1>13, <1>14,
     <1>15, <1>16
  DEF Next, MainThread, ListenerThread, StopWatchers, SendCommand

-----------------------------------------------------------------------------
(* What a reload leaves behind.                                            *)

\* A reload that was carried out for the list as it is now.
Done(c) ==
  /\ command[c] = "reload" /\ Fresh(c)
  /\ client[c] \in {"answered", "ok"} \/ (c = serving /\ listener = "write")

Settled == /\ Watched = list \cap Reachable
           /\ \A t \in mutex : drop[t] = {} /\ add[t] \cap Reachable = {}

LEMMA AppliedMeans == Applied <=> \A c \in Client : Done(c) => Settled
BY DEF Applied, Done, Settled

\* Steps that touch neither the watchers nor what is left to do, and answer
\* no reload.
LEMMA AppliedKept ==
  ASSUME Applied, UNCHANGED <<drop, add, watcher, list>>, mutex' \subseteq mutex,
         \A c \in Client : Done(c)' => Done(c)
  PROVE  Applied'
<1>1. Watched' = Watched
  BY DEF Watched, Running
<1>2. Settled => Settled'
  BY <1>1 DEF Settled
<1>3. Applied' <=> \A c \in Client : Done(c)' => Settled'
  BY DEF Applied, Done, Settled
<1>4. QED
  BY <1>2, <1>3, AppliedMeans

LEMMA AppliedStep ==
  CoreInv /\ Work /\ Applied /\ [Next]_vars => Applied'
<1> SUFFICES ASSUME CoreInv, Work, Applied, [Next]_vars
             PROVE  Applied'
  OBVIOUS
<1> USE DEF CoreInv, engine, server, clients, user, watch
<1>a. Applied' <=> \A c \in Client : Done(c)' => Settled'
  BY DEF Applied, Done, Settled
<1>b. ASSUME stopEvent' = TRUE PROVE Applied'
  BY <1>b DEF Applied, Fresh
<1>1. CASE UNCHANGED vars
  BY <1>1, AppliedKept DEF vars, Done, Fresh
<1>2. ASSUME NEW t \in Thread, Lock(t)
      PROVE  Applied'
  <2>1. Running' = Running /\ Watched' = Watched
    BY <1>2 DEF Lock, Running, Watched
  <2>2. mutex' = {t} /\ add'[t] = list \ Watched
        /\ drop'[t] = {w \in Running : w[1] \notin list} /\ list' = list
    BY <1>2 DEF Lock, TypeOK, TypeWatch
  <2>3. Settled => Settled'
    <3>1. Watched = list \cap Reachable => {w \in Running : w[1] \notin list} = {}
      BY DEF Watched
    <3>2. QED
      BY <2>1, <2>2, <3>1 DEF Settled
  <2>4. \A c \in Client : Done(c)' => Done(c)
    BY <1>2 DEF Lock, Done, Fresh
  <2>5. QED
    BY <1>a, <2>3, <2>4, AppliedMeans
<1>3. ASSUME NEW t \in Thread, Unlock(t)
      PROVE  Applied'
  <2>1. mutex' = {} /\ Watched' = Watched /\ list' = list
    BY <1>3 DEF Unlock, Exclusion, Watched, Running
  <2>2. CASE t = "main"
    BY <1>3, <2>1, <2>2, AppliedKept DEF Unlock, Done, Fresh
  <2>3. CASE t = "ipc"
    <3>1. ASSUME Fresh(serving) PROVE Watched = list \cap Reachable
      <4>1. drop["ipc"] = {} /\ add["ipc"] = {} /\ "ipc" \in mutex
        BY <1>3, <2>3 DEF Unlock
      <4>2. {w[1] : w \in Running \ drop["ipc"]} = Watched
        BY <4>1 DEF Watched
      <4>3. QED
        BY <3>1, <4>1, <4>2 DEF Work
    <3>2. \A c \in Client : Done(c)' => Done(c) \/ (c = serving /\ Fresh(serving))
      BY <1>3, <2>3 DEF Unlock, Done, Fresh
    <3>3. \A c \in Client : Done(c)' => Settled'
      BY <2>1, <3>1, <3>2, AppliedMeans DEF Settled
    <3>4. QED
      BY <1>a, <3>3
  <2>4. QED
    BY <2>2, <2>3
<1>4. ASSUME NEW t \in Thread, NEW r \in Root, Start(t, r)
      PROVE  Applied'
  <2>1. t \in mutex /\ r \in add[t] /\ mutex' = mutex /\ list' = list
        /\ drop' = drop /\ add' = [add EXCEPT ![t] = add[t] \ {r}]
    BY <1>4 DEF Start
  <2>2. Settled => Watched' = Watched
    BY <1>4, <2>1 DEF Start, Settled, Watched, Running
  <2>3. \A u \in mutex : add'[u] \subseteq add[u]
    BY <2>1 DEF TypeOK, TypeWatch
  <2>4. Settled => Settled'
    BY <2>1, <2>2, <2>3 DEF Settled
  <2>5. \A c \in Client : Done(c)' => Done(c)
    BY <1>4 DEF Start, Done, Fresh
  <2>6. QED
    BY <1>a, <2>4, <2>5, AppliedMeans
<1>5. ASSUME NEW t \in Thread, NEW w \in Watcher, BeginStop(t, w) \/ Join(t, w)
      PROVE  Applied'
  <2>1. ~Settled
    BY <1>5 DEF BeginStop, Join, Settled
  <2>2. \A c \in Client : Done(c)' => Done(c)
    BY <1>5 DEF BeginStop, Join, Done, Fresh
  <2>3. QED
    BY <1>a, <2>1, <2>2, AppliedMeans
<1>6. ASSUME NEW w \in Watcher, EndWatch(w)
      PROVE  Applied'
  <2>1. Watched' = Watched
    BY <1>6, EndWatchRunning DEF Watched
  <2>2. Settled => Settled'
    BY <1>6, <2>1 DEF EndWatch, Settled
  <2>3. \A c \in Client : Done(c)' => Done(c)
    BY <1>6 DEF EndWatch, Done, Fresh
  <2>4. QED
    BY <1>a, <2>2, <2>3, AppliedMeans
<1>7. CASE StartEngine \/ StartFails \/ EndScheduler
  BY <1>7, AppliedKept DEF StartEngine, StartFails, EndScheduler, Done, Fresh
<1>8. CASE Exit \/ LockWatchers \/ WatchersCleared \/ StopScanner \/ SignalServer
           \/ JoinListener \/ Destroy
  BY <1>8, <1>b
  DEF Exit, LockWatchers, WatchersCleared, StopScanner, SignalServer, JoinListener, Destroy,
      Order, TypeOK, TypeEngine
<1>9. CASE CreatePipe \/ Cancel \/ ReadRequest \/ ReadFails \/ Handle \/ Finish
  BY <1>9, AppliedKept
  DEF CreatePipe, Cancel, ReadRequest, ReadFails, Handle, Finish, Done, Fresh
<1>10. CASE WriteAnswer \/ Disconnect
  <2>1. \A c \in Client : Done(c)' => Done(c)
    BY <1>10 DEF WriteAnswer, Disconnect, Done, Fresh, TypeOK, TypePipe
  <2>2. QED
    BY <1>10, <2>1, AppliedKept DEF WriteAnswer, Disconnect
<1>11. ASSUME NEW new \in SUBSET Root, Save(new)
       PROVE  Applied'
  <2>1. \A c \in Client : mine'[c] # saves'
    BY <1>11, BoundAssumption DEF Save, Work, TypeOK, TypePipe
  <2>2. QED
    BY <2>1 DEF Applied, Fresh
<1>12. CASE SendCommand
  <2>1. \A c \in Client : Done(c)' => Done(c)
    BY <1>12 DEF SendCommand, Open, WriteRequest, GiveUp, ReadAnswer, Done, Fresh, TypeOK,
                 TypePipe, Connected
  <2>2. UNCHANGED <<drop, add, watcher, list, mutex>>
    BY <1>12 DEF SendCommand, Open, WriteRequest, GiveUp, ReadAnswer
  <2>3. QED
    BY <2>1, <2>2, AppliedKept
<1>13. QED
  BY <1>1, <1>2, <1>3, <1>4, <1>5, <1>6, <1>7, <1>8, <1>9, <1>10, <1>11, <1>12
  DEF Next, MainThread, ListenerThread, StopWatchers

-----------------------------------------------------------------------------
(* The theorems.                                                           *)

LEMMA InitInvariant == Init => IInv
<1> SUFFICES ASSUME Init PROVE IInv
  OBVIOUS
<1>1. CoreInv
  BY CoreInit
<1>2. Running = {} /\ Watched = {} /\ mutex = {}
  BY DEF Init, Running, Watched
<1>3. OneWatcherPerRoot /\ Applied
  BY <1>2 DEF Init, OneWatcherPerRoot, Applied
<1>4. Work
  BY <1>2, BoundAssumption DEF Init, Work
<1>5. QED
  BY <1>1, <1>3, <1>4 DEF IInv, CoreInv

THEOREM Invariant == Spec => []IInv
<1>1. IInv /\ [Next]_vars => IInv'
  BY TypeStep, OrderStep, ExclusionStep, WorkStep, AppliedStep DEF IInv, CoreInv
<1>2. QED
  BY InitInvariant, <1>1, PTL DEF Spec

\* The startup and a reload that comes in at once never watch a root twice.
THEOREM WatchedOnce == Spec => []OneWatcherPerRoot
BY Invariant, PTL DEF IInv

\* An answered reload has been carried out, and stays so until the list is
\* edited again or the engine stops, however many clients, reloads and saves
\* there are and however they interleave with the startup.
THEOREM ReloadApplied == Spec => []ReloadIsApplied
<1>1. IInv => ReloadIsApplied
  BY DEF IInv, Applied, ReloadIsApplied
<1>2. QED
  BY Invariant, <1>1, PTL

=============================================================================
