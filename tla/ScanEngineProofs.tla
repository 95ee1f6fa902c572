-------------------------- MODULE ScanEngineProofs --------------------------
(***************************************************************************)
(* Proofs about ScanEngine, for any set of roots and any set of faults.    *)
(*                                                                         *)
(* The argument is one inductive invariant, IInv: the types; where a scan  *)
(* is in progress and that its debt is on disk (ScanInv); that coverage is *)
(* backed by a subscription; and who will read a missed change (OweInv).   *)
(* The first two are inductive by themselves and are proved first.         *)
(***************************************************************************)
EXTENDS ScanEngine, TLAPS

CoreInv == TypeOK /\ ScanInv

USE DEF disk, memory, thread, watch, history

\* Types, and the debt of the scan in progress, hold initially ...
LEMMA CoreInit == Init => CoreInv
  BY NoRootAssumption DEF Init, CoreInv, TypeOK, ScanInv, PcValues, WatcherValues

\* ... and are kept by every step.
LEMMA CoreStep == CoreInv /\ [Next]_vars => CoreInv'
<1> SUFFICES ASSUME CoreInv, [Next]_vars
             PROVE  CoreInv'
  OBVIOUS
<1> USE NoRootAssumption DEF CoreInv, TypeOK, ScanInv, PcValues, WatcherValues
<1>1. CASE UNCHANGED vars
  BY <1>1 DEF vars
<1>2. CASE Scheduler
  <2>1. CASE StartupPrune \/ StartupSnapshot \/ StartupDone
    BY <2>1 DEF StartupPrune, StartupSnapshot, StartupDone, RemoveOutsideRoots
  <2>2. CASE LoopTop \/ Wake \/ WaitStopped \/ PassDone
    BY <2>2 DEF LoopTop, Wake, WaitStopped, PassDone, WriteHeartbeat
  <2>3. CASE FlushChunk \/ ScanFails
    BY <2>3 DEF FlushChunk, ScanFails
  <2>4. CASE ScanCommits \/ ClearPending
    BY <2>4 DEF ScanCommits, ClearPending
  <2>5. CASE ScanReturned
    BY <2>5 DEF ScanReturned
  <2>6. ASSUME NEW r \in Root, StartupScan(r) \/ BeginScan(r)
        PROVE  CoreInv'
    BY <2>6 DEF StartupScan, BeginScan, EnterScanRoot
  <2>7. ASSUME NEW r \in Root, StartupBaseline(r) \/ SkipRoot(r)
        PROVE  CoreInv'
    BY <2>7 DEF StartupBaseline, SkipRoot
  <2>8. QED
    BY <1>2, <2>1, <2>2, <2>3, <2>4, <2>5, <2>6, <2>7 DEF Scheduler
<1>3. ASSUME NEW r \in Root, Watcher(r)
      PROVE  CoreInv'
  <2>1. CASE PersistRequest(r) \/ Arm(r) \/ StartWatcher(r) \/ StopWatcher(r)
    BY <2>1 DEF PersistRequest, Arm, StartWatcher, StopWatcher
  <2>2. CASE Reconnect(r) \/ NoticeOverflow(r)
    BY <2>2 DEF Reconnect, NoticeOverflow, EnterRequest
  <2>3. QED
    BY <1>3, <2>1, <2>2 DEF Watcher
<1>4. CASE Environment
  <2>1. CASE StartEngine \/ RequestStop \/ RequestFullScan
    <3>1. CASE StartEngine
      BY <3>1 DEF StartEngine
    <3>2. CASE RequestStop
      BY <3>2 DEF RequestStop
    <3>3. CASE RequestFullScan
      BY <3>3 DEF RequestFullScan
    <3>4. QED
      BY <2>1, <3>1, <3>2, <3>3
  <2>2. CASE EngineOff \/ Crash
    <3>1. pc' = "off" /\ FreshMemory /\ UNCHANGED <<disk, history>>
      BY <2>2 DEF EngineOff, Crash
    <3>2. TypeOK'
      BY <3>1 DEF FreshMemory
    <3>3. ScanInv'
      BY <3>1 DEF FreshMemory
    <3>4. QED
      BY <3>2, <3>3
  <2>3. CASE ReloadConfig \/ ReloadPrune \/ RestartWatchersDone
    BY <2>3 DEF ReloadConfig, ReloadPrune, RestartWatchersDone,
                RemoveOutsideRoots
  <2>4. ASSUME NEW r \in Root, OfflineChange(r) \/ LoseConnection(r)
        PROVE  CoreInv'
    BY <2>4 DEF OfflineChange, LoseConnection
  <2>5. ASSUME NEW r \in Root, ChangeDuringOutage(r) \/ Overflow(r)
        PROVE  CoreInv'
    BY <2>5 DEF ChangeDuringOutage, Overflow, MissChange
  <2>6. ASSUME NEW r \in Root, IntervalElapses(r) \/ RetryElapses(r)
        PROVE  CoreInv'
    BY <2>6 DEF IntervalElapses, RetryElapses
  <2>7. QED
    BY <1>4, <2>1, <2>2, <2>3, <2>4, <2>5, <2>6 DEF Environment
<1>5. QED
  BY <1>1, <1>2, <1>3, <1>4 DEF Next

\* Types and the debt of the scan in progress hold throughout (ScanRoot).
LEMMA CoreCorrect == Spec => []CoreInv
  BY CoreInit, CoreStep, PTL DEF Spec

\* Every variable keeps its type.
THEOREM TypeCorrect == Spec => []TypeOK
  BY CoreCorrect, PTL DEF CoreInv

\* Rows of an unfinished scan are never without the flag that makes the next
\* startup scan the root.
THEOREM PartialOwed == Spec => []PartialIsOwed
<1>1. CoreInv => PartialIsOwed
  BY DEF CoreInv, ScanInv, PartialIsOwed, Debt!PartialIsOwed
<1>2. QED
  BY <1>1, CoreCorrect, PTL

-----------------------------------------------------------------------------
(* The two parts about coverage and missed changes rest on the first two.  *)

\* A root enters m_realtimeRoots where its watcher has a handle, and leaves
\* it where the handle is closed.
LEMMA SuspensionStep ==
  TypeOK /\ SuspensionIsBacked /\ [Next]_vars => SuspensionIsBacked'
<1> SUFFICES ASSUME TypeOK, SuspensionIsBacked, [Next]_vars
             PROVE  SuspensionIsBacked'
  OBVIOUS
<1> USE DEF TypeOK, SuspensionIsBacked, WatcherValues
<1>1. CASE UNCHANGED <<realtimeRoots, watcher>>
  BY <1>1
<1>2. CASE FreshMemory
  BY <1>2 DEF FreshMemory
<1>3. ASSUME NEW r \in Root, Watcher(r)
      PROVE  SuspensionIsBacked'
  <2>1. CASE PersistRequest(r) \/ Arm(r) \/ StartWatcher(r) \/ StopWatcher(r)
    BY <2>1 DEF PersistRequest, Arm, StartWatcher, StopWatcher
  <2>2. CASE Reconnect(r) \/ NoticeOverflow(r)
    BY <2>2 DEF Reconnect, NoticeOverflow, EnterRequest
  <2>3. QED
    BY <1>3, <2>1, <2>2 DEF Watcher
<1>4. ASSUME NEW r \in Root, LoseConnection(r)
      PROVE  SuspensionIsBacked'
  BY <1>4 DEF LoseConnection
<1>5. ASSUME Scheduler
      PROVE  UNCHANGED <<realtimeRoots, watcher>>
  <2>1. CASE StartupPrune \/ StartupSnapshot \/ StartupDone
    BY <2>1 DEF StartupPrune, StartupSnapshot, StartupDone
  <2>2. CASE LoopTop \/ Wake \/ WaitStopped \/ PassDone
    BY <2>2 DEF LoopTop, Wake, WaitStopped, PassDone
  <2>3. CASE FlushChunk \/ ScanFails \/ ScanCommits \/ ClearPending \/ ScanReturned
    BY <2>3 DEF FlushChunk, ScanFails, ScanCommits, ClearPending, ScanReturned
  <2>4. ASSUME NEW r \in Root,
               StartupScan(r) \/ BeginScan(r) \/ StartupBaseline(r) \/ SkipRoot(r)
        PROVE  UNCHANGED <<realtimeRoots, watcher>>
    BY <2>4 DEF StartupScan, BeginScan, StartupBaseline, SkipRoot
  <2>5. QED
    BY <1>5, <2>1, <2>2, <2>3, <2>4 DEF Scheduler
<1>6. CASE Environment
  <2>1. CASE StartEngine \/ RequestStop \/ RequestFullScan
             \/ ReloadConfig \/ ReloadPrune \/ RestartWatchersDone
    BY <1>1, <2>1 DEF StartEngine, RequestStop, RequestFullScan, ReloadConfig,
                      ReloadPrune, RestartWatchersDone
  <2>2. CASE EngineOff \/ Crash
    BY <1>2, <2>2 DEF EngineOff, Crash
  <2>3. ASSUME NEW r \in Root,
               OfflineChange(r) \/ ChangeDuringOutage(r) \/ Overflow(r)
                 \/ IntervalElapses(r) \/ RetryElapses(r)
        PROVE  SuspensionIsBacked'
    BY <1>1, <2>3 DEF OfflineChange, ChangeDuringOutage, Overflow,
                      IntervalElapses, RetryElapses
  <2>4. QED
    BY <1>4, <1>6, <2>1, <2>2, <2>3 DEF Environment
<1>7. QED
  BY <1>1, <1>3, <1>5, <1>6 DEF Next, vars

\* Interval scans are suspended only while a subscription exists.
THEOREM SuspensionBacked == Spec => []SuspensionIsBacked
<1>1. Init => SuspensionIsBacked
  BY DEF Init, SuspensionIsBacked
<1>2. CoreInv => TypeOK
  BY DEF CoreInv
<1>3. QED
  BY <1>1, <1>2, CoreCorrect, SuspensionStep, PTL DEF Spec

-----------------------------------------------------------------------------
(* Missed changes.  A step either leaves the debts of a root alone, turns  *)
(* one kind of debt into another, or ends the reason for it.               *)

\* Nothing has been missed before the engine is first started.
LEMMA OweInit == Init => OweInv
  BY DEF Init, OweInv

\* A reconnection turns "lost" into a request, a request into a flag on disk,
\* the start of a scan any of them into its own debt.
LEMMA OweStep == IInv /\ [Next]_vars => OweInv'
<1> SUFFICES ASSUME IInv, [Next]_vars
             PROVE  OweInv'
  OBVIOUS
<1> USE NoRootAssumption
    DEF IInv, TypeOK, ScanInv, OweInv, Owed, PcValues, WatcherValues
<1>1. CASE UNCHANGED vars
  BY <1>1 DEF vars
<1>2. CASE Scheduler
  <2>1. CASE StartupPrune
    BY <2>1 DEF StartupPrune, RemoveOutsideRoots
  <2>2. CASE StartupSnapshot \/ StartupDone
    BY <2>2 DEF StartupSnapshot, StartupDone
  <2>3. CASE LoopTop \/ Wake \/ WaitStopped \/ PassDone
    BY <2>3 DEF LoopTop, Wake, WaitStopped, PassDone
  <2>4. CASE FlushChunk \/ ScanFails
    BY <2>4 DEF FlushChunk, ScanFails
  <2>5. CASE ScanCommits
    BY <2>5 DEF ScanCommits
  <2>6. CASE ClearPending
    BY <2>6 DEF ClearPending
  <2>7. CASE ScanReturned
    BY <2>7 DEF ScanReturned
  <2>8. ASSUME NEW r \in Root, StartupScan(r) \/ BeginScan(r)
        PROVE  OweInv'
    BY <2>8 DEF StartupScan, BeginScan, EnterScanRoot
  <2>9. ASSUME NEW r \in Root, StartupBaseline(r)
        PROVE  OweInv'
    BY <2>9 DEF StartupBaseline
  <2>10. ASSUME NEW r \in Root, SkipRoot(r)
         PROVE  OweInv'
    BY <2>10 DEF SkipRoot
  <2>11. QED
    BY <1>2, <2>1, <2>2, <2>3, <2>4, <2>5, <2>6, <2>7, <2>8, <2>9, <2>10
       DEF Scheduler
<1>3. ASSUME NEW r \in Root, Watcher(r)
      PROVE  OweInv'
  <2>1. CASE PersistRequest(r)
    BY <2>1 DEF PersistRequest
  <2>2. CASE Arm(r) \/ StartWatcher(r)
    BY <2>2 DEF Arm, StartWatcher
  <2>3. CASE StopWatcher(r)
    BY <2>3 DEF StopWatcher
  <2>4. CASE Reconnect(r)
    BY <2>4 DEF Reconnect, EnterRequest
  <2>5. CASE NoticeOverflow(r)
    BY <2>5 DEF NoticeOverflow, EnterRequest
  <2>6. QED
    BY <1>3, <2>1, <2>2, <2>3, <2>4, <2>5 DEF Watcher
<1>4. CASE Environment
  <2>1. CASE StartEngine \/ RequestStop \/ RequestFullScan
    BY <2>1 DEF StartEngine, RequestStop, RequestFullScan
  <2>2. CASE EngineOff \/ Crash
    <3>1. pc' = "off" /\ phase' = "startup" /\ UNCHANGED <<disk, history>>
      BY <2>2 DEF EngineOff, Crash, FreshMemory
    <3>2. QED
      BY <3>1
  <2>3. CASE ReloadConfig
    BY <2>3 DEF ReloadConfig
  <2>4. CASE ReloadPrune \/ RestartWatchersDone
    BY <2>4 DEF ReloadPrune, RestartWatchersDone, RemoveOutsideRoots
  <2>5. ASSUME NEW r \in Root, OfflineChange(r)
        PROVE  OweInv'
    BY <2>5 DEF OfflineChange
  <2>6. ASSUME NEW r \in Root, LoseConnection(r)
        PROVE  OweInv'
    BY <2>6 DEF LoseConnection
  <2>7. ASSUME NEW r \in Root, ChangeDuringOutage(r)
        PROVE  OweInv'
    BY <2>7 DEF ChangeDuringOutage, MissChange
  <2>8. ASSUME NEW r \in Root, Overflow(r)
        PROVE  OweInv'
    BY <2>8 DEF Overflow, MissChange
  <2>9. ASSUME NEW r \in Root, IntervalElapses(r) \/ RetryElapses(r)
        PROVE  OweInv'
    BY <2>9 DEF IntervalElapses, RetryElapses
  <2>10. QED
    BY <1>4, <2>1, <2>2, <2>3, <2>4, <2>5, <2>6, <2>7, <2>8, <2>9
       DEF Environment
<1>5. QED
  BY <1>1, <1>2, <1>3, <1>4 DEF Next

\* The whole of the inductive invariant.
THEOREM Inductive == Spec => []IInv
<1>1. Init => OweInv
  BY OweInit
<1>2. IInv <=> CoreInv /\ SuspensionIsBacked /\ OweInv
  BY DEF IInv, CoreInv
<1>3. QED
  BY <1>1, <1>2, CoreCorrect, SuspensionBacked, OweStep, PTL DEF Spec

\* While the loop runs, coverage never suspends the interval scans of a root
\* with a missed change unless a scan is owed, or about to be asked for.
THEOREM MissedOwed == Spec => []MissedIsOwed
<1>1. IInv => MissedIsOwed
  BY DEF IInv, OweInv, SuspensionIsBacked, MissedIsOwed
<1>2. QED
  BY <1>1, Inductive, PTL

-----------------------------------------------------------------------------
(* What steps may never do.                                                *)

\* Startup never takes the rows of an unfinished scan for a baseline: the only
\* step that could requires a clear flag, and ScanInv has the flag set.
THEOREM NoHalfScan == Spec => NoHalfScannedBaseline
<1> DEFINE Accepts == \A r \in Root : AcceptsBaseline(r) => r \notin partial
<1>1. CoreInv /\ [Next]_vars => [Accepts]_vars
  <2> SUFFICES ASSUME CoreInv, Next,
                      NEW r \in Root, AcceptsBaseline(r)
               PROVE  r \notin partial
    OBVIOUS
  <2> USE DEF CoreInv, TypeOK, ScanInv, AcceptsBaseline
  <2>1. rootLastScan'[r] # rootLastScan[r] /\ target = NoRoot
        /\ rootLastScan'[r] = "recent" /\ rootLastScan[r] = "none"
    OBVIOUS
  <2>2. CASE Scheduler
    <3>1. CASE ScanReturned
      BY <2>1, <3>1 DEF ScanReturned
    <3>2. ASSUME NEW q \in Root, StartupBaseline(q)
          PROVE  r \notin partial
      BY <2>1, <3>2 DEF StartupBaseline
    <3>3. ASSUME NEW q \in Root, StartupScan(q) \/ BeginScan(q) \/ SkipRoot(q)
          PROVE  FALSE
      BY <2>1, <3>3 DEF StartupScan, BeginScan, SkipRoot
    <3>4. CASE StartupPrune \/ StartupSnapshot \/ StartupDone \/ LoopTop
               \/ Wake \/ WaitStopped \/ PassDone
      BY <2>1, <3>4 DEF StartupPrune, StartupSnapshot, StartupDone, LoopTop,
                        Wake, WaitStopped, PassDone
    <3>5. CASE FlushChunk \/ ScanCommits \/ ScanFails \/ ClearPending
      BY <2>1, <3>5 DEF FlushChunk, ScanCommits, ScanFails, ClearPending
    <3>6. QED
      BY <2>2, <3>1, <3>2, <3>3, <3>4, <3>5 DEF Scheduler
  <2>3. ASSUME NEW q \in Root, Watcher(q)
        PROVE  FALSE
    BY <2>1, <2>3 DEF Watcher, PersistRequest, Arm, Reconnect, NoticeOverflow,
                      StartWatcher, StopWatcher
  <2>4. CASE Environment
    <3>1. CASE StartEngine \/ RequestStop \/ RequestFullScan
               \/ ReloadConfig \/ ReloadPrune \/ RestartWatchersDone
      BY <2>1, <3>1 DEF StartEngine, RequestStop, RequestFullScan,
                        ReloadConfig, ReloadPrune, RestartWatchersDone
    <3>2. CASE EngineOff \/ Crash
      BY <2>1, <3>2 DEF EngineOff, Crash, FreshMemory
    <3>3. ASSUME NEW q \in Root,
                 OfflineChange(q) \/ LoseConnection(q) \/ ChangeDuringOutage(q)
                   \/ Overflow(q) \/ IntervalElapses(q) \/ RetryElapses(q)
          PROVE  FALSE
      BY <2>1, <3>3 DEF OfflineChange, LoseConnection, ChangeDuringOutage,
                        Overflow, IntervalElapses, RetryElapses
    <3>4. QED
      BY <2>4, <3>1, <3>2, <3>3 DEF Environment
  <2>5. QED
    BY <2>2, <2>3, <2>4 DEF Next
<1>2. QED
  BY <1>1, CoreCorrect, PTL DEF Spec, NoHalfScannedBaseline

-----------------------------------------------------------------------------
(* The engine implements the database's promise, step by step.             *)

\* Every step of the engine is one the promise of pending_scan allows.
LEMMA DebtStep == CoreInv /\ [Next]_vars => [Debt!Next]_(Debt!vars)
<1> SUFFICES ASSUME CoreInv, [Next]_vars
             PROVE  Debt!Next \/ UNCHANGED Debt!vars
  OBVIOUS
<1> USE NoRootAssumption DEF CoreInv, TypeOK, ScanInv, PcValues
<1>1. CASE UNCHANGED <<pendingScan, partial, pc, target>>
  BY <1>1 DEF Debt!vars
<1>2. ASSUME NEW r \in Root, StartupScan(r) \/ BeginScan(r)
      PROVE  Debt!Begin(r)
  BY <1>2 DEF StartupScan, BeginScan, EnterScanRoot, Debt!Begin
<1>3. CASE FlushChunk
  BY <1>3 DEF FlushChunk, Debt!Next, Debt!WriteSome
<1>4. CASE ScanCommits
  BY <1>4 DEF ScanCommits, Debt!Next, Debt!WriteRest
<1>5. CASE ClearPending
  BY <1>5 DEF ClearPending, Debt!Next, Debt!Settle
<1>6. CASE ScanFails
  BY <1>6 DEF ScanFails, Debt!Next, Debt!Abandon
<1>7. CASE EngineOff \/ Crash
  BY <1>7 DEF EngineOff, Crash, FreshMemory, Debt!Next, Debt!Abandon
<1>8. CASE StartupPrune \/ ReloadPrune
  BY <1>8 DEF StartupPrune, ReloadPrune, RemoveOutsideRoots,
              Debt!Next, Debt!Drop
<1>9. ASSUME NEW r \in Root, PersistRequest(r)
      PROVE  Debt!Owe(r)
  BY <1>9 DEF PersistRequest, Debt!Owe
<1>10. CASE StartupSnapshot \/ StartupDone \/ LoopTop \/ Wake \/ WaitStopped
            \/ PassDone \/ ScanReturned
  BY <1>10 DEF StartupSnapshot, StartupDone, LoopTop, Wake, WaitStopped,
               PassDone, ScanReturned, Debt!vars
<1>11. ASSUME NEW r \in Root,
              StartupBaseline(r) \/ SkipRoot(r) \/ Arm(r) \/ Reconnect(r)
                \/ NoticeOverflow(r) \/ StartWatcher(r) \/ StopWatcher(r)
       PROVE  UNCHANGED <<pendingScan, partial, pc, target>>
  BY <1>11 DEF StartupBaseline, SkipRoot, Arm, Reconnect, NoticeOverflow,
               StartWatcher, StopWatcher
<1>12. CASE StartEngine \/ RequestStop \/ RequestFullScan \/ ReloadConfig
            \/ RestartWatchersDone
  BY <1>12 DEF StartEngine, RequestStop, RequestFullScan, ReloadConfig,
               RestartWatchersDone, Debt!vars
<1>13. ASSUME NEW r \in Root,
              OfflineChange(r) \/ LoseConnection(r) \/ ChangeDuringOutage(r)
                \/ Overflow(r) \/ IntervalElapses(r) \/ RetryElapses(r)
       PROVE  UNCHANGED <<pendingScan, partial, pc, target>>
  BY <1>13 DEF OfflineChange, LoseConnection, ChangeDuringOutage, Overflow,
               IntervalElapses, RetryElapses
<1>14. CASE Scheduler
  BY <1>1, <1>2, <1>3, <1>4, <1>5, <1>6, <1>8, <1>10, <1>11, <1>14
     DEF Scheduler, Debt!Next
<1>15. ASSUME NEW r \in Root, Watcher(r)
       PROVE  Debt!Next \/ UNCHANGED Debt!vars
  BY <1>1, <1>9, <1>11, <1>15 DEF Watcher, Debt!Next
<1>16. CASE Environment
  BY <1>1, <1>7, <1>8, <1>12, <1>13, <1>16 DEF Environment
<1>17. QED
  BY <1>1, <1>14, <1>15, <1>16 DEF Next, vars

\* The pending_scan flag is set before the first row of a scan is written and
\* cleared only by a scan whose last row is in place.
THEOREM DebtKept == Spec => KeepsDebt
<1>1. Init => Debt!Init
  BY DEF Init, Debt!Init
<1>2. QED
  BY <1>1, CoreCorrect, DebtStep, PTL DEF Spec, KeepsDebt, Debt!Spec
=============================================================================
