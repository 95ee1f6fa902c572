--------------------------- MODULE EngineProcess ---------------------------
(***************************************************************************)
(* The life of the engine inside the tray application: the main thread     *)
(* starts and stops it (tray/main.cpp, StartEngine, StopEngine), a single  *)
(* listener thread serves the named pipe (service/ipc_server.cpp), clients *)
(* in Explorer and in the settings dialog send it commands                 *)
(* (common/src/ipc.cpp), and both the main thread and the listener run     *)
(* RestartWatchers, which starts and stops watch threads.                  *)
(*                                                                         *)
(* A client may stall at any point and its patience may end at any time;   *)
(* both ends of the pipe have time-outs.  A command is a reload that       *)
(* follows a new list in the registry, or any other command, which calls   *)
(* into the scanner and the database.  What the commands do is in the      *)
(* other modules.                                                          *)
(*                                                                         *)
(* History variables: saves, the number of lists the user saved; mine,     *)
(* which of them a client's reload follows; late, a reload entered         *)
(* RestartWatchers after StopEngine had cleared the watchers.              *)
(***************************************************************************)
EXTENDS Naturals

CONSTANTS
  Root,       \* canonical paths of watched directories
  Reachable,  \* those that can be opened
  Client,     \* requests clients make, each once
  NoClient,
  Initial,    \* the list in the registry at first
  MaxSaves    \* bound: lists the user saves

ASSUME RootAssumption == Reachable \subseteq Root /\ Initial \subseteq Root
ASSUME ClientAssumption == NoClient \notin Client
ASSUME BoundAssumption == MaxSaves \in Nat

VARIABLES
  main,       \* where the main thread is
  stopEvent,  \* g_engineStopEvent is signalled
  mutex,      \* the threads that hold g_watchersMutex
  list,       \* WatchedDirs in the registry
  drop, add,  \* watchers and roots a thread has yet to stop, to start
  watcher,    \* g_watchers, by root and by the thread that started it
  scanner,    \* g_scanner
  scheduler,  \* the scanner's thread
  db,         \* the database is open
  listener,   \* where the listener thread is
  serverStop, \* IpcServer::Stop was called: ~m_running and m_stopEvent
  serving,    \* the client the listener is connected to
  client,     \* where each client is
  command,    \* what it asks for
  saves, mine, late

engine  == <<stopEvent, scanner, scheduler, db>>
server  == <<listener, serverStop, serving>>
clients == <<client, command, mine>>
user    == <<list, saves>>
watch   == <<mutex, drop, add, watcher>>
vars    == <<main, engine, watch, server, clients, user, late>>

Thread  == {"main", "ipc"}
Watcher == Root \X Thread

Running   == {w \in Watcher : watcher[w] # "none"}
Watched   == {w[1] : w \in Running}
Sent      == {"sent", "gone"}
Connected == {"connected", "sent", "answered"}
Serving   == {"read", "handle", "restart", "write", "finish"}

TypeEngine ==
  /\ main \in {"start", "restart", "loop", "stop", "clear", "join", "signal",
               "wait", "free", "exited"}
  /\ stopEvent \in BOOLEAN /\ db \in BOOLEAN /\ late \in BOOLEAN
  /\ scanner \in {"none", "alive", "stopped", "destroyed"}
  /\ scheduler \in {"none", "running", "ended"}

TypeWatch ==
  /\ mutex \subseteq Thread /\ list \subseteq Root
  /\ drop \in [Thread -> SUBSET Watcher] /\ add \in [Thread -> SUBSET Root]
  /\ watcher \in [Watcher -> {"none", "running", "stopping", "ended"}]

TypePipe ==
  /\ listener \in Serving \cup {"none", "create", "connect", "disconnect", "ended"}
  /\ serverStop \in BOOLEAN
  /\ serving \in Client \cup {NoClient}
  /\ serving # NoClient <=> listener \in Serving \cup {"disconnect"}
  /\ client \in [Client -> Connected \cup {"idle", "gone", "failed", "ok"}]
  /\ command \in [Client -> {"reload", "other"}]
  /\ saves \in 0..MaxSaves /\ mine \in [Client -> 0..MaxSaves]

TypeOK == TypeEngine /\ TypeWatch /\ TypePipe

Init ==
  /\ main = "start" /\ stopEvent = FALSE /\ mutex = {}
  /\ list = Initial
  /\ drop = [t \in Thread |-> {}] /\ add = [t \in Thread |-> {}]
  /\ watcher = [w \in Watcher |-> "none"]
  /\ scanner = "none" /\ scheduler = "none" /\ db = FALSE
  /\ listener = "none" /\ serverStop = FALSE /\ serving = NoClient
  /\ client = [c \in Client |-> "idle"]
  /\ command = [c \in Client |-> "other"]
  /\ saves = 0 /\ mine = [c \in Client |-> 0] /\ late = FALSE

-----------------------------------------------------------------------------
(* RestartWatchers, by the main thread once and by the listener for every  *)
(* reload; the first half of it is also how StopEngine clears the watchers.*)

Restarting(t) == IF t = "main" THEN main = "restart" ELSE listener = "restart"

\* Mutant: the lock is not taken.
LockNothing(t) ==
  /\ Restarting(t) /\ t \notin mutex
  /\ mutex' = mutex \cup {t}
  /\ drop' = [drop EXCEPT ![t] = {w \in Running : w[1] \notin list}]
  /\ add' = [add EXCEPT ![t] = list \ Watched]
  /\ late' = (late \/ main \notin {"restart", "loop", "stop"})
  /\ UNCHANGED <<main, engine, watcher, server, clients, user>>

\* The lock, then the list of the registry.  Watchers of roots that are still
\* wanted are not touched.
Lock(t) ==
  /\ Restarting(t) /\ mutex = {}
  /\ mutex' = mutex \cup {t}
  /\ drop' = [drop EXCEPT ![t] = {w \in Running : w[1] \notin list}]
  /\ add' = [add EXCEPT ![t] = list \ Watched]
  /\ late' = (late \/ main \notin {"restart", "loop", "stop"})
  /\ UNCHANGED <<main, engine, watcher, server, clients, user>>

\* Watchers are stopped one after the other: m_running is cleared ...
BeginStop(t, w) ==
  /\ t \in mutex /\ w \in drop[t] /\ watcher[w] = "running"
  /\ \A v \in drop[t] : watcher[v] # "stopping"
  /\ watcher' = [watcher EXCEPT ![w] = "stopping"]
  /\ UNCHANGED <<main, engine, mutex, drop, add, server, clients, user, late>>

\* ... and the thread is joined.
Join(t, w) ==
  /\ t \in mutex /\ w \in drop[t] /\ watcher[w] = "ended"
  /\ watcher' = [watcher EXCEPT ![w] = "none"]
  /\ drop' = [drop EXCEPT ![t] = drop[t] \ {w}]
  /\ UNCHANGED <<main, engine, mutex, add, server, clients, user, late>>

\* A root that cannot be opened is left to interval scans.
Start(t, r) ==
  /\ Restarting(t) /\ t \in mutex /\ drop[t] = {} /\ r \in add[t]
  /\ add' = [add EXCEPT ![t] = add[t] \ {r}]
  /\ watcher' = IF r \in Reachable
                THEN [watcher EXCEPT ![<<r, t>>] = "running"] ELSE watcher
  /\ UNCHANGED <<main, engine, mutex, drop, server, clients, user, late>>

Unlock(t) ==
  /\ Restarting(t) /\ t \in mutex /\ drop[t] = {} /\ add[t] = {}
  /\ mutex' = mutex \ {t}
  /\ IF t = "main" THEN main' = "loop" /\ UNCHANGED listener
                   ELSE listener' = "write" /\ UNCHANGED main
  /\ UNCHANGED <<engine, drop, add, watcher, serverStop, serving, clients, user, late>>

\* The loop of WatchThread ends on m_stopEvent, or when it finds m_running
\* cleared: Stop cancels the read, and every wait has a time-out.
EndWatch(w) ==
  /\ watcher[w] = "stopping" \/ (watcher[w] = "running" /\ stopEvent)
  /\ watcher' = [watcher EXCEPT ![w] = "ended"]
  /\ UNCHANGED <<main, engine, mutex, drop, add, server, clients, user, late>>

-----------------------------------------------------------------------------
(* The main thread.                                                        *)

\* StartEngine up to its own RestartWatchers: the listener is there already.
StartEngine ==
  /\ main = "start" /\ main' = "restart"
  /\ db' = TRUE /\ scanner' = "alive" /\ scheduler' = "running"
  /\ listener' = "create"
  /\ UNCHANGED <<stopEvent, watch, serverStop, serving, clients, user, late>>

\* The database does not open: the application runs on without an engine.
StartFails ==
  /\ main = "start" /\ main' = "loop"
  /\ UNCHANGED <<engine, watch, server, clients, user, late>>

\* IDM_EXIT ends the message loop; StopEngine signals the stop event.
Exit ==
  /\ main = "loop" /\ main' = "stop"
  /\ stopEvent' = TRUE
  /\ UNCHANGED <<scanner, scheduler, db, watch, server, clients, user, late>>

LockWatchers ==
  /\ main = "stop" /\ mutex = {}
  /\ main' = "clear" /\ mutex' = {"main"}
  /\ drop' = [drop EXCEPT !["main"] = Running]
  /\ UNCHANGED <<engine, add, watcher, server, clients, user, late>>

WatchersCleared ==
  /\ main = "clear" /\ drop["main"] = {}
  /\ main' = "join" /\ mutex' = {}
  /\ UNCHANGED <<engine, drop, add, watcher, server, clients, user, late>>

\* Scanner::Stop joins the scheduler and closes m_rescanEvent.
StopScanner ==
  /\ main = "join" /\ scheduler # "running"
  /\ main' = "signal"
  /\ scanner' = IF scanner = "alive" THEN "stopped" ELSE scanner
  /\ UNCHANGED <<stopEvent, scheduler, db, watch, server, clients, user, late>>

\* Mutant: m_running is cleared, the listener's wait is not ended.
SignalServerQuietly ==
  /\ main = "signal" /\ main' = "wait"
  /\ UNCHANGED <<engine, watch, server, clients, user, late>>

\* IpcServer::Stop: m_running, m_stopEvent ...
SignalServer ==
  /\ main = "signal" /\ main' = "wait"
  /\ serverStop' = TRUE
  /\ UNCHANGED <<engine, watch, listener, serving, clients, user, late>>

\* Mutant: the listener is left to end by itself.
DetachListener ==
  /\ main = "wait" /\ main' = "free"
  /\ UNCHANGED <<engine, watch, server, clients, user, late>>

\* ... and the listener is joined.
JoinListener ==
  /\ main = "wait" /\ listener \in {"none", "ended"}
  /\ main' = "free"
  /\ UNCHANGED <<engine, watch, server, clients, user, late>>

\* g_scanner.reset(), the server's destructor, Close.
Destroy ==
  /\ main = "free" /\ main' = "exited"
  /\ scanner' = "destroyed" /\ db' = FALSE
  /\ UNCHANGED <<stopEvent, scheduler, watch, server, clients, user, late>>

\* The scheduler looks at the stop event between any two of its steps.
EndScheduler ==
  /\ scheduler = "running" /\ stopEvent
  /\ scheduler' = "ended"
  /\ UNCHANGED <<main, stopEvent, scanner, db, watch, server, clients, user, late>>

-----------------------------------------------------------------------------
(* The listener thread.                                                    *)

\* A new instance of the pipe; one that cannot be created is tried again.
CreatePipe ==
  /\ listener = "create"
  /\ listener' = IF serverStop THEN "ended" ELSE "connect"
  /\ UNCHANGED <<main, engine, watch, serverStop, serving, clients, user, late>>

\* The wait for a client ends on m_stopEvent.
Cancel ==
  /\ listener = "connect" /\ serverStop
  /\ listener' = "ended"
  /\ UNCHANGED <<main, engine, watch, serverStop, serving, clients, user, late>>

\* What a client wrote can be read even when it has gone.
ReadRequest ==
  /\ listener = "read" /\ client[serving] \in Sent
  /\ listener' = "handle"
  /\ UNCHANGED <<main, engine, watch, serverStop, serving, clients, user, late>>

\* Mutant: the read has no time-out.
ReadFailsWhenClosed ==
  /\ listener = "read" /\ (client[serving] = "failed" \/ serverStop)
  /\ listener' = "disconnect"
  /\ UNCHANGED <<main, engine, watch, serverStop, serving, clients, user, late>>

\* The time-out, the end of the client, or m_stopEvent.
ReadFails ==
  /\ listener = "read" /\ client[serving] \notin Sent
  /\ listener' = "disconnect"
  /\ UNCHANGED <<main, engine, watch, serverStop, serving, clients, user, late>>

\* Mutant: a reload that meets the startup leaves the watchers to it.
HandleAfterStart ==
  /\ listener = "handle"
  /\ listener' = IF command[serving] = "reload" /\ main # "restart"
                 THEN "restart" ELSE "write"
  /\ UNCHANGED <<main, engine, watch, serverStop, serving, clients, user, late>>

\* HandleClient: the call into the scanner, and for a reload the callback.
Handle ==
  /\ listener = "handle"
  /\ listener' = IF command[serving] = "reload" THEN "restart" ELSE "write"
  /\ UNCHANGED <<main, engine, watch, serverStop, serving, clients, user, late>>

\* The answer is buffered by the pipe; a client that has gone does not get it.
WriteAnswer ==
  /\ listener = "write"
  /\ client' = IF client[serving] = "sent"
               THEN [client EXCEPT ![serving] = "answered"] ELSE client
  /\ listener' = "finish"
  /\ UNCHANGED <<main, engine, watch, serverStop, serving, command, mine, user, late>>

\* WaitForClientToFinish: the client has closed its end, or the time-out or
\* m_stopEvent comes first.
Finish ==
  /\ listener = "finish"
  /\ listener' = "disconnect"
  /\ UNCHANGED <<main, engine, watch, serverStop, serving, clients, user, late>>

\* Mutant: the handle of the last client is kept.
DisconnectKeepsClient ==
  /\ listener = "disconnect"
  /\ listener' = IF serverStop THEN "ended" ELSE "create"
  /\ UNCHANGED <<main, engine, watch, serverStop, serving, clients, user, late>>

\* DisconnectNamedPipe discards an answer that was not read.
Disconnect ==
  /\ listener = "disconnect"
  /\ client' = IF client[serving] \in Connected
               THEN [client EXCEPT ![serving] = "failed"] ELSE client
  /\ serving' = NoClient
  /\ listener' = IF serverStop THEN "ended" ELSE "create"
  /\ UNCHANGED <<main, engine, watch, serverStop, command, mine, user, late>>

-----------------------------------------------------------------------------
(* The clients: SendCommand.                                               *)

\* OK or Apply: the list is in the registry before the reload is sent.
Save(new) ==
  /\ saves < MaxSaves /\ new # list
  /\ list' = new /\ saves' = saves + 1
  /\ UNCHANGED <<main, engine, watch, server, clients, late>>

\* OpenEnginePipe finds an instance that waits for a client.
Open(c, what) ==
  /\ client[c] = "idle" /\ listener = "connect"
  /\ client' = [client EXCEPT ![c] = "connected"]
  /\ command' = [command EXCEPT ![c] = what]
  /\ mine' = [mine EXCEPT ![c] = saves]
  /\ serving' = c /\ listener' = "read"
  /\ UNCHANGED <<main, engine, watch, serverStop, user, late>>

WriteRequest(c) ==
  /\ client[c] = "connected"
  /\ client' = [client EXCEPT ![c] = "sent"]
  /\ UNCHANGED <<main, engine, watch, server, command, mine, user, late>>

\* Its own time-out: a request that was written stays in the pipe.
GiveUp(c) ==
  /\ client[c] \in Connected
  /\ client' = [client EXCEPT ![c] = IF client[c] = "sent" THEN "gone" ELSE "failed"]
  /\ UNCHANGED <<main, engine, watch, server, command, mine, user, late>>

\* The answer is read and the pipe is closed.
ReadAnswer(c) ==
  /\ client[c] = "answered"
  /\ client' = [client EXCEPT ![c] = "ok"]
  /\ UNCHANGED <<main, engine, watch, server, command, mine, user, late>>

-----------------------------------------------------------------------------

MainThread ==
  \/ StartEngine \/ StartFails \/ LockWatchers \/ WatchersCleared
  \/ StopScanner \/ SignalServer \/ JoinListener \/ Destroy
  \/ Lock("main") \/ Unlock("main") \/ \E r \in Root : Start("main", r)

ListenerThread ==
  \/ CreatePipe \/ Cancel \/ ReadRequest \/ ReadFails \/ Handle
  \/ WriteAnswer \/ Finish \/ Disconnect
  \/ Lock("ipc") \/ Unlock("ipc") \/ \E r \in Root : Start("ipc", r)

\* The watchers' Stop runs on the thread that holds the lock.
StopWatchers == \E t \in Thread, w \in Watcher : BeginStop(t, w) \/ Join(t, w)

SendCommand ==
  \E c \in Client :
    \/ \E what \in {"reload", "other"} : Open(c, what)
    \/ WriteRequest(c) \/ GiveUp(c) \/ ReadAnswer(c)

Next ==
  \/ MainThread \/ ListenerThread \/ StopWatchers \/ EndScheduler
  \/ (\E w \in Watcher : EndWatch(w))
  \/ Exit \/ SendCommand \/ \E new \in SUBSET Root : Save(new)

Spec == Init /\ [][Next]_vars

\* Every thread of the engine goes on when it can.  Nothing is asked of the
\* user, who may never exit, nor of the clients, who may stall for ever.
Fairness ==
  /\ WF_vars(MainThread) /\ WF_vars(ListenerThread) /\ WF_vars(StopWatchers)
  /\ WF_vars(EndScheduler) /\ \A w \in Watcher : WF_vars(EndWatch(w))

FairSpec == Spec /\ Fairness

-----------------------------------------------------------------------------
(* Properties.                                                             *)

\* StopEngine ends what refers to the scanner before it destroys it: no watch
\* thread and no handler of a command outlives the scanner and the database,
\* unless a reload slipped in behind the clearing of the watchers (then the
\* handler still ends first, but the new watchers stay).
ScannerOutlivesUsers ==
  scanner \in {"none", "destroyed"} =>
    /\ scheduler # "running" /\ listener \in {"none", "ended"}
    /\ ~late => Running = {}

\* The startup and a reload that comes in at once both start watchers for the
\* whole list; g_watchersMutex keeps a root from being watched twice.
OneWatcherPerRoot == \A v, w \in Running : v[1] = w[1] => v = w

\* Nothing was saved since the client's reload was sent, and the engine runs.
Fresh(c) == mine[c] = saves /\ ~stopEvent

\* When a client has the answer to its reload and the list was not edited
\* since, the reload has been carried out: the watchers are those of the list
\* (tray/main.cpp:62, RestartWatchers).
ReloadIsApplied ==
  \A c \in Client :
    client[c] \in {"answered", "ok"} /\ command[c] = "reload" /\ Fresh(c)
      => Watched = list \cap Reachable

\* The inductive invariant of EngineProcessProofs: the order of startup and
\* stop ...
Order ==
  /\ main = "start" => scanner = "none"
  /\ scanner = "none" =>
       main # "restart" /\ listener = "none" /\ scheduler = "none" /\ Running = {}
  /\ main \in {"free", "exited"} => listener \in {"none", "ended"}
  /\ main \in {"signal", "wait", "free", "exited"} => scheduler # "running"
  /\ scanner = "destroyed" => main = "exited"
  /\ main \notin {"start", "restart", "loop"} => stopEvent

\* ... what the lock protects ...
Exclusion ==
  /\ \A t, u \in mutex : t = u
  /\ "main" \in mutex => main \in {"restart", "clear"}
  /\ "ipc" \in mutex => listener = "restart"
  /\ main = "clear" => "main" \in mutex /\ drop["main"] = Running
  /\ main \in {"join", "signal", "wait", "free", "exited"} /\ ~late =>
       mutex = {} /\ Running = {}

\* ... what the holder has yet to start is not watched, and what it works on
\* for a reload comes to the list in the registry ...
Work ==
  /\ Watched \subseteq Reachable
  /\ \A t \in mutex : Restarting(t) => add[t] \cap Watched = {}
  /\ \A c \in Client : mine[c] <= saves
  /\ "ipc" \in mutex /\ Fresh(serving) =>
       {w[1] : w \in Running \ drop["ipc"]} \cup (add["ipc"] \cap Reachable)
         = list \cap Reachable

\* ... and a reload that was carried out stays so: whoever runs
\* RestartWatchers after it finds nothing to do.
Applied ==
  \A c \in Client :
    /\ command[c] = "reload" /\ Fresh(c)
    /\ \/ client[c] \in {"answered", "ok"}
       \/ c = serving /\ listener = "write"
    => /\ Watched = list \cap Reachable
       /\ \A t \in mutex : drop[t] = {} /\ add[t] \cap Reachable = {}

IInv == TypeOK /\ Order /\ Exclusion /\ OneWatcherPerRoot /\ Work /\ Applied

\* A client that stalls, before its request or before it reads the answer,
\* does not keep the listener from the others (ipc_server.cpp:17, "so a
\* stalled or malicious client can't hang the (single-threaded) listener
\* forever").
ListenerRecovers == listener \in Serving ~> listener \in {"connect", "ended"}

\* The exit gets through, whatever the watchers, the scheduler, the listener
\* and its client are doing at the time.
StopEnds == main = "stop" ~> main = "exited"

=============================================================================
