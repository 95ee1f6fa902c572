--------------------------- MODULE SettingsDialog --------------------------
(***************************************************************************)
(* The parts of the settings dialog that show what the engine is doing,    *)
(* the Manual Scan and Logging tabs (tray/settings_dialog.cpp), with the   *)
(* engine state behind them: the log ring (service/log_buffer.cpp), served *)
(* by GetLog (service/ipc_server.cpp, common/src/ipc.cpp), and the queue   *)
(* and history of manual scans (service/scanner.cpp).                      *)
(*                                                                         *)
(* The UI thread does one thing at a time and blocks while it asks for the *)
(* log, so a refresh is one step; the engine's threads go on between any   *)
(* two steps.  A log entry is its sequence number and its severity, a text *)
(* the sequence of entries in it, in units of which the edit control has   *)
(* its limit.  What a manual scan does to the rows is in TreeTotals.       *)
(*                                                                         *)
(* History variables: logged, every entry there has been, also those that  *)
(* the ring has lost; cleared, the last entry the user has cleared away.   *)
(***************************************************************************)
EXTENDS Naturals, Sequences, FiniteSets

CONSTANTS
  Folder,       \* what the user may ask to be scanned
  NoFolder,
  Capacity,     \* entries in the ring: 500
  TextLimit,    \* EM_SETLIMITTEXT
  HistorySize,  \* records kept of manual scans: 5
  Severity,     \* bound: severities the user filters and the engine notes
  MaxEvents     \* bound: manual scans requested and entries logged besides

ASSUME FolderAssumption == NoFolder \notin Folder
ASSUME SizeAssumption ==
  Capacity \in Nat \ {0} /\ TextLimit \in Nat /\ HistorySize \in Nat \ {0}
ASSUME BoundAssumption ==
  Severity \subseteq 0..2 /\ MaxEvents \in Nat

VARIABLES
  ring, head, count, next,  \* LogBuffer: m_ring, m_head, m_count, m_nextSeqNum
  queue,     \* m_manualQueue
  records,   \* m_manualHistory, newest first
  current,   \* the folder ManualScanOne was called for
  scan,      \* how far it is, and then what came of it
  scanning,  \* m_scanning
  tab,       \* the tab in front, or "closed"
  text,      \* the Logging tab's edit control
  last,      \* s_lastSeqNum
  filter,    \* s_verbosityFilter
  view,      \* the rows of the Manual Scan tab, while it is in front
  requests, notes, logged, cleared

log    == <<ring, head, count, next, logged>>
manual == <<queue, records, current, scan, scanning>>
screen == <<text, last, filter, view>>
bounds == <<requests, notes>>
vars   == <<log, manual, tab, screen, bounds, cleared>>

\* LogSeverity; 2 is Verbose.
Error == 0
Info  == 1

Entries == [seq : Nat, severity : 0..2]
Records == [path : Folder, state : {"queued", "scanning", "done", "aborted"}]

TypeOK ==
  /\ head \in 0..(Capacity - 1) /\ count \in 0..Capacity /\ next \in Nat \ {0}
  /\ \A i \in 0..(Capacity - 1) :
       ring[i] \in Entries /\ (i < count => ring[i].seq \in (next - count)..(next - 1))
  /\ logged \subseteq Entries
  /\ queue \in Seq(Folder)
  /\ records \in Seq(Records) /\ Len(records) <= HistorySize
  /\ current \in Folder \cup {NoFolder}
  /\ scan \in {"none", "popped", "running", "done", "aborted"}
  /\ (current = NoFolder) = (scan = "none")
  /\ scanning = (scan \in {"running", "done", "aborted"})
  /\ tab \in {"closed", "other", "manual", "logging"}
  /\ text \in Seq(Entries) /\ Len(text) <= TextLimit
  /\ last \in 0..(next - 1) /\ cleared \in 0..last
  /\ filter \in 0..2
  /\ view \in Seq(Records) /\ Len(view) <= HistorySize
  /\ requests \in 0..MaxEvents /\ notes \in 0..MaxEvents

Init ==
  /\ ring = [i \in 0..(Capacity - 1) |-> [seq |-> 0, severity |-> Info]]
  /\ head = 0 /\ count = 0 /\ next = 1 /\ logged = {}
  /\ queue = <<>> /\ records = <<>> /\ current = NoFolder
  /\ scan = "none" /\ scanning = FALSE
  /\ tab = "closed" /\ text = <<>> /\ last = 0 /\ filter = Info /\ view = <<>>
  /\ requests = 0 /\ notes = 0 /\ cleared = 0

-----------------------------------------------------------------------------
(* LogBuffer.                                                              *)

Append1(severity) ==
  /\ ring' = [ring EXCEPT ![head] = [seq |-> next, severity |-> severity]]
  /\ logged' = logged \cup {[seq |-> next, severity |-> severity]}
  /\ head' = (head + 1) % Capacity
  /\ count' = IF count < Capacity THEN count + 1 ELSE count
  /\ next' = next + 1

OldestIdx == IF count < Capacity THEN 0 ELSE head

\* From the oldest to the newest.
Buffered == [i \in 1..count |-> ring[(OldestIdx + i - 1) % Capacity]]

\* The entries of s at the places I, in their order.
Selected(s, I) ==
  [k \in 1..Cardinality(I) |->
     s[CHOOSE i \in I : Cardinality({j \in I : j <= i}) = k]]

\* What the reply holds: the entries after since, here their places in Buffered.
After(since) == {i \in 1..count : Buffered[i].seq > since}

\* Mutant: m_nextSeqNum was counted up already.
SerializeOneBehind(since) ==
  [latest    |-> IF next < 2 THEN 0 ELSE next - 2,
   truncated |-> count > 0 /\ since > 0 /\ since < ring[OldestIdx].seq,
   entries   |-> After(since)]

\* Mutant: nobody is told that what it has not asked for is gone.
SerializeUntruncated(since) ==
  [latest    |-> IF count = 0 THEN 0 ELSE next - 1,
   truncated |-> FALSE,
   entries   |-> After(since)]

Serialize(since) ==
  [latest    |-> IF count = 0 THEN 0 ELSE next - 1,
   truncated |-> count > 0 /\ since > 0 /\ since < ring[OldestIdx].seq,
   entries   |-> After(since)]

-----------------------------------------------------------------------------
(* Manual scans.                                                           *)

\* Mutant: a folder that waits already is not queued again.
RequestManualOnce(f) ==
  /\ queue' = IF \E i \in DOMAIN queue : queue[i] = f THEN queue ELSE Append(queue, f)
  /\ records' = LET all == <<[path |-> f, state |-> "queued"]>> \o records
                IN SubSeq(all, 1, IF Len(all) > HistorySize THEN HistorySize ELSE Len(all))

\* RequestManualScan: the newest record is in front, the oldest one beyond
\* HistorySize is forgotten.
RequestManualScan(f) ==
  /\ queue' = Append(queue, f)
  /\ records' = LET all == <<[path |-> f, state |-> "queued"]>> \o records
                IN SubSeq(all, 1, IF Len(all) > HistorySize THEN HistorySize ELSE Len(all))

\* The first record of path f in the given state, that is the newest.
Marked(f, from, to) ==
  LET match == {i \in DOMAIN records : records[i] = [path |-> f, state |-> from]}
  IN IF match = {} THEN records
     ELSE [records EXCEPT ![CHOOSE i \in match : \A j \in match : i <= j].state = to]

\* The scheduler takes the longest waiting request.
PopManual ==
  /\ scan = "none" /\ queue # <<>>
  /\ current' = Head(queue) /\ queue' = Tail(queue)
  /\ scan' = "popped"
  /\ UNCHANGED <<log, records, scanning, tab, screen, bounds, cleared>>

\* ManualScanOne, up to ScanDirectory.
StartManual ==
  /\ scan = "popped"
  /\ records' = Marked(current, "queued", "scanning")
  /\ Append1(Info) /\ scanning' = TRUE /\ scan' = "running"
  /\ UNCHANGED <<queue, current, tab, screen, bounds, cleared>>

\* The scan is complete or it failed; the log has it first ...
LogManual(outcome) ==
  /\ scan = "running" /\ outcome \in {"done", "aborted"}
  /\ Append1(IF outcome = "done" THEN Info ELSE Error) /\ scan' = outcome
  /\ UNCHANGED <<queue, records, current, scanning, tab, screen, bounds, cleared>>

\* Mutant: m_scanning stays set.
RecordStillScanning ==
  /\ scan \in {"done", "aborted"}
  /\ records' = Marked(current, "scanning", scan)
  /\ current' = NoFolder /\ scan' = "none"
  /\ UNCHANGED <<log, queue, scanning, tab, screen, bounds, cleared>>

\* Mutant: the outcome goes to a record that was not started.
RecordOfQueued ==
  /\ scan \in {"done", "aborted"}
  /\ records' = Marked(current, "queued", scan)
  /\ current' = NoFolder /\ scan' = "none" /\ scanning' = FALSE
  /\ UNCHANGED <<log, queue, tab, screen, bounds, cleared>>

\* ... then the record of it.
RecordManual ==
  /\ scan \in {"done", "aborted"}
  /\ records' = Marked(current, "scanning", scan)
  /\ current' = NoFolder /\ scan' = "none" /\ scanning' = FALSE
  /\ UNCHANGED <<log, queue, tab, screen, bounds, cleared>>

\* Anything else the engine logs.
Note(severity) ==
  /\ requests + notes < MaxEvents /\ notes' = notes + 1
  /\ Append1(severity)
  /\ UNCHANGED <<manual, tab, screen, requests, cleared>>

-----------------------------------------------------------------------------
(* The UI thread.                                                          *)

\* AppendLogText: the text is cleared once it exceeds the limit; the control
\* cuts off what it has no room for.
AppendLogText(old, new) ==
  LET all == (IF Len(old) > TextLimit THEN <<>> ELSE old) \o new
  IN IF new = <<>> THEN old
     ELSE SubSeq(all, 1, IF Len(all) > TextLimit THEN TextLimit ELSE Len(all))

\* RefreshLog with the given s_lastSeqNum, text and filter: entries above the
\* filter are skipped, the status line is left out.
Refresh(since, old, f) ==
  LET reply == Serialize(since)
      new   == Selected(Buffered, {i \in reply.entries : Buffered[i].severity <= f})
  IN /\ last' = reply.latest
     /\ text' = AppendLogText(IF reply.truncated THEN <<>> ELSE old, new)

\* SendGetLog found no listener or got no answer: everything stays.
RefreshFails(since, old) == last' = since /\ text' = old

\* WM_INITDIALOG: the controls are new and empty, the statics are not.
OpenDialog ==
  /\ tab = "closed"
  /\ tab' = "other" /\ text' = <<>> /\ last' = 0 /\ view' = <<>>
  /\ cleared' = 0
  /\ UNCHANGED <<log, manual, filter, bounds>>

CloseDialog ==
  /\ tab # "closed"
  /\ tab' = "closed" /\ text' = <<>> /\ view' = <<>> /\ cleared' = 0
  /\ UNCHANGED <<log, manual, last, filter, bounds>>

\* TCN_SELCHANGE: the tab that comes to the front is refreshed and polled.
SelectLogging ==
  /\ tab \in {"other", "manual"}
  /\ tab' = "logging"
  /\ Refresh(last, text, filter) \/ RefreshFails(last, text)
  /\ view' = <<>>
  /\ UNCHANGED <<log, manual, filter, bounds, cleared>>

SelectManual ==
  /\ tab \in {"other", "logging"}
  /\ tab' = "manual" /\ view' = records
  /\ UNCHANGED <<log, manual, text, last, filter, bounds, cleared>>

SelectOther ==
  /\ tab \in {"manual", "logging"}
  /\ tab' = "other" /\ view' = <<>>
  /\ UNCHANGED <<log, manual, text, last, filter, bounds, cleared>>

\* WM_TIMER of the tab in front.
PollLog ==
  /\ tab = "logging"
  /\ UNCHANGED <<log, manual, tab, filter, view, bounds, cleared>>
  /\ Refresh(last, text, filter)

PollManual ==
  /\ tab = "manual"
  /\ view' = records
  /\ UNCHANGED <<log, manual, tab, text, last, filter, bounds, cleared>>

\* Mutant: the next poll starts over.
ClearLogAndLast ==
  /\ tab = "logging"
  /\ text' = <<>> /\ cleared' = last /\ last' = 0
  /\ UNCHANGED <<log, manual, tab, filter, view, bounds>>

\* IDC_BTN_LOG_CLEAR: the display only.
ClearLog ==
  /\ tab = "logging"
  /\ text' = <<>> /\ cleared' = last
  /\ UNCHANGED <<log, manual, tab, last, filter, view, bounds>>

\* IDC_LOG_VERBOSITY: everything is fetched again for the new filter.
SetVerbosity(f) ==
  /\ tab = "logging" /\ f # filter
  /\ filter' = f /\ cleared' = 0
  /\ Refresh(0, <<>>, f) \/ RefreshFails(0, <<>>)
  /\ UNCHANGED <<log, manual, tab, view, bounds>>

\* IDC_BTN_MANUAL_SCAN.
ManualScan(f) ==
  /\ tab = "manual" /\ requests + notes < MaxEvents
  /\ RequestManualScan(f) /\ requests' = requests + 1
  /\ Append1(Info) /\ view' = records'
  /\ UNCHANGED <<current, scan, scanning, tab, text, last, filter, notes,
                 cleared>>

-----------------------------------------------------------------------------

Scheduler ==
  \/ PopManual \/ StartManual
  \/ \E o \in {"done", "aborted"} : LogManual(o)
  \/ RecordManual

Timers == PollLog \/ PollManual

User ==
  \/ OpenDialog \/ CloseDialog \/ SelectLogging \/ SelectManual \/ SelectOther
  \/ ClearLog
  \/ \E f \in Severity : SetVerbosity(f)
  \/ \E f \in Folder : ManualScan(f)

Next ==
  \/ Scheduler \/ Timers \/ User
  \/ \E s \in Severity : Note(s)

Spec == Init /\ [][Next]_vars

\* The scheduler's scans end and timers fire; a poll of the log succeeds in the
\* end (the listener recovers, EngineProcess).
Fairness ==
  /\ WF_vars(Scheduler) /\ WF_vars(PollLog) /\ WF_vars(PollManual)

FairSpec == Spec /\ Fairness

-----------------------------------------------------------------------------
(* Properties.                                                             *)

Shown == {text[i] : i \in DOMAIN text}

\* The Logging tab shows a run of the log: what was logged, in order, without
\* repetition, nothing the filter excludes, nothing that is going to be shown
\* again, and between the oldest entry shown and the newest every one that the
\* filter lets through, those included that the ring lost before they could be
\* fetched: rather than with a gap the text begins anew (log_buffer.cpp:62-66;
\* log_buffer.h, "caller should clear its display and re-render").
LogIsARun ==
  /\ Shown \subseteq logged
  /\ \A i, j \in DOMAIN text : i < j => text[i].seq < text[j].seq
  /\ \A e \in Shown : e.severity <= filter /\ e.seq <= last
  /\ \A e \in logged, a, b \in Shown :
       e.severity <= filter /\ a.seq < e.seq /\ e.seq < b.seq => e \in Shown

\* What was cleared away stays away, until the dialog is opened again or the
\* verbosity is changed (settings_dialog.cpp:873, "resetting it made the next
\* 2s poll refetch the entire history").
ClearedStaysAway == \A e \in Shown : e.seq > cleared

Queued(f) == Cardinality({i \in DOMAIN queue : queue[i] = f})
Pending(f) == Queued(f) + (IF scan = "popped" /\ current = f THEN 1 ELSE 0)
InState(f, s) == {i \in DOMAIN records : records[i] = [path |-> f, state |-> s]}

\* A record that says "Queued" has a request to wait for, also when a folder
\* was requested several times or records were pushed out, and one that says
\* "Scanning" is of the scan that runs.
RecordsAreTrue ==
  \A f \in Folder :
    /\ Cardinality(InState(f, "queued")) <= Pending(f)
    /\ InState(f, "scanning") # {} => scan \in {"running", "done", "aborted"} /\ current = f
    /\ Cardinality(InState(f, "scanning")) <= 1

\* While a tab stays in front it gets, again and again, to show how things
\* stand: the newest entry has been asked for ...
LogCatchesUp == []<>(tab = "logging" => last = next - 1)

\* ... and every scan that was requested is shown to have ended.
ManualCatchesUp ==
  []<>(tab = "manual" => /\ view = records
                         /\ \A i \in DOMAIN view : view[i].state \in {"done", "aborted"})

=============================================================================
