------------------------------ MODULE OwedScan ------------------------------
(***************************************************************************)
(* What the database promises about the pending_scan flag of a watched     *)
(* root (common/include/dirsize/db.h, the comment on SetPendingScan): a    *)
(* root owes a full scan from the moment one begins, or is requested,      *)
(* until a scan of that root COMPLETES.  A scan that is abandoned - engine *)
(* stopped, crashed, share dropped - leaves the debt in place, so the next *)
(* startup never mistakes its partial rows for a fresh baseline.           *)
(*                                                                         *)
(* There are no threads, watchers or timers here: ScanEngine has them, and *)
(* implements this specification.                                          *)
(***************************************************************************)
CONSTANTS
  Root,      \* the directories that may be watched
  NoRoot     \* "no scan is running"; not a member of Root

VARIABLES
  owed,      \* roots whose pending_scan flag is set on disk
  partial,   \* roots whose rows were written by a scan that has not finished
  running    \* the root being scanned, or NoRoot

vars == <<owed, partial, running>>

TypeOK ==
  /\ owed \subseteq Root
  /\ partial \subseteq Root
  /\ running \in Root \cup {NoRoot}

Init ==
  /\ owed = {}
  /\ partial = {}
  /\ running = NoRoot

-----------------------------------------------------------------------------
\* Someone found out that the rows of r cannot be trusted.
Owe(r) ==
  /\ owed' = owed \cup {r}
  /\ UNCHANGED <<partial, running>>

\* The debt is recorded before the first row is written.
Begin(r) ==
  /\ running = NoRoot
  /\ running' = r
  /\ owed' = owed \cup {r}
  /\ UNCHANGED partial

\* Some rows of the running scan reach the database.
WriteSome ==
  /\ running # NoRoot
  /\ running \in owed
  /\ partial' = partial \cup {running}
  /\ UNCHANGED <<owed, running>>

\* The remaining rows are written and the outdated ones purged.
WriteRest ==
  /\ running # NoRoot
  /\ partial' = partial \ {running}
  /\ UNCHANGED <<owed, running>>

\* Only now, with every row in place, is the debt settled.
Settle ==
  /\ running # NoRoot
  /\ running \notin partial
  /\ owed' = owed \ {running}
  /\ running' = NoRoot
  /\ UNCHANGED partial

\* The scan ends without having completed: the debt stays.
Abandon ==
  /\ running' = NoRoot
  /\ UNCHANGED <<owed, partial>>

\* Rows of roots that are no longer watched are dropped.
Drop ==
  /\ partial' \in SUBSET partial
  /\ UNCHANGED <<owed, running>>

Next ==
  \/ \E r \in Root : Owe(r) \/ Begin(r)
  \/ WriteSome \/ WriteRest \/ Settle \/ Abandon \/ Drop

Spec == Init /\ [][Next]_vars

-----------------------------------------------------------------------------
\* A root with rows of an unfinished scan owes a scan: whenever the engine
\* dies, the flag tells the next startup not to trust them (scanner.cpp,
\* ScanRoot: "the liveness heartbeat alone must not make a half-scanned tree
\* look fresh").
PartialIsOwed == partial \subseteq owed
=============================================================================
