SPECIFICATION FairSpec
CONSTANTS
  r1 = r1
  r2 = r2
  c1 = c1
  c2 = c2
  NoClient = NoClient
  Root = {r1, r2}
  Reachable = {r1}
  Client = {c1, c2}
  Initial = {r1}
  MaxSaves = 1
INVARIANTS
  TypeOK
  ScannerOutlivesUsers
  OneWatcherPerRoot
  ReloadIsApplied
PROPERTIES
  ListenerRecovers
  StopEnds
CHECK_DEADLOCK FALSE
