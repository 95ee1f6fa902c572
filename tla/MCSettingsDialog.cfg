SPECIFICATION FairSpec
CONSTANTS
  f1 = f1
  NoFolder = NoFolder
  Folder = {f1}
  Capacity = 2
  TextLimit = 2
  HistorySize = 2
  Severity = {0, 1}
  MaxEvents = 3
INVARIANTS
  TypeOK
  LogIsARun
  ClearedStaysAway
  RecordsAreTrue
PROPERTIES
  LogCatchesUp
  ManualCatchesUp
CHECK_DEADLOCK FALSE
