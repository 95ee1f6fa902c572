SPECIFICATION FairSpec
CONSTANTS
  above = above
  root = root
  sub = sub
  NoDir = NoDir
  Dir = {above, root, sub}
  Watched = {root, sub}
  ParentOf <- MCParentOf
  IsUnder <- MCIsUnder
  Thread = {t1}
  Cooldown = 1
  Keep = 1
  MaxDone = 1
  WaitCap = 1
  MaxWork = 1
  Word = 16
  BootUptime = 2
  Faults = {"openError", "listError", "gone"}
INVARIANTS
  TypeOK
  NothingForgotten
  WakesInTime
PROPERTIES
  CooldownHolds
  ChangeIsListed
