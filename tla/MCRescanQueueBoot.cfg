SPECIFICATION Spec
CONSTANTS
  above = above
  root = root
  sub = sub
  NoDir = NoDir
  Dir = {above, root, sub}
  Watched = {root, sub}
  ParentOf <- MCParentOf
  IsUnder <- MCIsUnder
  Thread = {t1}
  Cooldown = 2
  Keep = 2
  MaxDone = 1
  WaitCap = 2
  MaxWork = 1
  Word = 16
  BootUptime = 0
  Faults = {"openError", "listError", "gone"}
PROPERTIES
  CooldownHolds
