SPECIFICATION FairSpec
CONSTANTS
  p1 = p1
  t1 = t1
  t2 = t2
  Path = {p1}
  Thread = {t1, t2}
  MaxEntries = 2
  Ttl = 2
  NegativeTtl = 1
  RetryInterval = 2
  MaxHold = 1
  MaxWrites = 2
  MaxBumps = 2
PROPERTIES
  Converges
  ConnectionHeals
