SPECIFICATION Spec
CONSTANTS
  p1 = p1
  p2 = p2
  p3 = p3
  t1 = t1
  t2 = t2
  Path = {p1, p2, p3}
  Thread = {t1, t2}
  MaxEntries = 2
  Ttl = 2
  NegativeTtl = 1
  RetryInterval = 2
  MaxHold = 1
  MaxWrites = 1
  MaxBumps = 1
INVARIANTS
  TypeOK
  CacheBounded
  StalenessBounded
  PublishedIsRead
SYMMETRY Symmetry
