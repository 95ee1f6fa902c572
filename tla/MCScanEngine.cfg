SPECIFICATION FairSpec
CONSTANTS
  r1 = r1
  NoRoot = NoRoot
  Root = {r1}
  Faults = {"outage", "overflow", "scanError", "reload"}
INVARIANTS
  TypeOK
  MissedIsOwed
  SuspensionIsBacked
PROPERTIES
  RequestIsServed
  NewRootIsScanned
  BackstopRuns
