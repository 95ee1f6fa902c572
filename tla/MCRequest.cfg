SPECIFICATION Spec
CONSTANTS
  r1 = r1
  NoRoot = NoRoot
  Root = {r1}
  Faults = {"overflow"}
INVARIANTS
  RequestOutlivesScan
