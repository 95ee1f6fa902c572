SPECIFICATION Spec
CONSTANTS
  r1 = r1
  r2 = r2
  NoRoot = NoRoot
  Root = {r1, r2}
  Faults = {"scanError", "rootGone", "offline", "crash", "reload"}
INVARIANTS
  PartialIsOwed
PROPERTIES
  KeepsDebt
  NoHalfScannedBaseline
SYMMETRY Symmetry
