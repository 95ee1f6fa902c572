SPECIFICATION Spec
CONSTANTS
  Path <- MCPath
  Initial <- MCInitial
  MaxSize = 1
  MaxChanges = 2
  Ops = {"make"}
INVARIANTS
  ChildrenFound
