SPECIFICATION Spec
CONSTANTS
  Path <- MCPath
  Initial <- MCInitial
  MaxSize = 1
  MaxChanges = 2
  Ops = {"write", "make", "remove", "moveOut", "moveIn", "rename", "listError"}
INVARIANTS
  TypeOK
  TotalsSettle
