SPECIFICATION Spec
CONSTANTS
  c = c
  a = a
  b = b
  NoName = NoName
  Name = {c, a, b}
  Default = c
  drive = drive
  d1 = d1
  Dir = {drive, d1}
  Home <- MCHome
  Fixed = {drive}
  Initial = {{}, {a, b}}
  Slot = {1, 2, 3}
  MaxRenames = 1
  MaxSaves = 2
INVARIANTS
  TypeOK
  CoverageIsBacked
  ListsAgree
  RowsFollow
CHECK_DEADLOCK FALSE
