SPECIFICATION MCSpec
CONSTANTS
  Size = 3
  NumParts = 3
  Selections = {TRUE, FALSE}
  Lane <- MCLane
  p1 = p1
  s1 = s1
  PhysReg = {p1}
  Inum = {s1}
  Branch = {b1, b2}
  NoBranch = NoBranch
  Insns <- MCInsns
INVARIANTS
  ListsExact
PROPERTIES
  OldestIssues
  NoneLeftBehind
  ImplementsLine
VIEW LiveState
CHECK_DEADLOCK TRUE
