SPECIFICATION MCSpec
CONSTANTS
  LqSize = 2
  SqSize = 2
  NumActive = 3
  MaxBranches = 0
  Byte = {0, 1}
  Val = {0, 1}
  Zero = 0
  Size = {1, 2}
  Fault = {}
  AmoKinds = {FALSE}
  SpecDisambig = TRUE
INVARIANTS
  QueuesInOrder
  ViolationsCaught
PROPERTIES
  LoadsInOrder
VIEW LiveState
CHECK_DEADLOCK TRUE
