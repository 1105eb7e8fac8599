CONSTANTS
  BqSize = 3
  WindowSize = 3
  FetchWidth = 2
  CondPerCycle = 2
  BhrLen = 2
  RasSize = 2
  RetAddr = {1, 2}
  Programs <- MCPrograms
  Recovery = "content"
SPECIFICATION Spec
VIEW LiveState
PROPERTIES
  FlushRestores
