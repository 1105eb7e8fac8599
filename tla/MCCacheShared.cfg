SPECIFICATION Spec
CHECK_DEADLOCK FALSE
CONSTANTS
  Lines = {1, 2, 3}
  Ways <- MCWays
  numMHSR <- MCMHSRFew
  numMissSrvPorts <- MCOne
  hitLatency <- MCOne
  missSrvLatency <- MCOne
  missLatency = 2
  CycleBits = 6
  MaxCycle = 5
INVARIANTS
  NextLevelAccepts
