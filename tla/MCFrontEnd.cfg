SPECIFICATION Spec
CONSTANTS
  NXPR = 2
  SPLIT_STORES = TRUE
  PaySize = 32
  Kind = {"branch", "store", "amo", "load", "fault"}
  Mixes <- Classes
  Code <- KindCode
  Faults = {"fault"}
  FetchWidth = 2
  DispatchWidth = 2
  FqSize = 5
  RobSize = 2
  Checkpoints = 2
  Registers = 2
  VpqSize = 2
  Recovery1 = TRUE
INVARIANTS
  PayloadExact
PROPERTIES
  FrontEndMoves
