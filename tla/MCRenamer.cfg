CONSTANTS
  NumLogRegs = 2
  NumPhysRegs = 4
  NumBranches = 2
  NumActive = 2
  DispatchWidth = 2
  Insns <- AllKinds
SPECIFICATION Spec
VIEW LiveState
INVARIANTS
  RegistersExact
  MapsAndMasksExact
PROPERTIES
  ReadersSafe
  ImplementsInOrder
