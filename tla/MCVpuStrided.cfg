CONSTANTS
  VpqSize = 3
  SvpNumEntries = 1
  SvpNumTags = 4
  SvpConfMax = 1
  WordSize = 4
  PCs <- AliasedPCs
  Stride <- Strides
  Base = {3}
  NumCheckpoints = 2
  DispatchWidth = 2
SPECIFICATION StridedSpec
INVARIANTS
  TypeOK
  InstanceExact
  CheckpointsInWindow
  BranchesOrdered
  BundleFits
  ConfidentRight
PROPERTIES
  EntriesStable
VIEW LiveState
