CONSTANTS
  VpqSize = 4
  SvpNumEntries = 1
  SvpNumTags = 4
  SvpConfMax = 1
  WordSize = 1
  PCs = {4096}
  NumCheckpoints = 1
  DispatchWidth = 2
SPECIFICATION Spec
INVARIANT InstanceFitsStorage
