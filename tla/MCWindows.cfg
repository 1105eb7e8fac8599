CONSTANTS
  VpqSize = 2
  SvpNumEntries = 1
  SvpNumTags = 2
  SvpConfMax = 0
  WordSize = 1
  PCs <- AliasedPCs
  NumCheckpoints = 2
  DispatchWidth = 2
  p1 = p1
  NoBranch = NoBranch
SPECIFICATION MCSpec
PROPERTIES
  ImplementsWindow
  RepairEnds
  ReadyIssues
  StalledLoadsEnd
