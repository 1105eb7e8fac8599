SPECIFICATION Spec
CONSTANTS
  Reg = {1, 2}
  Word = 2
  Handler = 1
  Programs <- Loops
  Phys = {1, 2, 3, 4}
  RobSize = 3
  IqSize = 2
  Width = 2
  Depth <- Depths
PROPERTIES
  ImplementsIsa
  KeepsRetiring
