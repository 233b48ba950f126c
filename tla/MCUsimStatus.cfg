SPECIFICATION Spec
CONSTANTS
  Bits = 8
  Boots <- MCBoots
  SectorSize = 2
INVARIANTS
  StatusReported
CHECK_DEADLOCK FALSE
