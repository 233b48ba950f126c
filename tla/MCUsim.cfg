SPECIFICATION Spec
CONSTANTS
  Bits = 8
  Boots <- MCBoots
  SectorSize = 2
INVARIANTS
  InterruptsUnseen
  ArithmeticAgrees
  SectorsMoved
CHECK_DEADLOCK FALSE
